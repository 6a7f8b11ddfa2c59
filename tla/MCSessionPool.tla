--------------------------- MODULE MCSessionPool ----------------------------
(***************************************************************************)
(* Small instances of SessionPool.                                         *)
(***************************************************************************)
EXTENDS SessionPool, TLC

CONSTANTS r1, r2, r3, k1, k2, h1

Three == {r1, r2, r3}
TwoKeys == {k1, k2}

\* Two requests share a key; the third has the same session with other options.
SharedKeyOf == r1 :> k1 @@ r2 :> k1 @@ r3 :> k2
OneSession == [k \in Keys |-> h1]

=============================================================================
