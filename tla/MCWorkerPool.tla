---------------------------- MODULE MCWorkerPool ----------------------------
(***************************************************************************)
(* Small instances of WorkerPool: requests r1 and r2 of key a, r3 and the  *)
(* prewarm p1 of key b, and r4 of key c, so that leases of one key overlap *)
(* or are prewarmed, keys compete for slots, and more arrive than fit.     *)
(***************************************************************************)
EXTENDS WorkerPool, TLC

CONSTANTS r1, r2, r3, r4, p1, a, b, c

\* Five calls over three keys, for a pool of two workers.
Requests5 == {r1, r2, r3, r4, p1}
Keys3 == {a, b, c}
KeyOf5 == r1 :> a @@ r2 :> a @@ r3 :> b @@ r4 :> c @@ p1 :> b

\* Four calls over two keys, for a pool of one worker.
Requests4 == {r1, r2, r3, p1}
Keys2 == {a, b}
KeyOf4 == r1 :> a @@ r2 :> a @@ r3 :> b @@ p1 :> b

Prewarm1 == {p1}

=============================================================================
