--------------------------- MODULE MCTurnRunner ----------------------------
(***************************************************************************)
(* Two calls: both on one session or both from the pool; and single ones   *)
(* that may fall back, run a oneshot or check the health.  The turn of c1  *)
(* may time out before its turn/start does.                                *)
(***************************************************************************)
EXTENDS TurnRunner

CONSTANTS c1, c2

MCScenarios ==
  {[c \in Calls |-> IF c = c1 THEN k[1] ELSE k[2]] :
     k \in {<<"sticky", "sticky">>, <<"pool", "pool">>, <<"collected", "absent">>,
           <<"oneshot", "absent">>, <<"health", "absent">>}}

=============================================================================
