---------------------------- MODULE MCHttpBridge ----------------------------
(***************************************************************************)
(* A small instance of HttpBridge: requests share nothing but the count of *)
(* slots and its limit, so one of either shape shows every interference.   *)
(***************************************************************************)
EXTENDS HttpBridge

CONSTANTS s1, j1

=============================================================================
