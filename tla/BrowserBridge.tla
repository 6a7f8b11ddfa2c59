--------------------------- MODULE BrowserBridge ----------------------------
(***************************************************************************)
(* The browser-only web bridge (web/bridge.ts): POST /v1/responses with    *)
(* its single busy flag, and the login routes, which drive ManualLogin.    *)
(*                                                                         *)
(* A handler runs to its next await as one action.  A turn and the closing *)
(* of the browser workers are code outside the repository; they are seen   *)
(* from here as awaits that end.                                           *)
(***************************************************************************)
EXTENDS ManualLogin, FiniteSets

CONSTANT
  Requests,    \* calls of POST /v1/responses
  Calls        \* calls of POST /login/start

VARIABLES
  busy,        \* the flag
  pc,          \* where each inference request is
  call         \* where each login/start call is

bridge == <<busy, pc, call>>
vars == <<login, bridge>>

TypeOK ==
  /\ LoginTypeOK
  /\ busy \in BOOLEAN
  /\ pc \in [Requests -> {"new", "reading", "turn", "cleaning", "ended"}]
  /\ call \in [Calls -> {"new", "closing", "ended"}]

-----------------------------------------------------------------------------
(***************************************************************************)
(* POST /v1/responses.                                                     *)
(***************************************************************************)
\* No saved login, or the bridge is busy or signing in: refused.
Refuse(r) ==
  /\ pc[r] = "new"
  /\ pc' = [pc EXCEPT ![r] = "ended"]
  /\ UNCHANGED <<login, busy, call>>

\* The checks pass and the body is awaited.
Check(r) ==
  /\ pc[r] = "new"
  /\ ~busy /\ ~active
  /\ pc' = [pc EXCEPT ![r] = "reading"]
  /\ UNCHANGED <<login, busy, call>>

\* The body has arrived, whole, and is one the web can take.
Accept(r) ==
  /\ pc[r] = "reading"
  /\ pc' = [pc EXCEPT ![r] = "turn"]
  /\ busy' = TRUE
  /\ UNCHANGED <<login, call>>

RejectBody(r) ==
  /\ pc[r] = "reading"
  /\ pc' = [pc EXCEPT ![r] = "ended"]
  /\ UNCHANGED <<login, busy, call>>

\* The answer is complete, the turn has failed or the caller has cancelled the stream:
\* finish() is called, which cleans up once.
TurnEnds(r) ==
  /\ pc[r] = "turn"
  /\ pc' = [pc EXCEPT ![r] = "cleaning"]
  /\ UNCHANGED <<login, busy, call>>

\* The browser workers are closed, or closing them failed.
Cleaned(r) ==
  /\ pc[r] = "cleaning"
  /\ pc' = [pc EXCEPT ![r] = "ended"]
  /\ busy' = FALSE
  /\ UNCHANGED <<login, call>>

-----------------------------------------------------------------------------
(***************************************************************************)
(* The login routes.                                                       *)
(***************************************************************************)
\* login.start() of a call whose await, if any, is over.
LoginStarts ==
  IF active THEN UNCHANGED login ELSE \E a \in Ids : Start(a)

RefuseStart(c) ==
  /\ call[c] = "new" /\ busy
  /\ call' = [call EXCEPT ![c] = "ended"]
  /\ UNCHANGED <<login, busy, pc>>

\* /login/start: the browser workers are closed before the window opens.
CloseWorkers(c) ==
  /\ call[c] = "new" /\ ~busy /\ ~active
  /\ call' = [call EXCEPT ![c] = "closing"]
  /\ UNCHANGED <<login, busy, pc>>

AlreadyActive(c) ==
  /\ call[c] = "new" /\ ~busy /\ active
  /\ call' = [call EXCEPT ![c] = "ended"]
  /\ UNCHANGED <<login, busy, pc>>

OpenWindow(c) ==
  /\ call[c] = "closing"
  /\ LoginStarts
  /\ call' = [call EXCEPT ![c] = "ended"]
  /\ UNCHANGED <<busy, pc>>

\* Closing the workers failed.
CloseFails(c) ==
  /\ call[c] = "closing"
  /\ call' = [call EXCEPT ![c] = "ended"]
  /\ UNCHANGED <<login, busy, pc>>

-----------------------------------------------------------------------------
Init ==
  /\ LoginInit
  /\ busy = FALSE
  /\ pc = [r \in Requests |-> "new"]
  /\ call = [c \in Calls |-> "new"]

Infer(r) ==
  Refuse(r) \/ Check(r) \/ Accept(r) \/ RejectBody(r) \/ TurnEnds(r) \/ Cleaned(r)
StartLogin(c) ==
  RefuseStart(c) \/ CloseWorkers(c) \/ AlreadyActive(c) \/ OpenWindow(c) \/ CloseFails(c)

Next ==
  \/ \E r \in Requests : Infer(r)
  \/ \E c \in Calls : StartLogin(c)
  \/ LoginGoesOn /\ UNCHANGED bridge

Spec == Init /\ [][Next]_vars

\* The web timeout of the gateway cancels a turn that does not end, and closing the
\* workers ends one way or the other.
Fairness ==
  /\ LoginFairness
  /\ \A r \in Requests : WF_vars(TurnEnds(r)) /\ WF_vars(Cleaned(r))
FairSpec == Spec /\ Fairness

-----------------------------------------------------------------------------
(***************************************************************************)
(* Properties.  Those of ManualLogin are checked here, of logins that any  *)
(* overlapping calls of the routes begin, finish and stop.                 *)
(***************************************************************************)
\* Whatever turns and their cleaning overlap, the flag does not stay set: the bridge
\* always becomes free again (bridge.ts:71-74, 108).
BusyClears == busy ~> ~busy

\* Neither a login nor a turn keeps the web from the others for ever.
BridgeFreed == LoginEnds /\ BusyClears

(***************************************************************************)
(* What the documentation says and the code does not do.                   *)
(***************************************************************************)
\* bridge.ts:1 and 130: one browser task at a time.  Between the check of the flag
\* and its being set, the body is awaited (bridge.ts:99-106).
SingleTask == Cardinality({r \in Requests : pc[r] \in {"turn", "cleaning"}}) <= 1

=============================================================================
