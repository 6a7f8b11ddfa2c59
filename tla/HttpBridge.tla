----------------------------- MODULE HttpBridge -----------------------------
(***************************************************************************)
(* The HTTP web bridge (web/http-bridge.ts) and the Python worker that     *)
(* each request owns (web/http-process.ts).                                *)
(*                                                                         *)
(* A streamed answer is drawn by its consumer: between two pulls nothing   *)
(* of the handler runs.  The worker's generator starts with the first      *)
(* pull, and whatever ends it, its finally block stops the process and     *)
(* waits for its exit before the handler learns of the end.                *)
(***************************************************************************)
EXTENDS Naturals, FiniteSets

CONSTANTS
  Requests,
  Streamed,    \* the requests with stream: true
  Limits       \* the values of web_concurrency in routing.json

ASSUME LimitsAssumption == Limits \subseteq 1 .. 5
ASSUME StreamedAssumption == Streamed \subseteq Requests

VARIABLES
  limit,       \* what httpConcurrency() reads
  active,      \* the count of worker slots taken
  pc,          \* where each request is
  outcome,     \* how the worker's generator ended, once it is being closed
  child,       \* the request's worker process
  signal,      \* the request's abort signal, but for its own cleanup
  cancelled,   \* the consumer has cancelled the stream
  got          \* what was sent of the answer

vars == <<limit, active, pc, outcome, child, signal, cancelled, got>>

\* The slot is held from active++ to the end of cleanup.
Holding == {r \in Requests : pc[r] \in {"idle", "awaiting", "closing"}}

TypeOK ==
  /\ limit \in Limits
  /\ active \in Nat
  /\ pc \in [Requests -> {"new", "reading", "idle", "awaiting", "closing", "ended"}]
  /\ outcome \in [Requests -> {"open", "done", "failed"}]
  /\ child \in [Requests -> {"none", "live", "stopping", "exited", "killed"}]
  /\ signal \subseteq Requests
  /\ cancelled \subseteq Streamed
  /\ got \in [Requests -> {"nothing", "part", "completed", "failed", "refused"}]

-----------------------------------------------------------------------------
(***************************************************************************)
(* Admission.                                                              *)
(***************************************************************************)
Room == active < limit

Refuse(r) ==
  /\ pc[r] \in {"new", "reading"}
  /\ pc' = [pc EXCEPT ![r] = "ended"]
  /\ got' = [got EXCEPT ![r] = "refused"]
  /\ UNCHANGED <<limit, active, outcome, child, signal, cancelled>>

\* There is room and a login; the body is awaited.
Check(r) ==
  /\ pc[r] = "new" /\ Room
  /\ pc' = [pc EXCEPT ![r] = "reading"]
  /\ UNCHANGED <<limit, active, outcome, child, signal, cancelled, got>>

\* The worker of an unstarted generator, unless the signal has been aborted.
Spawn(r) == child' = [child EXCEPT ![r] = IF r \in signal THEN "none" ELSE "live"]

\* The body has arrived and there still is room.
Accept(r) ==
  /\ pc[r] = "reading" /\ Room
  /\ active' = active + 1
  /\ IF r \in Streamed
     THEN pc' = [pc EXCEPT ![r] = "idle"] /\ UNCHANGED child
     ELSE pc' = [pc EXCEPT ![r] = "awaiting"] /\ Spawn(r)
  /\ UNCHANGED <<limit, outcome, signal, cancelled, got>>

-----------------------------------------------------------------------------
(***************************************************************************)
(* The answer.                                                             *)
(***************************************************************************)
Stopped(c) == IF c = "live" THEN "stopping" ELSE c

\* The generator is made to end, or has: its worker is stopped and waited for.
Close(r, how) ==
  /\ pc' = [pc EXCEPT ![r] = "closing"]
  /\ outcome' = [outcome EXCEPT ![r] = how]
  /\ child' = [child EXCEPT ![r] = Stopped(@)]
  /\ UNCHANGED active

Pull(r) ==
  /\ pc[r] = "idle"
  /\ pc' = [pc EXCEPT ![r] = "awaiting"]
  /\ IF child[r] = "none" THEN Spawn(r) ELSE UNCHANGED child
  /\ UNCHANGED <<limit, active, outcome, signal, cancelled, got>>

\* A line of the worker is read, be it after the process exited, unless it was stopped.
Sends(r) == child[r] \in {"live", "exited"} /\ r \notin signal

\* A delta, sent on, or collected for an answer that is not streamed.
Delta(r) ==
  /\ pc[r] = "awaiting" /\ Sends(r)
  /\ IF r \in Streamed
     THEN pc' = [pc EXCEPT ![r] = "idle"] /\ got' = [got EXCEPT ![r] = "part"]
     ELSE UNCHANGED <<pc, got>>
  /\ UNCHANGED <<limit, active, outcome, child, signal, cancelled>>

\* The worker's last event.
Done(r) ==
  /\ pc[r] = "awaiting" /\ Sends(r)
  /\ Close(r, "done")
  /\ UNCHANGED <<limit, signal, cancelled, got>>

\* The worker's error, an invalid line, the end of its output, or an aborted signal.
Fails(r) ==
  /\ pc[r] = "awaiting"
  /\ Close(r, "failed")
  /\ UNCHANGED <<limit, signal, cancelled, got>>

\* The process exits, by itself or because it was told to.
ChildExits(r) ==
  /\ child[r] \in {"live", "stopping"}
  /\ child' = [child EXCEPT ![r] = IF @ = "stopping" THEN "killed" ELSE "exited"]
  /\ UNCHANGED <<limit, active, pc, outcome, signal, cancelled, got>>

\* Fault: the timer is not armed.
Timeout_Unarmed(r) == FALSE /\ UNCHANGED vars

\* The worker's timeout, 115 seconds after its start.
Timeout(r) ==
  /\ child[r] = "live"
  /\ child' = [child EXCEPT ![r] = "stopping"]
  /\ UNCHANGED <<limit, active, pc, outcome, signal, cancelled, got>>

Gone(r) == child[r] \in {"none", "exited", "killed"}
Final(r) == IF outcome[r] = "done" THEN "completed" ELSE "failed"

\* Fault: a cancelled stream is told of its end too.
Free_Tells(r) ==
  /\ pc[r] = "closing" /\ Gone(r)
  /\ pc' = [pc EXCEPT ![r] = "ended"]
  /\ active' = active - 1
  /\ got' = [got EXCEPT ![r] = Final(r)]
  /\ UNCHANGED <<limit, outcome, child, signal, cancelled>>

\* cleanup() is over: the slot is free, and the end of the answer is sent, unless the
\* stream was cancelled or, for a failure, the caller has gone.
Free(r) ==
  /\ pc[r] = "closing" /\ Gone(r)
  /\ pc' = [pc EXCEPT ![r] = "ended"]
  /\ active' = active - 1
  /\ got' = [got EXCEPT ![r] =
       IF r \in cancelled \/ (outcome[r] = "failed" /\ r \in signal) THEN @ ELSE Final(r)]
  /\ UNCHANGED <<limit, outcome, child, signal, cancelled>>

\* The request's signal, or that of the shutdown, is aborted.
AbortAll(rs) ==
  /\ signal' = signal \cup rs
  /\ child' = [r \in Requests |-> IF r \in rs THEN Stopped(child[r]) ELSE child[r]]
  /\ UNCHANGED <<limit, active, pc, outcome, cancelled, got>>

Disconnect(r) == r \in Holding \ signal /\ AbortAll({r})
Shutdown == signal # Requests /\ AbortAll(Requests)

\* Fault: each call of cleanup frees the slot.
Cancel_Frees(r) ==
  /\ r \in Streamed \ cancelled /\ r \in Holding
  /\ cancelled' = cancelled \cup {r}
  /\ IF pc[r] = "closing"
     THEN active' = active - 1 /\ UNCHANGED <<pc, outcome, child>>
     ELSE Close(r, "failed")
  /\ UNCHANGED <<limit, signal, got>>

\* cancel() of the stream: cleanup runs once, whoever called it first.
Cancel(r) ==
  /\ r \in Streamed \ cancelled /\ r \in Holding
  /\ cancelled' = cancelled \cup {r}
  /\ IF pc[r] = "closing"
     THEN UNCHANGED <<active, pc, outcome, child>>
     ELSE Close(r, "failed")
  /\ UNCHANGED <<limit, signal, got>>

PutLimit(n) ==
  /\ limit' = n
  /\ UNCHANGED <<active, pc, outcome, child, signal, cancelled, got>>

-----------------------------------------------------------------------------
Init ==
  /\ limit \in Limits
  /\ active = 0
  /\ pc = [r \in Requests |-> "new"]
  /\ outcome = [r \in Requests |-> "open"]
  /\ child = [r \in Requests |-> "none"]
  /\ signal = {}
  /\ cancelled = {}
  /\ got = [r \in Requests |-> "nothing"]

Next ==
  \/ \E r \in Requests :
       \/ Refuse(r) \/ Check(r) \/ Accept(r) \/ Pull(r) \/ Delta(r) \/ Done(r) \/ Fails(r)
       \/ ChildExits(r) \/ Timeout(r) \/ Free(r) \/ Disconnect(r) \/ Cancel(r)
  \/ Shutdown
  \/ \E n \in Limits : PutLimit(n)

Spec == Init /\ [][Next]_vars

\* The gateway draws the answer or cancels it.  A worker's timer fires, a worker that
\* is told to stop is killed 1.5 seconds later, and a worker that has stopped sends
\* nothing more.
Fairness ==
  \A r \in Requests :
    /\ WF_vars(Pull(r)) /\ WF_vars(Free(r))
    /\ WF_vars(child[r] = "stopping" /\ ChildExits(r)) /\ WF_vars(Timeout(r))
    /\ SF_vars(Gone(r) /\ Fails(r))

FairSpec == Spec /\ Fairness

-----------------------------------------------------------------------------
(***************************************************************************)
(* Properties.                                                             *)
(***************************************************************************)
\* cleanup runs once per request, whichever of the end, an error and a cancelled
\* stream calls it first: active counts the slots that are held.
ActiveExact == active = Cardinality(Holding)

\* Each worker process runs on its request's slot: none outlives it, so there are
\* never more of them than slots taken.
ChildHasSlot == \A r \in Requests : ~Gone(r) => r \in Holding

\* Slots are counted exactly, and no worker runs without one.
SlotsExact == ActiveExact /\ ChildHasSlot

\* http-bridge.ts:101: a client that has been told of its answer's end does not find
\* its own slot taken when it submits its next turn.
FreedBeforeTold == \A r \in Requests : got[r] \in {"completed", "failed"} => r \notin Holding

\* Nothing is sent on a stream that its consumer has cancelled.
QuietAfterCancel == [][\A r \in cancelled : got'[r] = got[r]]_vars

\* The end is told after the slot is free, and to a caller that still listens.
ToldInOrder == []FreedBeforeTold /\ QuietAfterCancel

\* Every slot is freed in the end.
SlotsFreed == \A r \in Requests : r \in Holding ~> r \notin Holding

=============================================================================
