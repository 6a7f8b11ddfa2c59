----------------------------- MODULE TurnRunner -----------------------------
(***************************************************************************)
(* How the routes run a turn on an app-server (routes.ts, from runTurn to  *)
(* withAbort, and the deep health check), composed with the driver of the  *)
(* processes (AppServer).                                                  *)
(*                                                                         *)
(* Of the two pools only what these callers see is here; SessionPool and   *)
(* WorkerPool have the rest.  Sticky calls share process 1 and its thread. *)
(* A pool call takes a worker given back before, or starts one, or waits   *)
(* while others hold leases.                                               *)
(***************************************************************************)
EXTENDS AppServer

CONSTANTS
  Scenarios    \* the kinds of runs the calls ask for, as functions of the call

\* A call of kind "collected" runs on the pool and streams nothing: it may fall back.
Kinds == {"sticky", "pool", "collected", "oneshot", "health", "absent"}
ASSUME ScenariosAssumption == Scenarios \subseteq [Calls -> Kinds]

VARIABLES
  call,        \* each call of a route
  idle         \* the workers given back to the pool

vars == <<worker, op, chunk, down, call, idle>>

CallStates ==
  [kind : Kinds,
   pc : {"new", "acquiring", "starting", "turning", "ended"},
   gone : BOOLEAN,        \* the signal is aborted
   abandoned : BOOLEAN,   \* withAbort has returned without listening to the operation
   end : {"none", "ok", "error", "closed"}]

TypeOK ==
  /\ worker \in [Procs -> Workers]
  /\ op \in [Calls -> Operations]
  /\ chunk \in {0} \cup Procs
  /\ down \in {"no", "rejection", "pipe"}
  /\ call \in [Calls -> CallStates]
  /\ idle \subseteq Procs
  /\ \A c \in Calls : op[c].heard => op[c].promise # "none"

-----------------------------------------------------------------------------
(***************************************************************************)
(* Processes and their owners.                                             *)
(***************************************************************************)
Sticky(c) == call[c].kind = "sticky"
On(c) == op[c].on
Pooled(c) == call[c].kind \in {"pool", "collected"}
Leases == {c \in Calls : Pooled(c) /\ call[c].pc \in {"starting", "turning"}}

Unused == {p \in Procs : worker[p].os = "none"}
Fresh == CHOOSE p \in Unused : TRUE

\* c's operation is put on process p: of one that it had before, and retries, only a
\* forsaken promise is left.
PutOn(o, c, p) == [o EXCEPT ![c] = [NoOp EXCEPT !.on = p, !.forsaken = o[c].forsaken]]

\* A new process is spawned for c and asked to initialize.
Launch(c, w, o) ==
  LET p == Fresh
      w1 == Spawned(w, p)
  IN  /\ Unused # {}
      /\ worker' = w1
      /\ op' = Ask(w1, PutOn(o, c, p), c, "initialize")

Sets(c, r) == call' = [call EXCEPT ![c] = r]

-----------------------------------------------------------------------------
(***************************************************************************)
(* The ways an operation and a call end.  w and o are the processes and    *)
(* operations as the step has left them so far.                            *)
(***************************************************************************)
\* An error has a kind, and its message with the tail of stderr may name an account
\* problem, or else a transport fault.  Any of them may be what a call fails with.
Errors == [kind : {"spawn", "timeout", "protocol", "codex"}, says : {"account", "transport", "other"}]

\* isPoolTransportFault.
TransportFault(e) ==
  /\ e.says # "account"
  /\ e.kind \in {"spawn", "timeout", "protocol"} \/ (e.kind = "codex" /\ e.says = "transport")

\* Fault: the operation is forgotten and its listener is not.
Over_Heard(o, c) ==
  [o EXCEPT ![c] = [@ EXCEPT !.rpc = "none", !.asked = FALSE, !.reply = "none",
                             !.promise = "none", !.text = {}]]

\* Nothing of a settled operation is read again but its thread and its remote turn, and
\* a promise that is forsaken.
Over(o, c) == [o EXCEPT ![c] = [@ EXCEPT !.rpc = "none", !.asked = FALSE, !.reply = "none",
                                         !.promise = "none", !.heard = FALSE, !.text = {}]]

\* Fault: a session's worker goes on after a turn that failed.
Discarded_NotSticky(c, w) == IF Sticky(c) THEN w ELSE Kill(w, On(c))

\* The worker of a failed call is killed: by the session pool's discard, by release
\* or by the finally block of a oneshot.
Discarded(c, w) == Kill(w, On(c))

\* A call fails: a fault of the pool's worker is retried once on a process of its own.
Fails(c, w, o) ==
  /\ \E e \in Errors :
       IF call[c].kind = "collected" /\ TransportFault(e)
       THEN /\ Launch(c, Discarded(c, w), o)
            /\ Sets(c, [call[c] EXCEPT !.kind = "oneshot", !.pc = "starting"])
       ELSE /\ worker' = Discarded(c, w)
            /\ op' = Over(o, c)
            /\ Sets(c, [call[c] EXCEPT !.pc = "ended", !.end = "error"])
  /\ UNCHANGED idle

\* Fault: nobody listens to the operation of a call that was aborted.
OpRejects_Unheard(c, w, o) ==
  \/ call[c].pc = "turning" /\ Fails(c, w, o)
  \/ /\ call[c].pc = "ended"
     /\ worker' = Discarded(c, w)
     /\ op' = [Over(o, c) EXCEPT ![c].promise = "rejected"]
     /\ UNCHANGED <<call, idle>>

\* The operation rejects: to its call, to the listener of a call that was aborted, or,
\* when withAbort never attached one, to nobody.
OpRejects(c, w, o) ==
  \/ call[c].pc = "turning" /\ Fails(c, w, o)
  \/ /\ call[c].pc = "ended"
     /\ worker' = Discarded(c, w)
     /\ op' = IF call[c].abandoned
              THEN [Over(o, c) EXCEPT ![c].promise = "rejected"]
              ELSE Over(o, c)
     /\ UNCHANGED <<call, idle>>

\* A turn succeeds: a oneshot's process is killed, a lease is released.
Succeeds(c, o) ==
  /\ call[c].pc = "turning"
  /\ op' = Over(o, c)
  /\ Sets(c, [call[c] EXCEPT !.pc = "ended", !.end = "ok"])
  /\ idle' = IF Pooled(c) /\ ~worker[On(c)].dead THEN idle \cup {On(c)} ELSE idle
  /\ worker' = IF call[c].kind \in {"oneshot", "health"} THEN Kill(worker, On(c)) ELSE worker

-----------------------------------------------------------------------------
(***************************************************************************)
(* The operation of a call that has its process: submitTurn and withAbort. *)
(***************************************************************************)
\* Fault: an aborted operation is not told to stop.
WithAbort_Spares(c, w, o) ==
  /\ op' = o /\ worker' = w
  /\ IF call[c].gone
     THEN Sets(c, [call[c] EXCEPT !.pc = "ended", !.end = "closed", !.abandoned = TRUE])
     ELSE Sets(c, [call[c] EXCEPT !.pc = "turning"])

\* withAbort on an operation that has just been started, from processes w and operations o.
WithAbort(c, w, o) ==
  /\ op' = o
  /\ IF call[c].gone
     THEN /\ worker' = Kill(w, o[c].on)
          /\ Sets(c, [call[c] EXCEPT !.pc = "ended", !.end = "closed", !.abandoned = TRUE])
     ELSE /\ worker' = w
          /\ Sets(c, [call[c] EXCEPT !.pc = "turning"])

\* submitTurn: thread/start is asked, or the operation is rejected at once.
Operate(c, o) ==
  LET p == o[c].on IN
  IF worker[p].dead
  THEN IF call[c].gone
       THEN WithAbort(c, worker, [Over(o, c) EXCEPT ![c].promise = "rejected"]) /\ UNCHANGED <<down, idle>>
       ELSE Fails(c, worker, o) /\ UNCHANGED down
  ELSE /\ WithAbort(c, worker, Ask(worker, o, c, "thread/start"))
       /\ WriteTo(worker, p)
       /\ UNCHANGED idle

\* submitTurnOnThread on the session's process and thread.
BeginSticky(c) ==
  /\ Idle /\ call[c].pc = "new" /\ Sticky(c)
  /\ LET o == PutOn(op, c, 1) IN
     IF worker[1].dead
     THEN Fails(c, worker, o) /\ UNCHANGED down
     ELSE /\ WithAbort(c, TurnWorker(worker, 1, c), TurnOp(worker, o, c, "sticky"))
          /\ WriteTo(worker, 1)
          /\ UNCHANGED idle
  /\ UNCHANGED chunk

BeginOneshot(c) ==
  /\ Idle /\ call[c].pc = "new" /\ call[c].kind \in {"oneshot", "health"}
  /\ Launch(c, worker, op)
  /\ Sets(c, [call[c] EXCEPT !.pc = "starting"])
  /\ UNCHANGED <<chunk, down, idle>>

WarmWorkers == {p \in idle : ~worker[p].dead}

Cold(c) ==
  /\ WarmWorkers = {}
  /\ Launch(c, worker, op)
  /\ Sets(c, [call[c] EXCEPT !.pc = "starting"])
  /\ UNCHANGED <<down, idle>>

\* The awaits between the lease and the operation end at once.
Warm(c, p) ==
  /\ LET o == PutOn(op, c, p) IN
       /\ WithAbort(c, worker, Ask(worker, o, c, "thread/start"))
       /\ WriteTo(worker, p)
  /\ idle' = idle \ {p}

Acquire(c) == Cold(c) \/ \E p \in WarmWorkers : Warm(c, p)

BeginPool(c) ==
  /\ Idle /\ call[c].pc = "new" /\ Pooled(c)
  /\ Acquire(c)
  /\ UNCHANGED chunk

\* Calls wait for capacity while others hold leases, and are woken at a release.
WaitForCapacity(c) ==
  /\ Idle /\ call[c].pc = "new" /\ Pooled(c)
  /\ Leases # {} /\ WarmWorkers = {}
  /\ Sets(c, [call[c] EXCEPT !.pc = "acquiring"])
  /\ UNCHANGED <<worker, op, chunk, down, idle>>

Woken(c) ==
  /\ Microtasks /\ call[c].pc = "acquiring"
  /\ Acquire(c)
  /\ UNCHANGED chunk

-----------------------------------------------------------------------------
(***************************************************************************)
(* The continuations of awaits.                                            *)
(***************************************************************************)
Resumes(c, m, how) == Microtasks /\ op[c].rpc = m /\ op[c].reply = how
Taken(c) == [op EXCEPT ![c].rpc = "none", ![c].asked = FALSE, ![c].reply = "none"]

StartFails(c) ==
  /\ Resumes(c, "initialize", "error")
  /\ Fails(c, worker, Taken(c))
  /\ UNCHANGED <<chunk, down>>

Started(c) ==
  /\ Resumes(c, "initialize", "ok")
  /\ Operate(c, Taken(c))
  /\ UNCHANGED chunk

ThreadFails(c) ==
  /\ Resumes(c, "thread/start", "error")
  /\ OpRejects(c, worker, Taken(c))
  /\ UNCHANGED <<chunk, down>>

ThreadStarted(c) ==
  /\ Resumes(c, "thread/start", "ok")
  /\ IF worker[On(c)].dead
     THEN OpRejects(c, worker, Taken(c)) /\ UNCHANGED down
     ELSE /\ op' = TurnOp(worker, op, c, c)
          /\ worker' = TurnWorker(worker, On(c), c)
          /\ WriteTo(worker, On(c))
          /\ UNCHANGED <<call, idle>>
  /\ UNCHANGED chunk

\* The turn's own promise may have been rejected before, with nobody listening to it.
TurnRefused(c) ==
  /\ Resumes(c, "turn/start", "error")
  /\ OpRejects(c, CatchWorker(worker, op, c), CatchOp(Taken(c), c))
  /\ UNCHANGED <<chunk, down>>

\* Fault: the answer to turn/start stops the turn's timer.
TurnAccepted_Untimed(c) ==
  /\ Resumes(c, "turn/start", "ok")
  /\ op' = [Taken(c) EXCEPT ![c].heard = TRUE, ![c].timer = FALSE]
  /\ UNCHANGED <<worker, chunk, down, call, idle>>

TurnAccepted(c) ==
  /\ Resumes(c, "turn/start", "ok")
  /\ op' = [Taken(c) EXCEPT ![c].heard = TRUE]
  /\ UNCHANGED <<worker, chunk, down, call, idle>>

\* The turn's promise has settled: its files are removed and the operation settles.
TurnSettles(c) ==
  /\ Microtasks /\ ~Settled(c) /\ TurnOver(c)
  /\ LET o == [op EXCEPT ![c].temp = FALSE] IN
     IF op[c].promise = "rejected"
     THEN OpRejects(c, worker, o)
     ELSE \/ Succeeds(c, o)
          \/ call[c].pc = "ended" /\ op' = Over(o, c) /\ UNCHANGED <<worker, call, idle>>
  /\ UNCHANGED <<chunk, down>>

-----------------------------------------------------------------------------
(***************************************************************************)
(* The caller leaves, and the pool's clock.                                *)
(***************************************************************************)
\* The abort event reaches withAbort; while a worker is acquired or started nobody
\* listens to the signal.
Disconnect(c) ==
  /\ Idle /\ call[c].pc \in {"acquiring", "starting", "turning"}
  /\ call[c].kind # "health" /\ ~call[c].gone
  /\ IF call[c].pc = "turning"
     THEN /\ Sets(c, [call[c] EXCEPT !.gone = TRUE, !.pc = "ended", !.end = "closed"])
          /\ worker' = Kill(worker, On(c))
     ELSE Sets(c, [call[c] EXCEPT !.gone = TRUE]) /\ UNCHANGED worker
  /\ UNCHANGED <<op, chunk, down, idle>>

Evict(p) ==
  /\ Idle /\ p \in idle
  /\ idle' = idle \ {p}
  /\ worker' = Kill(worker, p)
  /\ UNCHANGED <<op, chunk, down, call>>

-----------------------------------------------------------------------------
Init ==
  /\ \E kind \in Scenarios :
       call = [c \in Calls |-> [kind |-> kind[c], pc |-> IF kind[c] = "absent" THEN "ended" ELSE "new",
                                gone |-> FALSE, abandoned |-> FALSE, end |-> "none"]]
  /\ worker = [p \in Procs |->
                 [os |-> IF p = 1 /\ \E c \in Calls : Sticky(c) THEN "up" ELSE "none",
                  dead |-> FALSE, handlers |-> EmptyList]]
  /\ op = [c \in Calls |-> NoOp]
  /\ chunk = 0 /\ down = "no" /\ idle = {}

Continue(c) ==
  StartFails(c) \/ Started(c) \/ ThreadFails(c) \/ ThreadStarted(c)
    \/ TurnRefused(c) \/ TurnAccepted(c) \/ TurnSettles(c)
Begin(c) == BeginSticky(c) \/ BeginOneshot(c) \/ BeginPool(c) \/ WaitForCapacity(c)
Driver == ProcessEvent /\ UNCHANGED <<call, idle>>

Next ==
  \/ Driver
  \/ \E c \in Calls : Begin(c) \/ Woken(c) \/ Continue(c) \/ Disconnect(c)
  \/ \E p \in Procs : Evict(p)

\* What runs before the loop goes on.
Microstep ==
  \/ (EndChunk \/ Unhandled) /\ UNCHANGED <<call, idle>>
  \/ \E c \in Calls : Continue(c)

\* What is due: timers, exits, the end of a process that was told to end, by SIGKILL if
\* need be, and the waking of a call by a release.  Each can happen a few times only.
Due ==
  \/ /\ \/ \E c \in Calls : RequestTimeout(c) \/ TurnTimeout(c)
        \/ \E p \in Procs : Exit(p) \/ (worker[p].dead /\ Ends(p))
     /\ UNCHANGED <<call, idle>>
  \/ \E c \in Calls : Woken(c)

\* The output of a process may interrupt the waiting for timers, but not for ever.
Fairness == WF_vars(Microstep) /\ SF_vars(Due)

Spec == Init /\ [][Next]_vars /\ Fairness

-----------------------------------------------------------------------------
(***************************************************************************)
(* What must hold.                                                         *)
(***************************************************************************)
\* Every process that runs, and has not been told to end, is the session's, is in the
\* pool's care or belongs to a call that is under way: no way out of runTurnOnce
\* (an early return, an error, an abort, a retry) leaves one behind.
NoOrphans ==
  \A p \in Procs :
    (worker[p].os = "up" /\ ~worker[p].dead) =>
      \/ p \in idle
      \/ p = 1 /\ \E c \in Calls : Sticky(c)
      \/ \E c \in Calls : On(c) = p /\ call[c].pc \in {"starting", "turning"}

\* A worker given back to the pool has no turn under way and no handler left, and no
\* call under way is on it.
ReturnedClean ==
  \A p \in idle :
    /\ DOMAIN worker[p].handlers = {}
    /\ \A c \in Calls : On(c) = p => /\ op[c].remote # "running"
                                     /\ call[c].pc = "ended"

\* Whatever way a call ends, its worker is in good hands or told to end.
WorkersAccounted == NoOrphans /\ ReturnedClean

\* Unless two turns ran at once on the session's thread, what a call collects is the
\* output of its own turn, and not that of one that failed before it.
OwnOutput == \A c \in Calls : ~op[c].shared => op[c].text \subseteq {c}

\* A turn's promise was rejected before anybody came to listen to it: turn/start is not
\* answered yet, or was refused after the turn had ended.
LostRejection(c) == Unheard(c) /\ (op[c].rpc = "turn/start" \/ op[c].forsaken)

\* No call's error brings the gateway down but in two ways: its caller left before its
\* turn's operation began (withAbort), or its turn was rejected before turn/start was
\* answered (submitTurnOnThread).  Whatever else fails, times out or is aborted, somebody
\* listens to it.
SurvivesOtherwise ==
  down = "rejection" => \E c \in Calls : call[c].abandoned \/ LostRejection(c)

\* No turn is begun for a caller that had left before.
NoTurnForNobody ==
  [][\A c \in Calls : (call[c].gone /\ op'[c].rpc = "turn/start") => op[c].rpc = "turn/start"]_vars

\* A call that has begun ends, and its image files are removed, unless the gateway ends:
\* even when its process exits in the middle of its turn, which only the turn's timer tells.
EveryCallEnds ==
  \A c \in Calls : call[c].pc # "new" ~> ((call[c].pc = "ended" /\ ~op[c].temp) \/ down # "no")

\* README 160: a client's disconnection does not bring the gateway down.
DisconnectSurvived == down = "rejection" => ~\E c \in Calls : call[c].abandoned

=============================================================================
