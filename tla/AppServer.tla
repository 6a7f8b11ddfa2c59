----------------------------- MODULE AppServer -----------------------------
(***************************************************************************)
(* The driver of a `codex app-server` process (subprocess/manager.ts): its *)
(* JSON-RPC requests with their timers, the notifications, the promise and *)
(* the timer of a turn, and the end of the process.                        *)
(*                                                                         *)
(* A chunk of the process's output is read in one go, and the awaits that  *)
(* it settles resume after it.  Events of the loop (a chunk, a timer, an   *)
(* exit) come one at a time, and only once every await has resumed.  A     *)
(* rejected promise that nobody listens to by then ends the gateway: it    *)
(* has no handler for unhandled rejections.                                *)
(***************************************************************************)
EXTENDS Naturals, FiniteSets

CONSTANTS
  Calls,       \* the turns that callers ask for
  MaxProcs,    \* bound: the processes that are ever started
  ShortTurns   \* the calls whose turn may time out before turn/start does

ASSUME ProcsAssumption == MaxProcs \in Nat \ {0}
ASSUME ShortAssumption == ShortTurns \subseteq Calls
ASSUME CallsAssumption == Calls \cap {"none", "sticky"} = {}   \* the threads that are no call's own

VARIABLES
  worker,      \* each process and the object that drives it
  op,          \* each call's operation: its request, its turn, what it left behind
  chunk,       \* the process whose output is being read, 0 for none
  down         \* how the gateway itself has ended

Procs == 1 .. MaxProcs

\* A list of calls, none of them twice: for each of them, those before it.
Lists == UNION {[S -> SUBSET Calls] : S \in SUBSET Calls}
EmptyList == [h \in {} |-> {}]

Workers == [os : {"none", "up", "ended", "reaped"}, dead : BOOLEAN, handlers : Lists]

Operations ==
  [on : {0} \cup Procs,
   thread : Calls \cup {"none", "sticky"},
   rpc : {"none", "initialize", "thread/start", "turn/start"},
   asked : BOOLEAN,                                   \* the process was there to be asked
   reply : {"none", "ok", "error"},                   \* settled, not resumed yet
   promise : {"none", "pending", "resolved", "rejected"},
   heard : BOOLEAN,                                   \* somebody listens to the promise
   forsaken : BOOLEAN,                                \* a rejected promise to which nobody ever will
   timer : BOOLEAN,
   remote : {"none", "running", "over"},              \* the turn at the app-server
   temp : BOOLEAN,                                    \* its image files are on disk
   text : SUBSET Calls,                               \* the turns its output comes from
   shared : BOOLEAN]                                  \* another turn ran at once on the thread

NoOp ==
  [on |-> 0, thread |-> "none", rpc |-> "none", asked |-> FALSE, reply |-> "none",
   promise |-> "none", heard |-> FALSE, forsaken |-> FALSE, timer |-> FALSE, remote |-> "none",
   temp |-> FALSE, text |-> {}, shared |-> FALSE]

-----------------------------------------------------------------------------
(***************************************************************************)
(* The order of events.                                                    *)
(***************************************************************************)
Pending(c) == op[c].rpc # "none" /\ op[c].reply = "none"
Settled(c) == op[c].reply # "none"
TurnOver(c) == op[c].heard /\ op[c].promise \in {"resolved", "rejected"}
Unheard(c) == op[c].forsaken \/ (~op[c].heard /\ op[c].promise = "rejected")

Microtasks == down = "no" /\ chunk = 0
Resumed == \A c \in Calls : ~Settled(c) /\ ~TurnOver(c)
Idle == Microtasks /\ Resumed /\ \A c \in Calls : ~Unheard(c)

\* An unhandled rejection is reported when all awaits have resumed.
Unhandled ==
  /\ Microtasks /\ Resumed
  /\ \E c \in Calls : Unheard(c)
  /\ down' = "rejection"
  /\ UNCHANGED <<worker, op, chunk>>

-----------------------------------------------------------------------------
(***************************************************************************)
(* What the handlers do to a process w and an operation o.                 *)
(***************************************************************************)
Spawned(w, p) == [w EXCEPT ![p].os = "up"]
Kill(w, p) == IF p = 0 THEN w ELSE [w EXCEPT ![p].dead = TRUE]

\* Fault: the handlers are not removed.
Unsubscribed_Not(w, p, hs) == w

Unsubscribed(w, p, hs) ==
  [w EXCEPT ![p].handlers = [h \in DOMAIN @ \ hs |-> @[h] \ hs]]

Ask(w, o, c, m) ==
  [o EXCEPT ![c].rpc = m, ![c].reply = "none", ![c].asked = w[o[c].on].os = "up"]

\* A write to a process whose end has not been noticed may raise an error event of its
\* stdin, which has no listener.
WriteTo(w, p) == down' \in IF w[p].os = "ended" THEN {"no", "pipe"} ELSE {"no"}

\* The others whose turn is under way on thread t of process p: here, or only at the
\* app-server, when the end of one of several turns at once was taken for its own.
Companions(w, o, p, t) ==
  {h \in Calls : /\ o[h].thread = t
                 /\ \/ h \in DOMAIN w[p].handlers
                    \/ o[h].shared /\ o[h].remote = "running"}

\* submitTurnOnThread, up to turn/start, on a process that is not dead.
TurnOp(w, o, c, t) ==
  LET p == o[c].on
      with == Companions(w, o, p, t)
  IN  [h \in Calls |->
         IF h = c
         THEN [Ask(w, o, c, "turn/start")[c] EXCEPT
                 !.thread = t, !.promise = "pending", !.heard = FALSE, !.timer = TRUE,
                 !.remote = IF w[p].os = "up" THEN "running" ELSE "none",
                 !.temp = TRUE, !.text = {}, !.shared = with # {}]
         ELSE [o[h] EXCEPT !.shared = @ \/ h \in with]]
TurnWorker(w, p, c) ==
  [w EXCEPT ![p].handlers =
     [h \in DOMAIN @ \cup {c} |-> IF h = c THEN DOMAIN @ ELSE @[h]]]

\* The catch block of a failed turn/start: the turn's promise has no listener and none
\* will come.  One that is pending is never settled any more; one that was rejected
\* before, by an error notification or by the turn's timer, stays so.
CatchOp(o, c) ==
  [o EXCEPT ![c].timer = FALSE, ![c].temp = FALSE, ![c].forsaken = @ \/ o[c].promise = "rejected"]
CatchWorker(w, o, c) == Kill(Unsubscribed(w, o[c].on, {c}), o[c].on)

-----------------------------------------------------------------------------
(***************************************************************************)
(* Events.                                                                 *)
(***************************************************************************)
\* The process ends: by itself, or told to by SIGTERM, and by SIGKILL after 5 seconds.
Ends(p) ==
  /\ down = "no" /\ worker[p].os = "up"
  /\ worker' = [worker EXCEPT ![p].os = "ended"]
  /\ UNCHANGED <<op, chunk, down>>

Reap(p) == worker' = [worker EXCEPT ![p].os = "reaped", ![p].dead = TRUE]

RejectPending(p) ==
  op' = [c \in Calls |-> IF op[c].on = p /\ Pending(c)
                         THEN [op[c] EXCEPT !.reply = "error"] ELSE op[c]]

\* The exit event rejects the requests under way, and them only.
Exit(p) ==
  /\ Idle /\ worker[p].os = "ended"
  /\ Reap(p)
  /\ RejectPending(p)
  /\ UNCHANGED <<chunk, down>>

\* The error event of a process that could not be started.
SpawnError(p) ==
  /\ Idle /\ worker[p].os = "up"
  /\ \E c \in Calls : op[c].on = p /\ op[c].rpc = "initialize" /\ Pending(c)
  /\ Reap(p)
  /\ RejectPending(p)
  /\ UNCHANGED <<chunk, down>>

RequestTimeout(c) ==
  /\ Idle /\ Pending(c)
  /\ op' = [op EXCEPT ![c].reply = "error"]
  /\ UNCHANGED <<worker, chunk, down>>

\* The turn's timer.  The handler stays, on a process that is killed.
TurnTimeout(c) ==
  /\ Idle /\ op[c].timer /\ (op[c].heard \/ c \in ShortTurns)
  /\ op' = [op EXCEPT ![c].promise = "rejected", ![c].timer = FALSE]
  /\ worker' = Kill(worker, op[c].on)
  /\ UNCHANGED <<chunk, down>>

\* A line of the process is read, be it after its end.
Reads(p) ==
  /\ worker[p].os # "none"
  /\ down = "no"
  /\ chunk = p \/ Idle
  /\ chunk' = p

EndChunk ==
  /\ down = "no" /\ chunk # 0
  /\ chunk' = 0
  /\ UNCHANGED <<worker, op, down>>

\* A response settles the request it answers, if that still waits.
Response(c) ==
  /\ Pending(c) /\ op[c].asked
  /\ Reads(op[c].on)
  /\ \/ op' = [op EXCEPT ![c].reply = "ok"]
     \/ op' = [op EXCEPT ![c].reply = "error",
                         ![c].remote = IF @ = "running" THEN "over" ELSE @]
  /\ UNCHANGED <<worker, down>>

\* Handler h is for the thread of d's turn.
Matches(h, d) == op[h].on = op[d].on /\ op[h].thread = op[d].thread

\* Those for d's turn that come right before h in list l, in a row.
RowBefore(l, h, d) ==
  {g \in l[h] : \A k \in l[h] : (k = g \/ g \in l[k]) => Matches(k, d)}

\* The handlers that a notification of d's turn reaches.  The loop runs over a list
\* that a handler leaves when the turn is over, so that the one behind it is skipped:
\* of several in a row, every second one.
Reached(p, d, leaves) ==
  LET l == worker[p].handlers IN
  {h \in DOMAIN l : /\ Matches(h, d)
                    /\ leaves => Cardinality(RowBefore(l, h, d)) % 2 = 0}

TurnRuns(d) == op[d].remote = "running" /\ Reads(op[d].on)

\* What comes after the turn is over is sent to nobody.
Delta(d) ==
  /\ TurnRuns(d)
  /\ LET hs == Reached(op[d].on, d, FALSE) IN
       op' = [c \in Calls |-> IF c \in hs /\ op[c].promise = "pending"
                              THEN [op[c] EXCEPT !.text = @ \cup {d}] ELSE op[c]]
  /\ UNCHANGED <<worker, down>>

\* turn/completed, or an error that is not retried, ends the turn of each handler reached.
TurnEnds(d, how) ==
  /\ TurnRuns(d)
  /\ LET p == op[d].on
         hs == Reached(p, d, TRUE)
         Told(o) == [o EXCEPT !.timer = FALSE, !.promise = IF @ = "pending" THEN how ELSE @]
     IN  /\ op' = [c \in Calls |->
                     LET o == IF c \in hs THEN Told(op[c]) ELSE op[c]
                     IN  IF c = d /\ how = "resolved" THEN [o EXCEPT !.remote = "over"] ELSE o]
         /\ worker' = Unsubscribed(worker, p, hs)
  /\ UNCHANGED down

Completed(d) == TurnEnds(d, "resolved")
ErrorNotice(d) == TurnEnds(d, "rejected")

ProcessEvent ==
  \/ Unhandled \/ EndChunk
  \/ \E p \in Procs : Ends(p) \/ Exit(p) \/ SpawnError(p)
  \/ \E c \in Calls :
       \/ RequestTimeout(c) \/ TurnTimeout(c) \/ Response(c)
       \/ Delta(c) \/ Completed(c) \/ ErrorNotice(c)

=============================================================================
