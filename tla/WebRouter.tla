----------------------------- MODULE WebRouter ------------------------------
(***************************************************************************)
(* The gateway's web-first router (upstream/src/server/web-router.ts): the *)
(* POST handler that tries the private web bridge and falls back to the    *)
(* codex route, PUT /routing, and the daily-stats hooks the two share      *)
(* (daily-stats.ts: middleware, selectStatsBackend, completeStats).        *)
(*                                                                         *)
(* The handler runs to its next await as one action.  An attempt's awaits  *)
(* are the bridge's health check, the POST to it, its event stream, and    *)
(* the cancelling of that stream's reader after the last event.  Whatever  *)
(* ends an attempt early (an HTTP or stream error, the web timeout, the    *)
(* abort that a client's disconnection causes) reaches the one catch       *)
(* block, AttemptFails.  The codex route behind next() is seen from here   *)
(* only by what it sends.                                                  *)
(*                                                                         *)
(* Time is what is left of the cooldown.  failureVersion is compared only  *)
(* with its value at the start of an attempt, so the model keeps the set   *)
(* of attempts for which the two differ.                                   *)
(***************************************************************************)
EXTENDS Naturals, FiniteSets

CONSTANTS
  Requests,
  Kinds,       \* the kinds of request that arrive: see KindsAssumption
  Limits,      \* web_concurrency values the operator sets
  SetModes,    \* modes the operator sets
  Cooldown     \* cooldown_seconds, in ticks

Modes == {"auto", "web", "codex"}

\* ask: the X-Codex-Proxy-Backend header, "config" when absent; model: whether
\* the body names no model or the default one, another native model or a web
\* model; plain: whether compatible() accepts the body; stream: body.stream.
ASSUME KindsAssumption ==
  Kinds \subseteq [ask: Modes \cup {"config"}, model: {"default", "native", "web"},
                   plain: BOOLEAN, stream: BOOLEAN]
ASSUME SettingsAssumption ==
  Limits \subseteq 1 .. 5 /\ SetModes \subseteq Modes /\ Cooldown \in Nat \ {0}

VARIABLES
  mode,        \* routing.json: mode
  limit,       \* routing.json: web_concurrency
  cooldown,    \* ticks until cooldownUntil
  active,      \* the count of attempts that hold a web slot
  outdated,    \* attempts whose versionAtStart is not failureVersion any more
  pc,          \* where each request's handler is
  kind,        \* the request, once it has arrived
  want,        \* the mode its handler runs under
  by,          \* the backend whose output was sent to the caller
  got,         \* what was sent of the answer
  gone,        \* the caller has disconnected (res.destroyed)
  stat,        \* res.locals.dailyStats
  recorded     \* the outcome the daily statistics booked for the request

router == <<mode, limit, cooldown, active, outdated>>
reply == <<by, got>>
vars == <<mode, limit, cooldown, active, outdated, pc, kind, want, by, got, gone, stat, recorded>>

\* An attempt holds its slot from active++ to the finally block.
AttemptPlaces == {"health", "post", "prelude", "output", "closing"}
Places == {"new", "codex", "sending", "ended"} \cup AttemptPlaces
Attempts == {r \in Requests : pc[r] \in AttemptPlaces}

\* Arrived: the handler has been entered.
Arrived(r) == pc[r] # "new"

Stats == [backend: {"unrouted", "web", "codex"}, fallback: BOOLEAN, attempt: BOOLEAN,
          completed: BOOLEAN]
NoKind == [ask |-> "config", model |-> "default", plain |-> FALSE, stream |-> FALSE]
NoStat == [backend |-> "unrouted", fallback |-> FALSE, attempt |-> FALSE, completed |-> FALSE]

TypeOK ==
  /\ mode \in SetModes
  /\ limit \in Limits
  /\ cooldown \in 0 .. Cooldown
  /\ active \in Nat
  /\ outdated \subseteq Requests
  /\ pc \in [Requests -> Places]
  /\ kind \in [Requests -> Kinds \cup {NoKind}]
  /\ want \in [Requests -> Modes]
  /\ by \in [Requests -> {"none", "web", "codex"}]
  /\ got \in [Requests -> {"nothing", "part", "whole", "broken", "refused"}]
  /\ gone \in [Requests -> BOOLEAN]
  /\ stat \in [Requests -> Stats]
  /\ recorded \in [Requests -> {"open", "succeeded", "failed", "cancelled"}]

-----------------------------------------------------------------------------
(***************************************************************************)
(* What handlers do to the response and to the statistics.                 *)
(***************************************************************************)
\* Writing to a response whose caller has gone sends nothing.
Send(r, b, g) ==
  IF gone[r]
  THEN UNCHANGED reply
  ELSE /\ by' = [by EXCEPT ![r] = b]
       /\ got' = [got EXCEPT ![r] = g]

Refuse(r) == Send(r, "none", "refused")

\* fallback(reason): the codex route takes over.
ToCodex(r, reason) ==
  /\ pc' = [pc EXCEPT ![r] = "codex"]
  /\ stat' = [stat EXCEPT ![r].backend = "codex", ![r].fallback = @ \/ reason]
  /\ UNCHANGED reply

\* Fault: an auto request that names a web model changes backend too.
MayFallback_AnyModel(k, m) == m = "auto"

\* Only an auto request that does not name a web model may change backend.
MayFallback(k, m) == m = "auto" /\ k.model # "web"

-----------------------------------------------------------------------------
(***************************************************************************)
(* The POST handler up to its first await.                                 *)
(***************************************************************************)
Ask(k) == IF k.ask = "config" THEN mode ELSE k.ask
GoesToCodex(k, m) == m = "codex" \/ (m = "auto" /\ k.model = "native")

Arrive(r, k) ==
  /\ pc[r] = "new"
  /\ kind' = [kind EXCEPT ![r] = k]
  /\ want' = [want EXCEPT ![r] = Ask(k)]

\* routing.json cannot be read or is invalid, or the backend header or the model
\* is: an error response, before anything is decided.
RefuseAtOnce(r, k) ==
  /\ Arrive(r, k)
  /\ pc' = [pc EXCEPT ![r] = "ended"]
  /\ Refuse(r)
  /\ UNCHANGED <<router, gone, stat, recorded>>

RouteToCodex(r, k) ==
  /\ Arrive(r, k)
  /\ GoesToCodex(k, Ask(k))
  /\ ToCodex(r, Ask(k) = "auto")
  /\ UNCHANGED <<router, gone, recorded>>

\* A body the web cannot take, no free slot, or a cooldown.
WebUnavailable(k) == ~k.plain \/ active >= limit \/ cooldown > 0

RouteAround(r, k) ==
  /\ Arrive(r, k)
  /\ ~GoesToCodex(k, Ask(k))
  /\ WebUnavailable(k)
  /\ IF MayFallback(k, Ask(k))
     THEN ToCodex(r, TRUE)
     ELSE /\ pc' = [pc EXCEPT ![r] = "ended"]
          /\ stat' = [stat EXCEPT ![r].backend = "web"]
          /\ Refuse(r)
  /\ UNCHANGED <<router, gone, recorded>>

\* Fault: the slot is taken only once the bridge has answered its health check.
Admit_LateSlot(r, k) ==
  /\ Arrive(r, k)
  /\ ~GoesToCodex(k, Ask(k))
  /\ ~WebUnavailable(k)
  /\ outdated' = outdated \ {r}
  /\ pc' = [pc EXCEPT ![r] = "health"]
  /\ stat' = [stat EXCEPT ![r].backend = "web"]
  /\ UNCHANGED <<mode, limit, cooldown, active, reply, gone, recorded>>

Admit(r, k) ==
  /\ Arrive(r, k)
  /\ ~GoesToCodex(k, Ask(k))
  /\ ~WebUnavailable(k)
  /\ active' = active + 1
  /\ outdated' = outdated \ {r}
  /\ pc' = [pc EXCEPT ![r] = "health"]
  /\ stat' = [stat EXCEPT ![r].backend = "web"]
  /\ UNCHANGED <<mode, limit, cooldown, reply, gone, recorded>>

-----------------------------------------------------------------------------
(***************************************************************************)
(* A web attempt.                                                          *)
(***************************************************************************)
\* Fault: versionAtStart is not compared.
Succeeded_Always(r) == cooldown' = 0

\* succeeded(): the cooldown is cleared unless a failure, or a mode change, has
\* happened since the attempt began.
Succeeded(r) == cooldown' = IF r \in outdated THEN cooldown ELSE 0

\* The finally block.
FreeSlot == active' = active - 1

\* The bridge is ready, has room and offers the model; the POST goes out.
HealthOk(r) ==
  /\ pc[r] = "health"
  /\ pc' = [pc EXCEPT ![r] = "post"]
  /\ stat' = [stat EXCEPT ![r].attempt = TRUE]
  /\ UNCHANGED <<router, kind, want, reply, gone, recorded>>

\* A JSON answer: committed, booked and sent without another await.
CompleteJson(r) ==
  /\ pc[r] = "post" /\ ~kind[r].stream
  /\ Succeeded(r)
  /\ FreeSlot
  /\ pc' = [pc EXCEPT ![r] = "ended"]
  /\ stat' = [stat EXCEPT ![r].completed = TRUE]
  /\ Send(r, "web", "whole")
  /\ UNCHANGED <<mode, limit, outdated, kind, want, gone, recorded>>

\* The bridge answers the POST with a stream; its prelude is buffered.
OpenStream(r) ==
  /\ pc[r] = "post" /\ kind[r].stream
  /\ pc' = [pc EXCEPT ![r] = "prelude"]
  /\ UNCHANGED <<router, kind, want, reply, gone, stat, recorded>>

\* Fault: the answer is booked as soon as it begins.
FirstOutput_Books(r) ==
  /\ pc[r] = "prelude"
  /\ pc' = [pc EXCEPT ![r] = "output"]
  /\ stat' = [stat EXCEPT ![r].completed = TRUE]
  /\ Send(r, "web", "part")
  /\ UNCHANGED <<router, kind, want, gone, recorded>>

\* The first text commits the response to the web.
FirstOutput(r) ==
  /\ pc[r] = "prelude"
  /\ pc' = [pc EXCEPT ![r] = "output"]
  /\ Send(r, "web", "part")
  /\ UNCHANGED <<router, kind, want, gone, stat, recorded>>

\* response.completed (which may be the first meaningful event): the terminal
\* events are written, the loop is left and the reader is being cancelled.
StreamCompleted(r) ==
  /\ pc[r] \in {"prelude", "output"}
  /\ pc' = [pc EXCEPT ![r] = "closing"]
  /\ stat' = [stat EXCEPT ![r].completed = TRUE]
  /\ Send(r, "web", "whole")
  /\ UNCHANGED <<router, kind, want, gone, recorded>>

CloseStream(r) ==
  /\ pc[r] = "closing"
  /\ Succeeded(r)
  /\ FreeSlot
  /\ pc' = [pc EXCEPT ![r] = "ended"]
  /\ UNCHANGED <<mode, limit, outdated, kind, want, reply, gone, stat, recorded>>

\* The catch block for a failure with code web_busy or not, and with a status
\* that allows another backend (500 or more, 401, 403, 429) or not.
CatchPlaces == AttemptPlaces \ {"closing"}

\* Fault: headersSent is not asked, so the codex route continues the answer.
AnswerFailure_AfterOutput(r, retriable) ==
  IF MayFallback(kind[r], want[r]) /\ retriable
  THEN ToCodex(r, TRUE)
  ELSE /\ pc' = [pc EXCEPT ![r] = "ended"]
       /\ Send(r, "web", "broken")
       /\ UNCHANGED stat

\* Fault: a web timeout is taken for the caller's disconnection.
AnswerFailure_Silent(r, retriable) ==
  /\ pc' = [pc EXCEPT ![r] = "ended"]
  /\ UNCHANGED <<reply, stat>>

\* What the catch block does after the cooldown, while the caller is there.
AnswerFailure(r, retriable) ==
  \/ /\ pc[r] = "output"
     /\ pc' = [pc EXCEPT ![r] = "ended"]
     /\ Send(r, "web", "broken")
     /\ UNCHANGED stat
  \/ /\ pc[r] # "output"
     /\ IF MayFallback(kind[r], want[r]) /\ retriable
        THEN ToCodex(r, TRUE)
        ELSE /\ pc' = [pc EXCEPT ![r] = "ended"]
             /\ Refuse(r)
             /\ UNCHANGED stat

\* Fault: the early return for a caller that has gone skips the finally block.
AttemptFails_KeepsSlot(r, busy, retriable) ==
  /\ pc[r] \in CatchPlaces
  /\ IF gone[r]
     THEN /\ pc' = [pc EXCEPT ![r] = "ended"]
          /\ UNCHANGED <<active, cooldown, outdated, reply, stat>>
     ELSE /\ FreeSlot
          /\ cooldown' = Cooldown /\ outdated' = Attempts
          /\ AnswerFailure(r, retriable)
  /\ UNCHANGED <<mode, limit, kind, want, gone, recorded>>

\* The catch block, whatever failed, and the finally block.
AttemptFails(r, busy, retriable) ==
  /\ pc[r] \in CatchPlaces
  /\ pc[r] # "post" => retriable          \* only the bridge's reply to the POST is a 4xx
  /\ pc[r] \in {"prelude", "output"} => ~busy
  /\ FreeSlot
  /\ IF gone[r] \/ busy
     THEN UNCHANGED <<cooldown, outdated>>
     ELSE cooldown' = Cooldown /\ outdated' = Attempts
  /\ IF gone[r]
     THEN pc' = [pc EXCEPT ![r] = "ended"] /\ UNCHANGED <<reply, stat>>
     ELSE AnswerFailure(r, retriable)
  /\ UNCHANGED <<mode, limit, kind, want, gone, recorded>>

-----------------------------------------------------------------------------
(***************************************************************************)
(* The codex route (routes.ts), the end of the response, the operator.     *)
(***************************************************************************)
\* A streamed answer has begun (its headers are flushed before the turn runs).
CodexOutput(r) ==
  /\ pc[r] = "codex" /\ kind[r].stream
  /\ pc' = [pc EXCEPT ![r] = "sending"]
  /\ stat' = [stat EXCEPT ![r].backend = "codex"]
  /\ Send(r, "codex", "part")
  /\ UNCHANGED <<router, kind, want, gone, recorded>>

CodexCompletes(r) ==
  /\ \/ pc[r] = "sending"
     \/ pc[r] = "codex" /\ ~kind[r].stream
  /\ pc' = [pc EXCEPT ![r] = "ended"]
  /\ stat' = [stat EXCEPT ![r].backend = "codex", ![r].completed = TRUE]
  /\ Send(r, "codex", "whole")
  /\ UNCHANGED <<router, kind, want, gone, recorded>>

\* A turn's error, a 400 before the turn, or client_closed.
CodexFails(r) ==
  /\ pc[r] \in {"codex", "sending"}
  /\ pc' = [pc EXCEPT ![r] = "ended"]
  /\ stat' = [stat EXCEPT ![r].backend = "codex"]
  /\ IF pc[r] = "sending" THEN Send(r, "codex", "broken") ELSE Refuse(r)
  /\ UNCHANGED <<router, kind, want, gone, recorded>>

\* The finish event of a response that was ended, after its last byte.
Finish(r) ==
  /\ pc[r] = "ended" /\ got[r] \in {"whole", "broken", "refused"}
  /\ ~gone[r] /\ recorded[r] = "open"
  /\ recorded' = [recorded EXCEPT ![r] = IF stat[r].completed THEN "succeeded" ELSE "failed"]
  /\ UNCHANGED <<router, pc, kind, want, reply, gone, stat>>

\* The caller disconnects before the response has finished: its close event.
ClientGone(r) ==
  /\ Arrived(r) /\ ~gone[r] /\ recorded[r] = "open"
  /\ gone' = [gone EXCEPT ![r] = TRUE]
  /\ recorded' = [recorded EXCEPT ![r] = "cancelled"]
  /\ UNCHANGED <<router, pc, kind, want, reply, stat>>

\* PUT /routing.  A mode, even the same one, clears the cooldown.
PutMode(m) ==
  /\ mode' = m
  /\ cooldown' = 0
  /\ outdated' = Attempts
  /\ UNCHANGED <<limit, active, pc, kind, want, reply, gone, stat, recorded>>

PutLimit(n) ==
  /\ limit' = n
  /\ UNCHANGED <<mode, cooldown, active, outdated, pc, kind, want, reply, gone, stat, recorded>>

Tick ==
  /\ cooldown > 0
  /\ cooldown' = cooldown - 1
  /\ UNCHANGED <<mode, limit, active, outdated, pc, kind, want, reply, gone, stat, recorded>>

-----------------------------------------------------------------------------
Init ==
  /\ mode \in SetModes
  /\ limit \in Limits
  /\ cooldown = 0
  /\ active = 0
  /\ outdated = {}
  /\ pc = [r \in Requests |-> "new"]
  /\ kind = [r \in Requests |-> NoKind]
  /\ want = [r \in Requests |-> "auto"]
  /\ by = [r \in Requests |-> "none"]
  /\ got = [r \in Requests |-> "nothing"]
  /\ gone = [r \in Requests |-> FALSE]
  /\ stat = [r \in Requests |-> NoStat]
  /\ recorded = [r \in Requests |-> "open"]

Route(r) ==
  \E k \in Kinds : RefuseAtOnce(r, k) \/ RouteToCodex(r, k) \/ RouteAround(r, k) \/ Admit(r, k)

AttemptStep(r) ==
  \/ HealthOk(r) \/ CompleteJson(r) \/ OpenStream(r) \/ FirstOutput(r)
  \/ StreamCompleted(r) \/ CloseStream(r)
  \/ \E busy, retriable \in BOOLEAN : AttemptFails(r, busy, retriable)

CodexStep(r) == CodexOutput(r) \/ CodexCompletes(r) \/ CodexFails(r)

Next ==
  \/ \E r \in Requests : Route(r) \/ AttemptStep(r) \/ CodexStep(r) \/ Finish(r) \/ ClientGone(r)
  \/ \E m \in SetModes : PutMode(m)
  \/ \E n \in Limits : PutLimit(n)
  \/ Tick

Spec == Init /\ [][Next]_vars

\* The web timeout bounds an attempt, the turn timeout bounds the codex route, and
\* an ended response finishes or its connection closes.
Fairness ==
  \A r \in Requests : WF_vars(AttemptStep(r)) /\ WF_vars(CodexStep(r)) /\ WF_vars(Finish(r))

FairSpec == Spec /\ Fairness

-----------------------------------------------------------------------------
(***************************************************************************)
(* Properties.                                                             *)
(***************************************************************************)
\* active++ and the finally block balance: whatever way attempts end, and
\* whatever the callers do, active counts the attempts that are under way, so
\* no slot is lost and none is given out twice.
ActiveExact == active = Cardinality(Attempts)

\* A request that asked for one backend, by the header or by the configured mode,
\* or in auto mode by its model, never reaches the other one.
AskedForWeb(r) == Arrived(r) /\ (want[r] = "web" \/ (want[r] = "auto" /\ kind[r].model = "web"))
AskedForCodex(r) == Arrived(r) /\ (want[r] = "codex" \/ (want[r] = "auto" /\ kind[r].model = "native"))

BackendKept(r) ==
  /\ AskedForWeb(r) => pc[r] \notin {"codex", "sending"} /\ by[r] # "codex"
  /\ AskedForCodex(r) => pc[r] \notin AttemptPlaces /\ by[r] # "web"

KeepsBackend == \A r \in Requests : BackendKept(r)

\* The statistics tell what the callers got: success is a whole answer of the
\* backend it is booked under, failure is no whole answer, and a request is
\* booked as cancelled exactly when its caller has gone.
BookedTruly(r) ==
  /\ recorded[r] = "succeeded" => got[r] = "whole" /\ by[r] = stat[r].backend
  /\ recorded[r] = "failed" => got[r] \in {"broken", "refused"}
  /\ recorded[r] = "cancelled" <=> gone[r]

StatsTruthful == \A r \in Requests : BookedTruly(r)

\* Every attempt that runs during a cooldown began before the failure that set
\* it, so none of them can clear it.
CooldownIsNewer == cooldown > 0 => Attempts \subseteq outdated

\* Only time and the operator end a cooldown: the answer of an attempt that was
\* under way when another one failed does not.
CooldownKept == [][cooldown' < cooldown => pc' = pc]_vars

\* A caller that disconnects does not put the web into cooldown for the others:
\* a cooldown begins when an attempt fails whose caller is still there.
CancelIsQuiet ==
  [][cooldown' > cooldown =>
       \E r \in Requests : r \in Attempts /\ pc'[r] \notin AttemptPlaces /\ ~gone[r]]_vars

\* The cooldown says what the latest failure of a waiting caller left.
CooldownSound == CooldownKept /\ CancelIsQuiet

\* AnswerOnce: no retry after output has been sent to the caller.
Promise == INSTANCE AnswerOnce WITH Backends <- {"web", "codex"}
AnsweredOnce == Promise!Spec

\* Every request is booked in the end: no way an attempt or the codex route ends
\* leaves the caller without an end of the response.
EveryRequestSettles == \A r \in Requests : Arrived(r) ~> recorded[r] # "open"

-----------------------------------------------------------------------------
(***************************************************************************)
(* The inductive invariant behind the safety properties.                   *)
(***************************************************************************)
\* While its caller is there, how far an answer has got follows from the place of
\* its handler: in particular nothing was sent before a fallback to codex.
ReplyAtPlace(r) ==
  ~gone[r] =>
    /\ pc[r] \in {"new", "codex", "health", "post", "prelude"} => by[r] = "none" /\ got[r] = "nothing"
    /\ pc[r] = "output" => by[r] = "web" /\ got[r] = "part"
    /\ pc[r] = "sending" => by[r] = "codex" /\ got[r] = "part"
    /\ pc[r] = "closing" => by[r] = "web" /\ got[r] = "whole"
    /\ pc[r] = "ended" => got[r] \in {"whole", "broken", "refused"}

\* What the statistics hold of a request before they book it.
StatAtReply(r) ==
  /\ pc[r] \in AttemptPlaces => stat[r].backend = "web"
  /\ gone[r] => Arrived(r)
  /\ recorded[r] = "open" \/ gone[r] \/ pc[r] = "ended"
  /\ ~gone[r] => /\ stat[r].completed <=> got[r] = "whole"
                 /\ got[r] = "whole" => by[r] = stat[r].backend

SlotInv == TypeOK /\ IsFiniteSet(Attempts) /\ ActiveExact
ReplyInv == \A r \in Requests : ReplyAtPlace(r) /\ StatAtReply(r) /\ BookedTruly(r)

IInv == SlotInv /\ CooldownIsNewer /\ KeepsBackend /\ ReplyInv

=============================================================================
