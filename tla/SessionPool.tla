---------------------------- MODULE SessionPool -----------------------------
(***************************************************************************)
(* The pool of sticky sessions (upstream/src/subprocess/session-pool.ts):  *)
(* one app-server worker and one thread per session key, and a promise     *)
(* chain that queues the turns of a session.                               *)
(*                                                                         *)
(* A slot is named by the request whose miss created it.  queue[s] is the  *)
(* chain of slot s: every request that was ever chained to it.  A request  *)
(* waits for the promise of the one before it, next, which settles when    *)
(* that one's turn ends or when its queue timeout fires, whichever is      *)
(* first; the turn itself is not cancelled by the timeout.                 *)
(*                                                                         *)
(* A handler runs to its next await as one action, and the continuations   *)
(* of promises that have settled run before the next event: every action   *)
(* but StartTurn waits until no turn is ready to start.                    *)
(***************************************************************************)
EXTENDS Naturals, Sequences, FiniteSets

CONSTANTS
  Requests,
  Keys,        \* session keys: the session and the fingerprint of its options
  Sessions,    \* the hashed session keys
  KeyOf,       \* the key of each request
  SessionOf,   \* the session of each key
  Max,         \* the most sessions
  Ttl,         \* the idle TTL, in ticks
  AbsoluteTtl  \* the absolute TTL, in ticks; 0 disables it

ASSUME KeysAssumption == KeyOf \in [Requests -> Keys] /\ SessionOf \in [Keys -> Sessions]
ASSUME LimitsAssumption == Max \in Nat \ {0} /\ Ttl \in Nat /\ AbsoluteTtl \in Nat

VARIABLES
  held,        \* the slots in the map
  older,       \* per slot of the map, those before it in the Map's order
  creations,   \* per key, the requests that await the slot being created for it
  worker,      \* per slot, its worker
  inFlight,    \* per slot, its flag
  idle,        \* per slot, ticks since lastUsedAt; 0 while a turn is in flight
  life,        \* per slot, ticks since createdAt
  queue,       \* per slot, the requests chained to it
  turn,        \* per request, its run
  next,        \* per request, the promise runTurn returns
  reply        \* per request, what its caller got

slots == <<worker, inFlight, idle, life, queue>>
callers == <<turn, next, reply>>
vars == <<held, older, creations, worker, inFlight, idle, life, queue, turn, next, reply>>

InSeq(q) == {q[i] : i \in DOMAIN q}
Chained(s, r) == r \in InSeq(queue[s])

TypeOK ==
  /\ held \subseteq Requests
  /\ older \in [Requests -> SUBSET Requests]
  /\ creations \in [Keys -> Seq(Requests)]
  /\ worker \in [Requests -> {"none", "starting", "live", "dead"}]
  /\ inFlight \in [Requests -> BOOLEAN]
  /\ idle \in [Requests -> 0 .. Ttl + 1]
  /\ life \in [Requests -> 0 .. AbsoluteTtl + 1]
  /\ queue \in [Requests -> Seq(Requests)]
  /\ turn \in [Requests -> {"none", "waiting", "running", "over"}]
  /\ next \in [Requests -> {"none", "pending", "ended", "expired"}]
  /\ reply \in [Requests -> {"none", "open", "answered", "failed", "closed"}]
  /\ \A r \in Requests : turn[r] = "none" <=> next[r] = "none"

-----------------------------------------------------------------------------
(***************************************************************************)
(* Discarding slots: removed from the map, worker killed.                  *)
(***************************************************************************)
\* The workers once the map holds only the slots ss.
KilledDownTo(ss) == [s \in Requests |-> IF s \in held \ ss THEN "dead" ELSE worker[s]]

\* The slots ss stay in the map.  The clocks of the others, which nothing reads any more,
\* are put to 0.
KeepOnly(ss) ==
  /\ held' = ss
  /\ older' = [s \in Requests |-> IF s \in ss THEN older[s] \cap ss ELSE {}]
  /\ idle' = [s \in Requests |-> IF s \in held \ ss THEN 0 ELSE idle[s]]
  /\ life' = [s \in Requests |-> IF s \in held \ ss THEN 0 ELSE life[s]]

Discard(gone) == KeepOnly(held \ gone) /\ worker' = KilledDownTo(held \ gone)

\* Fault: the idle TTL is applied to slots with a turn in flight too.
Expired_Busy(s) ==
  \/ worker[s] = "dead"
  \/ idle[s] > Ttl
  \/ AbsoluteTtl > 0 /\ life[s] > AbsoluteTtl

\* evictExpired.
Expired(s) ==
  /\ ~inFlight[s]
  /\ \/ worker[s] = "dead"
     \/ idle[s] > Ttl
     \/ AbsoluteTtl > 0 /\ life[s] > AbsoluteTtl

Unexpired == {s \in held : ~Expired(s)}

\* resetMatching discards the slots of a session up to one with a turn in flight.
Matching(ss, k) == {s \in ss : SessionOf[KeyOf[s]] = SessionOf[k]}
BusyMatching(ss, k) == {s \in Matching(ss, k) : inFlight[s]}
Reset(ss, k) == ss \ {s \in Matching(ss, k) : \A b \in BusyMatching(ss, k) : s \in older[b]}

\* findLruEvictable takes the idle slot that was used least recently, as often as it
\* takes to get below the maximum; uses in one tick may have either order.
Idle(s) == ~inFlight[s]
Min2(a, b) == IF a < b THEN a ELSE b
LruEvictions(ss) ==
  LET free == {s \in ss : Idle(s)}
      need == IF Cardinality(ss) < Max THEN 0 ELSE Min2(Cardinality(ss) + 1 - Max, Cardinality(free))
  IN  {gone \in SUBSET free : /\ Cardinality(gone) = need
                              /\ \A a \in gone, b \in free \ gone : idle[a] >= idle[b]}

-----------------------------------------------------------------------------
(***************************************************************************)
(* The chain of a slot.                                                    *)
(***************************************************************************)
\* Fault: a turn does not wait for the one before it.
PreviousSettled_Ignored(s, i) == TRUE

PreviousSettled(s, i) == i > 1 => next[queue[s][i - 1]] # "pending"
Ready(s, i) == turn[queue[s][i]] = "waiting" /\ PreviousSettled(s, i)
NoneReady == \A s \in Requests : \A i \in DOMAIN queue[s] : ~Ready(s, i)

\* next settles, and its caller, unless it has been answered or has gone, is told.
Settle(r, n, how) ==
  /\ next' = [next EXCEPT ![r] = IF @ = "pending" THEN n ELSE @]
  /\ reply' = [reply EXCEPT ![r] = IF @ = "open" THEN how ELSE @]

\* Fault: the turn is started beside the chain, which does not get its promise.
Chain_Beside(s, q) ==
  /\ queue' = [queue EXCEPT ![s] = @ \o q]
  /\ turn' = [r \in Requests |-> IF r \in InSeq(q) THEN "waiting" ELSE turn[r]]
  /\ UNCHANGED next

\* The requests of q, in order, are chained to slot s.
Chain(s, q) ==
  /\ queue' = [queue EXCEPT ![s] = @ \o q]
  /\ turn' = [r \in Requests |-> IF r \in InSeq(q) THEN "waiting" ELSE turn[r]]
  /\ next' = [r \in Requests |-> IF r \in InSeq(q) THEN "pending" ELSE next[r]]

\* run() begins: on a dead worker submitTurnOnThread throws at once.
StartTurn(s, i) ==
  LET r == queue[s][i]
  IN  /\ Ready(s, i)
      /\ IF worker[s] = "live"
         THEN /\ turn' = [turn EXCEPT ![r] = "running"]
              /\ inFlight' = [inFlight EXCEPT ![s] = TRUE]
              /\ idle' = [idle EXCEPT ![s] = 0]
              /\ UNCHANGED <<held, older, worker, life, next, reply>>
         ELSE /\ turn' = [turn EXCEPT ![r] = "over"]
              /\ inFlight' = [inFlight EXCEPT ![s] = FALSE]
              /\ Discard({s})
              /\ Settle(r, "ended", "failed")
      /\ UNCHANGED <<creations, queue>>

-----------------------------------------------------------------------------
(***************************************************************************)
(* runTurn up to its first await, in its five outcomes.  reset is the      *)
(* X-Codex-Proxy-Session-Reset header.                                     *)
(***************************************************************************)
AfterReset(r, reset) == IF reset THEN Reset(Unexpired, KeyOf[r]) ELSE Unexpired
BusyReset(r, reset) == reset /\ BusyMatching(Unexpired, KeyOf[r]) # {}

\* A slot for the key whose worker has died, though its turn has not ended.
Unhealthy(r, ss) == {s \in ss : KeyOf[s] = KeyOf[r] /\ worker[s] = "dead"}
Found(r, reset) == LET ss == AfterReset(r, reset) IN ss \ Unhealthy(r, ss)
Hits(r, ss) == {s \in ss : KeyOf[s] = KeyOf[r]}

Arrive(r, ss, how) ==
  /\ NoneReady
  /\ reply[r] = "none"
  /\ KeepOnly(ss)
  /\ reply' = [reply EXCEPT ![r] = how]
  /\ UNCHANGED inFlight

RefuseBusy(r, reset) ==
  LET ss == AfterReset(r, reset)
  IN  /\ BusyReset(r, reset)
      /\ Arrive(r, ss, "failed")
      /\ worker' = KilledDownTo(ss)
      /\ UNCHANGED <<creations, queue, turn, next>>

Hit(r, reset) ==
  LET ss == Found(r, reset)
  IN  /\ ~BusyReset(r, reset)
      /\ Arrive(r, ss, "open")
      /\ worker' = KilledDownTo(ss)
      /\ \E s \in Hits(r, ss) : Chain(s, <<r>>)
      /\ UNCHANGED creations

\* Fault: the creations map is not consulted, each miss creates a slot.
Join_Creates(r, reset) ==
  LET ss == Found(r, reset)
  IN  /\ ~BusyReset(r, reset) /\ Hits(r, ss) = {} /\ creations[KeyOf[r]] # <<>>
      /\ Cardinality(ss) < Max
      /\ Arrive(r, ss \cup {r}, "open")
      /\ worker' = [KilledDownTo(ss) EXCEPT ![r] = "live"]
      /\ Chain(r, <<r>>)
      /\ UNCHANGED creations

\* getOrCreateSlot: the key's slot is being created already.
Join(r, reset) ==
  LET ss == Found(r, reset)
  IN  /\ ~BusyReset(r, reset) /\ Hits(r, ss) = {} /\ creations[KeyOf[r]] # <<>>
      /\ Arrive(r, ss, "open")
      /\ worker' = KilledDownTo(ss)
      /\ creations' = [creations EXCEPT ![KeyOf[r]] = Append(@, r)]
      /\ UNCHANGED <<queue, turn, next>>

\* createSlot, up to worker.start.
Create(r, reset) ==
  LET found == Found(r, reset)
  IN  /\ ~BusyReset(r, reset) /\ Hits(r, found) = {} /\ creations[KeyOf[r]] = <<>>
      /\ \E gone \in LruEvictions(found) :
           LET ss == found \ gone
           IN  IF Cardinality(ss) >= Max
               THEN /\ Arrive(r, ss, "failed")
                    /\ worker' = KilledDownTo(ss)
                    /\ UNCHANGED creations
               ELSE /\ Arrive(r, ss, "open")
                    /\ worker' = [KilledDownTo(ss) EXCEPT ![r] = "starting"]
                    /\ creations' = [creations EXCEPT ![KeyOf[r]] = <<r>>]
      /\ UNCHANGED <<queue, turn, next>>

-----------------------------------------------------------------------------
(***************************************************************************)
(* The rest of a session's life.                                           *)
(***************************************************************************)
\* worker.start and worker.startThread have succeeded: the slot enters the map, and
\* those that awaited it are chained in the order in which they came.
CreateOk(k) ==
  LET s == Head(creations[k])
  IN  /\ NoneReady
      /\ creations[k] # <<>>
      /\ held' = held \cup {s}
      /\ older' = [older EXCEPT ![s] = held]
      /\ worker' = [worker EXCEPT ![s] = "live"]
      /\ creations' = [creations EXCEPT ![k] = <<>>]
      /\ Chain(s, creations[k])
      /\ UNCHANGED <<inFlight, idle, life, reply>>

\* Fault: only the request that created the slot is told.
CreateFail_Forgets(k) ==
  LET s == Head(creations[k])
  IN  /\ NoneReady
      /\ creations[k] # <<>>
      /\ creations' = [creations EXCEPT ![k] = <<>>]
      /\ worker' = [worker EXCEPT ![s] = "dead"]
      /\ reply' = [reply EXCEPT ![s] = IF @ = "open" THEN "failed" ELSE @]
      /\ UNCHANGED <<held, older, inFlight, idle, life, queue, turn, next>>

\* Either has failed: all who awaited the slot fail.
CreateFail(k) ==
  /\ NoneReady
  /\ creations[k] # <<>>
  /\ worker' = [worker EXCEPT ![Head(creations[k])] = "dead"]
  /\ creations' = [creations EXCEPT ![k] = <<>>]
  /\ reply' = [r \in Requests |-> IF r \in InSeq(creations[k]) /\ reply[r] = "open"
                                  THEN "failed" ELSE reply[r]]
  /\ UNCHANGED <<held, older, inFlight, idle, life, queue, turn, next>>

\* A turn ends with a result, which a dead worker cannot send.
TurnOk(s, r) ==
  /\ NoneReady
  /\ Chained(s, r) /\ turn[r] = "running" /\ worker[s] = "live"
  /\ turn' = [turn EXCEPT ![r] = "over"]
  /\ idle' = [idle EXCEPT ![s] = 0]
  /\ inFlight' = [inFlight EXCEPT ![s] = FALSE]
  /\ Settle(r, "ended", "answered")
  /\ UNCHANGED <<held, older, creations, worker, life, queue>>

\* Fault: a failed turn leaves its session in the map.
TurnFails_Keeps(s, r) ==
  /\ NoneReady
  /\ Chained(s, r) /\ turn[r] = "running"
  /\ turn' = [turn EXCEPT ![r] = "over"]
  /\ inFlight' = [inFlight EXCEPT ![s] = FALSE]
  /\ Settle(r, "ended", "failed")
  /\ UNCHANGED <<held, older, creations, worker, idle, life, queue>>

\* A turn fails, or times out, and takes its session with it.
TurnFails(s, r) ==
  /\ NoneReady
  /\ Chained(s, r) /\ turn[r] = "running"
  /\ turn' = [turn EXCEPT ![r] = "over"]
  /\ inFlight' = [inFlight EXCEPT ![s] = FALSE]
  /\ Discard({s})
  /\ Settle(r, "ended", "failed")
  /\ UNCHANGED <<creations, queue>>

\* The timer of withQueueTimeout, which runs from the chaining to the turn's end.
QueueTimeout(r) ==
  /\ NoneReady
  /\ next[r] = "pending"
  /\ Settle(r, "expired", "failed")
  /\ UNCHANGED <<held, older, creations, slots, turn>>

\* withAbort: the caller disconnects, and abortSession discards the slot that the
\* key has now.
ClientGone(r) ==
  /\ NoneReady
  /\ reply[r] = "open"
  /\ reply' = [reply EXCEPT ![r] = "closed"]
  /\ Discard({s \in held : KeyOf[s] = KeyOf[r]})
  /\ UNCHANGED <<creations, inFlight, queue, turn, next>>

\* The app-server process exits by itself.
WorkerDies(s) ==
  /\ NoneReady
  /\ worker[s] = "live"
  /\ worker' = [worker EXCEPT ![s] = "dead"]
  /\ UNCHANGED <<held, older, creations, inFlight, idle, life, queue, callers>>

Drain ==
  /\ NoneReady
  /\ held # {}
  /\ Discard(held)
  /\ UNCHANGED <<creations, inFlight, queue, callers>>

\* stickyStats, which the health route asks for, evicts what has expired.
StickyStats ==
  /\ NoneReady
  /\ Unexpired # held
  /\ Discard(held \ Unexpired)
  /\ UNCHANGED <<creations, inFlight, queue, callers>>

Tick ==
  /\ NoneReady
  /\ \E s \in held : (Idle(s) /\ idle[s] <= Ttl) \/ life[s] <= AbsoluteTtl
  /\ idle' = [s \in Requests |-> IF s \in held /\ Idle(s) THEN Min2(idle[s] + 1, Ttl + 1) ELSE idle[s]]
  /\ life' = [s \in Requests |-> IF s \in held THEN Min2(life[s] + 1, AbsoluteTtl + 1) ELSE life[s]]
  /\ UNCHANGED <<held, older, creations, worker, inFlight, queue, callers>>

-----------------------------------------------------------------------------
Init ==
  /\ held = {}
  /\ older = [s \in Requests |-> {}]
  /\ creations = [k \in Keys |-> <<>>]
  /\ worker = [s \in Requests |-> "none"]
  /\ inFlight = [s \in Requests |-> FALSE]
  /\ idle = [s \in Requests |-> 0]
  /\ life = [s \in Requests |-> 0]
  /\ queue = [s \in Requests |-> <<>>]
  /\ turn = [r \in Requests |-> "none"]
  /\ next = [r \in Requests |-> "none"]
  /\ reply = [r \in Requests |-> "none"]

RunTurn(r) ==
  \E reset \in BOOLEAN :
    RefuseBusy(r, reset) \/ Hit(r, reset) \/ Join(r, reset) \/ Create(r, reset)

CreationSettles(k) == CreateOk(k) \/ CreateFail(k)
Starts(s) == \E i \in DOMAIN queue[s] : StartTurn(s, i)
TurnEnds(s, r) == TurnOk(s, r) \/ TurnFails(s, r)

Next ==
  \/ \E r \in Requests : RunTurn(r) \/ QueueTimeout(r) \/ ClientGone(r)
  \/ \E k \in Keys : CreationSettles(k)
  \/ \E s \in Requests : Starts(s) \/ WorkerDies(s) \/ \E r \in Requests : TurnEnds(s, r)
  \/ Drain
  \/ StickyStats
  \/ Tick

Spec == Init /\ [][Next]_vars

Settles ==
  \/ \E k \in Keys : CreationSettles(k)
  \/ \E s \in Requests : Starts(s)
  \/ \E r \in Requests : QueueTimeout(r) \/ \E s \in Requests : TurnEnds(s, r)

\* Spawning and each request to the app-server have timeouts, so has a turn, and so
\* has the wait in a queue; settled promises' continuations always run.
Fairness == WF_vars(Settles)

FairSpec == Spec /\ Fairness

-----------------------------------------------------------------------------
(***************************************************************************)
(* Properties.                                                             *)
(***************************************************************************)
Running(s) == {r \in Requests : Chained(s, r) /\ turn[r] = "running"}
Using(s) == {r \in Requests : Chained(s, r) /\ turn[r] \in {"waiting", "running"}}
TimedOut(s) == \E r \in Requests : Chained(s, r) /\ next[r] = "expired"

\* A key has one thread: no two slots of the map have the same key, and no slot is
\* being created for a key that has one, whatever misses overlap.
OneSlotPerKey ==
  /\ \A s, t \in held : KeyOf[s] = KeyOf[t] => s = t
  /\ \A s \in held : creations[KeyOf[s]] = <<>>

\* No worker is lost: one that runs is in the map or still being started for one
\* that awaits it.
WorkersOwned ==
  \A s \in Requests :
    /\ worker[s] = "live" => s \in held
    /\ worker[s] = "starting" => creations[KeyOf[s]] # <<>> /\ Head(creations[KeyOf[s]]) = s

\* Whatever misses, resets and failures overlap, keys and workers match one to one.
SlotsAccounted == OneSlotPerKey /\ WorkersOwned

\* While no queue timeout has fired in a session its turns run one at a time, and
\* inFlight tells whether one does.
SerialUntilTimeout ==
  \A s \in Requests :
    ~TimedOut(s) => Cardinality(Running(s)) <= 1 /\ (inFlight[s] <=> Running(s) # {})

\* While no queue timeout has fired in a session, only its own caller's leaving, the
\* failure of a turn, the death of its worker or the drain evict it in use: expiry,
\* the least-recently-used rule and a reset spare it.
OwnEvent(s) ==
  \/ worker[s] = "dead" \/ Drain
  \/ \E r \in Requests : /\ KeyOf[r] = KeyOf[s]
                         /\ \/ reply'[r] = "closed" /\ reply[r] = "open"
                            \/ turn'[r] = "over" /\ turn[r] # "over"

EvictionSparesBusy ==
  [][\A s \in held :
       s \notin held' /\ Using(s) # {} /\ ~TimedOut(s) => OwnEvent(s)]_vars

\* A session one of whose turns has failed serves nobody else: no turn begins on its
\* thread from then on.
FailedOn(s) == \E r \in Requests : Chained(s, r) /\ turn[r] = "over" /\ reply[r] = "failed" /\ next[r] = "ended"

NoTurnAfterFailure ==
  [][\A s, r \in Requests :
       FailedOn(s) /\ Chained(s, r)' /\ turn'[r] = "running" => turn[r] = "running"]_vars

\* Every caller gets an answer or an error, or has gone, and no worker serves a turn for
\* ever: the turns of those that timed out or have gone end too.
EverythingEnds ==
  []<>(\A r \in Requests : reply[r] # "open" /\ turn[r] \in {"none", "over"})

(***************************************************************************)
(* What the documentation says and the code does not do.                   *)
(***************************************************************************)
\* upstream/README.md:136: concurrent requests for the same session are serialized.
Serialized == \A s \in Requests : Cardinality(Running(s)) <= 1

=============================================================================
