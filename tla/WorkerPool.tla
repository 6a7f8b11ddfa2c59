----------------------------- MODULE WorkerPool -----------------------------
(***************************************************************************)
(* CodexWorkerPool (upstream/src/subprocess/pool.ts): the bounded pool of  *)
(* codex app-server processes and the requests that lease them.            *)
(*                                                                         *)
(* Node runs one callback at a time, so everything between two awaits of   *)
(* acquire(), and all of release() and drain(), is one action.  The two    *)
(* awaits of acquire() (worker.start and waitForCapacity) are the places   *)
(* where other requests run.                                               *)
(*                                                                         *)
(* A request calls acquire() once, and a call creates at most one worker,  *)
(* so the worker a request's call creates bears the request's name: every  *)
(* worker is a fresh one, and its cwd, model and instructions are those of *)
(* KeyOf[w].  Time is the age of an idle slot, saturating past the TTL.    *)
(***************************************************************************)
EXTENDS Naturals, Sequences, FiniteSets

CONSTANTS
  Requests,    \* the calls of acquire(), each followed by one release()
  Prewarms,    \* those of them made by prewarm()
  Keys,        \* pool keys: buildPoolKey of model, cwd, instructions, overrides
  KeyOf,       \* the pool key of each request's options
  Max,         \* CODEX_PROXY_POOL_MAX, at least 1 (pool.ts:42)
  Ttl,         \* CODEX_PROXY_POOL_TTL_MS, at least 1 (pool.ts:43)
  NoWorker

ASSUME RequestsAssumption ==
  /\ Prewarms \subseteq Requests
  /\ KeyOf \in [Requests -> Keys]
  /\ NoWorker \notin Requests
ASSUME LimitsAssumption == Max \in Nat \ {0} /\ Ttl \in Nat \ {0}

VARIABLES
  idle,        \* the worker of each key's idle slot
  age,         \* how long ago the slot was stored (0 for an empty slot)
  leased,      \* the set of leased workers
  waiters,     \* the queue of calls inside waitForCapacity
  status,      \* each worker's process
  pc,          \* where each request's call is
  lease,       \* the worker a request holds
  drained      \* drain() has run

vars == <<idle, age, leased, waiters, status, pc, lease, drained>>

Places == {"new", "starting", "waiting", "woken", "leased", "done", "failed"}
Statuses == {"none", "starting", "up", "dead"}

TypeOK ==
  /\ idle \in [Keys -> Requests \cup {NoWorker}]
  /\ age \in [Keys -> 0 .. Ttl + 1]
  /\ leased \subseteq Requests
  /\ waiters \in Seq(Requests)
  /\ status \in [Requests -> Statuses]
  /\ pc \in [Requests -> Places]
  /\ lease \in [Requests -> Requests \cup {NoWorker}]
  /\ drained \in BOOLEAN

-----------------------------------------------------------------------------
(***************************************************************************)
(* The idle map.                                                           *)
(***************************************************************************)
IdleKeys == {k \in Keys : idle[k] # NoWorker}

\* Fault: the death of an idle process is not noticed.
Expired_AgeOnly == {k \in IdleKeys : age[k] > Ttl}

\* evictExpired: past its TTL, or its process has gone (isDead).
Expired == {k \in IdleKeys : age[k] > Ttl \/ status[idle[k]] = "dead"}
Fresh == IdleKeys \ Expired

WorkersAt(K) == {idle[k] : k \in K}

\* The slots that n calls of evictOneLru take from slots K whose ages are a:
\* no slot left is older.  Slots of one age (one millisecond) go in any order.
Oldest(K, a, n) ==
  {E \in SUBSET K :
     /\ Cardinality(E) = n
     /\ \A e \in E, k \in K \ E : a[e] >= a[k]}

Excess(total, limit) == IF total > limit THEN total - limit ELSE 0

\* Delete slots K from the map.
Unstore(K) ==
  /\ idle' = [k \in Keys |-> IF k \in K THEN NoWorker ELSE idle[k]]
  /\ age' = [k \in Keys |-> IF k \in K THEN 0 ELSE age[k]]

\* kill() marks a worker dead at once, whatever its process still does.
Killed(W) == [w \in Requests |-> IF w \in W THEN "dead" ELSE status[w]]

\* notifyWaiter after request r has ended: the first waiter's promise resolves.
EndAndNotify(r) ==
  IF waiters = <<>>
  THEN /\ pc' = [pc EXCEPT ![r] = "done"]
       /\ UNCHANGED waiters
  ELSE /\ pc' = [pc EXCEPT ![r] = "done", ![Head(waiters)] = "woken"]
       /\ waiters' = Tail(waiters)

-----------------------------------------------------------------------------
(***************************************************************************)
(* acquire(): one pass of its loop, up to a return or an await.  A call    *)
(* enters the loop when it is made and again when its waiter is resolved.  *)
(***************************************************************************)
\* prewarm() calls acquire() only for a key with no idle slot.
Entering(r) ==
  \/ pc[r] = "woken"
  \/ pc[r] = "new" /\ (r \in Prewarms => KeyOf[r] \notin IdleKeys)

\* Fault: the slot is leased without being looked at.
AcquireWarm_Unchecked(r) ==
  LET w == idle[KeyOf[r]] IN
  /\ Entering(r)
  /\ Unstore(Expired \cup {KeyOf[r]})
  /\ status' = Killed(WorkersAt(Expired))
  /\ leased' = leased \cup {w}
  /\ lease' = [lease EXCEPT ![r] = w]
  /\ pc' = [pc EXCEPT ![r] = "leased"]
  /\ UNCHANGED <<waiters, drained>>

\* Fault: idle.delete(key) is forgotten.
AcquireWarm_KeepsSlot(r) ==
  LET w == idle[KeyOf[r]] IN
  /\ Entering(r)
  /\ KeyOf[r] \in Fresh
  /\ Unstore(Expired)
  /\ status' = Killed(WorkersAt(Expired))
  /\ leased' = leased \cup {w}
  /\ lease' = [lease EXCEPT ![r] = w]
  /\ pc' = [pc EXCEPT ![r] = "leased"]
  /\ UNCHANGED <<waiters, drained>>

\* A fresh slot of the request's key is leased.  (evictExpired has just removed
\* every dead slot, so the stale_cached branch of the loop is never taken.)
AcquireWarm(r) ==
  LET w == idle[KeyOf[r]] IN
  /\ Entering(r)
  /\ KeyOf[r] \in Fresh
  /\ Unstore(Expired \cup {KeyOf[r]})
  /\ status' = Killed(WorkersAt(Expired))
  /\ leased' = leased \cup {w}
  /\ lease' = [lease EXCEPT ![r] = w]
  /\ pc' = [pc EXCEPT ![r] = "leased"]
  /\ UNCHANGED <<waiters, drained>>

\* Every live worker is leased (the idle ones were evicted to make room).
AcquireWait(r) ==
  /\ Entering(r)
  /\ KeyOf[r] \notin Fresh
  /\ Cardinality(leased) >= Max
  /\ Unstore(IdleKeys)
  /\ status' = Killed(WorkersAt(IdleKeys))
  /\ waiters' = Append(waiters, r)
  /\ pc' = [pc EXCEPT ![r] = "waiting"]
  /\ UNCHANGED <<leased, lease, drained>>

\* Least recently used slots are evicted until there is room, and a worker is
\* created and started.  It is in neither idle nor leased until it has started.
AcquireCold(r) ==
  /\ Entering(r)
  /\ KeyOf[r] \notin Fresh
  /\ Cardinality(leased) < Max
  /\ \E E \in Oldest(Fresh, age,
                     Excess(Cardinality(Fresh) + Cardinality(leased) + 1, Max)) :
       /\ Unstore(Expired \cup E)
       /\ status' = [Killed(WorkersAt(Expired \cup E)) EXCEPT ![r] = "starting"]
  /\ pc' = [pc EXCEPT ![r] = "starting"]
  /\ UNCHANGED <<leased, waiters, lease, drained>>

\* The awaited worker.start resolves.
StartOk(r) ==
  /\ pc[r] = "starting"
  /\ status' = [status EXCEPT ![r] = "up"]
  /\ leased' = leased \cup {r}
  /\ lease' = [lease EXCEPT ![r] = r]
  /\ pc' = [pc EXCEPT ![r] = "leased"]
  /\ UNCHANGED <<idle, age, waiters, drained>>

\* worker.start rejects (spawn error, exit, init timeout): acquire() throws.
StartFail(r) ==
  /\ pc[r] = "starting"
  /\ status' = [status EXCEPT ![r] = "dead"]
  /\ pc' = [pc EXCEPT ![r] = "failed"]
  /\ UNCHANGED <<idle, age, leased, waiters, lease, drained>>

\* prewarm() skips a key that already has an idle slot.
PrewarmSkip(r) ==
  /\ r \in Prewarms /\ pc[r] = "new"
  /\ KeyOf[r] \in IdleKeys
  /\ pc' = [pc EXCEPT ![r] = "done"]
  /\ UNCHANGED <<idle, age, leased, waiters, status, lease, drained>>

-----------------------------------------------------------------------------
(***************************************************************************)
(* release().                                                              *)
(***************************************************************************)
\* Fault: no waiter is notified.
ReleaseKill_Silent(r) ==
  /\ pc[r] = "leased"
  /\ r \in Prewarms => status[lease[r]] = "dead"
  /\ leased' = leased \ {lease[r]}
  /\ status' = Killed({lease[r]})
  /\ lease' = [lease EXCEPT ![r] = NoWorker]
  /\ pc' = [pc EXCEPT ![r] = "done"]
  /\ UNCHANGED <<idle, age, waiters, drained>>

\* Fault: the killed worker stays in the leased set.
ReleaseKill_KeepsLeased(r) ==
  /\ pc[r] = "leased"
  /\ r \in Prewarms => status[lease[r]] = "dead"
  /\ status' = Killed({lease[r]})
  /\ lease' = [lease EXCEPT ![r] = NoWorker]
  /\ EndAndNotify(r)
  /\ UNCHANGED <<idle, age, leased, drained>>

\* The turn failed, was aborted, or its worker has died: the worker is killed.
\* prewarm() always releases as healthy.
ReleaseKill(r) ==
  /\ pc[r] = "leased"
  /\ r \in Prewarms => status[lease[r]] = "dead"
  /\ leased' = leased \ {lease[r]}
  /\ status' = Killed({lease[r]})
  /\ lease' = [lease EXCEPT ![r] = NoWorker]
  /\ EndAndNotify(r)
  /\ UNCHANGED <<idle, age, drained>>

\* The worker goes into its key's slot, over any worker already there, and
\* enforceMaxIdle evicts what exceeds Max.
ReleaseStore(r) ==
  LET k == KeyOf[r]
      slots == IdleKeys \cup {k}
      workers == [idle EXCEPT ![k] = lease[r]]
      ages == [age EXCEPT ![k] = 0] IN
  /\ pc[r] = "leased"
  /\ status[lease[r]] # "dead"
  /\ leased' = leased \ {lease[r]}
  /\ \E E \in Oldest(slots, ages, Excess(Cardinality(slots), Max)) :
       /\ idle' = [j \in Keys |-> IF j \in E THEN NoWorker ELSE workers[j]]
       /\ age' = [j \in Keys |-> IF j \in E THEN 0 ELSE ages[j]]
       /\ status' = Killed({workers[j] : j \in E})
  /\ lease' = [lease EXCEPT ![r] = NoWorker]
  /\ EndAndNotify(r)
  /\ UNCHANGED drained

\* drain(), at shutdown: kills what is idle or leased and resolves every waiter.
Drain ==
  /\ ~drained
  /\ drained' = TRUE
  /\ status' = Killed(WorkersAt(IdleKeys) \cup leased)
  /\ Unstore(Keys)
  /\ leased' = {}
  /\ waiters' = <<>>
  /\ pc' = [r \in Requests |-> IF pc[r] = "waiting" THEN "woken" ELSE pc[r]]
  /\ UNCHANGED lease

(***************************************************************************)
(* The environment: a started process exits, or is killed by its lease's   *)
(* abort handler or turn timeout; time passes.                             *)
(***************************************************************************)
WorkerDies(w) ==
  /\ status[w] = "up"
  /\ status' = [status EXCEPT ![w] = "dead"]
  /\ UNCHANGED <<idle, age, leased, waiters, pc, lease, drained>>

Tick ==
  /\ \E k \in IdleKeys : age[k] <= Ttl
  /\ age' = [k \in Keys |-> IF k \in IdleKeys /\ age[k] <= Ttl THEN age[k] + 1 ELSE age[k]]
  /\ UNCHANGED <<idle, leased, waiters, status, pc, lease, drained>>

-----------------------------------------------------------------------------
Init ==
  /\ idle = [k \in Keys |-> NoWorker]
  /\ age = [k \in Keys |-> 0]
  /\ leased = {}
  /\ waiters = <<>>
  /\ status = [w \in Requests |-> "none"]
  /\ pc = [r \in Requests |-> "new"]
  /\ lease = [r \in Requests |-> NoWorker]
  /\ drained = FALSE

Next ==
  \/ \E r \in Requests :
       \/ AcquireWarm(r) \/ AcquireWait(r) \/ AcquireCold(r)
       \/ StartOk(r) \/ StartFail(r) \/ PrewarmSkip(r)
       \/ ReleaseKill(r) \/ ReleaseStore(r)
       \/ WorkerDies(r)
  \/ Drain
  \/ Tick

Spec == Init /\ [][Next]_vars

\* A resolved waiter is resumed (a microtask); start() settles within the init
\* timeout; a turn settles within the turn timeout, and then it is released.
Resume(r) == pc[r] = "woken" /\ (AcquireWarm(r) \/ AcquireWait(r) \/ AcquireCold(r))
Fairness ==
  WF_vars(\E r \in Requests :
            Resume(r) \/ StartOk(r) \/ StartFail(r) \/ ReleaseKill(r) \/ ReleaseStore(r))

FairSpec == Spec /\ Fairness

-----------------------------------------------------------------------------
(***************************************************************************)
(* Properties.                                                             *)
(***************************************************************************)
Holding(r) == pc[r] = "leased"
In(place) == {r \in Requests : pc[r] = place}

\* Two requests never run turns on one worker: its JSON-RPC stream and its
\* notification handlers serve one turn at a time (routes.ts:640-657).
LeasesDisjoint ==
  \A r, s \in Requests :
    Holding(r) /\ Holding(s) /\ r # s => lease[r] # lease[s]

\* No slot of the idle map offers a worker that a request still holds, and no
\* two slots offer the same worker (pool.ts:53-58, 99-113).
IdleUnheld ==
  \A k \in IdleKeys :
    /\ \A r \in Requests : Holding(r) => lease[r] # idle[k]
    /\ \A j \in IdleKeys : j # k => idle[j] # idle[k]

\* A worker is in one place at a time, however acquires, releases, deaths and drains
\* interleave: with one lease holder, in one slot, or in neither (pool.ts:48-117).
Exclusive == LeasesDisjoint /\ IdleUnheld

\* A lease's worker was started with the model, cwd, instructions and overrides
\* the request asked for, however often it has been reused (pool.ts:49-61).
LeaseMatchesKey ==
  \A r \in Requests : Holding(r) => KeyOf[lease[r]] = KeyOf[r]

\* However its worker went from hand to hand, a lease is of a worker of its own that was
\* started for what the request asks (pool.ts:48-117).
LeasesSound == Exclusive /\ LeaseMatchesKey

\* The leased set counts exactly the workers that requests hold, until drain()
\* empties it: an entry left behind would cost capacity for good, a missing
\* one would let the pool grow (pool.ts:58, 89, 99, 143).
LeasedExact ==
  LET held == {lease[r] : r \in In("leased")} IN
  IF drained THEN leased \subseteq held ELSE leased = held

\* enforceMaxIdle and the eviction loop keep the idle map within Max even after
\* concurrent cold starts have leased more than Max workers (pool.ts:165-169).
IdleBounded == Cardinality(IdleKeys) <= Max

\* While calls wait for capacity, every unit of capacity is in use or already
\* promised: leased, starting, or held by a waiter that has been resolved but has
\* not run yet.  Only a failed cold start, which notifies nobody (pool.ts:84-88),
\* loses one.
CapacityAccounted ==
  waiters # <<>> =>
    Cardinality(leased) + Cardinality(In("starting")) + Cardinality(In("woken"))
      + Cardinality(In("failed")) >= Max

\* A lease is handed out with its process up, and a warm one comes from a slot
\* within its TTL (pool.ts:52-61, 83-93).
HandedOutFresh ==
  [][\A r \in Requests :
       ~Holding(r) /\ Holding(r)' =>
         /\ status'[lease'[r]] = "up"
         /\ lease'[r] # r => \E k \in Keys : idle[k] = lease'[r] /\ age[k] <= Ttl]_vars

\* If no cold start fails, the queue empties: every call that waits for capacity is served
\* (pool.ts:76-77, 104, 116).
WaitersServed ==
  [](In("failed") = {}) => []<>(In("waiting") = {})

-----------------------------------------------------------------------------
(***************************************************************************)
(* The inductive invariant behind the lease properties.                    *)
(***************************************************************************)
\* A call that has not reached createWorker has no worker yet; one that awaits
\* start() has a worker nobody else can refer to.
WorkersFresh ==
  \A r \in Requests :
    /\ pc[r] \in {"new", "waiting", "woken"} => status[r] = "none"
    /\ pc[r] = "starting" => status[r] = "starting"

\* What is stored or held has been started.
WorkersStarted ==
  /\ \A k \in IdleKeys : status[idle[k]] \in {"up", "dead"}
  /\ \A r \in Requests :
       IF Holding(r)
       THEN lease[r] \in Requests /\ status[lease[r]] \in {"up", "dead"}
       ELSE lease[r] = NoWorker

\* The queue holds exactly the calls inside waitForCapacity, each once: a waiter
\* is never resolved twice and never dropped (pool.ts:193-209).
WaitersExact ==
  /\ In("waiting") = {waiters[i] : i \in 1 .. Len(waiters)}
  /\ \A i, j \in 1 .. Len(waiters) : waiters[i] = waiters[j] => i = j

\* An idle slot's worker was started for the slot's key.
SlotsMatchKey == \A k \in IdleKeys : KeyOf[idle[k]] = k

IInv ==
  /\ TypeOK
  /\ WorkersFresh
  /\ WorkersStarted
  /\ WaitersExact
  /\ LeasesDisjoint
  /\ IdleUnheld
  /\ SlotsMatchKey
  /\ LeaseMatchesKey
  /\ LeasedExact

(***************************************************************************)
(* What the documentation says and the code does not do.                   *)
(***************************************************************************)
\* upstream/README.md:99: CODEX_PROXY_POOL_TTL_MS is the "idle worker TTL": so
\* every running worker no request holds is in the idle map, where the TTL finds
\* it.  release() overwrites the slot of a same-key worker (pool.ts:109).
UnheldWorkersAreIdle ==
  \A w \in Requests :
    status[w] = "up" => w \in leased \/ w \in WorkersAt(IdleKeys)

\* upstream/src/__tests__/pool.test.ts:115: a call over the limit proceeds "by
\* waiting for a release": somebody is left who will release.
SomebodyWillRelease ==
  waiters # <<>> =>
    \E r \in Requests : pc[r] \in {"leased", "starting", "woken"}

=============================================================================
