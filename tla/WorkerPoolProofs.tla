-------------------------- MODULE WorkerPoolProofs --------------------------
(***************************************************************************)
(* Proofs about WorkerPool, for every set of requests and keys and every   *)
(* limit: the types, the exclusivity of leases, and the freshness of what  *)
(* acquire() hands out.  IInv is inductive; each action has its lemma.     *)
(***************************************************************************)
EXTENDS WorkerPool, FiniteSetTheorems, TLAPS

\* The initial states satisfy the inductive invariant.
LEMMA InitInv == Init => IInv
<1> SUFFICES ASSUME Init PROVE IInv
  OBVIOUS
<1>1. TypeOK
  <2>1. age \in [Keys -> 0 .. Ttl + 1]
    BY LimitsAssumption DEF Init
  <2>2. waiters \in Seq(Requests)
    BY DEF Init
  <2> QED BY <2>1, <2>2 DEF Init, TypeOK, Places, Statuses
<1>2. WorkersFresh /\ WorkersStarted /\ WaitersExact
  BY DEF Init, WorkersFresh, WorkersStarted, WaitersExact, IdleKeys, Holding, In
<1>3. LeasesDisjoint /\ IdleUnheld /\ SlotsMatchKey /\ LeaseMatchesKey /\ LeasedExact
  BY DEF Init, LeasesDisjoint, IdleUnheld, SlotsMatchKey, LeaseMatchesKey,
         LeasedExact, IdleKeys, Holding, In
<1> QED BY <1>1, <1>2, <1>3 DEF IInv

\* Killing workers keeps the status function typed, and touches only them.
LEMMA KilledStatus ==
  ASSUME TypeOK, NEW W
  PROVE  /\ Killed(W) \in [Requests -> Statuses]
         /\ \A w \in Requests : Killed(W)[w] = IF w \in W THEN "dead" ELSE status[w]
BY DEF TypeOK, Killed, Statuses

\* Removing slots leaves a typed map whose other slots are as they were.
LEMMA UnstoreSlots ==
  ASSUME TypeOK, NEW K, Unstore(K)
  PROVE  /\ idle' \in [Keys -> Requests \cup {NoWorker}]
         /\ age' \in [Keys -> 0 .. Ttl + 1]
         /\ IdleKeys' = IdleKeys \ K
         /\ \A k \in IdleKeys' : k \in IdleKeys /\ idle'[k] = idle[k]
<1>1. /\ idle' \in [Keys -> Requests \cup {NoWorker}]
      /\ age' \in [Keys -> 0 .. Ttl + 1]
  BY LimitsAssumption DEF Unstore, TypeOK
<1>2. IdleKeys' = IdleKeys \ K
  BY DEF Unstore, IdleKeys
<1>3. \A k \in IdleKeys' : k \in IdleKeys /\ idle'[k] = idle[k]
  BY <1>2 DEF Unstore, IdleKeys
<1> QED BY <1>1, <1>2, <1>3

\* An idle slot holds a worker of the pool that has been started.
LEMMA IdleWorkers ==
  ASSUME IInv, NEW k \in IdleKeys
  PROVE  idle[k] \in Requests /\ status[idle[k]] \in {"up", "dead"}
BY DEF IInv, TypeOK, WorkersStarted, IdleKeys

\* A warm hit moves a worker from one slot to one lease, and to nothing else.
LEMMA AcquireWarmInv ==
  ASSUME IInv, NEW r \in Requests, AcquireWarm(r)
  PROVE  IInv'
<1> DEFINE k == KeyOf[r]
           w == idle[k]
<1>1. TypeOK
  BY DEF IInv
<1>2. k \in IdleKeys /\ k \in Keys /\ k \notin Expired
  BY RequestsAssumption DEF AcquireWarm, Fresh, IdleKeys
<1>3. w \in Requests /\ status[w] = "up"
  BY <1>2, IdleWorkers DEF Expired
<1>4. /\ pc[r] \in {"new", "woken"}
      /\ pc' = [pc EXCEPT ![r] = "leased"]
      /\ lease' = [lease EXCEPT ![r] = w]
      /\ leased' = leased \cup {w}
      /\ waiters' = waiters /\ drained' = drained
  BY DEF AcquireWarm, Entering
<1>5. /\ idle' \in [Keys -> Requests \cup {NoWorker}]
      /\ age' \in [Keys -> 0 .. Ttl + 1]
      /\ IdleKeys' = IdleKeys \ (Expired \cup {k})
      /\ \A j \in IdleKeys' : j \in IdleKeys /\ idle'[j] = idle[j]
  BY <1>1, UnstoreSlots DEF AcquireWarm
<1>6. /\ status' \in [Requests -> Statuses]
      /\ \A v \in Requests :
           status'[v] = IF v \in WorkersAt(Expired) THEN "dead" ELSE status[v]
  BY <1>1, KilledStatus DEF AcquireWarm
<1>7. \A v \in WorkersAt(Expired) : v \in Requests /\ status[v] \in {"up", "dead"}
  BY IdleWorkers DEF WorkersAt, Expired
<1>8. TypeOK'
  BY <1>1, <1>3, <1>4, <1>5, <1>6 DEF TypeOK, Places
<1>9. WorkersFresh'
  BY <1>1, <1>4, <1>6, <1>7 DEF IInv, WorkersFresh, TypeOK
<1>10. WorkersStarted'
  <2>1. \A j \in IdleKeys' : status'[idle'[j]] \in {"up", "dead"}
    BY <1>5, <1>6, IdleWorkers
  <2>2. \A s \in Requests :
          IF Holding(s)'
          THEN lease'[s] \in Requests /\ status'[lease'[s]] \in {"up", "dead"}
          ELSE lease'[s] = NoWorker
    BY <1>1, <1>3, <1>4, <1>6 DEF IInv, WorkersStarted, Holding, TypeOK
  <2> QED BY <2>1, <2>2 DEF WorkersStarted
<1>11. WaitersExact'
  BY <1>1, <1>4 DEF IInv, WaitersExact, In, TypeOK
<1>12. \A s \in Requests : Holding(s) => lease[s] # w
  BY <1>2 DEF IInv, IdleUnheld
<1>13. LeasesDisjoint'
  BY <1>1, <1>4, <1>12 DEF IInv, LeasesDisjoint, Holding, TypeOK
<1>14. IdleUnheld'
  BY <1>1, <1>2, <1>4, <1>5 DEF IInv, IdleUnheld, Holding, TypeOK
<1>15. SlotsMatchKey' /\ LeaseMatchesKey'
  BY <1>1, <1>2, <1>4, <1>5 DEF IInv, SlotsMatchKey, LeaseMatchesKey, Holding, TypeOK
<1>16. LeasedExact'
  BY <1>1, <1>4 DEF IInv, LeasedExact, In, TypeOK
<1> QED
  BY <1>8, <1>9, <1>10, <1>11, <1>13, <1>14, <1>15, <1>16 DEF IInv

\* A call that must wait enters the queue once, and every idle slot is gone.
LEMMA AcquireWaitInv ==
  ASSUME IInv, NEW r \in Requests, AcquireWait(r)
  PROVE  IInv'
<1>1. TypeOK
  BY DEF IInv
<1>2. /\ pc[r] \in {"new", "woken"}
      /\ pc' = [pc EXCEPT ![r] = "waiting"]
      /\ waiters' = Append(waiters, r)
      /\ lease' = lease /\ leased' = leased /\ drained' = drained
  BY DEF AcquireWait, Entering
<1>3. /\ idle' \in [Keys -> Requests \cup {NoWorker}]
      /\ age' \in [Keys -> 0 .. Ttl + 1]
      /\ IdleKeys' = {}
  BY <1>1, UnstoreSlots DEF AcquireWait
<1>4. /\ status' \in [Requests -> Statuses]
      /\ \A v \in Requests :
           status'[v] = IF v \in WorkersAt(IdleKeys) THEN "dead" ELSE status[v]
  BY <1>1, KilledStatus DEF AcquireWait
<1>5. \A v \in WorkersAt(IdleKeys) : v \in Requests /\ status[v] \in {"up", "dead"}
  BY IdleWorkers DEF WorkersAt
<1>6. /\ waiters' \in Seq(Requests)
      /\ Len(waiters') = Len(waiters) + 1
      /\ \A i \in 1 .. Len(waiters') :
           waiters'[i] = IF i = Len(waiters) + 1 THEN r ELSE waiters[i]
  BY <1>1, <1>2 DEF TypeOK
<1>7. TypeOK'
  BY <1>1, <1>2, <1>3, <1>4, <1>6 DEF TypeOK, Places
<1>8. WorkersFresh'
  BY <1>1, <1>2, <1>4, <1>5 DEF IInv, WorkersFresh, TypeOK
<1>9. WorkersStarted'
  BY <1>1, <1>2, <1>3, <1>4 DEF IInv, WorkersStarted, Holding, TypeOK
<1>10. WaitersExact'
  <2>1. Len(waiters) \in Nat /\ r \notin In("waiting")
    BY <1>1, <1>2 DEF TypeOK, In
  <2>2. In("waiting")' = In("waiting") \cup {r}
    BY <1>1, <1>2 DEF TypeOK, In
  <2>3. In("waiting") = {waiters[i] : i \in 1 .. Len(waiters)}
    BY DEF IInv, WaitersExact
  <2>4. {waiters'[i] : i \in 1 .. Len(waiters')} = {waiters[i] : i \in 1 .. Len(waiters)} \cup {r}
    <3>1. ASSUME NEW i \in 1 .. Len(waiters')
          PROVE  waiters'[i] \in {waiters[j] : j \in 1 .. Len(waiters)} \cup {r}
      <4>1. CASE i = Len(waiters) + 1
        BY <4>1, <1>6
      <4>2. CASE i # Len(waiters) + 1
        <5>1. i \in 1 .. Len(waiters)
          BY <4>2, <2>1, <1>6
        <5> QED BY <5>1, <4>2, <1>6
      <4> QED BY <4>1, <4>2
    <3>2. ASSUME NEW i \in 1 .. Len(waiters)
          PROVE  waiters[i] \in {waiters'[j] : j \in 1 .. Len(waiters')}
      <4>1. i \in 1 .. Len(waiters') /\ i # Len(waiters) + 1
        BY <2>1, <1>6
      <4> QED BY <4>1, <1>6
    <3>3. r \in {waiters'[j] : j \in 1 .. Len(waiters')}
      BY <2>1, <1>6
    <3> QED BY <3>1, <3>2, <3>3
  <2>5. ASSUME NEW i \in 1 .. Len(waiters'), NEW j \in 1 .. Len(waiters'),
               waiters'[i] = waiters'[j]
        PROVE  i = j
    <3>1. \A m \in 1 .. Len(waiters) : waiters[m] # r
      BY <2>1, <2>3
    <3>2. \A m, n \in 1 .. Len(waiters) : waiters[m] = waiters[n] => m = n
      BY DEF IInv, WaitersExact
    <3> QED BY <3>1, <3>2, <2>1, <2>5, <1>6
  <2> QED BY <2>2, <2>3, <2>4, <2>5 DEF WaitersExact
<1>11. LeasesDisjoint' /\ LeaseMatchesKey' /\ LeasedExact'
  BY <1>1, <1>2 DEF IInv, LeasesDisjoint, LeaseMatchesKey, LeasedExact, Holding, In, TypeOK
<1>12. IdleUnheld' /\ SlotsMatchKey'
  BY <1>3 DEF IdleUnheld, SlotsMatchKey
<1> QED
  BY <1>7, <1>8, <1>9, <1>10, <1>11, <1>12 DEF IInv

\* A cold start creates a worker nobody refers to, and evicts idle ones only.
LEMMA AcquireColdInv ==
  ASSUME IInv, NEW r \in Requests, AcquireCold(r)
  PROVE  IInv'
<1>1. TypeOK
  BY DEF IInv
<1>2. /\ pc[r] \in {"new", "woken"}
      /\ pc' = [pc EXCEPT ![r] = "starting"]
      /\ waiters' = waiters /\ lease' = lease /\ leased' = leased /\ drained' = drained
  BY DEF AcquireCold, Entering
<1>3. PICK E \in SUBSET Fresh :
        /\ Unstore(Expired \cup E)
        /\ status' = [Killed(WorkersAt(Expired \cup E)) EXCEPT ![r] = "starting"]
  BY DEF AcquireCold, Oldest
<1> DEFINE K == Expired \cup E
<1>4. /\ idle' \in [Keys -> Requests \cup {NoWorker}]
      /\ age' \in [Keys -> 0 .. Ttl + 1]
      /\ \A k \in IdleKeys' : k \in IdleKeys /\ idle'[k] = idle[k]
  BY <1>1, <1>3, UnstoreSlots
<1>5. K \subseteq IdleKeys
  BY DEF Expired, Fresh
<1>6. \A v \in WorkersAt(K) : v \in Requests /\ status[v] \in {"up", "dead"}
  BY <1>5, IdleWorkers DEF WorkersAt
<1>7. /\ status' \in [Requests -> Statuses]
      /\ status'[r] = "starting"
      /\ \A v \in Requests \ {r} :
           status'[v] = IF v \in WorkersAt(K) THEN "dead" ELSE status[v]
  <2>1. /\ Killed(WorkersAt(K)) \in [Requests -> Statuses]
        /\ \A v \in Requests :
             Killed(WorkersAt(K))[v] = IF v \in WorkersAt(K) THEN "dead" ELSE status[v]
    BY <1>1, KilledStatus
  <2> HIDE DEF K
  <2>2. status' = [Killed(WorkersAt(K)) EXCEPT ![r] = "starting"]
    BY <1>3 DEF K
  <2> QED BY <2>1, <2>2 DEF Statuses
<1>8. status[r] = "none"
  BY <1>2 DEF IInv, WorkersFresh
<1>9. TypeOK'
  BY <1>1, <1>2, <1>4, <1>7 DEF TypeOK, Places
<1>10. WorkersFresh'
  BY <1>1, <1>2, <1>6, <1>7 DEF IInv, WorkersFresh, TypeOK
<1>11. WorkersStarted'
  <2>1. ASSUME NEW k \in IdleKeys'
        PROVE  status'[idle'[k]] \in {"up", "dead"}
    <3>1. k \in IdleKeys /\ idle'[k] = idle[k]
      BY <1>4
    <3>2. idle[k] \in Requests /\ status[idle[k]] \in {"up", "dead"}
      BY <3>1, IdleWorkers
    <3> QED BY <3>1, <3>2, <1>7, <1>8
  <2>2. \A s \in Requests :
          IF Holding(s)'
          THEN lease'[s] \in Requests /\ status'[lease'[s]] \in {"up", "dead"}
          ELSE lease'[s] = NoWorker
    BY <1>1, <1>2, <1>7, <1>8 DEF IInv, WorkersStarted, Holding, TypeOK
  <2> QED BY <2>1, <2>2 DEF WorkersStarted
<1>12. WaitersExact'
  BY <1>1, <1>2 DEF IInv, WaitersExact, In, TypeOK
<1>13. LeasesDisjoint' /\ LeaseMatchesKey' /\ LeasedExact'
  BY <1>1, <1>2 DEF IInv, LeasesDisjoint, LeaseMatchesKey, LeasedExact, Holding, In, TypeOK
<1>14. IdleUnheld' /\ SlotsMatchKey'
  BY <1>1, <1>2, <1>4 DEF IInv, IdleUnheld, SlotsMatchKey, Holding, TypeOK
<1> QED
  BY <1>9, <1>10, <1>11, <1>12, <1>13, <1>14 DEF IInv

\* release() ends its own request and moves at most one other, from waiting to
\* woken; the queue stays exact.
LEMMA NotifyEffect ==
  ASSUME IInv, NEW r \in Requests, Holding(r), EndAndNotify(r)
  PROVE  /\ pc' \in [Requests -> Places]
         /\ pc'[r] = "done"
         /\ \A s \in Requests \ {r} :
              pc'[s] = pc[s] \/ (pc[s] = "waiting" /\ pc'[s] = "woken")
         /\ waiters' \in Seq(Requests)
         /\ WaitersExact'
<1>1. TypeOK /\ pc[r] = "leased"
  BY DEF IInv, Holding
<1>2. CASE waiters = <<>>
  <2>1. pc' = [pc EXCEPT ![r] = "done"] /\ waiters' = waiters
    BY <1>2 DEF EndAndNotify
  <2>2. pc' \in [Requests -> Places] /\ pc'[r] = "done"
    BY <1>1, <2>1 DEF TypeOK, Places
  <2>3. \A s \in Requests \ {r} : pc'[s] = pc[s]
    BY <1>1, <2>1 DEF TypeOK
  <2>4. WaitersExact'
    BY <1>1, <2>1, <2>2 DEF IInv, WaitersExact, In, TypeOK
  <2> QED BY <1>1, <2>1, <2>2, <2>3, <2>4 DEF TypeOK
<1>3. CASE waiters # <<>>
  <2> DEFINE h == Head(waiters)
  <2>1. pc' = [pc EXCEPT ![r] = "done", ![h] = "woken"] /\ waiters' = Tail(waiters)
    BY <1>3 DEF EndAndNotify
  <2>2. /\ Len(waiters) \in Nat \ {0}
        /\ h = waiters[1]
        /\ waiters' \in Seq(Requests)
        /\ Len(waiters') = Len(waiters) - 1
        /\ \A i \in 1 .. Len(waiters') : waiters'[i] = waiters[i + 1]
    BY <1>1, <1>3, <2>1 DEF TypeOK
  <2> HIDE DEF h
  <2>3. h \in In("waiting")
    BY <2>2 DEF IInv, WaitersExact
  <2>4. h \in Requests /\ pc[h] = "waiting" /\ h # r
    BY <1>1, <2>3 DEF In
  <2>5. pc' \in [Requests -> Places] /\ pc'[r] = "done" /\ pc'[h] = "woken"
    BY <1>1, <2>1, <2>4 DEF TypeOK, Places
  <2>6. \A s \in Requests \ {r, h} : pc'[s] = pc[s]
    BY <1>1, <2>1, <2>4 DEF TypeOK
  <2>7. In("waiting")' = In("waiting") \ {h}
    BY <1>1, <2>4, <2>5, <2>6 DEF In
  <2>8. {waiters'[i] : i \in 1 .. Len(waiters')} = In("waiting") \ {h}
    <3>1. ASSUME NEW i \in 1 .. Len(waiters')
          PROVE  waiters'[i] \in In("waiting") \ {h}
      <4>1. i + 1 \in 1 .. Len(waiters) /\ i + 1 # 1 /\ 1 \in 1 .. Len(waiters)
        BY <2>2
      <4>2. waiters[i + 1] \in In("waiting") /\ waiters[i + 1] # waiters[1]
        BY <4>1 DEF IInv, WaitersExact
      <4> QED BY <4>2, <2>2
    <3>2. ASSUME NEW s \in In("waiting") \ {h}
          PROVE  s \in {waiters'[i] : i \in 1 .. Len(waiters')}
      <4>1. PICK j \in 1 .. Len(waiters) : s = waiters[j]
        BY DEF IInv, WaitersExact
      <4>2. j - 1 \in 1 .. Len(waiters')
        BY <4>1, <2>2
      <4>3. waiters'[j - 1] = s
        BY <4>1, <4>2, <2>2
      <4> QED BY <4>2, <4>3
    <3> QED BY <3>1, <3>2
  <2>9. ASSUME NEW i \in 1 .. Len(waiters'), NEW j \in 1 .. Len(waiters'),
               waiters'[i] = waiters'[j]
        PROVE  i = j
    <3>1. i + 1 \in 1 .. Len(waiters) /\ j + 1 \in 1 .. Len(waiters)
      BY <2>2
    <3>2. waiters[i + 1] = waiters[j + 1]
      BY <2>2, <2>9
    <3>3. i + 1 = j + 1
      BY <3>1, <3>2 DEF IInv, WaitersExact
    <3> QED BY <3>3
  <2>10. WaitersExact'
    BY <2>7, <2>8, <2>9 DEF WaitersExact
  <2> QED BY <2>2, <2>4, <2>5, <2>6, <2>10
<1> QED BY <1>2, <1>3

\* A started worker becomes the lease of the call that created it.
LEMMA StartOkInv ==
  ASSUME IInv, NEW r \in Requests, StartOk(r)
  PROVE  IInv'
<1>1. TypeOK /\ pc[r] = "starting" /\ status[r] = "starting"
  BY DEF IInv, StartOk, WorkersFresh
<1>2. /\ status' = [status EXCEPT ![r] = "up"]
      /\ leased' = leased \cup {r}
      /\ lease' = [lease EXCEPT ![r] = r]
      /\ pc' = [pc EXCEPT ![r] = "leased"]
      /\ idle' = idle /\ age' = age /\ waiters' = waiters /\ drained' = drained
  BY DEF StartOk
<1>3. \A k \in IdleKeys : idle[k] # r
  BY <1>1, IdleWorkers
<1>4. \A s \in Requests : Holding(s) => lease[s] # r
  BY <1>1 DEF IInv, WorkersStarted
<1>5. TypeOK'
  BY <1>1, <1>2 DEF TypeOK, Places, Statuses
<1>6. WorkersFresh' /\ WorkersStarted'
  BY <1>1, <1>2 DEF IInv, WorkersFresh, WorkersStarted, IdleKeys, Holding, TypeOK
<1>7. WaitersExact'
  BY <1>1, <1>2 DEF IInv, WaitersExact, In, TypeOK
<1>8. LeasesDisjoint'
  BY <1>1, <1>2, <1>4 DEF IInv, LeasesDisjoint, Holding, TypeOK
<1>9. IdleUnheld'
  BY <1>1, <1>2, <1>3 DEF IInv, IdleUnheld, IdleKeys, Holding, TypeOK
<1>10. SlotsMatchKey' /\ LeaseMatchesKey'
  BY <1>1, <1>2 DEF IInv, SlotsMatchKey, LeaseMatchesKey, IdleKeys, Holding, TypeOK
<1>11. LeasedExact'
  <2> DEFINE held == {lease[s] : s \in In("leased")}
  <2>1. In("leased")' = In("leased") \cup {r} /\ r \notin In("leased")
    BY <1>1, <1>2 DEF In, TypeOK
  <2>2. held' = held \cup {r}
    BY <1>1, <1>2, <2>1 DEF In, TypeOK
  <2> QED BY <1>2, <2>2 DEF IInv, LeasedExact
<1> QED
  BY <1>5, <1>6, <1>7, <1>8, <1>9, <1>10, <1>11 DEF IInv

\* A worker that failed to start was in no slot and no lease.
LEMMA StartFailInv ==
  ASSUME IInv, NEW r \in Requests, StartFail(r)
  PROVE  IInv'
<1>1. TypeOK /\ pc[r] = "starting" /\ status[r] = "starting"
  BY DEF IInv, StartFail, WorkersFresh
<1>2. /\ status' = [status EXCEPT ![r] = "dead"]
      /\ pc' = [pc EXCEPT ![r] = "failed"]
      /\ UNCHANGED <<idle, age, leased, waiters, lease, drained>>
  BY DEF StartFail
<1>3. TypeOK'
  BY <1>1, <1>2 DEF TypeOK, Places, Statuses
<1>4. WorkersFresh' /\ WorkersStarted'
  BY <1>1, <1>2 DEF IInv, WorkersFresh, WorkersStarted, IdleKeys, Holding, TypeOK
<1>5. WaitersExact' /\ LeasedExact'
  BY <1>1, <1>2 DEF IInv, WaitersExact, LeasedExact, In, TypeOK
<1>6. LeasesDisjoint' /\ IdleUnheld' /\ SlotsMatchKey' /\ LeaseMatchesKey'
  BY <1>1, <1>2 DEF IInv, LeasesDisjoint, IdleUnheld, SlotsMatchKey, LeaseMatchesKey,
                    IdleKeys, Holding, TypeOK
<1> QED
  BY <1>3, <1>4, <1>5, <1>6 DEF IInv

\* A skipped prewarm changes nothing but its own call.
LEMMA PrewarmSkipInv ==
  ASSUME IInv, NEW r \in Requests, PrewarmSkip(r)
  PROVE  IInv'
<1>1. /\ TypeOK
      /\ pc[r] = "new"
      /\ pc' = [pc EXCEPT ![r] = "done"]
      /\ UNCHANGED <<idle, age, leased, waiters, status, lease, drained>>
  BY DEF IInv, PrewarmSkip
<1>2. TypeOK'
  BY <1>1 DEF TypeOK, Places
<1>3. WorkersFresh' /\ WorkersStarted'
  BY <1>1 DEF IInv, WorkersFresh, WorkersStarted, IdleKeys, Holding, TypeOK
<1>4. WaitersExact' /\ LeasedExact'
  BY <1>1 DEF IInv, WaitersExact, LeasedExact, In, TypeOK
<1>5. LeasesDisjoint' /\ IdleUnheld' /\ SlotsMatchKey' /\ LeaseMatchesKey'
  BY <1>1 DEF IInv, LeasesDisjoint, IdleUnheld, SlotsMatchKey, LeaseMatchesKey,
              IdleKeys, Holding, TypeOK
<1> QED
  BY <1>2, <1>3, <1>4, <1>5 DEF IInv

\* What release() does to the leases, whatever becomes of the worker.
LEMMA ReleaseLeases ==
  ASSUME IInv, NEW r \in Requests, Holding(r),
         leased' = leased \ {lease[r]},
         lease' = [lease EXCEPT ![r] = NoWorker],
         drained' = drained,
         EndAndNotify(r)
  PROVE  /\ ~Holding(r)'
         /\ \A s \in Requests \ {r} :
              /\ Holding(s)' <=> Holding(s)
              /\ lease'[s] = lease[s]
              /\ Holding(s) => lease[s] # lease[r]
         /\ LeasesDisjoint'
         /\ LeaseMatchesKey'
         /\ LeasedExact'
<1>1. TypeOK /\ pc[r] = "leased"
  BY DEF IInv, Holding
<1>2. /\ pc'[r] = "done"
      /\ \A s \in Requests \ {r} : pc'[s] = "leased" <=> pc[s] = "leased"
  BY NotifyEffect
<1>3. /\ lease'[r] = NoWorker
      /\ \A s \in Requests \ {r} : lease'[s] = lease[s]
  BY <1>1 DEF TypeOK
<1>4. \A s \in Requests \ {r} : Holding(s) => lease[s] # lease[r]
  BY DEF IInv, LeasesDisjoint
<1>5. LeasesDisjoint' /\ LeaseMatchesKey'
  BY <1>2, <1>3 DEF IInv, LeasesDisjoint, LeaseMatchesKey, Holding
<1>6. LeasedExact'
  <2> DEFINE held == {lease[s] : s \in In("leased")}
  <2>1. In("leased")' = In("leased") \ {r}
    BY <1>1, <1>2 DEF In
  <2>2. held' = held \ {lease[r]}
    BY <1>3, <1>4, <2>1 DEF In, Holding
  <2> QED BY <2>2 DEF IInv, LeasedExact
<1> QED
  BY <1>2, <1>3, <1>4, <1>5, <1>6 DEF Holding

\* A request that ends or is woken leaves the workers of the others alone: what
\* release() needs of the status function to keep WorkersFresh and WorkersStarted.
LEMMA ReleaseWorkers ==
  ASSUME IInv, NEW r \in Requests, Holding(r),
         leased' = leased \ {lease[r]},
         lease' = [lease EXCEPT ![r] = NoWorker],
         drained' = drained,
         EndAndNotify(r),
         \A w \in Requests :
           status'[w] = status[w] \/ (status[w] \in {"up", "dead"} /\ status'[w] = "dead")
  PROVE  /\ WorkersFresh'
         /\ \A s \in Requests :
              IF Holding(s)'
              THEN lease'[s] \in Requests /\ status'[lease'[s]] \in {"up", "dead"}
              ELSE lease'[s] = NoWorker
<1>1. /\ pc'[r] = "done"
      /\ \A s \in Requests \ {r} :
           pc'[s] = pc[s] \/ (pc[s] = "waiting" /\ pc'[s] = "woken")
  BY NotifyEffect
<1>2. WorkersFresh'
  BY <1>1 DEF IInv, WorkersFresh
<1>3. lease'[r] = NoWorker /\ ~Holding(r)'
  BY <1>1 DEF IInv, TypeOK, Holding
<1>4. ASSUME NEW s \in Requests \ {r}
      PROVE  IF Holding(s)'
             THEN lease'[s] \in Requests /\ status'[lease'[s]] \in {"up", "dead"}
             ELSE lease'[s] = NoWorker
  <2>1. (Holding(s)' <=> Holding(s)) /\ lease'[s] = lease[s]
    BY ReleaseLeases
  <2> QED BY <2>1 DEF IInv, WorkersStarted
<1> QED BY <1>2, <1>3, <1>4

\* A killed worker leaves the leased set with its lease.
LEMMA ReleaseKillInv ==
  ASSUME IInv, NEW r \in Requests, ReleaseKill(r)
  PROVE  IInv'
<1>1. /\ TypeOK
      /\ Holding(r)
      /\ leased' = leased \ {lease[r]}
      /\ lease' = [lease EXCEPT ![r] = NoWorker]
      /\ status' = Killed({lease[r]})
      /\ EndAndNotify(r)
      /\ idle' = idle /\ age' = age /\ drained' = drained
  BY DEF IInv, ReleaseKill, Holding
<1>2. lease[r] \in Requests /\ status[lease[r]] \in {"up", "dead"}
  BY <1>1 DEF IInv, WorkersStarted
<1>3. /\ status' \in [Requests -> Statuses]
      /\ \A w \in Requests : status'[w] = IF w = lease[r] THEN "dead" ELSE status[w]
  BY <1>1, KilledStatus
<1>4. /\ pc' \in [Requests -> Places]
      /\ waiters' \in Seq(Requests)
      /\ WaitersExact'
  BY <1>1, NotifyEffect
<1>5. TypeOK'
  BY <1>1, <1>3, <1>4 DEF TypeOK
<1>6. LeasesDisjoint' /\ LeaseMatchesKey' /\ LeasedExact'
  BY <1>1, ReleaseLeases
<1>7. /\ WorkersFresh'
      /\ \A s \in Requests :
           IF Holding(s)'
           THEN lease'[s] \in Requests /\ status'[lease'[s]] \in {"up", "dead"}
           ELSE lease'[s] = NoWorker
  BY <1>1, <1>2, <1>3, ReleaseWorkers
<1>8. WorkersStarted'
  <2>1. ASSUME NEW k \in IdleKeys'
        PROVE  status'[idle'[k]] \in {"up", "dead"}
    <3>1. k \in IdleKeys /\ idle'[k] = idle[k]
      BY <1>1 DEF IdleKeys
    <3> QED BY <3>1, <1>3, IdleWorkers
  <2> QED BY <2>1, <1>7 DEF WorkersStarted
<1>9. IdleUnheld' /\ SlotsMatchKey'
  <2>1. IdleKeys' = IdleKeys
    BY <1>1 DEF IdleKeys
  <2>2. \A s \in Requests : Holding(s)' => Holding(s) /\ lease'[s] = lease[s]
    BY <1>1, ReleaseLeases
  <2> QED BY <1>1, <2>1, <2>2 DEF IInv, IdleUnheld, SlotsMatchKey
<1> QED
  BY <1>4, <1>5, <1>6, <1>7, <1>8, <1>9 DEF IInv

\* A stored worker leaves the leased set and fills its key's slot.
LEMMA ReleaseStoreInv ==
  ASSUME IInv, NEW r \in Requests, ReleaseStore(r)
  PROVE  IInv'
<1> DEFINE k == KeyOf[r]
           slots == IdleKeys \cup {k}
           workers == [idle EXCEPT ![k] = lease[r]]
           ages == [age EXCEPT ![k] = 0]
<1>1. /\ TypeOK
      /\ Holding(r)
      /\ status[lease[r]] # "dead"
      /\ leased' = leased \ {lease[r]}
      /\ lease' = [lease EXCEPT ![r] = NoWorker]
      /\ EndAndNotify(r)
      /\ drained' = drained
  BY DEF IInv, ReleaseStore, Holding
<1>2. PICK E \in SUBSET slots :
        /\ idle' = [j \in Keys |-> IF j \in E THEN NoWorker ELSE workers[j]]
        /\ age' = [j \in Keys |-> IF j \in E THEN 0 ELSE ages[j]]
        /\ status' = Killed({workers[j] : j \in E})
  BY DEF ReleaseStore, Oldest
<1>3. k \in Keys /\ lease[r] \in Requests /\ status[lease[r]] = "up"
  BY <1>1, RequestsAssumption DEF IInv, WorkersStarted
<1>4. /\ workers \in [Keys -> Requests \cup {NoWorker}]
      /\ workers[k] = lease[r]
      /\ \A j \in Keys \ {k} : workers[j] = idle[j]
      /\ ages \in [Keys -> 0 .. Ttl + 1]
  BY <1>1, <1>3, LimitsAssumption DEF TypeOK
<1>5. \A j \in slots : workers[j] \in Requests /\ status[workers[j]] \in {"up", "dead"}
  BY <1>3, <1>4, IdleWorkers DEF IdleKeys
<1> HIDE DEF workers, ages
<1>6. /\ idle' \in [Keys -> Requests \cup {NoWorker}]
      /\ age' \in [Keys -> 0 .. Ttl + 1]
      /\ \A j \in IdleKeys' : j \in slots /\ j \in Keys /\ idle'[j] = workers[j]
  <2>1. /\ idle' \in [Keys -> Requests \cup {NoWorker}]
        /\ age' \in [Keys -> 0 .. Ttl + 1]
    BY <1>2, <1>4, LimitsAssumption
  <2>2. ASSUME NEW j \in IdleKeys'
        PROVE  j \in slots /\ j \in Keys /\ idle'[j] = workers[j]
    <3>1. j \in Keys /\ j \notin E /\ idle'[j] = workers[j] /\ workers[j] # NoWorker
      BY <1>2 DEF IdleKeys
    <3> QED BY <3>1, <1>4 DEF IdleKeys
  <2> QED BY <2>1, <2>2
<1>7. /\ status' \in [Requests -> Statuses]
      /\ \A w \in Requests :
           status'[w] = IF w \in {workers[j] : j \in E} THEN "dead" ELSE status[w]
  BY <1>1, <1>2, KilledStatus
<1>8. \A w \in Requests :
        status'[w] = status[w] \/ (status[w] \in {"up", "dead"} /\ status'[w] = "dead")
  BY <1>5, <1>7
<1>9. /\ pc' \in [Requests -> Places]
      /\ waiters' \in Seq(Requests)
      /\ WaitersExact'
  BY <1>1, NotifyEffect
<1>10. TypeOK'
  BY <1>1, <1>6, <1>7, <1>9 DEF TypeOK
<1>11. LeasesDisjoint' /\ LeaseMatchesKey' /\ LeasedExact'
  BY <1>1, ReleaseLeases
<1>12. /\ WorkersFresh'
       /\ \A s \in Requests :
            IF Holding(s)'
            THEN lease'[s] \in Requests /\ status'[lease'[s]] \in {"up", "dead"}
            ELSE lease'[s] = NoWorker
  BY <1>1, <1>8, ReleaseWorkers
<1>13. WorkersStarted'
  <2>1. \A j \in IdleKeys' : status'[idle'[j]] \in {"up", "dead"}
    BY <1>5, <1>6, <1>8
  <2> QED BY <2>1, <1>12 DEF WorkersStarted
<1>14. IdleUnheld'
  <2>1. \A s \in Requests :
          Holding(s)' => Holding(s) /\ lease'[s] = lease[s] /\ lease[s] # lease[r]
    BY <1>1, ReleaseLeases
  <2>2. ASSUME NEW j \in IdleKeys', NEW s \in Requests, Holding(s)'
        PROVE  lease'[s] # idle'[j]
    <3>1. CASE j = k
      BY <3>1, <2>1, <2>2, <1>4, <1>6
    <3>2. CASE j # k
      <4>1. j \in IdleKeys /\ idle'[j] = idle[j]
        BY <3>2, <1>4, <1>6
      <4> QED BY <4>1, <2>1, <2>2 DEF IInv, IdleUnheld
    <3> QED BY <3>1, <3>2
  <2>3. ASSUME NEW i \in IdleKeys', NEW j \in IdleKeys', i # j
        PROVE  idle'[i] # idle'[j]
    <3>1. \A n \in IdleKeys' : IF n = k THEN idle'[n] = lease[r]
                                         ELSE n \in IdleKeys /\ idle'[n] = idle[n]
      BY <1>4, <1>6
    <3>2. \A n \in IdleKeys : idle[n] # lease[r]
      BY <1>1 DEF IInv, IdleUnheld
    <3>3. \A m, n \in IdleKeys : m # n => idle[m] # idle[n]
      BY DEF IInv, IdleUnheld
    <3> QED BY <3>1, <3>2, <3>3, <2>3
  <2> QED BY <2>2, <2>3 DEF IdleUnheld
<1>15. SlotsMatchKey'
  <2>1. KeyOf[lease[r]] = k
    BY <1>1 DEF IInv, LeaseMatchesKey
  <2>2. \A j \in IdleKeys : KeyOf[idle[j]] = j
    BY DEF IInv, SlotsMatchKey
  <2> QED BY <2>1, <2>2, <1>4, <1>6 DEF SlotsMatchKey
<1> QED
  BY <1>9, <1>10, <1>11, <1>12, <1>13, <1>14, <1>15 DEF IInv

\* drain() empties the pool and the queue; the leases outlive it.
LEMMA DrainInv ==
  ASSUME IInv, Drain
  PROVE  IInv'
<1>1. /\ TypeOK
      /\ drained' = TRUE /\ leased' = {} /\ waiters' = <<>> /\ lease' = lease
      /\ status' = Killed(WorkersAt(IdleKeys) \cup leased)
      /\ Unstore(Keys)
      /\ pc' = [r \in Requests |-> IF pc[r] = "waiting" THEN "woken" ELSE pc[r]]
  BY DEF IInv, Drain
<1>2. \A w \in WorkersAt(IdleKeys) \cup leased : w \in Requests /\ status[w] \in {"up", "dead"}
  <2>1. \A w \in WorkersAt(IdleKeys) : w \in Requests /\ status[w] \in {"up", "dead"}
    BY IdleWorkers DEF WorkersAt
  <2>2. \A w \in leased : \E r \in In("leased") : w = lease[r]
    BY DEF IInv, LeasedExact
  <2>3. \A r \in In("leased") : lease[r] \in Requests /\ status[lease[r]] \in {"up", "dead"}
    BY DEF IInv, WorkersStarted, In, Holding
  <2> QED BY <2>1, <2>2, <2>3
<1>3. /\ status' \in [Requests -> Statuses]
      /\ \A w \in Requests :
           status'[w] = IF w \in WorkersAt(IdleKeys) \cup leased THEN "dead" ELSE status[w]
  BY <1>1, KilledStatus
<1>4. /\ idle' \in [Keys -> Requests \cup {NoWorker}]
      /\ age' \in [Keys -> 0 .. Ttl + 1]
      /\ IdleKeys' = {}
  <2>1. IdleKeys' = IdleKeys \ Keys
    BY <1>1, UnstoreSlots
  <2> QED BY <1>1, <2>1, UnstoreSlots DEF IdleKeys
<1>5. waiters' \in Seq(Requests) /\ Len(waiters') = 0
  BY <1>1
<1>6. TypeOK'
  BY <1>1, <1>3, <1>4, <1>5 DEF TypeOK, Places
<1>7. WorkersFresh'
  BY <1>1, <1>2, <1>3 DEF IInv, WorkersFresh
<1>8. WorkersStarted'
  BY <1>1, <1>2, <1>3, <1>4 DEF IInv, WorkersStarted, Holding
<1>9. WaitersExact'
  <2>1. In("waiting")' = {}
    BY <1>1 DEF In
  <2> QED BY <1>5, <2>1 DEF WaitersExact
<1>10. LeasesDisjoint' /\ LeaseMatchesKey'
  BY <1>1 DEF IInv, LeasesDisjoint, LeaseMatchesKey, Holding
<1>11. IdleUnheld' /\ SlotsMatchKey' /\ LeasedExact'
  BY <1>1, <1>4 DEF IdleUnheld, SlotsMatchKey, LeasedExact
<1> QED
  BY <1>6, <1>7, <1>8, <1>9, <1>10, <1>11 DEF IInv

\* The death of a process changes no slot, lease or queue.
LEMMA WorkerDiesInv ==
  ASSUME IInv, NEW w \in Requests, WorkerDies(w)
  PROVE  IInv'
<1>1. /\ TypeOK
      /\ status[w] = "up"
      /\ status' = [status EXCEPT ![w] = "dead"]
      /\ UNCHANGED <<idle, age, leased, waiters, pc, lease, drained>>
  BY DEF IInv, WorkerDies
<1>2. TypeOK'
  BY <1>1 DEF TypeOK, Statuses
<1>3. WorkersFresh' /\ WorkersStarted'
  BY <1>1 DEF IInv, WorkersFresh, WorkersStarted, IdleKeys, Holding, TypeOK
<1>4. WaitersExact' /\ LeasedExact'
  BY <1>1 DEF IInv, WaitersExact, LeasedExact, In
<1>5. LeasesDisjoint' /\ IdleUnheld' /\ SlotsMatchKey' /\ LeaseMatchesKey'
  BY <1>1 DEF IInv, LeasesDisjoint, IdleUnheld, SlotsMatchKey, LeaseMatchesKey,
              IdleKeys, Holding
<1> QED
  BY <1>2, <1>3, <1>4, <1>5 DEF IInv

\* Time changes ages only.
LEMMA TickInv ==
  ASSUME IInv, Tick
  PROVE  IInv'
<1>1. /\ TypeOK
      /\ age' = [k \in Keys |-> IF k \in IdleKeys /\ age[k] <= Ttl THEN age[k] + 1 ELSE age[k]]
      /\ UNCHANGED <<idle, leased, waiters, status, pc, lease, drained>>
  BY DEF IInv, Tick
<1>2. age' \in [Keys -> 0 .. Ttl + 1]
  BY <1>1, LimitsAssumption DEF TypeOK
<1>3. TypeOK'
  BY <1>1, <1>2 DEF TypeOK
<1>4. WorkersFresh' /\ WorkersStarted' /\ WaitersExact' /\ LeasedExact'
  BY <1>1 DEF IInv, WorkersFresh, WorkersStarted, WaitersExact, LeasedExact, In,
              IdleKeys, Holding
<1>5. LeasesDisjoint' /\ IdleUnheld' /\ SlotsMatchKey' /\ LeaseMatchesKey'
  BY <1>1 DEF IInv, LeasesDisjoint, IdleUnheld, SlotsMatchKey, LeaseMatchesKey,
              IdleKeys, Holding
<1> QED
  BY <1>3, <1>4, <1>5 DEF IInv

\* Every step preserves the inductive invariant.
LEMMA NextInv == IInv /\ [Next]_vars => IInv'
<1> SUFFICES ASSUME IInv, [Next]_vars PROVE IInv'
  OBVIOUS
<1>1. ASSUME NEW r \in Requests,
             AcquireWarm(r) \/ AcquireWait(r) \/ AcquireCold(r)
      PROVE  IInv'
  BY <1>1, AcquireWarmInv, AcquireWaitInv, AcquireColdInv
<1>2. ASSUME NEW r \in Requests,
             StartOk(r) \/ StartFail(r) \/ PrewarmSkip(r)
      PROVE  IInv'
  BY <1>2, StartOkInv, StartFailInv, PrewarmSkipInv
<1>3. ASSUME NEW r \in Requests,
             ReleaseKill(r) \/ ReleaseStore(r) \/ WorkerDies(r)
      PROVE  IInv'
  BY <1>3, ReleaseKillInv, ReleaseStoreInv, WorkerDiesInv
<1>4. CASE Drain
  BY <1>4, DrainInv
<1>5. CASE Tick
  BY <1>5, TickInv
<1>6. CASE UNCHANGED vars
  BY <1>6 DEF vars, IInv, TypeOK, WorkersFresh, WorkersStarted, WaitersExact,
              LeasesDisjoint, IdleUnheld, SlotsMatchKey, LeaseMatchesKey,
              LeasedExact, IdleKeys, Holding, In
<1> QED
  BY <1>1, <1>2, <1>3, <1>4, <1>5, <1>6 DEF Next

\* The inductive invariant holds of every reachable state.
THEOREM PoolInvariant == Spec => []IInv
BY InitInv, NextInv, PTL DEF Spec

\* The variables keep their types (pool.ts:33-39).
THEOREM PoolTypes == Spec => []TypeOK
<1>1. IInv => TypeOK
  BY DEF IInv
<1> QED BY <1>1, PoolInvariant, PTL

\* No two requests ever hold one worker, no held worker is offered by the idle map, and
\* a lease's worker was started for what its request asks (pool.ts:48-117).
THEOREM PoolLeasesSound == Spec => []LeasesSound
<1>1. IInv => LeasesSound
  BY DEF IInv, LeasesSound, Exclusive
<1> QED BY <1>1, PoolInvariant, PTL

\* Until drain(), the leased set is exactly what the requests hold
\* (pool.ts:58, 89, 99).
THEOREM PoolLeasedExact == Spec => []LeasedExact
<1>1. IInv => LeasedExact
  BY DEF IInv
<1> QED BY <1>1, PoolInvariant, PTL

\* The queue of waiters is exactly the calls inside waitForCapacity, each once
\* (pool.ts:193-209).
THEOREM PoolWaitersExact == Spec => []WaitersExact
<1>1. IInv => WaitersExact
  BY DEF IInv
<1> QED BY <1>1, PoolInvariant, PTL

-----------------------------------------------------------------------------
(***************************************************************************)
(* What acquire() hands out.                                               *)
(***************************************************************************)
\* A lease begins only in AcquireWarm, with a live worker from a slot within its
\* TTL, or in StartOk, with the worker just started (pool.ts:52-61, 83-93).
THEOREM PoolHandsOutFresh == Spec => HandedOutFresh
<1> DEFINE FreshLease(r) ==
      ~Holding(r) /\ Holding(r)' =>
        /\ status'[lease'[r]] = "up"
        /\ lease'[r] # r => \E k \in Keys : idle[k] = lease'[r] /\ age[k] <= Ttl
<1>1. ASSUME IInv, [Next]_vars
      PROVE  [\A r \in Requests : FreshLease(r)]_vars
  <2> SUFFICES ASSUME NEW r \in Requests, ~Holding(r), Holding(r)'
               PROVE  /\ status'[lease'[r]] = "up"
                      /\ lease'[r] # r => \E k \in Keys : idle[k] = lease'[r] /\ age[k] <= Ttl
    OBVIOUS
  <2>1. TypeOK
    BY <1>1 DEF IInv
  <2>2. \/ AcquireWarm(r) \/ StartOk(r)
    <3>1. ASSUME NEW s \in Requests,
                 \/ AcquireWarm(s) \/ AcquireWait(s) \/ AcquireCold(s)
                 \/ StartOk(s) \/ StartFail(s) \/ PrewarmSkip(s)
          PROVE  AcquireWarm(r) \/ StartOk(r)
      <4>1. pc' \in {[pc EXCEPT ![s] = x] : x \in Places}
        BY <3>1 DEF AcquireWarm, AcquireWait, AcquireCold, StartOk, StartFail,
                    PrewarmSkip, Places
      <4>2. r = s
        BY <2>1, <4>1 DEF Holding, TypeOK
      <4>3. pc'[s] = "leased"
        BY <4>2 DEF Holding
      <4>4. ~(AcquireWait(s) \/ AcquireCold(s) \/ StartFail(s) \/ PrewarmSkip(s))
        BY <2>1, <4>3 DEF AcquireWait, AcquireCold, StartFail, PrewarmSkip, TypeOK
      <4> QED BY <3>1, <4>2, <4>4
    <3>2. ASSUME NEW s \in Requests, ReleaseKill(s) \/ ReleaseStore(s)
          PROVE  FALSE
      <4>1. Holding(s) /\ EndAndNotify(s)
        BY <3>2 DEF ReleaseKill, ReleaseStore, Holding
      <4>2. pc'[s] = "done" /\ (r # s => pc'[r] = pc[r] \/ pc'[r] = "woken")
        BY <1>1, <4>1, NotifyEffect
      <4> QED BY <4>2 DEF Holding
    <3>3. ASSUME NEW s \in Requests, WorkerDies(s)
          PROVE  FALSE
      BY <3>3 DEF WorkerDies, Holding
    <3>4. ~Drain
      BY DEF Drain, Holding
    <3>5. ~Tick
      BY DEF Tick, Holding
    <3>6. ~UNCHANGED vars
      BY DEF vars, Holding
    <3> QED BY <1>1, <3>1, <3>2, <3>3, <3>4, <3>5, <3>6 DEF Next
  <2>3. CASE AcquireWarm(r)
    <3> DEFINE k == KeyOf[r]
    <3>1. k \in IdleKeys /\ k \in Keys /\ k \notin Expired
      BY <2>3 DEF AcquireWarm, Fresh, IdleKeys
    <3>2. idle[k] \in Requests /\ status[idle[k]] = "up" /\ age[k] <= Ttl
      BY <1>1, <2>1, <3>1, IdleWorkers, LimitsAssumption DEF Expired, TypeOK
    <3>3. lease'[r] = idle[k]
      BY <2>1, <2>3 DEF AcquireWarm, TypeOK
    <3>4. idle[k] \notin WorkersAt(Expired)
      BY <1>1, <3>1 DEF WorkersAt, IInv, IdleUnheld, Expired
    <3>5. status'[idle[k]] = "up"
      BY <2>1, <2>3, <3>2, <3>4, KilledStatus DEF AcquireWarm
    <3> QED BY <3>1, <3>2, <3>3, <3>5
  <2>4. CASE StartOk(r)
    BY <2>1, <2>4 DEF StartOk, TypeOK
  <2> QED BY <2>2, <2>3, <2>4
<1> QED BY <1>1, PoolInvariant, PTL DEF Spec, HandedOutFresh

(***************************************************************************)
(* The size of the idle map.  IdleKeys stays finite without any assumption *)
(* on Keys: every release adds at most one slot.                           *)
(***************************************************************************)
IdleSize == IsFiniteSet(IdleKeys) /\ Cardinality(IdleKeys) <= Max

\* Taking slots away keeps the map within its limit.
LEMMA IdleShrinks ==
  ASSUME IdleSize, NEW K, Unstore(K), TypeOK
  PROVE  IdleSize'
<1>1. IdleKeys' = IdleKeys \ K
  BY UnstoreSlots
<1>2. IsFiniteSet(IdleKeys \ K) /\ Cardinality(IdleKeys \ K) <= Cardinality(IdleKeys)
  BY FS_Subset DEF IdleSize
<1>3. Cardinality(IdleKeys \ K) \in Nat /\ Cardinality(IdleKeys) \in Nat /\ Max \in Nat
  BY <1>2, FS_CardinalityType, LimitsAssumption DEF IdleSize
<1> QED BY <1>1, <1>2, <1>3 DEF IdleSize

\* A release stores one slot and evicts the excess.
LEMMA IdleStored ==
  ASSUME IInv, IdleSize, NEW r \in Requests, ReleaseStore(r)
  PROVE  IdleSize'
<1> DEFINE k == KeyOf[r]
           slots == IdleKeys \cup {k}
           n == Excess(Cardinality(slots), Max)
<1>1. PICK E \in Oldest(slots, [age EXCEPT ![k] = 0], n) :
        idle' = [j \in Keys |-> IF j \in E THEN NoWorker ELSE [idle EXCEPT ![k] = lease[r]][j]]
  BY DEF ReleaseStore
<1>2. E \in SUBSET slots /\ Cardinality(E) = n
  BY <1>1 DEF Oldest
<1>3. IsFiniteSet(slots) /\ Cardinality(slots) \in Nat
  BY FS_AddElement, FS_CardinalityType DEF IdleSize
<1>4. slots \cap E = E
  BY <1>2
<1>5. IsFiniteSet(slots \ E) /\ Cardinality(slots \ E) = Cardinality(slots) - n
  <2>1. /\ IsFiniteSet(slots \ E)
        /\ Cardinality(slots \ E) = Cardinality(slots) - Cardinality(slots \cap E)
    BY <1>3, FS_Difference
  <2> QED BY <2>1, <1>2, <1>4
<1>6. Cardinality(slots \ E) <= Max
  BY <1>3, <1>5, LimitsAssumption DEF Excess
<1>7. IdleKeys' \subseteq slots \ E
  BY <1>1 DEF IdleKeys, IInv, TypeOK
<1>8. IsFiniteSet(IdleKeys') /\ Cardinality(IdleKeys') <= Cardinality(slots \ E)
  BY <1>5, <1>7, FS_Subset
<1>9. /\ Cardinality(IdleKeys') \in Nat
      /\ Cardinality(slots \ E) \in Nat
      /\ Max \in Nat
  BY <1>5, <1>8, FS_CardinalityType, LimitsAssumption
<1>10. Cardinality(IdleKeys') <= Max
  <2> HIDE DEF slots
  <2> QED BY <1>6, <1>8, <1>9
<1> QED BY <1>8, <1>10 DEF IdleSize

\* The idle map never holds more than Max slots (pool.ts:165-169).
THEOREM PoolIdleBounded == Spec => []IdleBounded
<1>1. Init => IdleSize
  <2>1. Init => IdleKeys = {}
    BY DEF Init, IdleKeys
  <2> QED BY <2>1, FS_EmptySet, LimitsAssumption DEF IdleSize
<1>2. ASSUME IInv, IdleSize, [Next]_vars
      PROVE  IdleSize'
  <2>1. TypeOK
    BY <1>2 DEF IInv
  <2>2. ASSUME NEW K, Unstore(K)
        PROVE  IdleSize'
    BY <1>2, <2>1, <2>2, IdleShrinks
  <2>3. ASSUME UNCHANGED idle
        PROVE  IdleSize'
    BY <1>2, <2>3 DEF IdleSize, IdleKeys
  <2>4. ASSUME NEW r \in Requests,
               AcquireWarm(r) \/ AcquireWait(r) \/ AcquireCold(r)
        PROVE  IdleSize'
    BY <2>2, <2>4 DEF AcquireWarm, AcquireWait, AcquireCold
  <2>5. ASSUME NEW r \in Requests,
               \/ StartOk(r) \/ StartFail(r) \/ PrewarmSkip(r)
               \/ ReleaseKill(r) \/ WorkerDies(r)
        PROVE  IdleSize'
    BY <2>3, <2>5 DEF StartOk, StartFail, PrewarmSkip, ReleaseKill, WorkerDies
  <2>6. ASSUME NEW r \in Requests, ReleaseStore(r)
        PROVE  IdleSize'
    BY <1>2, <2>6, IdleStored
  <2>7. CASE Drain
    BY <2>2, <2>7 DEF Drain
  <2>8. CASE Tick \/ UNCHANGED vars
    BY <2>3, <2>8 DEF Tick, vars
  <2> QED BY <1>2, <2>4, <2>5, <2>6, <2>7, <2>8 DEF Next
<1>3. IdleSize => IdleBounded
  BY DEF IdleSize, IdleBounded
<1> QED BY <1>1, <1>2, <1>3, PoolInvariant, PTL DEF Spec

-----------------------------------------------------------------------------
(***************************************************************************)
(* The capacity that is in use while calls wait.  What is leased, starting,*)
(* woken or lost stays finite without any assumption on Requests, and no   *)
(* step but one that empties the queue lets its size shrink.               *)
(***************************************************************************)
Counted(S, n) == IsFiniteSet(S) /\ Cardinality(S) = n

\* The four sets that take up capacity are finite and have s, t, u and v members.
Sizes(s, t, u, v) ==
  /\ s \in Nat /\ t \in Nat /\ u \in Nat /\ v \in Nat
  /\ Counted(leased, s)
  /\ Counted(In("starting"), t)
  /\ Counted(In("woken"), u)
  /\ Counted(In("failed"), v)

CapacitySound ==
  \E s, t, u, v \in Nat :
    /\ Sizes(s, t, u, v)
    /\ waiters # <<>> => s + t + u + v >= Max

\* Adding an element that is not there adds one to a size, taking one away takes one.
LEMMA CountedChange ==
  ASSUME NEW S, NEW n \in Nat, Counted(S, n), NEW x
  PROVE  /\ x \notin S => Counted(S \cup {x}, n + 1)
         /\ x \in S => n >= 1 /\ Counted(S \ {x}, n - 1)
         /\ x \notin S => Counted(S \ {x}, n)
<1>1. IsFiniteSet(S) /\ Cardinality(S) = n
  BY DEF Counted
<1>2. x \notin S => Counted(S \cup {x}, n + 1)
  BY <1>1, FS_AddElement DEF Counted
<1>3. IsFiniteSet(S \ {x}) /\ Cardinality(S \ {x}) \in Nat
  BY <1>1, FS_RemoveElement, FS_CardinalityType
<1>4. x \in S => Cardinality(S \ {x}) = n - 1
  BY <1>1, FS_RemoveElement
<1>5. x \in S => n >= 1 /\ Counted(S \ {x}, n - 1)
  BY <1>3, <1>4 DEF Counted
<1>6. x \notin S => Counted(S \ {x}, n)
  <2>1. x \notin S => S \ {x} = S
    OBVIOUS
  <2> QED BY <2>1, <1>1 DEF Counted
<1> QED BY <1>2, <1>5, <1>6

\* A call that goes from one place to another leaves one set and joins another.
LEMMA MovesOne ==
  ASSUME TypeOK, NEW r \in Requests, NEW from \in Places, NEW to \in Places,
         pc[r] = from, from # to, pc' = [pc EXCEPT ![r] = to]
  PROVE  /\ r \notin In(to) /\ In(to)' = In(to) \cup {r}
         /\ r \in In(from) /\ In(from)' = In(from) \ {r}
         /\ \A p \in Places \ {to, from} : In(p)' = In(p)
BY DEF TypeOK, In

\* A warm hit leases one worker more, of a call that was new or woken.
LEMMA WarmCapacity ==
  ASSUME IInv, CapacitySound, NEW r \in Requests, AcquireWarm(r)
  PROVE  CapacitySound'
<1> DEFINE w == idle[KeyOf[r]]
<1>1. /\ TypeOK /\ pc[r] \in {"new", "woken"}
      /\ pc' = [pc EXCEPT ![r] = "leased"]
      /\ leased' = leased \cup {w} /\ waiters' = waiters
  BY DEF AcquireWarm, Entering, IInv
<1>2. KeyOf[r] \in IdleKeys
  BY RequestsAssumption DEF AcquireWarm, Fresh, IdleKeys
<1>3. w \notin leased
  <2>1. \A s \in Requests : Holding(s) => lease[s] # w
    BY <1>2 DEF IInv, IdleUnheld
  <2>2. leased \subseteq {lease[s] : s \in In("leased")}
    BY DEF IInv, LeasedExact
  <2> QED BY <2>1, <2>2 DEF In, Holding
<1>4. PICK s, t, u, v \in Nat :
        Sizes(s, t, u, v) /\ (waiters # <<>> => s + t + u + v >= Max)
  BY DEF CapacitySound
<1>5. Counted(leased', s + 1)
  BY <1>1, <1>3, <1>4, CountedChange DEF Sizes
<1>6. "leased" \in Places /\ pc[r] # "leased"
  BY <1>1 DEF Places
<1>7. In("starting")' = In("starting") /\ In("failed")' = In("failed")
  BY <1>1, <1>6, MovesOne DEF Places
<1>8. CASE pc[r] = "new"
  <2>1. In("woken")' = In("woken")
    BY <1>1, <1>6, <1>8, MovesOne DEF Places
  <2>2. Sizes(s + 1, t, u, v)'
    BY <1>4, <1>5, <1>7, <2>1 DEF Sizes
  <2>3. waiters # <<>> => (s + 1) + t + u + v >= Max
    BY <1>4, LimitsAssumption
  <2>4. s + 1 \in Nat
    OBVIOUS
  <2> QED BY <1>1, <2>2, <2>3, <2>4 DEF CapacitySound
<1>9. CASE pc[r] = "woken"
  <2>1. r \in In("woken") /\ In("woken")' = In("woken") \ {r}
    BY <1>1, <1>6, <1>9, MovesOne DEF Places
  <2>2. u >= 1 /\ u - 1 \in Nat /\ Counted(In("woken")', u - 1)
    <3>1. Counted(In("woken"), u)
      BY <1>4 DEF Sizes
    <3>2. u >= 1 /\ Counted(In("woken") \ {r}, u - 1)
      BY <2>1, <3>1, CountedChange
    <3> QED BY <2>1, <3>2
  <2>3. Sizes(s + 1, t, u - 1, v)'
    BY <1>4, <1>5, <1>7, <2>2 DEF Sizes
  <2> QED BY <1>1, <1>4, <2>2, <2>3, LimitsAssumption DEF CapacitySound
<1> QED BY <1>1, <1>8, <1>9

\* Only a call that finds Max workers leased enters the queue.
LEMMA WaitCapacity ==
  ASSUME IInv, CapacitySound, NEW r \in Requests, AcquireWait(r)
  PROVE  CapacitySound'
<1>1. /\ TypeOK /\ pc[r] \in {"new", "woken"}
      /\ pc' = [pc EXCEPT ![r] = "waiting"]
      /\ leased' = leased /\ Cardinality(leased) >= Max
  BY DEF AcquireWait, Entering, IInv
<1>2. PICK s, t, u, v \in Nat : Sizes(s, t, u, v)
  BY DEF CapacitySound
<1>3. s >= Max
  BY <1>1, <1>2 DEF Sizes, Counted
<1>4. "waiting" \in Places /\ pc[r] # "waiting"
  BY <1>1 DEF Places
<1>5. In("starting")' = In("starting") /\ In("failed")' = In("failed")
  BY <1>1, <1>4, MovesOne DEF Places
<1>6. \E n \in Nat : Counted(In("woken")', n)
  <2>1. CASE pc[r] = "new"
    <3>1. In("woken")' = In("woken")
      BY <1>1, <1>4, <2>1, MovesOne DEF Places
    <3> QED BY <1>2, <3>1 DEF Sizes
  <2>2. CASE pc[r] = "woken"
    <3>1. r \in In("woken") /\ In("woken")' = In("woken") \ {r}
      BY <1>1, <1>4, <2>2, MovesOne DEF Places
    <3>2. u >= 1 /\ u - 1 \in Nat /\ Counted(In("woken")', u - 1)
      <4>1. Counted(In("woken"), u)
        BY <1>2 DEF Sizes
      <4>2. u >= 1 /\ Counted(In("woken") \ {r}, u - 1)
        BY <3>1, <4>1, CountedChange
      <4> QED BY <3>1, <4>2
    <3> QED BY <3>2
  <2> QED BY <1>1, <2>1, <2>2
<1>7. PICK n \in Nat : Counted(In("woken")', n)
  BY <1>6
<1>8. Sizes(s, t, n, v)'
  BY <1>1, <1>2, <1>5, <1>7 DEF Sizes
<1>9. s + t + n + v >= Max
  BY <1>3, LimitsAssumption
<1> QED BY <1>8, <1>9 DEF CapacitySound

\* A cold start takes up capacity that was free, or that the call was woken for.
LEMMA ColdCapacity ==
  ASSUME IInv, CapacitySound, NEW r \in Requests, AcquireCold(r)
  PROVE  CapacitySound'
<1>1. /\ TypeOK /\ pc[r] \in {"new", "woken"}
      /\ pc' = [pc EXCEPT ![r] = "starting"]
      /\ leased' = leased /\ waiters' = waiters
  BY DEF AcquireCold, Entering, IInv
<1>2. PICK s, t, u, v \in Nat :
        Sizes(s, t, u, v) /\ (waiters # <<>> => s + t + u + v >= Max)
  BY DEF CapacitySound
<1>3. "starting" \in Places /\ pc[r] # "starting"
  BY <1>1 DEF Places
<1>4. r \notin In("starting") /\ In("starting")' = In("starting") \cup {r}
  BY <1>1, <1>3, MovesOne DEF Places
<1>5. Counted(In("starting")', t + 1)
  BY <1>2, <1>4, CountedChange DEF Sizes
<1>6. In("failed")' = In("failed")
  BY <1>1, <1>3, MovesOne DEF Places
<1>7. CASE pc[r] = "new"
  <2>1. In("woken")' = In("woken")
    BY <1>1, <1>3, <1>7, MovesOne DEF Places
  <2>2. Sizes(s, t + 1, u, v)'
    BY <1>1, <1>2, <1>5, <1>6, <2>1 DEF Sizes
  <2> QED BY <1>1, <1>2, <2>2, LimitsAssumption DEF CapacitySound
<1>8. CASE pc[r] = "woken"
  <2>1. r \in In("woken") /\ In("woken")' = In("woken") \ {r}
    BY <1>1, <1>3, <1>8, MovesOne DEF Places
  <2>2. u >= 1 /\ u - 1 \in Nat /\ Counted(In("woken")', u - 1)
    <3>1. Counted(In("woken"), u)
      BY <1>2 DEF Sizes
    <3>2. u >= 1 /\ Counted(In("woken") \ {r}, u - 1)
      BY <2>1, <3>1, CountedChange
    <3> QED BY <2>1, <3>2
  <2>3. Sizes(s, t + 1, u - 1, v)'
    BY <1>1, <1>2, <1>5, <1>6, <2>2 DEF Sizes
  <2> QED BY <1>1, <1>2, <2>2, <2>3, LimitsAssumption DEF CapacitySound
<1> QED BY <1>1, <1>7, <1>8

\* A start that succeeds is leased; one that fails keeps its capacity for good.
LEMMA StartCapacity ==
  ASSUME IInv, CapacitySound, NEW r \in Requests, StartOk(r) \/ StartFail(r)
  PROVE  CapacitySound'
<1>1. TypeOK /\ pc[r] = "starting" /\ waiters' = waiters
  BY DEF StartOk, StartFail, IInv
<1>2. PICK s, t, u, v \in Nat :
        Sizes(s, t, u, v) /\ (waiters # <<>> => s + t + u + v >= Max)
  BY DEF CapacitySound
<1>3. CASE StartOk(r)
  <2>1. pc' = [pc EXCEPT ![r] = "leased"] /\ leased' = leased \cup {r}
    BY <1>3 DEF StartOk
  <2>2. r \notin leased
    <3>1. \A q \in Requests : Holding(q) => status[lease[q]] \in {"up", "dead"}
      BY DEF IInv, WorkersStarted
    <3>2. leased \subseteq {lease[q] : q \in In("leased")}
      BY DEF IInv, LeasedExact
    <3>3. status[r] = "starting"
      BY <1>1 DEF IInv, WorkersFresh
    <3> QED BY <3>1, <3>2, <3>3 DEF In, Holding
  <2>3. "leased" \in Places /\ pc[r] # "leased"
    BY <1>1 DEF Places
  <2>4. r \in In("starting") /\ In("starting")' = In("starting") \ {r}
    BY <1>1, <2>1, <2>3, MovesOne DEF Places
  <2>5. In("woken")' = In("woken") /\ In("failed")' = In("failed")
    BY <1>1, <2>1, <2>3, MovesOne DEF Places
  <2>6. Counted(leased', s + 1)
    BY <1>2, <2>1, <2>2, CountedChange DEF Sizes
  <2>7. t >= 1 /\ t - 1 \in Nat /\ Counted(In("starting")', t - 1)
    <3>1. Counted(In("starting"), t)
      BY <1>2 DEF Sizes
    <3>2. t >= 1 /\ Counted(In("starting") \ {r}, t - 1)
      BY <2>4, <3>1, CountedChange
    <3> QED BY <2>4, <3>2
  <2>8. Sizes(s + 1, t - 1, u, v)'
    BY <1>2, <2>5, <2>6, <2>7 DEF Sizes
  <2> QED BY <1>1, <1>2, <2>7, <2>8, LimitsAssumption DEF CapacitySound
<1>4. CASE StartFail(r)
  <2>1. pc' = [pc EXCEPT ![r] = "failed"] /\ leased' = leased
    BY <1>4 DEF StartFail
  <2>2. "failed" \in Places /\ pc[r] # "failed"
    BY <1>1 DEF Places
  <2>3. r \in In("starting") /\ In("starting")' = In("starting") \ {r}
    BY <1>1, <2>1, <2>2, MovesOne DEF Places
  <2>4. /\ r \notin In("failed") /\ In("failed")' = In("failed") \cup {r}
        /\ In("woken")' = In("woken")
    BY <1>1, <2>1, <2>2, MovesOne DEF Places
  <2>5. Counted(In("failed")', v + 1)
    BY <1>2, <2>4, CountedChange DEF Sizes
  <2>6. t >= 1 /\ t - 1 \in Nat /\ Counted(In("starting")', t - 1)
    <3>1. Counted(In("starting"), t)
      BY <1>2 DEF Sizes
    <3>2. t >= 1 /\ Counted(In("starting") \ {r}, t - 1)
      BY <2>3, <3>1, CountedChange
    <3> QED BY <2>3, <3>2
  <2>7. Sizes(s, t - 1, u, v + 1)'
    BY <1>2, <2>1, <2>4, <2>5, <2>6 DEF Sizes
  <2> QED BY <1>1, <1>2, <2>6, <2>7, LimitsAssumption DEF CapacitySound
<1> QED BY <1>3, <1>4

\* The set of leased workers, one taken away or not, has a size one smaller at most.
LEMMA LeasedShrinks ==
  ASSUME NEW s \in Nat, Counted(leased, s), NEW w
  PROVE  \E n \in Nat : Counted(leased \ {w}, n) /\ n + 1 >= s
<1>1. CASE w \in leased
  <2>1. s - 1 \in Nat /\ Counted(leased \ {w}, s - 1)
    BY <1>1, CountedChange
  <2> QED BY <2>1
<1>2. CASE w \notin leased
  <2>1. Counted(leased \ {w}, s)
    BY <1>2, CountedChange
  <2> QED BY <2>1
<1> QED BY <1>1, <1>2

\* A release frees one worker, and while calls wait it resolves one of them.
LEMMA ReleaseCapacity ==
  ASSUME IInv, CapacitySound, NEW r \in Requests, ReleaseKill(r) \/ ReleaseStore(r)
  PROVE  CapacitySound'
<1>1. TypeOK /\ pc[r] = "leased" /\ leased' = leased \ {lease[r]} /\ EndAndNotify(r)
  BY DEF ReleaseKill, ReleaseStore, IInv
<1>2. PICK s, t, u, v \in Nat :
        Sizes(s, t, u, v) /\ (waiters # <<>> => s + t + u + v >= Max)
  BY DEF CapacitySound
<1>3. PICK n \in Nat : Counted(leased', n) /\ n + 1 >= s
  BY <1>1, <1>2, LeasedShrinks DEF Sizes
<1>4. CASE waiters = <<>>
  <2>1. pc' = [pc EXCEPT ![r] = "done"] /\ waiters' = <<>>
    BY <1>1, <1>4 DEF EndAndNotify
  <2>2. "done" \in Places /\ pc[r] # "done"
    BY <1>1 DEF Places
  <2>3. /\ In("starting")' = In("starting") /\ In("woken")' = In("woken")
        /\ In("failed")' = In("failed")
    BY <1>1, <2>1, <2>2, MovesOne DEF Places
  <2>4. Sizes(n, t, u, v)'
    BY <1>2, <1>3, <2>3 DEF Sizes
  <2> QED BY <2>1, <2>4 DEF CapacitySound
<1>5. CASE waiters # <<>>
  <2> DEFINE h == Head(waiters)
  <2>1. pc' = [pc EXCEPT ![r] = "done", ![h] = "woken"]
    BY <1>1, <1>5 DEF EndAndNotify
  <2>2. h \in Requests /\ pc[h] = "waiting"
    <3>1. Len(waiters) \in Nat \ {0} /\ h = waiters[1]
      BY <1>1, <1>5 DEF TypeOK
    <3>2. h \in In("waiting")
      BY <3>1 DEF IInv, WaitersExact
    <3> QED BY <3>2 DEF In
  <2> HIDE DEF h
  <2>3. h \notin In("woken") /\ In("woken")' = In("woken") \cup {h}
    BY <1>1, <2>1, <2>2 DEF In, TypeOK
  <2>4. In("starting")' = In("starting") /\ In("failed")' = In("failed")
    BY <1>1, <2>1, <2>2 DEF In, TypeOK
  <2>5. Counted(In("woken")', u + 1)
    BY <1>2, <2>3, CountedChange DEF Sizes
  <2>6. Sizes(n, t, u + 1, v)'
    BY <1>2, <1>3, <2>4, <2>5 DEF Sizes
  <2>7. n + t + (u + 1) + v >= Max
    BY <1>2, <1>3, <1>5, LimitsAssumption
  <2>8. u + 1 \in Nat
    OBVIOUS
  <2> QED BY <2>6, <2>7, <2>8 DEF CapacitySound
<1> QED BY <1>4, <1>5

\* What changes neither the places, the leased set nor the queue accounts for as much.
LEMMA SameCapacity ==
  ASSUME CapacitySound, UNCHANGED <<leased, waiters, pc>>
  PROVE  CapacitySound'
<1>1. PICK s, t, u, v \in Nat :
        Sizes(s, t, u, v) /\ (waiters # <<>> => s + t + u + v >= Max)
  BY DEF CapacitySound
<1>2. Sizes(s, t, u, v)'
  BY <1>1 DEF Sizes, In
<1> QED BY <1>1, <1>2 DEF CapacitySound

\* A prewarm that finds its slot filled takes up nothing.
LEMMA SkipCapacity ==
  ASSUME IInv, CapacitySound, NEW r \in Requests, PrewarmSkip(r)
  PROVE  CapacitySound'
<1>1. /\ TypeOK /\ pc[r] = "new" /\ pc' = [pc EXCEPT ![r] = "done"]
      /\ leased' = leased /\ waiters' = waiters
  BY DEF PrewarmSkip, IInv
<1>2. PICK s, t, u, v \in Nat :
        Sizes(s, t, u, v) /\ (waiters # <<>> => s + t + u + v >= Max)
  BY DEF CapacitySound
<1>3. "done" \in Places /\ pc[r] # "done"
  BY <1>1 DEF Places
<1>4. /\ In("starting")' = In("starting") /\ In("woken")' = In("woken")
      /\ In("failed")' = In("failed")
  BY <1>1, <1>3, MovesOne DEF Places
<1>5. Sizes(s, t, u, v)'
  BY <1>1, <1>2, <1>4 DEF Sizes
<1> QED BY <1>1, <1>2, <1>5 DEF CapacitySound

\* drain() resolves everybody who waits, and the queue is finite.
LEMMA DrainCapacity ==
  ASSUME IInv, CapacitySound, Drain
  PROVE  CapacitySound'
<1>1. /\ TypeOK /\ leased' = {} /\ waiters' = <<>>
      /\ pc' = [r \in Requests |-> IF pc[r] = "waiting" THEN "woken" ELSE pc[r]]
  BY DEF Drain, IInv
<1>2. PICK s, t, u, v \in Nat : Sizes(s, t, u, v)
  BY DEF CapacitySound
<1>3. In("starting")' = In("starting") /\ In("failed")' = In("failed")
  BY <1>1 DEF In
<1>4. In("woken")' = In("woken") \cup In("waiting")
  BY <1>1 DEF In
<1>5. IsFiniteSet(In("waiting"))
  <2>1. Len(waiters) \in Nat
    BY <1>1 DEF TypeOK
  <2>2. IsFiniteSet(1 .. Len(waiters))
    BY <2>1, FS_Interval
  <2>3. In("waiting") = {waiters[i] : i \in 1 .. Len(waiters)}
    BY DEF IInv, WaitersExact
  <2> DEFINE q == [i \in 1 .. Len(waiters) |-> waiters[i]]
  <2>4. q \in Surjection(1 .. Len(waiters), In("waiting"))
    BY <2>3 DEF Surjection
  <2> HIDE DEF q
  <2> QED BY <2>2, <2>4, FS_Surjection
<1>6. IsFiniteSet(In("woken")')
  BY <1>2, <1>4, <1>5, FS_Union DEF Sizes, Counted
<1>7. Counted({}, 0)
  BY FS_EmptySet DEF Counted
<1>8. PICK n \in Nat : Counted(In("woken")', n)
  BY <1>6, FS_CardinalityType DEF Counted
<1>9. Sizes(0, t, n, v)'
  <2>1. 0 \in Nat /\ t \in Nat /\ v \in Nat
    OBVIOUS
  <2>2. Counted(In("starting")', t) /\ Counted(In("failed")', v)
    BY <1>2, <1>3 DEF Sizes
  <2> QED BY <1>1, <1>7, <1>8, <2>1, <2>2 DEF Sizes
<1>10. 0 \in Nat
  OBVIOUS
<1> QED BY <1>1, <1>8, <1>9, <1>10 DEF CapacitySound

\* While calls wait for capacity, Max workers are leased, starting, promised to a
\* resolved waiter, or lost to a failed cold start (pool.ts:70-104).
THEOREM PoolCapacityAccounted == Spec => []CapacityAccounted
<1>1. Init => CapacitySound
  <2>1. Counted({}, 0)
    BY FS_EmptySet DEF Counted
  <2>2. Init => /\ leased = {} /\ waiters = <<>> /\ In("starting") = {}
                /\ In("woken") = {} /\ In("failed") = {}
    BY DEF Init, In
  <2>3. Init => Sizes(0, 0, 0, 0)
    BY <2>1, <2>2 DEF Sizes
  <2> QED BY <2>2, <2>3 DEF CapacitySound
<1>2. ASSUME IInv, CapacitySound, [Next]_vars
      PROVE  CapacitySound'
  <2>1. ASSUME NEW r \in Requests,
               AcquireWarm(r) \/ AcquireWait(r) \/ AcquireCold(r)
        PROVE  CapacitySound'
    BY <1>2, <2>1, WarmCapacity, WaitCapacity, ColdCapacity
  <2>2. ASSUME NEW r \in Requests,
               StartOk(r) \/ StartFail(r) \/ PrewarmSkip(r)
        PROVE  CapacitySound'
    BY <1>2, <2>2, StartCapacity, SkipCapacity
  <2>3. ASSUME NEW r \in Requests, ReleaseKill(r) \/ ReleaseStore(r)
        PROVE  CapacitySound'
    BY <1>2, <2>3, ReleaseCapacity
  <2>4. ASSUME NEW r \in Requests, WorkerDies(r)
        PROVE  CapacitySound'
    BY <1>2, <2>4, SameCapacity DEF WorkerDies
  <2>5. CASE Drain
    BY <1>2, <2>5, DrainCapacity
  <2>6. CASE Tick \/ UNCHANGED vars
    BY <1>2, <2>6, SameCapacity DEF Tick, vars
  <2> QED BY <1>2, <2>1, <2>2, <2>3, <2>4, <2>5, <2>6 DEF Next
<1>3. CapacitySound => CapacityAccounted
  BY DEF CapacitySound, Sizes, Counted, CapacityAccounted
<1> QED BY <1>1, <1>2, <1>3, PoolInvariant, PTL DEF Spec

=============================================================================
