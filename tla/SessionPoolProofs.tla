------------------------- MODULE SessionPoolProofs --------------------------
(***************************************************************************)
(* Proofs about SessionPool, for any requests, keys, sessions and limits:  *)
(* the inductive invariant SInv, that keys and workers match, that turns   *)
(* run one at a time until a queue timeout fires, and what evicts a        *)
(* session in use or follows a failure on it.                              *)
(***************************************************************************)
EXTENDS SessionPool, FiniteSetTheorems, TLAPS

-----------------------------------------------------------------------------
(***************************************************************************)
(* The inductive invariant, in its parts.                                  *)
(***************************************************************************)
\* A request that has not come has left no trace.
Newcomers ==
  \A r \in Requests :
    reply[r] = "none" =>
      /\ worker[r] = "none" /\ turn[r] = "none"
      /\ \A k \in Keys : r \notin InSeq(creations[k])

\* Those that await a slot are of its key, once each, and have no turn yet.
Creating ==
  \A k \in Keys :
    /\ \A i, j \in DOMAIN creations[k] : creations[k][i] = creations[k][j] => i = j
    /\ \A r \in InSeq(creations[k]) : KeyOf[r] = k /\ turn[r] = "none" /\ reply[r] \in {"open", "closed"}
    /\ creations[k] # <<>> => worker[Head(creations[k])] = "starting"

\* A slot has a queue once its worker has started, and comes after others in the map.
Started ==
  \A s \in Requests :
    /\ worker[s] \in {"none", "starting"} => s \notin held /\ queue[s] = <<>> /\ ~inFlight[s]
    /\ s \notin older[s]

\* A request is chained once, to a slot of its key.
ChainedOnce ==
  /\ \A s, t \in Requests : \A i \in DOMAIN queue[s], j \in DOMAIN queue[t] :
       queue[s][i] = queue[t][j] => s = t /\ i = j
  /\ \A s \in Requests : \A i \in DOMAIN queue[s] :
       turn[queue[s][i]] # "none" /\ KeyOf[queue[s][i]] = KeyOf[s]

\* The first turn of a chain that is not over.
Front(s, i) ==
  /\ i \in DOMAIN queue[s]
  /\ turn[queue[s][i]] # "over"
  /\ \A j \in DOMAIN queue[s] : j < i => turn[queue[s][j]] = "over"

\* Until a queue timeout fires in a slot, its promises tell which turns are over, and its
\* turns begin in the order of the chain.
SerialAt(s) ==
  ~TimedOut(s) =>
    /\ \A i \in DOMAIN queue[s] : next[queue[s][i]] = "pending" <=> turn[queue[s][i]] # "over"
    /\ \A i, j \in DOMAIN queue[s] : i < j /\ turn[queue[s][j]] # "waiting" => turn[queue[s][i]] = "over"
    /\ inFlight[s] <=> \E i \in DOMAIN queue[s] : turn[queue[s][i]] = "running"
    /\ (\E i \in DOMAIN queue[s] : turn[queue[s][i]] # "over") => \E i \in DOMAIN queue[s] : Front(s, i)
Serial == \A s \in Requests : SerialAt(s)

\* A caller whose promise is pending has not been answered, a promise ends with its turn,
\* and the worker of a slot with a failed turn is gone.
Promised ==
  /\ \A r \in Requests : next[r] = "pending" => reply[r] \in {"open", "closed"}
  /\ \A r \in Requests : next[r] = "ended" => turn[r] = "over"
  /\ \A s \in Requests : FailedOn(s) => worker[s] # "live"

Accounts == SlotsAccounted /\ Newcomers /\ Creating /\ Started
Turns == ChainedOnce /\ Serial /\ Promised

SInv == TypeOK /\ Accounts /\ Turns

-----------------------------------------------------------------------------
LEMMA SessionInit == Init => SInv
<1> SUFFICES ASSUME Init PROVE SInv
  OBVIOUS
<1>1. TypeOK
  BY KeysAssumption, LimitsAssumption DEF Init, TypeOK
<1>2. Accounts
  BY KeysAssumption DEF Init, Accounts, SlotsAccounted, OneSlotPerKey, WorkersOwned, Newcomers, Creating, Started, InSeq
<1>3. Turns
  BY DEF Init, Turns, ChainedOnce, Serial, SerialAt, TimedOut, Chained, InSeq, Promised, FailedOn
<1> QED BY <1>1, <1>2, <1>3 DEF SInv

\* What is in a sequence.
LEMMA InSeqFacts ==
  ASSUME NEW S, NEW q \in Seq(S)
  PROVE  /\ InSeq(q) \subseteq S
         /\ q # <<>> => Head(q) \in InSeq(q) /\ Head(q) = q[1] /\ 1 \in DOMAIN q
         /\ \A x \in S : InSeq(Append(q, x)) = InSeq(q) \cup {x}
         /\ InSeq(<<>>) = {}
<1>1. InSeq(q) \subseteq S /\ InSeq(<<>>) = {}
  BY DEF InSeq
<1>2. q # <<>> => Head(q) \in InSeq(q) /\ Head(q) = q[1] /\ 1 \in DOMAIN q
  BY DEF InSeq
<1>3. ASSUME NEW x \in S PROVE InSeq(Append(q, x)) = InSeq(q) \cup {x}
  <2>1. DOMAIN Append(q, x) = 1 .. Len(q) + 1 /\ DOMAIN q = 1 .. Len(q) /\ Len(q) \in Nat
    OBVIOUS
  <2>2. \A i \in 1 .. Len(q) : Append(q, x)[i] = q[i]
    OBVIOUS
  <2>3. Append(q, x)[Len(q) + 1] = x
    OBVIOUS
  <2> QED BY <2>1, <2>2, <2>3 DEF InSeq
<1> QED BY <1>1, <1>2, <1>3

-----------------------------------------------------------------------------
(***************************************************************************)
(* What leaves the turns alone.                                            *)
(***************************************************************************)
\* The chain of a slot is as it was while its requests' runs and promises, and its flag, are.
LEMMA SerialSame ==
  ASSUME TypeOK, NEW s \in Requests, SerialAt(s), queue'[s] = queue[s], inFlight'[s] = inFlight[s],
         \A i \in DOMAIN queue[s] :
            turn'[queue[s][i]] = turn[queue[s][i]] /\ next'[queue[s][i]] = next[queue[s][i]]
  PROVE  SerialAt(s)'
<1>1. \A i \in DOMAIN queue[s] : queue[s][i] \in Requests
  BY DEF TypeOK
<1>2. TimedOut(s)' <=> TimedOut(s)
  BY <1>1 DEF TimedOut, Chained, InSeq
<1>3. \A i \in DOMAIN queue[s] : Front(s, i)' <=> Front(s, i)
  BY DEF Front
<1> QED BY <1>2, <1>3 DEF SerialAt

\* A step that chains, starts and ends nothing, and after which no worker is live that
\* was not.
LEMMA TurnsSame ==
  ASSUME SInv, UNCHANGED <<queue, turn, next, inFlight>>,
         \A r \in Requests : reply[r] \in {"open", "closed"} /\ next[r] = "pending" => reply'[r] \in {"open", "closed"},
         \A r \in Requests : next[r] = "ended" /\ reply'[r] = "failed" => reply[r] = "failed",
         \A s \in Requests : queue[s] # <<>> /\ worker'[s] = "live" => worker[s] = "live"
  PROVE  Turns'
<1>1. ChainedOnce'
  BY DEF SInv, Turns, ChainedOnce
<1>2. Serial'
  BY SerialSame DEF SInv, Turns, Serial
<1>3. Promised'
  <2>1. \A r \in Requests : next'[r] = "pending" => reply'[r] \in {"open", "closed"}
    BY DEF SInv, Turns, Promised
  <2>2. \A s \in Requests : FailedOn(s)' => FailedOn(s) /\ queue[s] # <<>>
    BY DEF FailedOn, Chained, InSeq
  <2> QED BY <2>1, <2>2 DEF SInv, Turns, Promised
<1> QED BY <1>1, <1>2, <1>3 DEF Turns

-----------------------------------------------------------------------------
(***************************************************************************)
(* What keeps the accounts.                                                *)
(***************************************************************************)
\* The slots outside ss leave the map, and their workers are killed.
LEMMA Kept ==
  ASSUME SInv, NEW ss \in SUBSET held, KeepOnly(ss)
  PROVE  /\ held' = ss /\ held' \subseteq Requests
         /\ older' \in [Requests -> SUBSET Requests] /\ \A s \in Requests : older'[s] \subseteq older[s]
         /\ idle' \in [Requests -> 0 .. Ttl + 1] /\ life' \in [Requests -> 0 .. AbsoluteTtl + 1]
         /\ KilledDownTo(ss) \in [Requests -> {"none", "starting", "live", "dead"}]
         /\ \A s \in Requests : KilledDownTo(ss)[s] = IF s \in held \ ss THEN "dead" ELSE worker[s]
BY LimitsAssumption DEF SInv, TypeOK, KeepOnly, KilledDownTo

\* No slot enters the map, those that leave it are dead, and creations stay as they are.
Shrinks ==
  /\ held' \subseteq held
  /\ \A s \in Requests : older'[s] \subseteq older[s]
  /\ \A s \in Requests : worker'[s] = worker[s] \/ (worker[s] \in {"live", "dead"} /\ worker'[s] = "dead")
  /\ \A s \in held \ held' : worker'[s] = "dead"

LEMMA KeptShrinks ==
  ASSUME SInv, NEW ss \in SUBSET held, KeepOnly(ss), worker' = KilledDownTo(ss)
  PROVE  Shrinks
<1>1. \A s \in held : worker[s] \in {"live", "dead"}
  BY DEF SInv, TypeOK, Accounts, Started
<1>2. held' = ss /\ held \subseteq Requests
  BY DEF KeepOnly, SInv, TypeOK
<1> QED BY <1>1, <1>2, Kept DEF Shrinks

LEMMA AccountsShrink ==
  ASSUME SInv, Shrinks, UNCHANGED creations,
         \A s \in Requests :
           worker[s] \in {"none", "starting"} => queue'[s] = queue[s] /\ inFlight'[s] = inFlight[s],
         \A r \in Requests : reply'[r] = "none" => reply[r] = "none" /\ turn'[r] = turn[r],
         \A r \in Requests : turn[r] = "none" /\ reply[r] \in {"open", "closed"} /\ (\E k \in Keys : r \in InSeq(creations[k]))
           => turn'[r] = "none" /\ reply'[r] \in {"open", "closed"}
  PROVE  Accounts'
<1>1. /\ TypeOK /\ OneSlotPerKey /\ WorkersOwned /\ Newcomers /\ Creating /\ Started
  BY DEF SInv, Accounts, SlotsAccounted
<1>2. \A k \in Keys : InSeq(creations[k]) \subseteq Requests /\ (creations[k] # <<>> => Head(creations[k]) \in Requests)
  BY <1>1, InSeqFacts DEF TypeOK
<1>3. OneSlotPerKey'
  BY <1>1 DEF OneSlotPerKey, Shrinks
<1>4. WorkersOwned'
  BY <1>1, KeysAssumption DEF WorkersOwned, Shrinks, TypeOK
<1>5. Newcomers'
  BY <1>1 DEF Newcomers, Shrinks
<1>6. Creating'
  BY <1>1, <1>2 DEF Creating, Shrinks
<1>7. Started'
  BY <1>1 DEF Started, Shrinks
<1> QED BY <1>3, <1>4, <1>5, <1>6, <1>7 DEF Accounts, SlotsAccounted

\* The slots that an arrival finds, or leaves, are of the map.
LEMMA FoundHeld ==
  ASSUME NEW r, NEW reset
  PROVE  AfterReset(r, reset) \subseteq held /\ Found(r, reset) \subseteq AfterReset(r, reset)
BY DEF AfterReset, Found, Reset, Unexpired

-----------------------------------------------------------------------------
(***************************************************************************)
(* Arrivals.                                                               *)
(***************************************************************************)
LEMMA StepRefuseBusy ==
  ASSUME SInv, NEW r \in Requests, NEW reset \in BOOLEAN, RefuseBusy(r, reset)
  PROVE  SInv'
<1> DEFINE ss == AfterReset(r, reset)
<1>1. /\ ss \subseteq held /\ KeepOnly(ss) /\ worker' = KilledDownTo(ss) /\ reply[r] = "none"
      /\ reply' = [reply EXCEPT ![r] = "failed"]
      /\ UNCHANGED <<creations, inFlight, queue, turn, next>>
  BY FoundHeld DEF RefuseBusy, Arrive
<1> HIDE DEF ss
<1>2. TypeOK'
  BY <1>1, Kept DEF SInv, TypeOK
<1>3. reply \in [Requests -> {"none", "open", "answered", "failed", "closed"}] /\ turn[r] = "none" /\ next[r] = "none"
  BY <1>1 DEF SInv, TypeOK, Accounts, Newcomers
<1>4. Accounts'
  <2>1. Shrinks
    BY <1>1, KeptShrinks
  <2> QED BY <1>1, <1>3, <2>1, AccountsShrink
<1>5. Turns'
  <2>1. \A s \in Requests : worker'[s] = "live" => worker[s] = "live"
    BY <1>1, Kept
  <2> QED BY <1>1, <1>3, <2>1, TurnsSame
<1> QED BY <1>2, <1>4, <1>5 DEF SInv

-----------------------------------------------------------------------------
(***************************************************************************)
(* Steps that touch no turn.                                               *)
(***************************************************************************)
LEMMA StepQueueTimeout ==
  ASSUME SInv, NEW r \in Requests, QueueTimeout(r)
  PROVE  SInv'
<1>1. /\ next[r] = "pending" /\ UNCHANGED <<held, older, creations, worker, inFlight, idle, life, queue, turn>>
      /\ next' = [next EXCEPT ![r] = "expired"]
      /\ reply' = [reply EXCEPT ![r] = IF @ = "open" THEN "failed" ELSE @]
  BY DEF QueueTimeout, Settle, slots
<1>2. TypeOK /\ Turns /\ turn[r] # "none"
  BY <1>1 DEF SInv, TypeOK
<1>3. TypeOK'
  BY <1>1, <1>2 DEF TypeOK
<1>4. Accounts'
  <2>1. Shrinks
    BY <1>1, <1>2 DEF Shrinks, TypeOK
  <2> QED BY <1>1, <1>2, <2>1, AccountsShrink DEF TypeOK
<1>5. ChainedOnce'
  BY <1>1, <1>2 DEF Turns, ChainedOnce
<1>6. Serial'
  <2>1. ASSUME NEW s \in Requests PROVE SerialAt(s)'
    <3>1. CASE Chained(s, r)
      <4>1. Chained(s, r)' /\ next'[r] = "expired"
        BY <1>1, <1>2, <3>1 DEF TypeOK, Chained
      <4> QED BY <4>1 DEF SerialAt, TimedOut
    <3>2. CASE ~Chained(s, r)
      <4>1. \A i \in DOMAIN queue[s] : next'[queue[s][i]] = next[queue[s][i]]
        BY <1>1, <1>2, <3>2 DEF Chained, InSeq, TypeOK
      <4> QED BY <1>1, <1>2, <4>1, SerialSame DEF Turns, Serial
    <3> QED BY <3>1, <3>2
  <2> QED BY <2>1 DEF Serial
<1>7. Promised'
  <2>1. \A x \in Requests : next'[x] = "pending" => reply'[x] \in {"open", "closed"}
    BY <1>1, <1>2 DEF Turns, Promised, TypeOK
  <2>2. \A s \in Requests : FailedOn(s)' => FailedOn(s)
    BY <1>1, <1>2 DEF FailedOn, Chained, TypeOK
  <2> QED BY <1>1, <1>2, <2>1, <2>2 DEF Turns, Promised
<1> QED BY <1>3, <1>4, <1>5, <1>6, <1>7 DEF SInv, Turns

LEMMA StepClientGone ==
  ASSUME SInv, NEW r \in Requests, ClientGone(r)
  PROVE  SInv'
<1> DEFINE ss == held \ {s \in held : KeyOf[s] = KeyOf[r]}
<1>1. /\ ss \subseteq held /\ KeepOnly(ss) /\ worker' = KilledDownTo(ss) /\ reply[r] = "open"
      /\ reply' = [reply EXCEPT ![r] = "closed"]
      /\ UNCHANGED <<creations, inFlight, queue, turn, next>>
  BY DEF ClientGone, Discard
<1> HIDE DEF ss
<1>2. TypeOK'
  BY <1>1, Kept DEF SInv, TypeOK
<1>3. reply \in [Requests -> {"none", "open", "answered", "failed", "closed"}]
  BY DEF SInv, TypeOK
<1>4. Accounts'
  <2>1. Shrinks
    BY <1>1, KeptShrinks
  <2> QED BY <1>1, <1>3, <2>1, AccountsShrink
<1>5. Turns'
  <2>1. \A s \in Requests : worker'[s] = "live" => worker[s] = "live"
    BY <1>1, Kept
  <2> QED BY <1>1, <1>3, <2>1, TurnsSame
<1> QED BY <1>2, <1>4, <1>5 DEF SInv

LEMMA StepWorkerDies ==
  ASSUME SInv, NEW s \in Requests, WorkerDies(s)
  PROVE  SInv'
<1>1. /\ worker[s] = "live" /\ worker' = [worker EXCEPT ![s] = "dead"]
      /\ UNCHANGED <<held, older, creations, inFlight, idle, life, queue, turn, next, reply>>
  BY DEF WorkerDies, callers
<1>2. TypeOK'
  BY <1>1 DEF SInv, TypeOK
<1>3. \A x \in Requests : worker'[x] = IF x = s THEN "dead" ELSE worker[x]
  BY <1>1 DEF SInv, TypeOK
<1>4. Accounts'
  <2>1. Shrinks
    BY <1>1, <1>3 DEF Shrinks
  <2> QED BY <1>1, <2>1, AccountsShrink
<1>5. Turns'
  BY <1>1, <1>3, TurnsSame
<1> QED BY <1>2, <1>4, <1>5 DEF SInv

LEMMA StepDrain ==
  ASSUME SInv, Drain
  PROVE  SInv'
<1>1. /\ KeepOnly({}) /\ worker' = KilledDownTo({}) /\ {} \in SUBSET held
      /\ UNCHANGED <<creations, inFlight, queue, turn, next, reply>>
  <2>1. held \ held = {}
    OBVIOUS
  <2> QED BY <2>1 DEF Drain, Discard, callers
<1>2. TypeOK'
  BY <1>1, Kept DEF SInv, TypeOK
<1>4. Accounts'
  <2>1. Shrinks
    BY <1>1, KeptShrinks
  <2> QED BY <1>1, <2>1, AccountsShrink
<1>5. Turns'
  <2>1. \A s \in Requests : worker'[s] = "live" => worker[s] = "live"
    BY <1>1, Kept
  <2> QED BY <1>1, <2>1, TurnsSame
<1> QED BY <1>2, <1>4, <1>5 DEF SInv

LEMMA StepStickyStats ==
  ASSUME SInv, StickyStats
  PROVE  SInv'
<1> DEFINE ss == held \ (held \ Unexpired)
<1>1. /\ ss \subseteq held /\ KeepOnly(ss) /\ worker' = KilledDownTo(ss)
      /\ UNCHANGED <<creations, inFlight, queue, turn, next, reply>>
  BY DEF StickyStats, Discard, callers
<1> HIDE DEF ss
<1>2. TypeOK'
  BY <1>1, Kept DEF SInv, TypeOK
<1>3. Accounts'
  <2>1. Shrinks
    BY <1>1, KeptShrinks
  <2> QED BY <1>1, <2>1, AccountsShrink
<1>4. Turns'
  <2>1. \A s \in Requests : worker'[s] = "live" => worker[s] = "live"
    BY <1>1, Kept
  <2> QED BY <1>1, <2>1, TurnsSame
<1> QED BY <1>2, <1>3, <1>4 DEF SInv

LEMMA StepTick ==
  ASSUME SInv, Tick
  PROVE  SInv'
<1>1. UNCHANGED <<held, older, creations, worker, inFlight, queue, turn, next, reply>>
  BY DEF Tick, callers
<1>2. TypeOK'
  <2>1. idle' \in [Requests -> 0 .. Ttl + 1] /\ life' \in [Requests -> 0 .. AbsoluteTtl + 1]
    BY LimitsAssumption DEF Tick, Min2, SInv, TypeOK
  <2> QED BY <1>1, <2>1 DEF SInv, TypeOK
<1>4. Accounts'
  <2>1. Shrinks
    BY <1>1 DEF Shrinks
  <2> QED BY <1>1, <2>1, AccountsShrink
<1>5. Turns'
  BY <1>1, TurnsSame
<1> QED BY <1>2, <1>4, <1>5 DEF SInv

LEMMA StepCreateFail ==
  ASSUME SInv, NEW k \in Keys, CreateFail(k)
  PROVE  SInv'
<1> DEFINE h == Head(creations[k])
<1>1. /\ creations[k] # <<>> /\ worker' = [worker EXCEPT ![h] = "dead"] /\ creations' = [creations EXCEPT ![k] = <<>>]
      /\ reply' = [r \in Requests |-> IF r \in InSeq(creations[k]) /\ reply[r] = "open" THEN "failed" ELSE reply[r]]
      /\ UNCHANGED <<held, older, inFlight, idle, life, queue, turn, next>>
  BY DEF CreateFail
<1>2. h \in InSeq(creations[k]) /\ InSeq(creations[k]) \subseteq Requests /\ InSeq(<<>>) = {}
  BY <1>1, InSeqFacts DEF SInv, TypeOK
<1>3. worker[h] = "starting" /\ KeyOf[h] = k /\ queue[h] = <<>> /\ ~inFlight[h]
  BY <1>1, <1>2 DEF SInv, Accounts, Creating, Started
<1> HIDE DEF h
<1>4. /\ TypeOK /\ OneSlotPerKey /\ WorkersOwned /\ Newcomers /\ Creating /\ Started
  BY DEF SInv, Accounts, SlotsAccounted
<1>5. TypeOK'
  BY <1>1, <1>2, <1>4 DEF TypeOK
<1>6. \A j \in Keys : creations'[j] = IF j = k THEN <<>> ELSE creations[j]
  BY <1>1, <1>4 DEF TypeOK
<1>7. \A s \in Requests : worker'[s] = IF s = h THEN "dead" ELSE worker[s]
  BY <1>1, <1>4 DEF TypeOK
<1>8. Accounts'
  <2>1. OneSlotPerKey'
    BY <1>1, <1>4, <1>6, KeysAssumption DEF OneSlotPerKey, TypeOK
  <2>2. WorkersOwned'
    BY <1>1, <1>4, <1>6, <1>7, KeysAssumption DEF WorkersOwned, h
  <2>3. Newcomers'
    BY <1>1, <1>2, <1>3, <1>4, <1>6, <1>7 DEF Newcomers
  <2>4. Creating'
    <3>1. \A j \in Keys \ {k} : h \notin InSeq(creations[j]) /\ \A r \in InSeq(creations[j]) : r \notin InSeq(creations[k])
      BY <1>2, <1>3, <1>4 DEF Creating
    <3>2. \A j \in Keys : InSeq(creations[j]) \subseteq Requests /\ (creations[j] # <<>> => Head(creations[j]) \in InSeq(creations[j]))
      BY <1>4, InSeqFacts DEF TypeOK
    <3>3. ASSUME NEW j \in Keys, j # k
          PROVE  /\ \A r \in InSeq(creations[j]) : reply'[r] = reply[r]
                 /\ creations[j] # <<>> => worker'[Head(creations[j])] = worker[Head(creations[j])]
      BY <1>1, <1>7, <3>1, <3>2, <3>3
    <3> QED BY <1>1, <1>2, <1>4, <1>6, <3>3 DEF Creating
  <2>5. Started'
    BY <1>1, <1>4, <1>7 DEF Started
  <2> QED BY <2>1, <2>2, <2>3, <2>4, <2>5 DEF Accounts, SlotsAccounted
<1>9. Turns'
  <2>1. \A r \in InSeq(creations[k]) : next[r] = "none"
    BY <1>2, <1>4 DEF TypeOK, Creating
  <2> QED BY <1>1, <1>3, <1>4, <1>7, <2>1, TurnsSame DEF TypeOK
<1> QED BY <1>5, <1>8, <1>9 DEF SInv

-----------------------------------------------------------------------------
(***************************************************************************)
(* Misses.                                                                 *)
(***************************************************************************)
LEMMA StepJoin ==
  ASSUME SInv, NEW r \in Requests, NEW reset \in BOOLEAN, Join(r, reset)
  PROVE  SInv'
<1> DEFINE ss == Found(r, reset)
           k == KeyOf[r]
<1>1. /\ ss \subseteq held /\ KeepOnly(ss) /\ worker' = KilledDownTo(ss) /\ reply[r] = "none"
      /\ reply' = [reply EXCEPT ![r] = "open"] /\ creations[k] # <<>>
      /\ creations' = [creations EXCEPT ![k] = Append(@, r)]
      /\ UNCHANGED <<inFlight, queue, turn, next>>
  BY FoundHeld DEF Join, Arrive
<1> HIDE DEF ss
<1>2. /\ TypeOK /\ OneSlotPerKey /\ WorkersOwned /\ Newcomers /\ Creating /\ Started
  BY DEF SInv, Accounts, SlotsAccounted
<1>3. k \in Keys /\ turn[r] = "none" /\ next[r] = "none" /\ worker[r] = "none" /\ \A j \in Keys : r \notin InSeq(creations[j])
  BY <1>1, <1>2, KeysAssumption DEF TypeOK, Newcomers
<1>4. /\ InSeq(creations'[k]) = InSeq(creations[k]) \cup {r} /\ creations'[k] = Append(creations[k], r)
      /\ Head(creations'[k]) = Head(creations[k]) /\ creations'[k] # <<>>
      /\ creations' \in [Keys -> Seq(Requests)]
      /\ \A j \in Keys \ {k} : creations'[j] = creations[j]
  <2>1. creations \in [Keys -> Seq(Requests)] /\ creations[k] \in Seq(Requests)
    BY <1>2, <1>3 DEF TypeOK
  <2>2. Append(creations[k], r) \in Seq(Requests) /\ Append(creations[k], r) # <<>>
    BY <2>1
  <2>3. Head(Append(creations[k], r)) = Head(creations[k])
    BY <1>1, <2>1
  <2>4. InSeq(Append(creations[k], r)) = InSeq(creations[k]) \cup {r}
    BY <2>1, InSeqFacts
  <2>5. creations'[k] = Append(creations[k], r) /\ \A j \in Keys \ {k} : creations'[j] = creations[j]
    BY <1>1, <1>3, <2>1
  <2>6. creations' \in [Keys -> Seq(Requests)]
    BY <1>1, <1>3, <2>1, <2>2
  <2> QED BY <2>2, <2>3, <2>4, <2>5, <2>6
<1>5. TypeOK'
  BY <1>1, <1>2, <1>3, <1>4, Kept DEF TypeOK
<1>6. Shrinks
  BY <1>1, KeptShrinks
<1>9. \A x \in Requests : reply'[x] = IF x = r THEN "open" ELSE reply[x]
  BY <1>1, <1>2 DEF TypeOK
<1>7. Accounts'
  <2>1. OneSlotPerKey'
    <3>1. \A s \in held : KeyOf[s] \in Keys \ {k}
      BY <1>1, <1>2, KeysAssumption DEF OneSlotPerKey, TypeOK
    <3> QED BY <1>2, <1>4, <1>6, <3>1 DEF OneSlotPerKey, Shrinks
  <2>2. WorkersOwned'
    BY <1>2, <1>4, <1>6, KeysAssumption DEF WorkersOwned, Shrinks
  <2>3. Newcomers'
    <3>1. ASSUME NEW x \in Requests, reply'[x] = "none"
          PROVE  x # r /\ reply[x] = "none" /\ worker'[x] = "none" /\ turn'[x] = "none"
      BY <1>1, <1>2, <1>6, <1>9, <3>1 DEF Newcomers, Shrinks
    <3>2. ASSUME NEW x \in Requests, reply'[x] = "none", NEW j \in Keys
          PROVE  x \notin InSeq(creations'[j])
      <4>1. x \notin InSeq(creations[j])
        BY <1>2, <3>1, <3>2 DEF Newcomers
      <4> QED BY <1>4, <3>1, <3>2, <4>1
    <3> QED BY <3>1, <3>2 DEF Newcomers
  <2>4. Creating'
    <3>1. \A a, b \in DOMAIN creations'[k] : creations'[k][a] = creations'[k][b] => a = b
      <4> DEFINE c == creations[k]
      <4>1. c \in Seq(Requests) /\ r \notin InSeq(c) /\ \A a, b \in DOMAIN c : c[a] = c[b] => a = b
        BY <1>2, <1>3 DEF Creating, TypeOK
      <4> HIDE DEF c
      <4>2. \A a, b \in DOMAIN Append(c, r) : Append(c, r)[a] = Append(c, r)[b] => a = b
        <5>1. \A a \in DOMAIN Append(c, r) :
                 \/ a \in DOMAIN c /\ Append(c, r)[a] = c[a] /\ c[a] # r
                 \/ a = Len(c) + 1 /\ Append(c, r)[a] = r
          BY <4>1 DEF InSeq
        <5> QED BY <4>1, <5>1
      <4> QED BY <1>4, <4>2 DEF c
    <3>2. \A x \in InSeq(creations'[k]) : KeyOf[x] = k /\ turn'[x] = "none" /\ reply'[x] \in {"open", "closed"}
      <4> SUFFICES ASSUME NEW x \in InSeq(creations'[k])
                   PROVE  KeyOf[x] = k /\ turn'[x] = "none" /\ reply'[x] \in {"open", "closed"}
        OBVIOUS
      <4>1. x = r \/ x \in InSeq(creations[k])
        BY <1>4
      <4>2. CASE x = r
        <5>1. KeyOf[r] = k /\ turn'[r] = "none"
          BY <1>1, <1>3
        <5>2. reply'[r] = "open"
          BY <1>9
        <5> QED BY <4>2, <5>1, <5>2
      <4>3. CASE x \in InSeq(creations[k]) /\ x # r
        <5>1. KeyOf[x] = k /\ turn[x] = "none" /\ reply[x] \in {"open", "closed"}
          BY <1>2, <1>3, <4>3 DEF Creating
        <5>2. x \in Requests
          BY <1>2, <1>3, <4>3, InSeqFacts DEF TypeOK
        <5>3. reply'[x] = reply[x]
          BY <1>9, <4>3, <5>2
        <5>4. turn'[x] = turn[x]
          BY <1>1
        <5> QED BY <5>1, <5>3, <5>4
      <4> QED BY <4>1, <4>2, <4>3
    <3>3. worker'[Head(creations'[k])] = "starting"
      <4>1. Head(creations[k]) \in Requests
        BY <1>1, <1>2, <1>3, InSeqFacts DEF TypeOK
      <4> QED BY <1>1, <1>2, <1>3, <1>4, <1>6, <4>1 DEF Creating, Shrinks
    <3>4. ASSUME NEW j \in Keys, j # k
          PROVE  /\ \A a, b \in DOMAIN creations'[j] : creations'[j][a] = creations'[j][b] => a = b
                 /\ \A x \in InSeq(creations'[j]) : KeyOf[x] = j /\ turn'[x] = "none" /\ reply'[x] \in {"open", "closed"}
                 /\ creations'[j] # <<>> => worker'[Head(creations'[j])] = "starting"
      <4>1. InSeq(creations[j]) \subseteq Requests /\ (creations[j] # <<>> => Head(creations[j]) \in Requests)
        BY <1>2, InSeqFacts DEF TypeOK
      <4>2. creations'[j] = creations[j]
        BY <1>4, <3>4
      <4>3. \A x \in InSeq(creations[j]) : KeyOf[x] = j /\ turn[x] = "none" /\ reply[x] \in {"open", "closed"} /\ x # r
        BY <1>2, <1>3 DEF Creating
      <4>4. \A x \in InSeq(creations[j]) : turn'[x] = "none" /\ reply'[x] \in {"open", "closed"}
        BY <1>1, <1>9, <4>1, <4>3
      <4>5. creations[j] # <<>> => worker'[Head(creations[j])] = "starting"
        BY <1>2, <1>6, <4>1 DEF Creating, Shrinks
      <4>6. \A a, b \in DOMAIN creations[j] : creations[j][a] = creations[j][b] => a = b
        BY <1>2 DEF Creating
      <4> QED BY <4>2, <4>3, <4>4, <4>5, <4>6
    <3> QED BY <3>1, <3>2, <3>3, <3>4 DEF Creating
  <2>5. Started'
    BY <1>1, <1>2, <1>6 DEF Started, Shrinks
  <2> QED BY <2>1, <2>2, <2>3, <2>4, <2>5 DEF Accounts, SlotsAccounted
<1>8. Turns'
  <2>1. \A s \in Requests : worker'[s] = "live" => worker[s] = "live"
    BY <1>1, Kept
  <2> QED BY <1>1, <1>2, <1>3, <2>1, TurnsSame DEF TypeOK
<1> QED BY <1>5, <1>7, <1>8 DEF SInv

LEMMA StepCreate ==
  ASSUME SInv, NEW r \in Requests, NEW reset \in BOOLEAN, Create(r, reset)
  PROVE  SInv'
<1> DEFINE found == Found(r, reset)
           k == KeyOf[r]
<1>1. PICK gone \in LruEvictions(found) :
        LET ss == found \ gone
        IN  IF Cardinality(ss) >= Max
            THEN Arrive(r, ss, "failed") /\ worker' = KilledDownTo(ss) /\ UNCHANGED creations
            ELSE /\ Arrive(r, ss, "open")
                 /\ worker' = [KilledDownTo(ss) EXCEPT ![r] = "starting"]
                 /\ creations' = [creations EXCEPT ![KeyOf[r]] = <<r>>]
  BY DEF Create
<1> DEFINE ss == found \ gone
<1>2. /\ ss \subseteq held /\ KeepOnly(ss) /\ reply[r] = "none" /\ creations[k] = <<>>
      /\ \A s \in ss : KeyOf[s] # k
      /\ UNCHANGED <<inFlight, queue, turn, next>>
  BY <1>1, FoundHeld DEF Create, Arrive, Hits
<1>3. /\ TypeOK /\ OneSlotPerKey /\ WorkersOwned /\ Newcomers /\ Creating /\ Started
  BY DEF SInv, Accounts, SlotsAccounted
<1>4. k \in Keys /\ turn[r] = "none" /\ next[r] = "none" /\ worker[r] = "none" /\ \A j \in Keys : r \notin InSeq(creations[j])
  BY <1>2, <1>3, KeysAssumption DEF TypeOK, Newcomers
<1>5. CASE Cardinality(ss) >= Max
  <2>1. worker' = KilledDownTo(ss) /\ UNCHANGED creations /\ reply' = [reply EXCEPT ![r] = "failed"]
    BY <1>1, <1>5 DEF Arrive
  <2> HIDE DEF ss
  <2>2. TypeOK'
    BY <1>2, <1>3, <2>1, Kept DEF TypeOK
  <2>3. Accounts'
    <3>1. Shrinks
      BY <1>2, <2>1, KeptShrinks
    <3> QED BY <1>2, <1>3, <1>4, <2>1, <3>1, AccountsShrink DEF TypeOK
  <2>4. Turns'
    <3>1. \A s \in Requests : worker'[s] = "live" => worker[s] = "live"
      BY <1>2, <2>1, Kept
    <3> QED BY <1>2, <1>3, <1>4, <2>1, <3>1, TurnsSame DEF TypeOK
  <2> QED BY <2>2, <2>3, <2>4 DEF SInv
<1>6. CASE ~(Cardinality(ss) >= Max)
  <2>1. /\ worker' = [KilledDownTo(ss) EXCEPT ![r] = "starting"] /\ creations' = [creations EXCEPT ![k] = <<r>>]
        /\ reply' = [reply EXCEPT ![r] = "open"]
    BY <1>1, <1>6 DEF Arrive
  <2> HIDE DEF ss
  <2>2. TypeOK'
    <3>1. /\ held' \subseteq Requests /\ older' \in [Requests -> SUBSET Requests]
          /\ idle' \in [Requests -> 0 .. Ttl + 1] /\ life' \in [Requests -> 0 .. AbsoluteTtl + 1]
          /\ KilledDownTo(ss) \in [Requests -> {"none", "starting", "live", "dead"}]
      BY <1>2, Kept
    <3>2. worker' \in [Requests -> {"none", "starting", "live", "dead"}]
      BY <2>1, <3>1
    <3>3. creations' \in [Keys -> Seq(Requests)]
      <4>1. <<r>> \in Seq(Requests)
        OBVIOUS
      <4> QED BY <1>3, <2>1, <4>1 DEF TypeOK
    <3>4. reply' \in [Requests -> {"none", "open", "answered", "failed", "closed"}]
      BY <1>3, <2>1 DEF TypeOK
    <3> QED BY <1>2, <1>3, <3>1, <3>2, <3>3, <3>4 DEF TypeOK
  <2>3. /\ \A s \in Requests \ {r} : worker'[s] = IF s \in held \ ss THEN "dead" ELSE worker[s]
        /\ worker'[r] = "starting" /\ held' = ss /\ \A s \in Requests : older'[s] \subseteq older[s]
    BY <1>2, <1>3, <2>1, Kept
  <2>4. \A j \in Keys : creations'[j] = IF j = k THEN <<r>> ELSE creations[j]
    BY <1>3, <2>1 DEF TypeOK
  <2>5. InSeq(<<r>>) = {r} /\ Head(<<r>>) = r /\ <<r>> # <<>>
    BY DEF InSeq
  <2>6. \A j \in Keys : InSeq(creations[j]) \subseteq Requests /\ (creations[j] # <<>> => Head(creations[j]) \in InSeq(creations[j]))
    BY <1>3, InSeqFacts DEF TypeOK
  <2>7. r \notin held /\ queue[r] = <<>> /\ ~inFlight[r] /\ \A s \in held : worker[s] \in {"live", "dead"}
    BY <1>3, <1>4 DEF Started, TypeOK
  <2>8. OneSlotPerKey'
    <3>1. \A s \in ss : s \in held /\ KeyOf[s] \in Keys \ {k}
      BY <1>2, <1>3, KeysAssumption DEF TypeOK
    <3> QED BY <1>3, <2>3, <2>4, <3>1 DEF OneSlotPerKey
  <2>9. WorkersOwned'
    BY <1>2, <1>3, <1>4, <2>3, <2>4, <2>5, KeysAssumption DEF WorkersOwned
  <2>10. Newcomers'
    <3>1. \A x \in Requests : reply'[x] = IF x = r THEN "open" ELSE reply[x]
      BY <1>3, <2>1 DEF TypeOK
    <3>2. ASSUME NEW x \in Requests, reply'[x] = "none"
          PROVE  x # r /\ worker'[x] = "none" /\ turn'[x] = "none"
      BY <1>2, <1>3, <2>3, <2>7, <3>1, <3>2 DEF Newcomers
    <3>3. ASSUME NEW x \in Requests, reply'[x] = "none", NEW j \in Keys
          PROVE  x \notin InSeq(creations'[j])
      <4>1. x \notin InSeq(creations[j])
        BY <1>3, <3>1, <3>2, <3>3 DEF Newcomers
      <4> QED BY <2>4, <2>5, <3>2, <3>3, <4>1
    <3> QED BY <3>2, <3>3 DEF Newcomers
  <2>11. Creating'
    <3>1. ASSUME NEW j \in Keys, j # k
          PROVE  creations[j] # <<>> => worker'[Head(creations[j])] = "starting"
      BY <1>3, <1>4, <2>3, <2>6, <2>7 DEF Creating
    <3>2. ASSUME NEW j \in Keys, j # k, NEW x \in InSeq(creations[j])
          PROVE  KeyOf[x] = j /\ turn'[x] = "none" /\ reply'[x] \in {"open", "closed"}
      BY <1>2, <1>3, <1>4, <2>1, <2>6, <3>2 DEF Creating, TypeOK
    <3>3. /\ \A a, b \in DOMAIN <<r>> : a = b
          /\ KeyOf[r] = k /\ turn'[r] = "none" /\ reply'[r] = "open"
      BY <1>2, <1>3, <1>4, <2>1 DEF TypeOK
    <3> QED BY <1>3, <2>3, <2>4, <2>5, <3>1, <3>2, <3>3 DEF Creating
  <2>12. Started'
    BY <1>2, <1>3, <2>3, <2>7 DEF Started
  <2>13. Turns'
    <3>1. \A s \in Requests : worker'[s] = "live" => worker[s] = "live"
      BY <1>3, <2>3
    <3> QED BY <1>2, <1>3, <1>4, <2>1, <3>1, TurnsSame DEF TypeOK
  <2> QED BY <2>2, <2>8, <2>9, <2>10, <2>11, <2>12, <2>13 DEF SInv, Accounts, SlotsAccounted
<1> QED BY <1>5, <1>6

-----------------------------------------------------------------------------
(***************************************************************************)
(* What is chained to a slot.                                              *)
(***************************************************************************)
LEMMA Concatenated ==
  ASSUME NEW S, NEW p \in Seq(S), NEW q \in Seq(S)
  PROVE  /\ p \o q \in Seq(S) /\ Len(p) \in Nat /\ Len(q) \in Nat
         /\ DOMAIN p = 1 .. Len(p) /\ DOMAIN (p \o q) = 1 .. Len(p) + Len(q)
         /\ \A i \in 1 .. Len(p) : (p \o q)[i] = p[i] /\ p[i] \in InSeq(p)
         /\ \A i \in 1 .. Len(p) + Len(q) : i > Len(p) =>
               /\ i - Len(p) \in DOMAIN q /\ (p \o q)[i] = q[i - Len(p)]
               /\ (p \o q)[i] \in InSeq(q)
<1>1. Len(p) \in Nat /\ Len(q) \in Nat /\ DOMAIN p = 1 .. Len(p) /\ DOMAIN q = 1 .. Len(q) /\ p \o q \in Seq(S)
  OBVIOUS
<1>2. DOMAIN (p \o q) = 1 .. Len(p) + Len(q)
  OBVIOUS
<1>3. \A i \in 1 .. Len(p) : (p \o q)[i] = p[i]
  OBVIOUS
<1>4. \A i \in 1 .. Len(p) + Len(q) : i > Len(p) => i - Len(p) \in DOMAIN q /\ (p \o q)[i] = q[i - Len(p)]
  BY <1>1
<1> QED BY <1>1, <1>2, <1>3, <1>4 DEF InSeq

LEMMA TurnsChained ==
  ASSUME SInv, NEW s \in Requests, NEW q \in Seq(Requests), Chain(s, q), UNCHANGED inFlight,
         \A i, j \in DOMAIN q : q[i] = q[j] => i = j,
         \A r \in InSeq(q) : turn[r] = "none" /\ KeyOf[r] = KeyOf[s] /\ reply'[r] \in {"open", "closed"},
         \A r \in Requests \ InSeq(q) : reply'[r] = reply[r],
         \A x \in Requests : queue[x] # <<>> /\ worker'[x] = "live" => worker[x] = "live"
  PROVE  Turns'
<1> DEFINE n == Len(queue[s])
<1>1. TypeOK /\ ChainedOnce /\ Serial /\ Promised
  BY DEF SInv, Turns
<1>2. /\ queue' = [queue EXCEPT ![s] = @ \o q]
      /\ turn' = [r \in Requests |-> IF r \in InSeq(q) THEN "waiting" ELSE turn[r]]
      /\ next' = [r \in Requests |-> IF r \in InSeq(q) THEN "pending" ELSE next[r]]
  BY DEF Chain
<1>3. queue'[s] = queue[s] \o q /\ queue[s] \in Seq(Requests) /\ \A t \in Requests \ {s} : queue'[t] = queue[t]
  BY <1>1, <1>2 DEF TypeOK
<1>4. \A t \in Requests : \A i \in DOMAIN queue[t] :
         /\ queue[t][i] \in Requests \ InSeq(q)
         /\ turn'[queue[t][i]] = turn[queue[t][i]] /\ next'[queue[t][i]] = next[queue[t][i]]
  BY <1>1, <1>2 DEF TypeOK, ChainedOnce
<1>5. /\ n \in Nat /\ DOMAIN queue[s] = 1 .. n /\ DOMAIN queue'[s] = 1 .. n + Len(q) /\ Len(q) \in Nat
      /\ \A i \in 1 .. n : queue'[s][i] = queue[s][i]
      /\ \A i \in 1 .. n + Len(q) : i > n =>
            /\ i - n \in DOMAIN q /\ queue'[s][i] = q[i - n] /\ queue'[s][i] \in InSeq(q)
            /\ turn'[queue'[s][i]] = "waiting" /\ next'[queue'[s][i]] = "pending"
            /\ KeyOf[queue'[s][i]] = KeyOf[s]
  <2>1. InSeq(q) \subseteq Requests
    BY InSeqFacts
  <2> QED BY <1>2, <1>3, <2>1, Concatenated
<1> HIDE DEF n
<1>9. \A t \in Requests : \A i \in DOMAIN queue'[t] :
         \/ i \in DOMAIN queue[t] /\ queue'[t][i] = queue[t][i]
         \/ /\ i \notin DOMAIN queue[t] /\ t = s /\ i > n /\ i \in 1 .. n + Len(q)
            /\ queue'[t][i] \in InSeq(q)
  <2>1. ASSUME NEW t \in Requests, t # s, NEW i \in DOMAIN queue'[t]
        PROVE  i \in DOMAIN queue[t] /\ queue'[t][i] = queue[t][i]
    BY <1>3, <2>1
  <2>2. ASSUME NEW i \in DOMAIN queue'[s]
        PROVE  \/ i \in DOMAIN queue[s] /\ queue'[s][i] = queue[s][i]
               \/ /\ i \notin DOMAIN queue[s] /\ i > n /\ i \in 1 .. n + Len(q)
                  /\ queue'[s][i] \in InSeq(q)
    BY <1>5, <2>2
  <2> QED BY <2>1, <2>2
<1>10. /\ \A t, u \in Requests : \A i \in DOMAIN queue[t], j \in DOMAIN queue[u] :
            queue[t][i] = queue[u][j] => t = u /\ i = j
       /\ \A t \in Requests : \A i \in DOMAIN queue[t] :
            turn[queue[t][i]] # "none" /\ KeyOf[queue[t][i]] = KeyOf[t]
  BY <1>1 DEF ChainedOnce
<1>6. ChainedOnce'
  <2>1. ASSUME NEW t \in Requests, NEW u \in Requests, NEW i \in DOMAIN queue'[t], NEW j \in DOMAIN queue'[u],
               queue'[t][i] = queue'[u][j]
        PROVE  t = u /\ i = j
    <3>1. CASE i \in DOMAIN queue[t] /\ j \in DOMAIN queue[u]
      <4>1. queue'[t][i] = queue[t][i] /\ queue'[u][j] = queue[u][j]
        BY <1>9, <3>1
      <4>2. queue[t][i] = queue[u][j]
        BY <2>1, <4>1
      <4>3. \A a \in DOMAIN queue[t], b \in DOMAIN queue[u] : queue[t][a] = queue[u][b] => t = u /\ a = b
        BY <1>10
      <4> QED BY <3>1, <4>2, <4>3
    <3>2. CASE i \notin DOMAIN queue[t] /\ j \notin DOMAIN queue[u]
      <4>1. t = s /\ u = s /\ i > n /\ j > n /\ i \in 1 .. n + Len(q) /\ j \in 1 .. n + Len(q)
        BY <1>9, <3>2
      <4>2. i - n = j - n
        BY <1>5, <2>1, <4>1
      <4> QED BY <1>5, <4>1, <4>2
    <3>3. CASE i \notin DOMAIN queue[t] /\ j \in DOMAIN queue[u]
      <4>1. t = s /\ queue'[t][i] \in InSeq(q) /\ queue'[u][j] = queue[u][j]
        BY <1>9, <3>3
      <4> QED BY <1>4, <2>1, <3>3, <4>1
    <3>4. CASE i \in DOMAIN queue[t] /\ j \notin DOMAIN queue[u]
      <4>1. u = s /\ queue'[u][j] \in InSeq(q) /\ queue'[t][i] = queue[t][i]
        BY <1>9, <3>4
      <4> QED BY <1>4, <2>1, <3>4, <4>1
    <3> QED BY <3>1, <3>2, <3>3, <3>4
  <2>2. ASSUME NEW t \in Requests, NEW i \in DOMAIN queue'[t]
        PROVE  turn'[queue'[t][i]] # "none" /\ KeyOf[queue'[t][i]] = KeyOf[t]
    <3>1. CASE i \in DOMAIN queue[t]
      <4>1. queue'[t][i] = queue[t][i]
        BY <1>9, <3>1
      <4> QED BY <1>4, <1>10, <3>1, <4>1
    <3>2. CASE i \notin DOMAIN queue[t]
      <4>1. t = s /\ i > n /\ i \in 1 .. n + Len(q)
        BY <1>9, <3>2
      <4> QED BY <1>5, <4>1
    <3> QED BY <3>1, <3>2
  <2> QED BY <2>1, <2>2 DEF ChainedOnce
<1>7. Serial'
  <2>1. ASSUME NEW t \in Requests, t # s PROVE SerialAt(t)'
    BY <1>1, <1>3, <1>4, <2>1, SerialSame DEF Serial
  <2>2. SerialAt(s)'
    <3> SUFFICES ASSUME ~TimedOut(s)'
                 PROVE  /\ \A i \in DOMAIN queue'[s] : next'[queue'[s][i]] = "pending" <=> turn'[queue'[s][i]] # "over"
                        /\ \A i, j \in DOMAIN queue'[s] :
                              i < j /\ turn'[queue'[s][j]] # "waiting" => turn'[queue'[s][i]] = "over"
                        /\ inFlight'[s] <=> \E i \in DOMAIN queue'[s] : turn'[queue'[s][i]] = "running"
                        /\ (\E i \in DOMAIN queue'[s] : turn'[queue'[s][i]] # "over")
                             => \E i \in DOMAIN queue'[s] : Front(s, i)'
      BY DEF SerialAt
    <3>1. ~TimedOut(s)
      <4>1. \A i \in DOMAIN queue[s] : i \in DOMAIN queue'[s] /\ queue'[s][i] = queue[s][i] /\ next'[queue[s][i]] = next[queue[s][i]]
        BY <1>4, <1>5
      <4> QED BY <4>1 DEF TimedOut, Chained, InSeq
    <3>2. /\ \A i \in 1 .. n : next[queue[s][i]] = "pending" <=> turn[queue[s][i]] # "over"
          /\ \A i, j \in 1 .. n : i < j /\ turn[queue[s][j]] # "waiting" => turn[queue[s][i]] = "over"
          /\ inFlight[s] <=> \E i \in 1 .. n : turn[queue[s][i]] = "running"
          /\ (\E i \in 1 .. n : turn[queue[s][i]] # "over") => \E i \in 1 .. n : Front(s, i)
      BY <1>1, <1>5, <3>1 DEF Serial, SerialAt
    <3>3. \A i \in 1 .. n : /\ queue'[s][i] = queue[s][i] /\ turn'[queue'[s][i]] = turn[queue[s][i]]
                            /\ next'[queue'[s][i]] = next[queue[s][i]]
      BY <1>4, <1>5
    <3>4. \A i \in DOMAIN queue'[s] : i \in 1 .. n \/ (i > n /\ turn'[queue'[s][i]] = "waiting" /\ next'[queue'[s][i]] = "pending")
      BY <1>5
    <3>5. \A i \in DOMAIN queue'[s] : next'[queue'[s][i]] = "pending" <=> turn'[queue'[s][i]] # "over"
      BY <3>2, <3>3, <3>4
    <3>6. \A i, j \in DOMAIN queue'[s] : i < j /\ turn'[queue'[s][j]] # "waiting" => turn'[queue'[s][i]] = "over"
      <4>1. ASSUME NEW i \in DOMAIN queue'[s], NEW j \in DOMAIN queue'[s], i < j, turn'[queue'[s][j]] # "waiting"
            PROVE  turn'[queue'[s][i]] = "over"
        <5>1. j \in 1 .. n /\ i \in 1 .. n
          BY <1>5, <3>4, <4>1
        <5>2. turn[queue[s][j]] # "waiting"
          BY <3>3, <4>1, <5>1
        <5>3. turn[queue[s][i]] = "over"
          BY <3>2, <4>1, <5>1, <5>2
        <5> QED BY <3>3, <5>1, <5>3
      <4> QED BY <4>1
    <3>7. inFlight'[s] <=> \E i \in DOMAIN queue'[s] : turn'[queue'[s][i]] = "running"
      <4>1. (\E i \in DOMAIN queue'[s] : turn'[queue'[s][i]] = "running") <=> \E i \in 1 .. n : turn[queue[s][i]] = "running"
        <5>1. \A i \in 1 .. n : i \in DOMAIN queue'[s]
          BY <1>5
        <5>2. \A i \in DOMAIN queue'[s] : turn'[queue'[s][i]] = "running" => i \in 1 .. n
          BY <3>4
        <5> QED BY <3>3, <5>1, <5>2
      <4> QED BY <3>2, <4>1
    <3>8. ASSUME NEW i \in DOMAIN queue'[s], turn'[queue'[s][i]] # "over"
          PROVE  \E j \in DOMAIN queue'[s] : Front(s, j)'
      <4>1. CASE \E j \in 1 .. n : Front(s, j)
        <5>1. PICK j \in 1 .. n : Front(s, j)
          BY <4>1
        <5>2. j \in DOMAIN queue'[s] /\ \A m \in DOMAIN queue'[s] : m < j => m \in 1 .. n
          BY <1>5
        <5>3. Front(s, j)'
          BY <1>5, <3>3, <5>1, <5>2 DEF Front
        <5> QED BY <5>2, <5>3
      <4>2. CASE ~(\E j \in 1 .. n : Front(s, j))
        <5>1. \A j \in 1 .. n : turn'[queue'[s][j]] = "over"
          BY <3>2, <3>3, <4>2
        <5>2. i > n /\ i \in 1 .. n + Len(q)
          BY <1>5, <3>4, <3>8, <5>1
        <5>3. n + 1 \in DOMAIN queue'[s] /\ \A m \in DOMAIN queue'[s] : m < n + 1 => m \in 1 .. n
          BY <1>5, <5>2
        <5>4. turn'[queue'[s][n + 1]] # "over"
          BY <1>5, <3>4, <5>3
        <5> QED BY <5>1, <5>3, <5>4 DEF Front
      <4> QED BY <4>1, <4>2
    <3> QED BY <3>5, <3>6, <3>7, <3>8
  <2> QED BY <2>1, <2>2 DEF Serial
<1>8. Promised'
  <2>1. \A r \in Requests : next'[r] = "pending" => reply'[r] \in {"open", "closed"}
    BY <1>1, <1>2 DEF Promised
  <2>2. ASSUME NEW t \in Requests, FailedOn(t)'
        PROVE  FailedOn(t) /\ queue[t] # <<>>
    <3>1. PICK r \in Requests : Chained(t, r)' /\ turn'[r] = "over" /\ reply'[r] = "failed" /\ next'[r] = "ended"
      BY <2>2 DEF FailedOn
    <3>2. r \notin InSeq(q)
      BY <1>2, <3>1
    <3>3. PICK i \in DOMAIN queue'[t] : queue'[t][i] = r
      BY <3>1 DEF Chained, InSeq
    <3>4. i \in DOMAIN queue[t] /\ queue[t][i] = r
      BY <1>9, <3>2, <3>3
    <3>5. turn[r] = "over" /\ reply[r] = "failed" /\ next[r] = "ended"
      BY <1>2, <3>1, <3>2
    <3> QED BY <3>4, <3>5 DEF FailedOn, Chained, InSeq
  <2>3. \A r \in Requests : next'[r] = "ended" => turn'[r] = "over"
    BY <1>1, <1>2 DEF Promised
  <2> QED BY <1>1, <2>1, <2>2, <2>3 DEF Promised
<1> QED BY <1>6, <1>7, <1>8 DEF Turns

LEMMA ChainTypes ==
  ASSUME TypeOK, NEW s \in Requests, NEW q \in Seq(Requests), Chain(s, q)
  PROVE  /\ queue' \in [Requests -> Seq(Requests)]
         /\ turn' \in [Requests -> {"none", "waiting", "running", "over"}]
         /\ next' \in [Requests -> {"none", "pending", "ended", "expired"}]
         /\ \A r \in Requests : turn'[r] = "none" <=> next'[r] = "none"
         /\ \A r \in Requests \ InSeq(q) : turn'[r] = turn[r]
         /\ \A t \in Requests \ {s} : queue'[t] = queue[t]
<1>1. queue[s] \o q \in Seq(Requests)
  BY Concatenated DEF TypeOK
<1> QED BY <1>1 DEF Chain, TypeOK

LEMMA StepHit ==
  ASSUME SInv, NEW r \in Requests, NEW reset \in BOOLEAN, Hit(r, reset)
  PROVE  SInv'
<1> DEFINE ss == Found(r, reset)
<1>1. /\ ss \subseteq held /\ KeepOnly(ss) /\ worker' = KilledDownTo(ss) /\ reply[r] = "none"
      /\ reply' = [reply EXCEPT ![r] = "open"]
      /\ UNCHANGED <<creations, inFlight>>
  BY FoundHeld DEF Hit, Arrive
<1>2. PICK s \in ss : KeyOf[s] = KeyOf[r] /\ Chain(s, <<r>>)
  BY DEF Hit, Hits
<1> HIDE DEF ss
<1>3. /\ TypeOK /\ Newcomers /\ s \in Requests /\ <<r>> \in Seq(Requests) /\ InSeq(<<r>>) = {r}
      /\ worker[s] \in {"live", "dead"}
  <2>1. s \in held /\ s \in Requests
    BY <1>1, <1>2 DEF SInv, TypeOK
  <2>2. InSeq(<<r>>) = {r}
    BY DEF InSeq
  <2>3. TypeOK /\ Newcomers /\ Started
    BY DEF SInv, Accounts
  <2>4. worker[s] \in {"live", "dead"}
    BY <2>1, <2>3 DEF TypeOK, Started
  <2>5. <<r>> \in Seq(Requests)
    OBVIOUS
  <2> QED BY <2>1, <2>2, <2>3, <2>4, <2>5
<1>4. turn[r] = "none" /\ \A k \in Keys : r \notin InSeq(creations[k])
  BY <1>1, <1>3 DEF Newcomers
<1>5. \A x \in Requests : reply'[x] = IF x = r THEN "open" ELSE reply[x]
  BY <1>1, <1>3 DEF TypeOK
<1>6. TypeOK'
  BY <1>1, <1>2, <1>3, ChainTypes, Kept DEF TypeOK
<1>7. Accounts'
  <2>1. Shrinks
    BY <1>1, KeptShrinks
  <2>2. \A x \in Requests \ {r} : turn'[x] = turn[x]
    BY <1>2, <1>3, ChainTypes
  <2>3. \A t \in Requests \ {s} : queue'[t] = queue[t]
    BY <1>2, <1>3, ChainTypes
  <2> QED BY <1>1, <1>3, <1>4, <1>5, <2>1, <2>2, <2>3, AccountsShrink
<1>8. Turns'
  <2>1. \A x \in Requests : worker'[x] = "live" => worker[x] = "live"
    BY <1>1, Kept
  <2>2. \A i, j \in DOMAIN <<r>> : i = j
    OBVIOUS
  <2> QED BY <1>1, <1>2, <1>3, <1>4, <1>5, <2>1, <2>2, TurnsChained
<1> QED BY <1>6, <1>7, <1>8 DEF SInv

LEMMA StepCreateOk ==
  ASSUME SInv, NEW k \in Keys, CreateOk(k)
  PROVE  SInv'
<1> DEFINE q == creations[k]
           s == Head(q)
<1>1. /\ q # <<>> /\ held' = held \cup {s} /\ older' = [older EXCEPT ![s] = held]
      /\ worker' = [worker EXCEPT ![s] = "live"] /\ creations' = [creations EXCEPT ![k] = <<>>]
      /\ Chain(s, q) /\ UNCHANGED <<inFlight, idle, life, reply>>
  BY DEF CreateOk
<1>2. /\ TypeOK /\ OneSlotPerKey /\ WorkersOwned /\ Newcomers /\ Creating /\ Started
  BY DEF SInv, Accounts, SlotsAccounted
<1>3. q \in Seq(Requests) /\ s \in InSeq(q) /\ InSeq(q) \subseteq Requests /\ InSeq(<<>>) = {}
  BY <1>1, <1>2, InSeqFacts DEF TypeOK
<1>4. /\ \A r \in InSeq(q) : KeyOf[r] = k /\ turn[r] = "none" /\ reply[r] \in {"open", "closed"}
      /\ \A i, j \in DOMAIN q : q[i] = q[j] => i = j
      /\ worker[s] = "starting"
  BY <1>1, <1>2 DEF Creating
<1>5. s \in Requests /\ s \notin held /\ queue[s] = <<>> /\ ~inFlight[s] /\ KeyOf[s] = k
  BY <1>2, <1>3, <1>4 DEF Started
<1>6. \A j \in Keys : creations'[j] = IF j = k THEN <<>> ELSE creations[j]
  BY <1>1, <1>2 DEF TypeOK
<1>7. \A x \in Requests : /\ worker'[x] = IF x = s THEN "live" ELSE worker[x]
                          /\ older'[x] = IF x = s THEN held ELSE older[x]
  BY <1>1, <1>2, <1>5 DEF TypeOK
<1>8. /\ \A r \in Requests \ InSeq(q) : turn'[r] = turn[r]
      /\ \A t \in Requests \ {s} : queue'[t] = queue[t]
  BY <1>1, <1>2, <1>3, <1>5, ChainTypes
<1>9. TypeOK'
  <2>1. /\ queue' \in [Requests -> Seq(Requests)]
        /\ turn' \in [Requests -> {"none", "waiting", "running", "over"}]
        /\ next' \in [Requests -> {"none", "pending", "ended", "expired"}]
        /\ \A r \in Requests : turn'[r] = "none" <=> next'[r] = "none"
    BY <1>1, <1>2, <1>3, <1>5, ChainTypes
  <2> HIDE DEF s, q
  <2> QED BY <1>1, <1>2, <1>5, <2>1 DEF TypeOK
<1> HIDE DEF s
<1>10. OneSlotPerKey'
  <2>1. \A x \in held : KeyOf[x] # k /\ KeyOf[x] \in Keys
    BY <1>1, <1>2, KeysAssumption DEF OneSlotPerKey, TypeOK
  <2> QED BY <1>1, <1>2, <1>5, <1>6, <2>1 DEF OneSlotPerKey
<1>11. WorkersOwned'
  BY <1>1, <1>2, <1>5, <1>6, <1>7, KeysAssumption DEF WorkersOwned, s
<1>12. Newcomers'
  <2>1. ASSUME NEW r \in Requests, reply'[r] = "none"
        PROVE  worker'[r] = "none" /\ turn'[r] = "none" /\ \A j \in Keys : r \notin InSeq(creations'[j])
    <3>1. reply[r] = "none" /\ r \notin InSeq(q) /\ r # s
      BY <1>1, <1>3, <1>4, <2>1
    <3>2. worker[r] = "none" /\ turn[r] = "none" /\ \A j \in Keys : r \notin InSeq(creations[j])
      BY <1>2, <3>1 DEF Newcomers
    <3> QED BY <1>3, <1>6, <1>7, <1>8, <3>1, <3>2
  <2> QED BY <2>1 DEF Newcomers
<1>13. Creating'
  <2>1. ASSUME NEW j \in Keys, j # k
        PROVE  /\ \A a, b \in DOMAIN creations[j] : creations[j][a] = creations[j][b] => a = b
               /\ \A r \in InSeq(creations[j]) : KeyOf[r] = j /\ turn'[r] = "none" /\ reply'[r] \in {"open", "closed"}
               /\ creations[j] # <<>> => worker'[Head(creations[j])] = "starting"
    <3>1. /\ InSeq(creations[j]) \subseteq Requests
          /\ creations[j] # <<>> => Head(creations[j]) \in InSeq(creations[j])
      BY <1>2, InSeqFacts DEF TypeOK
    <3>2. \A r \in InSeq(creations[j]) : KeyOf[r] = j /\ r \notin InSeq(q) /\ r # s
      BY <1>2, <1>3, <1>4, <2>1 DEF Creating
    <3>3. /\ \A a, b \in DOMAIN creations[j] : creations[j][a] = creations[j][b] => a = b
          /\ \A r \in InSeq(creations[j]) : turn[r] = "none" /\ reply[r] \in {"open", "closed"}
          /\ creations[j] # <<>> => worker[Head(creations[j])] = "starting"
      BY <1>2 DEF Creating
    <3> QED BY <1>1, <1>7, <1>8, <3>1, <3>2, <3>3
  <2> QED BY <1>3, <1>6, <2>1 DEF Creating
<1>14. Started'
  BY <1>1, <1>2, <1>5, <1>7, <1>8 DEF Started
<1>15. Turns'
  BY <1>1, <1>3, <1>4, <1>5, <1>7, TurnsChained
<1> QED BY <1>9, <1>10, <1>11, <1>12, <1>13, <1>14, <1>15 DEF SInv, Accounts, SlotsAccounted

-----------------------------------------------------------------------------
(***************************************************************************)
(* A turn begins and ends.                                                 *)
(***************************************************************************)
\* The promises and turns of the chain, where no queue timeout has fired.
LEMMA SerialFacts ==
  ASSUME SInv, NEW s \in Requests, ~TimedOut(s)
  PROVE  /\ queue[s] \in Seq(Requests) /\ Len(queue[s]) \in Nat /\ DOMAIN queue[s] = 1 .. Len(queue[s])
         /\ \A i \in DOMAIN queue[s] : queue[s][i] \in Requests
         /\ \A i, j \in DOMAIN queue[s] : queue[s][i] = queue[s][j] => i = j
         /\ \A i \in DOMAIN queue[s] : next[queue[s][i]] = "pending" <=> turn[queue[s][i]] # "over"
         /\ \A i, j \in DOMAIN queue[s] : i < j /\ turn[queue[s][j]] # "waiting" => turn[queue[s][i]] = "over"
         /\ inFlight[s] <=> \E i \in DOMAIN queue[s] : turn[queue[s][i]] = "running"
         /\ (\E i \in DOMAIN queue[s] : turn[queue[s][i]] # "over") => \E i \in DOMAIN queue[s] : Front(s, i)
<1>1. queue[s] \in Seq(Requests)
  BY DEF SInv, TypeOK
<1>2. \A i, j \in DOMAIN queue[s] : queue[s][i] = queue[s][j] => i = j
  BY DEF SInv, Turns, ChainedOnce
<1>3. SerialAt(s)
  BY DEF SInv, Turns, Serial
<1> QED BY <1>1, <1>2, <1>3 DEF SerialAt

\* A turn that is ready, with no queue timeout before it, is the front of the chain.
LEMMA ReadyIsFront ==
  ASSUME SInv, NEW s \in Requests, NEW i \in DOMAIN queue[s], Ready(s, i), ~TimedOut(s)
  PROVE  \A j \in DOMAIN queue[s] : j < i => turn[queue[s][j]] = "over"
<1>1. CASE i = 1
  BY <1>1, SerialFacts
<1>2. CASE i # 1
  <2>1. i > 1 /\ i - 1 \in DOMAIN queue[s]
    BY <1>2, SerialFacts
  <2>2. turn[queue[s][i - 1]] = "over"
    BY <2>1, SerialFacts DEF Ready, PreviousSettled
  <2>3. ASSUME NEW j \in DOMAIN queue[s], j < i
        PROVE  turn[queue[s][j]] = "over"
    <3>1. j = i - 1 \/ j < i - 1
      BY <2>3, SerialFacts
    <3> QED BY <2>1, <2>2, <3>1, SerialFacts
  <2> QED BY <2>3
<1> QED BY <1>1, <1>2

\* A turn that is the front of its chain, and begun or about to fail, is over.
LEMMA TurnsEnd ==
  ASSUME SInv, NEW s \in Requests, NEW i \in DOMAIN queue[s], NEW r, r = queue[s][i],
         turn[r] \in {"waiting", "running"},
         ~TimedOut(s) => \A j \in DOMAIN queue[s] : j < i => turn[queue[s][j]] = "over",
         UNCHANGED queue,
         turn' = [turn EXCEPT ![r] = "over"],
         inFlight' = [inFlight EXCEPT ![s] = FALSE],
         next' = [next EXCEPT ![r] = IF @ = "pending" THEN "ended" ELSE @],
         \A x \in Requests : x # r => reply'[x] = reply[x],
         reply'[r] # "failed" \/ next[r] # "pending" \/ worker'[s] # "live",
         \A x \in Requests : queue[x] # <<>> /\ worker'[x] = "live" => worker[x] = "live"
  PROVE  Turns'
<1>1. TypeOK /\ ChainedOnce /\ Serial /\ Promised
  BY DEF SInv, Turns
<1>2. r \in Requests /\ Chained(s, r) /\ queue[s] # <<>>
  BY <1>1 DEF TypeOK, Chained, InSeq
<1>3. /\ \A x \in Requests : turn'[x] = IF x = r THEN "over" ELSE turn[x]
      /\ \A x \in Requests : x # r => next'[x] = next[x]
      /\ next'[r] = (IF next[r] = "pending" THEN "ended" ELSE next[r])
  BY <1>1, <1>2 DEF TypeOK
<1>4. \A t \in Requests : \A j \in DOMAIN queue[t] : queue[t][j] \in Requests /\ (queue[t][j] = r => t = s /\ j = i)
  BY <1>1 DEF TypeOK, ChainedOnce
<1>5. ChainedOnce'
  BY <1>1, <1>3, <1>4 DEF ChainedOnce
<1>6. Serial'
  <2>1. ASSUME NEW t \in Requests, t # s PROVE SerialAt(t)'
    <3>1. \A j \in DOMAIN queue[t] : turn'[queue[t][j]] = turn[queue[t][j]] /\ next'[queue[t][j]] = next[queue[t][j]]
      BY <1>3, <1>4, <2>1
    <3>2. inFlight'[t] = inFlight[t]
      BY <1>1, <2>1 DEF TypeOK
    <3> QED BY <1>1, <3>1, <3>2, SerialSame DEF Serial
  <2>2. SerialAt(s)'
    <3> SUFFICES ASSUME ~TimedOut(s)'
                 PROVE  /\ \A j \in DOMAIN queue[s] : next'[queue[s][j]] = "pending" <=> turn'[queue[s][j]] # "over"
                        /\ \A j, m \in DOMAIN queue[s] :
                              j < m /\ turn'[queue[s][m]] # "waiting" => turn'[queue[s][j]] = "over"
                        /\ inFlight'[s] <=> \E j \in DOMAIN queue[s] : turn'[queue[s][j]] = "running"
                        /\ (\E j \in DOMAIN queue[s] : turn'[queue[s][j]] # "over")
                             => \E j \in DOMAIN queue[s] : Front(s, j)'
      BY DEF SerialAt
    <3>1. ~TimedOut(s)
      BY <1>1, <1>3 DEF TimedOut, Chained, TypeOK
    <3>2. next[r] = "pending"
      BY <3>1, SerialFacts
    <3>3. \A j \in DOMAIN queue[s] : j < i => turn[queue[s][j]] = "over"
      BY <3>1
    <3>4. \A j \in DOMAIN queue[s] : j > i => turn[queue[s][j]] = "waiting"
      BY <3>1, SerialFacts
    <3>5. \A j \in DOMAIN queue[s] : turn'[queue[s][j]] = IF j <= i THEN "over" ELSE "waiting"
      <4>1. \A j \in DOMAIN queue[s] : j < i \/ j = i \/ j > i
        BY <3>1, SerialFacts
      <4> QED BY <1>3, <1>4, <3>1, <3>3, <3>4, <4>1, SerialFacts
    <3>6. \A j \in DOMAIN queue[s] : next'[queue[s][j]] = "pending" <=> turn'[queue[s][j]] # "over"
      <4>1. ASSUME NEW j \in DOMAIN queue[s] PROVE next'[queue[s][j]] = "pending" <=> turn'[queue[s][j]] # "over"
        <5>1. CASE j = i
          BY <1>2, <1>3, <3>2, <5>1
        <5>2. CASE j # i
          BY <1>3, <1>4, <3>1, <5>2, SerialFacts
        <5> QED BY <5>1, <5>2
      <4> QED BY <4>1
    <3>7. \A j, m \in DOMAIN queue[s] : j < m /\ turn'[queue[s][m]] # "waiting" => turn'[queue[s][j]] = "over"
      BY <3>1, <3>5, SerialFacts
    <3>8. ~inFlight'[s] /\ \A j \in DOMAIN queue[s] : turn'[queue[s][j]] # "running"
      BY <1>1, <3>5 DEF TypeOK
    <3>9. ASSUME NEW j \in DOMAIN queue[s], turn'[queue[s][j]] # "over"
          PROVE  \E m \in DOMAIN queue[s] : Front(s, m)'
      <4>1. j > i
        BY <3>1, <3>5, <3>9, SerialFacts
      <4>2. i + 1 \in DOMAIN queue[s] /\ \A m \in DOMAIN queue[s] : m < i + 1 => m <= i
        BY <3>1, <4>1, SerialFacts
      <4>3. turn'[queue[s][i + 1]] = "waiting"
        BY <3>1, <3>5, <4>2, SerialFacts
      <4> QED BY <3>5, <4>2, <4>3 DEF Front
    <3> QED BY <3>6, <3>7, <3>8, <3>9
  <2> QED BY <2>1, <2>2 DEF Serial
<1>7. Promised'
  <2>1. \A x \in Requests : next'[x] = "pending" => reply'[x] \in {"open", "closed"}
    BY <1>1, <1>2, <1>3 DEF Promised
  <2>2. \A x \in Requests : next'[x] = "ended" => turn'[x] = "over"
    BY <1>1, <1>2, <1>3 DEF Promised
  <2>3. ASSUME NEW t \in Requests, FailedOn(t)', worker'[t] = "live"
        PROVE  FALSE
    <3>1. PICK x \in Requests : Chained(t, x) /\ turn'[x] = "over" /\ reply'[x] = "failed" /\ next'[x] = "ended"
      BY <2>3 DEF FailedOn, Chained
    <3>2. CASE x = r
      <4>1. t = s
        BY <1>4, <3>1, <3>2 DEF Chained, InSeq
      <4>2. next[r] = "pending"
        BY <1>1, <1>2, <1>3, <3>1, <3>2 DEF Promised
      <4> QED BY <2>3, <3>1, <3>2, <4>1, <4>2
    <3>3. CASE x # r
      <4>1. FailedOn(t) /\ queue[t] # <<>>
        BY <1>3, <3>1, <3>3 DEF FailedOn, Chained, InSeq
      <4> QED BY <1>1, <2>3, <4>1 DEF Promised
    <3> QED BY <3>2, <3>3
  <2> QED BY <2>1, <2>2, <2>3 DEF Promised
<1> QED BY <1>5, <1>6, <1>7 DEF Turns

\* A step on a turn that has begun, or begins, keeps the accounts.
LEMMA AccountsOfTurn ==
  ASSUME SInv, Shrinks, NEW s \in Requests, NEW r \in Requests, Chained(s, r), turn[r] # "none",
         UNCHANGED <<creations, queue>>,
         \A x \in Requests : x # s => inFlight'[x] = inFlight[x],
         \A x \in Requests : x # r => turn'[x] = turn[x] /\ reply'[x] = reply[x],
         reply'[r] = reply[r] \/ reply'[r] # "none"
  PROVE  Accounts'
<1>1. worker[s] \notin {"none", "starting"}
  BY DEF SInv, Accounts, Started, Chained, InSeq
<1>2. reply[r] # "none"
  BY DEF SInv, Accounts, Newcomers
<1> QED BY <1>1, <1>2, AccountsShrink

LEMMA StepStartTurn ==
  ASSUME SInv, NEW s \in Requests, NEW i \in DOMAIN queue[s], StartTurn(s, i)
  PROVE  SInv'
<1> DEFINE r == queue[s][i]
<1>1. Ready(s, i) /\ turn[r] = "waiting" /\ UNCHANGED <<creations, queue>>
  BY DEF StartTurn, Ready
<1>2. TypeOK /\ ChainedOnce /\ Serial /\ Promised /\ Started
  BY DEF SInv, Turns, Accounts
<1>3. r \in Requests /\ Chained(s, r) /\ queue[s] # <<>> /\ worker[s] \in {"live", "dead"}
  BY <1>2 DEF TypeOK, Chained, InSeq, Started
<1>4. ~TimedOut(s) => \A j \in DOMAIN queue[s] : j < i => turn[queue[s][j]] = "over"
  BY <1>1, ReadyIsFront
<1>5. CASE worker[s] = "live"
  <2>1. /\ turn' = [turn EXCEPT ![r] = "running"] /\ inFlight' = [inFlight EXCEPT ![s] = TRUE]
        /\ idle' = [idle EXCEPT ![s] = 0] /\ UNCHANGED <<held, older, worker, life, next, reply>>
    BY <1>5 DEF StartTurn
  <2>2. \A t \in Requests : \A j \in DOMAIN queue[t] : queue[t][j] \in Requests /\ (queue[t][j] = r => t = s /\ j = i)
    BY <1>2 DEF TypeOK, ChainedOnce
  <2> HIDE DEF r
  <2>3. TypeOK'
    <3>1. /\ turn' \in [Requests -> {"none", "waiting", "running", "over"}]
          /\ inFlight' \in [Requests -> BOOLEAN] /\ idle' \in [Requests -> 0 .. Ttl + 1]
      BY <1>2, <1>3, <2>1, LimitsAssumption DEF TypeOK
    <3>2. \A x \in Requests : turn'[x] = "none" <=> next'[x] = "none"
      BY <1>1, <1>2, <1>3, <2>1 DEF TypeOK
    <3> QED BY <1>1, <1>2, <2>1, <3>1, <3>2 DEF TypeOK
  <2>4. \A x \in Requests : turn'[x] = IF x = r THEN "running" ELSE turn[x]
    BY <1>2, <1>3, <2>1 DEF TypeOK
  <2>5. Accounts'
    <3>1. Shrinks
      BY <1>2, <2>1 DEF Shrinks, TypeOK
    <3>2. \A x \in Requests : x # s => inFlight'[x] = inFlight[x]
      BY <1>2, <2>1 DEF TypeOK
    <3>3. \A x \in Requests : x # r => turn'[x] = turn[x] /\ reply'[x] = reply[x]
      BY <2>1, <2>4
    <3>4. reply'[r] = reply[r] /\ turn[r] # "none"
      BY <1>1, <2>1
    <3> QED BY <1>1, <1>3, <3>1, <3>2, <3>3, <3>4, AccountsOfTurn
  <2>6. ChainedOnce'
    BY <1>1, <1>2, <2>2, <2>4 DEF ChainedOnce
  <2>7. Promised'
    <3>1. \A t \in Requests : FailedOn(t)' => FailedOn(t)
      BY <1>1, <2>1, <2>4 DEF FailedOn, Chained
    <3>2. \A x \in Requests : next'[x] = "ended" => turn'[x] = "over"
      BY <1>1, <1>2, <2>1, <2>4 DEF Promised
    <3> QED BY <1>2, <2>1, <3>1, <3>2 DEF Promised
  <2>8. Serial'
    <3>1. ASSUME NEW t \in Requests, t # s PROVE SerialAt(t)'
      <4>1. \A j \in DOMAIN queue[t] : turn'[queue[t][j]] = turn[queue[t][j]] /\ next'[queue[t][j]] = next[queue[t][j]]
        BY <2>1, <2>2, <2>4, <3>1
      <4>2. inFlight'[t] = inFlight[t]
        BY <1>2, <2>1, <3>1 DEF TypeOK
      <4> QED BY <1>1, <1>2, <4>1, <4>2, SerialSame DEF Serial
    <3>2. SerialAt(s)'
      <4> SUFFICES ASSUME ~TimedOut(s)'
                   PROVE  /\ \A j \in DOMAIN queue[s] : next'[queue[s][j]] = "pending" <=> turn'[queue[s][j]] # "over"
                          /\ \A j, m \in DOMAIN queue[s] :
                                j < m /\ turn'[queue[s][m]] # "waiting" => turn'[queue[s][j]] = "over"
                          /\ inFlight'[s] <=> \E j \in DOMAIN queue[s] : turn'[queue[s][j]] = "running"
                          /\ (\E j \in DOMAIN queue[s] : turn'[queue[s][j]] # "over")
                               => \E j \in DOMAIN queue[s] : Front(s, j)'
        BY <1>1 DEF SerialAt
      <4>1. ~TimedOut(s)
        BY <1>1, <2>1 DEF TimedOut, Chained
      <4>2. turn'[r] = "running" /\ queue[s][i] = r
        BY <1>3, <2>4 DEF r
      <4>3. \A j \in DOMAIN queue[s] : j # i => turn'[queue[s][j]] = turn[queue[s][j]]
        BY <2>2, <2>4
      <4>4. \A j \in DOMAIN queue[s] : turn'[queue[s][j]] = "over" <=> turn[queue[s][j]] = "over"
        BY <1>1, <4>2, <4>3
      <4>5. \A j \in DOMAIN queue[s] : next'[queue[s][j]] = "pending" <=> turn'[queue[s][j]] # "over"
        BY <2>1, <4>1, <4>4, SerialFacts
      <4>6. ASSUME NEW j \in DOMAIN queue[s], NEW m \in DOMAIN queue[s], j < m, turn'[queue[s][m]] # "waiting"
            PROVE  turn'[queue[s][j]] = "over"
        <5>1. CASE m = i
          BY <1>4, <4>1, <4>4, <4>6, <5>1
        <5>2. CASE m # i
          BY <4>1, <4>3, <4>4, <4>6, <5>2, SerialFacts
        <5> QED BY <5>1, <5>2
      <4>7. inFlight'[s]
        BY <1>2, <2>1 DEF TypeOK
      <4>8. \A j \in DOMAIN queue[s] : Front(s, j) => Front(s, j)'
        BY <1>1, <4>4 DEF Front
      <4>9. (\E j \in DOMAIN queue[s] : turn'[queue[s][j]] # "over") => \E j \in DOMAIN queue[s] : Front(s, j)'
        BY <4>1, <4>4, <4>8, SerialFacts
      <4> QED BY <4>2, <4>5, <4>6, <4>7, <4>9
    <3> QED BY <3>1, <3>2 DEF Serial
  <2> QED BY <2>3, <2>5, <2>6, <2>7, <2>8 DEF SInv, Turns
<1>6. CASE worker[s] # "live"
  <2> DEFINE ss == held \ {s}
  <2>1. /\ turn' = [turn EXCEPT ![r] = "over"] /\ inFlight' = [inFlight EXCEPT ![s] = FALSE]
        /\ ss \subseteq held /\ KeepOnly(ss) /\ worker' = KilledDownTo(ss)
        /\ next' = [next EXCEPT ![r] = IF @ = "pending" THEN "ended" ELSE @]
        /\ reply' = [reply EXCEPT ![r] = IF @ = "open" THEN "failed" ELSE @]
    BY <1>6 DEF StartTurn, Settle, Discard
  <2> HIDE DEF r, ss
  <2>2. TypeOK'
    BY <1>1, <1>2, <1>3, <2>1, Kept DEF TypeOK
  <2>3. Shrinks
    BY <2>1, KeptShrinks
  <2>4. /\ \A x \in Requests : x # r => turn'[x] = turn[x] /\ reply'[x] = reply[x]
        /\ reply'[r] = reply[r] \/ reply'[r] # "none"
        /\ \A x \in Requests : x # s => inFlight'[x] = inFlight[x]
    BY <1>2, <1>3, <2>1 DEF TypeOK
  <2>5. Accounts'
    BY <1>1, <1>3, <2>3, <2>4, AccountsOfTurn
  <2>6. \A x \in Requests : worker'[x] = "live" => worker[x] = "live"
    BY <2>1, Kept
  <2>7. Turns'
    <3>1. worker'[s] # "live"
      BY <1>6, <2>6
    <3>2. r = queue[s][i] /\ turn[r] \in {"waiting", "running"}
      BY <1>1 DEF r
    <3>3. \A x \in Requests : x # r => reply'[x] = reply[x]
      BY <2>4
    <3> QED BY <1>1, <1>4, <2>1, <2>6, <3>1, <3>2, <3>3, TurnsEnd
  <2> QED BY <2>2, <2>5, <2>7 DEF SInv
<1> QED BY <1>5, <1>6

\* A running turn is in its slot's chain, after turns that are over.
LEMMA RunningAt ==
  ASSUME SInv, NEW s \in Requests, NEW r \in Requests, Chained(s, r), turn[r] = "running"
  PROVE  \E i \in DOMAIN queue[s] : /\ queue[s][i] = r
                                    /\ ~TimedOut(s) => \A j \in DOMAIN queue[s] : j < i => turn[queue[s][j]] = "over"
<1>1. PICK i \in DOMAIN queue[s] : queue[s][i] = r
  BY DEF Chained, InSeq
<1> QED BY <1>1, SerialFacts

LEMMA StepTurnOk ==
  ASSUME SInv, NEW s \in Requests, NEW r \in Requests, TurnOk(s, r)
  PROVE  SInv'
<1>1. /\ Chained(s, r) /\ turn[r] = "running" /\ worker[s] = "live"
      /\ turn' = [turn EXCEPT ![r] = "over"] /\ inFlight' = [inFlight EXCEPT ![s] = FALSE]
      /\ idle' = [idle EXCEPT ![s] = 0]
      /\ next' = [next EXCEPT ![r] = IF @ = "pending" THEN "ended" ELSE @]
      /\ reply' = [reply EXCEPT ![r] = IF @ = "open" THEN "answered" ELSE @]
      /\ UNCHANGED <<held, older, creations, worker, life, queue>>
  BY DEF TurnOk, Settle
<1>2. TypeOK /\ Promised
  BY DEF SInv, Turns
<1>3. TypeOK'
  BY <1>1, <1>2, LimitsAssumption DEF TypeOK
<1>4. /\ \A x \in Requests : x # r => turn'[x] = turn[x] /\ reply'[x] = reply[x]
      /\ reply'[r] = reply[r] \/ reply'[r] # "none"
      /\ next[r] = "pending" => reply'[r] # "failed"
      /\ \A x \in Requests : x # s => inFlight'[x] = inFlight[x]
  BY <1>1, <1>2 DEF TypeOK, Promised
<1>5. Accounts'
  <2>1. Shrinks
    BY <1>1, <1>2 DEF Shrinks, TypeOK
  <2> QED BY <1>1, <1>4, <2>1, AccountsOfTurn
<1>6. Turns'
  <2>1. PICK i \in DOMAIN queue[s] :
          /\ queue[s][i] = r
          /\ ~TimedOut(s) => \A j \in DOMAIN queue[s] : j < i => turn[queue[s][j]] = "over"
    BY <1>1, RunningAt
  <2>2. \A x \in Requests : x # r => reply'[x] = reply[x]
    BY <1>4
  <2>3. reply'[r] # "failed" \/ next[r] # "pending" \/ worker'[s] # "live"
    BY <1>4
  <2> QED BY <1>1, <2>1, <2>2, <2>3, TurnsEnd
<1> QED BY <1>3, <1>5, <1>6 DEF SInv

LEMMA StepTurnFails ==
  ASSUME SInv, NEW s \in Requests, NEW r \in Requests, TurnFails(s, r)
  PROVE  SInv'
<1> DEFINE ss == held \ {s}
<1>1. /\ Chained(s, r) /\ turn[r] = "running"
      /\ turn' = [turn EXCEPT ![r] = "over"] /\ inFlight' = [inFlight EXCEPT ![s] = FALSE]
      /\ ss \subseteq held /\ KeepOnly(ss) /\ worker' = KilledDownTo(ss)
      /\ next' = [next EXCEPT ![r] = IF @ = "pending" THEN "ended" ELSE @]
      /\ reply' = [reply EXCEPT ![r] = IF @ = "open" THEN "failed" ELSE @]
      /\ UNCHANGED <<creations, queue>>
  BY DEF TurnFails, Settle, Discard
<1>2. TypeOK /\ WorkersOwned
  BY DEF SInv, Accounts, SlotsAccounted
<1>3. worker'[s] # "live"
  BY <1>1, <1>2, Kept DEF WorkersOwned, ss
<1> HIDE DEF ss
<1>4. TypeOK'
  BY <1>1, <1>2, Kept DEF TypeOK
<1>5. /\ \A x \in Requests : x # r => turn'[x] = turn[x] /\ reply'[x] = reply[x]
      /\ reply'[r] = reply[r] \/ reply'[r] # "none"
      /\ \A x \in Requests : x # s => inFlight'[x] = inFlight[x]
  BY <1>1, <1>2 DEF TypeOK
<1>6. Accounts'
  <2>1. Shrinks
    BY <1>1, KeptShrinks
  <2> QED BY <1>1, <1>5, <2>1, AccountsOfTurn
<1>7. Turns'
  <2>1. PICK i \in DOMAIN queue[s] :
          /\ queue[s][i] = r
          /\ ~TimedOut(s) => \A j \in DOMAIN queue[s] : j < i => turn[queue[s][j]] = "over"
    BY <1>1, RunningAt
  <2>2. \A x \in Requests : x # r => reply'[x] = reply[x]
    BY <1>5
  <2>3. \A x \in Requests : worker'[x] = "live" => worker[x] = "live"
    BY <1>1, Kept
  <2> QED BY <1>1, <1>3, <2>1, <2>2, <2>3, TurnsEnd
<1> QED BY <1>4, <1>6, <1>7 DEF SInv

-----------------------------------------------------------------------------
(***************************************************************************)
(* The theorems.                                                           *)
(***************************************************************************)
LEMMA SessionNext == SInv /\ [Next]_vars => SInv'
<1> SUFFICES ASSUME SInv, [Next]_vars PROVE SInv'
  OBVIOUS
<1>1. CASE \E r \in Requests : RunTurn(r)
  <2>1. PICK r \in Requests, reset \in BOOLEAN :
          RefuseBusy(r, reset) \/ Hit(r, reset) \/ Join(r, reset) \/ Create(r, reset)
    BY <1>1 DEF RunTurn
  <2> QED BY <2>1, StepRefuseBusy, StepHit, StepJoin, StepCreate
<1>2. CASE \E r \in Requests : QueueTimeout(r) \/ ClientGone(r)
  BY <1>2, StepQueueTimeout, StepClientGone
<1>3. CASE \E k \in Keys : CreationSettles(k)
  BY <1>3, StepCreateOk, StepCreateFail DEF CreationSettles
<1>4. CASE \E s \in Requests : Starts(s)
  BY <1>4, StepStartTurn DEF Starts
<1>5. CASE \E s \in Requests : WorkerDies(s) \/ \E r \in Requests : TurnEnds(s, r)
  BY <1>5, StepWorkerDies, StepTurnOk, StepTurnFails DEF TurnEnds
<1>6. CASE Drain
  BY <1>6, StepDrain
<1>7. CASE Tick
  BY <1>7, StepTick
<1>9. CASE StickyStats
  BY <1>9, StepStickyStats
<1>8. CASE UNCHANGED vars
  <2>1. UNCHANGED <<held, older, creations, worker, inFlight, idle, life, queue, turn, next, reply>>
    BY <1>8 DEF vars
  <2>2. TypeOK'
    BY <2>1 DEF SInv, TypeOK
  <2>3. Shrinks
    BY <2>1 DEF Shrinks
  <2>4. Accounts'
    BY <2>1, <2>3, AccountsShrink
  <2>5. Turns'
    BY <2>1, TurnsSame
  <2> QED BY <2>2, <2>4, <2>5 DEF SInv
<1> QED BY <1>1, <1>2, <1>3, <1>4, <1>5, <1>6, <1>7, <1>8, <1>9 DEF Next

\* Slots, creations, workers and chains agree, in every reachable state.
THEOREM SessionInvariant == Spec => []SInv
<1> QED BY SessionInit, SessionNext, PTL DEF Spec

\* The variables keep their types.
THEOREM SessionTypes == Spec => []TypeOK
<1>1. SInv => TypeOK
  BY DEF SInv
<1> QED BY <1>1, SessionInvariant, PTL

\* No key ever has two threads and no app-server is lost, whatever misses, resets, failures
\* and departures overlap, for any limits.
THEOREM SessionSlotsAccounted == Spec => []SlotsAccounted
<1>1. SInv => SlotsAccounted
  BY DEF SInv, Accounts
<1> QED BY <1>1, SessionInvariant, PTL

\* Until a queue timeout fires in a session its turns run one at a time, and the flag that
\* spares it from eviction says when one runs.
THEOREM SessionSerial == Spec => []SerialUntilTimeout
<1>1. ASSUME SInv, NEW s \in Requests, ~TimedOut(s)
      PROVE  Cardinality(Running(s)) <= 1 /\ (inFlight[s] <=> Running(s) # {})
  <2>1. \A r \in Running(s) : \E i \in DOMAIN queue[s] : queue[s][i] = r /\ turn[queue[s][i]] = "running"
    BY DEF Running, Chained, InSeq
  <2>2. \A i \in DOMAIN queue[s] : turn[queue[s][i]] = "running" => queue[s][i] \in Running(s)
    BY <1>1, SerialFacts DEF Running, Chained, InSeq
  <2>3. \A q, r \in Running(s) : q = r
    <3>1. ASSUME NEW i \in DOMAIN queue[s], NEW j \in DOMAIN queue[s],
                 turn[queue[s][i]] = "running", turn[queue[s][j]] = "running"
          PROVE  i = j
      <4>1. i < j \/ i = j \/ j < i
        BY <1>1, SerialFacts
      <4> QED BY <1>1, <3>1, <4>1, SerialFacts
    <3> QED BY <2>1, <3>1
  <2>4. Running(s) = {} \/ \E x : Running(s) = {x}
    BY <2>3
  <2>5. Cardinality(Running(s)) <= 1
    <3>1. CASE Running(s) = {}
      <4>1. Cardinality(Running(s)) = 0
        BY <3>1, FS_EmptySet
      <4> QED BY <4>1
    <3>2. CASE \E x : Running(s) = {x}
      <4>1. PICK x : Running(s) = {x}
        BY <3>2
      <4>2. Cardinality({x}) = 1
        BY FS_Singleton
      <4> QED BY <4>1, <4>2
    <3> QED BY <2>4, <3>1, <3>2
  <2> QED BY <1>1, <2>1, <2>2, <2>5, SerialFacts
<1>2. SInv => SerialUntilTimeout
  BY <1>1 DEF SerialUntilTimeout
<1> QED BY <1>2, SessionInvariant, PTL

\* A turn begins only on a live worker, which a slot with a failed turn has not.
THEOREM SessionNoTurnAfterFailure == Spec => NoTurnAfterFailure
<1>1. ASSUME SInv, [Next]_vars, NEW s \in Requests, NEW r \in Requests,
             FailedOn(s), Chained(s, r)', turn'[r] = "running", turn[r] # "running"
      PROVE  FALSE
  <2>1. TypeOK /\ ChainedOnce /\ Promised
    BY <1>1 DEF SInv, Turns
  <2>2. CASE \E t \in Requests : Starts(t)
    <3>0. PICK t \in Requests : Starts(t)
      BY <2>2
    <3>1. PICK i \in DOMAIN queue[t] : StartTurn(t, i)
      BY <3>0 DEF Starts
    <3>2. UNCHANGED queue /\ queue[t][i] \in Requests
      BY <2>1, <3>1 DEF StartTurn, TypeOK
    <3>3. r = queue[t][i] /\ worker[t] = "live"
      BY <1>1, <2>1, <3>1, <3>2 DEF StartTurn, TypeOK
    <3>4. s = t
      BY <1>1, <2>1, <3>2, <3>3 DEF Chained, InSeq, ChainedOnce
    <3> QED BY <1>1, <2>1, <3>3, <3>4 DEF Promised
  <2>3. CASE \E t \in Requests : \E x \in Requests : TurnEnds(t, x)
    BY <1>1, <2>1, <2>3 DEF TurnEnds, TurnOk, TurnFails, TypeOK
  <2>4. CASE \E k \in Keys : CreateOk(k)
    BY <1>1, <2>4 DEF CreateOk, Chain
  <2>5. CASE \E x \in Requests : RunTurn(x)
    <3>1. PICK x \in Requests, reset \in BOOLEAN :
            RefuseBusy(x, reset) \/ Hit(x, reset) \/ Join(x, reset) \/ Create(x, reset)
      BY <2>5 DEF RunTurn
    <3>2. UNCHANGED turn \/ \E t, q : Chain(t, q)
      BY <3>1 DEF RefuseBusy, Hit, Join, Create
    <3> QED BY <1>1, <3>2 DEF Chain
  <2>6. CASE UNCHANGED turn
    BY <1>1, <2>6
  <2> QED BY <1>1, <2>2, <2>3, <2>4, <2>5, <2>6
          DEF Next, QueueTimeout, ClientGone, CreationSettles, CreateFail, WorkerDies, Drain, StickyStats, Tick, vars,
              callers
<1>2. SInv /\ [Next]_vars =>
        [\A s, r \in Requests : FailedOn(s) /\ Chained(s, r)' /\ turn'[r] = "running" => turn[r] = "running"]_vars
  BY <1>1
<1> QED BY <1>2, SessionInvariant, PTL DEF Spec, NoTurnAfterFailure

\* With no turn ready to start, a slot that is used, and in which no queue timeout has fired,
\* has a turn in flight.
LEMMA UsedIsBusy ==
  ASSUME SInv, NoneReady, NEW s \in Requests, Using(s) # {}, ~TimedOut(s)
  PROVE  inFlight[s]
<1>1. PICK j \in DOMAIN queue[s] : turn[queue[s][j]] # "over"
  BY DEF Using, Chained, InSeq
<1>2. PICK i \in DOMAIN queue[s] : Front(s, i)
  BY <1>1, SerialFacts
<1>3. turn[queue[s][i]] \in {"waiting", "running"}
  <2>1. turn[queue[s][i]] \in {"none", "waiting", "running", "over"}
    BY SerialFacts DEF SInv, TypeOK
  <2> QED BY <1>2, <2>1 DEF Front, SInv, Turns, ChainedOnce
<1>4. PreviousSettled(s, i)
  <2>1. ASSUME i > 1 PROVE next[queue[s][i - 1]] # "pending"
    <3>1. i - 1 \in DOMAIN queue[s] /\ i - 1 < i
      BY <2>1, SerialFacts
    <3> QED BY <1>2, <3>1, SerialFacts DEF Front
  <2> QED BY <2>1 DEF PreviousSettled
<1>5. turn[queue[s][i]] = "running"
  BY <1>3, <1>4 DEF NoneReady, Ready
<1> QED BY <1>5, SerialFacts

\* An arrival leaves a busy slot, whose worker lives, in the map.
LEMMA ArrivalSparesBusy ==
  ASSUME SInv, NEW s \in held, inFlight[s], worker[s] # "dead", NEW r \in Requests, NEW reset \in BOOLEAN
  PROVE  /\ s \in AfterReset(r, reset) /\ s \in Found(r, reset)
         /\ \A gone \in LruEvictions(Found(r, reset)) : s \notin gone
<1>1. s \in Unexpired /\ s \notin older[s]
  BY DEF Unexpired, Expired, SInv, TypeOK, Accounts, Started
<1>2. s \in AfterReset(r, reset)
  BY <1>1 DEF AfterReset, Reset, BusyMatching, Matching
<1>3. s \in Found(r, reset)
  BY <1>2 DEF Found, Unhealthy
<1>4. \A gone \in LruEvictions(Found(r, reset)) : s \notin gone
  BY DEF LruEvictions, Idle
<1> QED BY <1>2, <1>3, <1>4

\* Expiry, the least-recently-used rule and a reset spare a session in use.
THEOREM SessionEvictionSparesBusy == Spec => EvictionSparesBusy
<1>1. ASSUME SInv, [Next]_vars, NEW s \in held, s \notin held', Using(s) # {}, ~TimedOut(s)
      PROVE  OwnEvent(s)
  <2>1. TypeOK /\ ChainedOnce /\ s \in Requests
    BY <1>1 DEF SInv, Turns, TypeOK
  <2>2. CASE \E t \in Requests : Starts(t)
    <3>0. PICK t \in Requests : Starts(t)
      BY <2>2
    <3>1. PICK i \in DOMAIN queue[t] : StartTurn(t, i)
      BY <3>0 DEF Starts
    <3>2. s = t /\ turn'[queue[t][i]] = "over" /\ turn[queue[t][i]] # "over" /\ queue[t][i] \in Requests
      BY <1>1, <2>1, <3>1 DEF StartTurn, Discard, KeepOnly, TypeOK, Ready
    <3>3. KeyOf[queue[t][i]] = KeyOf[t]
      BY <2>1 DEF ChainedOnce
    <3> QED BY <3>2, <3>3 DEF OwnEvent
  <2>3. CASE \E t \in Requests : \E x \in Requests : TurnEnds(t, x)
    <3>1. PICK t \in Requests, x \in Requests : TurnFails(t, x)
      BY <1>1, <2>3 DEF TurnEnds, TurnOk
    <3>2. s = t /\ turn'[x] = "over" /\ turn[x] # "over" /\ Chained(t, x)
      BY <1>1, <2>1, <3>1 DEF TurnFails, Discard, KeepOnly, TypeOK
    <3>3. KeyOf[x] = KeyOf[t]
      BY <2>1, <3>2 DEF ChainedOnce, Chained, InSeq
    <3> QED BY <3>2, <3>3 DEF OwnEvent
  <2>4. CASE \E r \in Requests : ClientGone(r)
    <3>1. PICK r \in Requests : ClientGone(r)
      BY <2>4
    <3>2. KeyOf[r] = KeyOf[s] /\ reply[r] = "open" /\ reply'[r] = "closed"
      BY <1>1, <2>1, <3>1 DEF ClientGone, Discard, KeepOnly, TypeOK
    <3> QED BY <3>2 DEF OwnEvent
  <2>5. CASE \E r \in Requests : RunTurn(r)
    <3>1. PICK r \in Requests, reset \in BOOLEAN :
            RefuseBusy(r, reset) \/ Hit(r, reset) \/ Join(r, reset) \/ Create(r, reset)
      BY <2>5 DEF RunTurn
    <3>2. NoneReady
      BY <3>1 DEF RefuseBusy, Hit, Join, Create, Arrive
    <3>3. inFlight[s]
      BY <1>1, <2>1, <3>2, UsedIsBusy
    <3>4. \/ held' = AfterReset(r, reset) \/ held' = Found(r, reset)
          \/ \E gone \in LruEvictions(Found(r, reset)) : held' = Found(r, reset) \ gone
      BY <3>1 DEF RefuseBusy, Hit, Join, Create, Arrive, KeepOnly
    <3>5. CASE worker[s] # "dead"
      BY <1>1, <3>3, <3>4, <3>5, ArrivalSparesBusy
    <3>6. CASE worker[s] = "dead"
      BY <3>6 DEF OwnEvent
    <3> QED BY <3>5, <3>6
  <2>6. CASE Drain
    BY <2>6 DEF OwnEvent
  <2>7. CASE \E k \in Keys : CreateOk(k)
    BY <1>1, <2>7 DEF CreateOk
  <2>8. CASE UNCHANGED held
    BY <1>1, <2>8
  <2>9. CASE StickyStats
    <3>1. s \notin Unexpired /\ NoneReady
      BY <1>1, <2>9 DEF StickyStats, Discard, KeepOnly, Unexpired
    <3>2. inFlight[s]
      BY <1>1, <2>1, <3>1, UsedIsBusy
    <3> QED BY <1>1, <3>1, <3>2 DEF Unexpired, Expired
  <2> QED BY <1>1, <2>2, <2>3, <2>4, <2>5, <2>6, <2>7, <2>8, <2>9
          DEF Next, QueueTimeout, CreationSettles, CreateFail, WorkerDies, Tick, vars
<1>2. SInv /\ [Next]_vars =>
        [\A s \in held : s \notin held' /\ Using(s) # {} /\ ~TimedOut(s) => OwnEvent(s)]_vars
  BY <1>1
<1> QED BY <1>2, SessionInvariant, PTL DEF Spec, EvictionSparesBusy

=============================================================================
