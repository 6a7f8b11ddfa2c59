-------------------------- MODULE HttpBridgeProofs --------------------------
(***************************************************************************)
(* Proofs about HttpBridge, for any requests and limits: the inductive     *)
(* invariant HInv and the safety properties that the run checks.           *)
(***************************************************************************)
EXTENDS HttpBridge, FiniteSetTheorems, TLAPS

\* Why the answer's end and the cancellation are quiet: a request whose end was told is
\* over, and one that was cancelled is being cleaned up or over.
ToldIsEnded == \A r \in Requests : got[r] \in {"completed", "failed"} => pc[r] = "ended"
CancelledCloses == \A r \in cancelled : pc[r] \in {"closing", "ended"}

HInv ==
  /\ TypeOK
  /\ IsFiniteSet(Holding)
  /\ ActiveExact
  /\ ChildHasSlot
  /\ ToldIsEnded
  /\ CancelledCloses

Places == {"new", "reading", "idle", "awaiting", "closing", "ended"}
HoldingPlaces == {"idle", "awaiting", "closing"}

-----------------------------------------------------------------------------
\* The slots: a request that takes one is one more, and one that frees it one less; a
\* step within the slots, or without, leaves their set alone.
LEMMA HoldingMoves ==
  ASSUME HInv, NEW r \in Requests, NEW p \in Places, pc' = [pc EXCEPT ![r] = p]
  PROVE  /\ p \in HoldingPlaces /\ r \notin Holding =>
              Holding' = Holding \cup {r} /\ IsFiniteSet(Holding') /\ Cardinality(Holding') = active + 1
         /\ p \notin HoldingPlaces /\ r \in Holding =>
              /\ Holding' = Holding \ {r} /\ IsFiniteSet(Holding')
              /\ active - 1 \in Nat /\ Cardinality(Holding') = active - 1
         /\ (p \in HoldingPlaces <=> r \in Holding) => Holding' = Holding
<1>1. pc \in [Requests -> Places] /\ IsFiniteSet(Holding) /\ active = Cardinality(Holding)
  BY DEF HInv, TypeOK, ActiveExact, Places
<1>2. p \in HoldingPlaces => Holding' = Holding \cup {r}
  BY <1>1 DEF Holding, HoldingPlaces
<1>3. p \notin HoldingPlaces => Holding' = Holding \ {r}
  BY <1>1 DEF Holding, HoldingPlaces
<1>4. CASE p \in HoldingPlaces /\ r \notin Holding
  BY <1>1, <1>2, <1>4, FS_AddElement
<1>5. CASE p \notin HoldingPlaces /\ r \in Holding
  <2>1. IsFiniteSet(Holding \ {r}) /\ Cardinality(Holding \ {r}) = Cardinality(Holding) - 1
    BY <1>1, <1>5, FS_RemoveElement
  <2>2. Cardinality(Holding \ {r}) \in Nat
    BY <2>1, FS_CardinalityType
  <2> QED BY <1>1, <1>3, <1>5, <2>1, <2>2
<1>6. CASE p \in HoldingPlaces <=> r \in Holding
  BY <1>2, <1>3, <1>6
<1> QED BY <1>4, <1>5, <1>6

\* A step of a request that moves it within its slot, or leaves it without one.
LEMMA HoldingStays ==
  ASSUME HInv, NEW r \in Requests, NEW p \in Places, pc' = [pc EXCEPT ![r] = p],
         p \in HoldingPlaces <=> r \in Holding, UNCHANGED active
  PROVE  Holding' = Holding /\ IsFiniteSet(Holding') /\ ActiveExact'
BY HoldingMoves DEF HInv, ActiveExact

\* The rest of the invariant follows where one request's place, answer and worker change
\* as they may.
LEMMA OneMoves ==
  ASSUME HInv, NEW r \in Requests, NEW p \in Places, NEW g, NEW c,
         pc' = [pc EXCEPT ![r] = p], got' = [got EXCEPT ![r] = g], child' = [child EXCEPT ![r] = c],
         c \in {"live", "stopping"} => p \in HoldingPlaces,
         g \in {"completed", "failed"} => p = "ended",
         r \in cancelled' => p \in {"closing", "ended"},
         cancelled' \subseteq cancelled \cup {r}, TypeOK'
  PROVE  ChildHasSlot' /\ ToldIsEnded' /\ CancelledCloses'
<1>1. TypeOK /\ ChildHasSlot /\ ToldIsEnded /\ CancelledCloses
  BY DEF HInv
<1>2. ChildHasSlot'
  BY <1>1 DEF TypeOK, ChildHasSlot, Holding, HoldingPlaces, Gone
<1>3. ToldIsEnded'
  BY <1>1 DEF TypeOK, ToldIsEnded
<1>4. CancelledCloses'
  BY <1>1, StreamedAssumption DEF TypeOK, CancelledCloses
<1> QED BY <1>2, <1>3, <1>4

LEMMA HInit == Init => HInv
<1> SUFFICES ASSUME Init PROVE HInv
  OBVIOUS
<1>1. Holding = {}
  BY DEF Init, Holding
<1>2. IsFiniteSet(Holding) /\ Cardinality(Holding) = 0
  BY <1>1, FS_EmptySet
<1> QED
  BY <1>2 DEF Init, HInv, TypeOK, ActiveExact, ChildHasSlot, Gone, ToldIsEnded, CancelledCloses

-----------------------------------------------------------------------------
(***************************************************************************)
(* The steps of one request.                                               *)
(***************************************************************************)
\* A step within a slot, or before or after it.
LEMMA StepInPlace ==
  ASSUME HInv, NEW r \in Requests, NEW p \in Places, NEW g, NEW c,
         pc' = [pc EXCEPT ![r] = p], got' = [got EXCEPT ![r] = g], child' = [child EXCEPT ![r] = c],
         p \in HoldingPlaces <=> r \in Holding, UNCHANGED active,
         c \in {"live", "stopping"} => p \in HoldingPlaces,
         g \in {"completed", "failed"} => p = "ended",
         r \in cancelled' => p \in {"closing", "ended"},
         cancelled' \subseteq cancelled \cup {r}, TypeOK'
  PROVE  HInv'
<1>1. Holding' = Holding /\ IsFiniteSet(Holding') /\ ActiveExact'
  BY HoldingStays
<1>2. ChildHasSlot' /\ ToldIsEnded' /\ CancelledCloses'
  BY OneMoves
<1> QED BY <1>1, <1>2 DEF HInv

\* What is known of a request before its step.
LEMMA Facts ==
  ASSUME HInv, NEW r \in Requests
  PROVE  /\ TypeOK /\ pc[r] \in Places
         /\ r \in Holding <=> pc[r] \in HoldingPlaces
         /\ child[r] \in {"live", "stopping"} => pc[r] \in HoldingPlaces
         /\ got[r] \in {"completed", "failed"} => pc[r] = "ended"
         /\ r \in cancelled => pc[r] \in {"closing", "ended"}
         /\ pc = [pc EXCEPT ![r] = pc[r]]
         /\ got = [got EXCEPT ![r] = got[r]]
         /\ child = [child EXCEPT ![r] = child[r]]
BY StreamedAssumption DEF HInv, TypeOK, Places, HoldingPlaces, Holding, ChildHasSlot, Gone,
   ToldIsEnded, CancelledCloses

LEMMA StepRefuse == ASSUME HInv, NEW r \in Requests, Refuse(r) PROVE HInv'
<1>1. TypeOK'
  BY DEF HInv, TypeOK, Refuse
<1> QED
  BY <1>1, Facts, StepInPlace, "ended" \in Places DEF Refuse, Places, HoldingPlaces

LEMMA StepCheck == ASSUME HInv, NEW r \in Requests, Check(r) PROVE HInv'
<1>1. TypeOK'
  BY DEF HInv, TypeOK, Check
<1>2. child' = [child EXCEPT ![r] = child[r]] /\ got' = [got EXCEPT ![r] = got[r]]
  BY Facts DEF Check
<1>3. pc[r] = "new" /\ pc' = [pc EXCEPT ![r] = "reading"] /\ UNCHANGED <<active, cancelled>>
  BY DEF Check
<1> QED
  BY <1>1, <1>2, <1>3, Facts, StepInPlace DEF Places, HoldingPlaces

\* Closing a generator, by whatever ends it, keeps the slot.
LEMMA StepClose ==
  ASSUME HInv, NEW r \in Requests, pc[r] \in HoldingPlaces, NEW how \in {"done", "failed"},
         Close(r, how), UNCHANGED <<limit, signal, got>>,
         cancelled' \subseteq cancelled \cup {r}, cancelled' \subseteq Streamed
  PROVE  HInv'
<1>1. TypeOK'
  BY DEF HInv, TypeOK, Close, Stopped
<1> QED
  BY <1>1, Facts, StepInPlace DEF Close, Places, HoldingPlaces

LEMMA StepPull == ASSUME HInv, NEW r \in Requests, Pull(r) PROVE HInv'
<1>1. TypeOK'
  BY DEF HInv, TypeOK, Pull, Spawn
<1>2. PICK c : child' = [child EXCEPT ![r] = c]
  BY Facts DEF Pull, Spawn
<1>3. got' = [got EXCEPT ![r] = got[r]]
  BY Facts DEF Pull
<1>4. pc[r] = "idle" /\ pc' = [pc EXCEPT ![r] = "awaiting"] /\ UNCHANGED <<active, cancelled>>
  BY DEF Pull
<1> QED
  BY <1>1, <1>2, <1>3, <1>4, Facts, StepInPlace DEF Places, HoldingPlaces

LEMMA StepDelta == ASSUME HInv, NEW r \in Requests, Delta(r) PROVE HInv'
<1>1. TypeOK'
  BY DEF HInv, TypeOK, Delta
<1> QED
  BY <1>1, Facts, StepInPlace DEF Delta, Places, HoldingPlaces

LEMMA StepEnds == ASSUME HInv, NEW r \in Requests, Done(r) \/ Fails(r) PROVE HInv'
<1>1. pc[r] \in HoldingPlaces /\ UNCHANGED <<limit, signal, got, cancelled>> /\ cancelled \subseteq Streamed
  BY DEF Done, Fails, HoldingPlaces, HInv, TypeOK
<1> QED
  BY <1>1, StepClose DEF Done, Fails

LEMMA StepChild == ASSUME HInv, NEW r \in Requests, ChildExits(r) \/ Timeout(r) PROVE HInv'
<1>1. TypeOK'
  BY DEF HInv, TypeOK, ChildExits, Timeout
<1> QED
  BY <1>1, Facts, StepInPlace DEF ChildExits, Timeout, Places, HoldingPlaces

LEMMA StepCancel == ASSUME HInv, NEW r \in Requests, Cancel(r) PROVE HInv'
<1>1. pc[r] \in HoldingPlaces /\ TypeOK
  BY Facts DEF Cancel
<1>2. CASE pc[r] = "closing"
  <2>1. TypeOK'
    BY <1>2 DEF HInv, TypeOK, Cancel
  <2> QED
    BY <1>2, <2>1, Facts, StepInPlace DEF Cancel, Places, HoldingPlaces
<1>3. CASE pc[r] # "closing"
  <2>1. Close(r, "failed") /\ cancelled' = cancelled \cup {r} /\ cancelled' \subseteq Streamed
    BY <1>1, <1>3 DEF Cancel, TypeOK
  <2> QED
    BY <1>1, <2>1, StepClose DEF Cancel
<1> QED BY <1>2, <1>3

\* A slot is taken.
LEMMA StepAccept == ASSUME HInv, NEW r \in Requests, Accept(r) PROVE HInv'
<1>1. PICK p \in {"idle", "awaiting"} : pc' = [pc EXCEPT ![r] = p]
  BY DEF Accept
<1>2. TypeOK'
  BY DEF HInv, TypeOK, Accept, Spawn
<1>3. IsFiniteSet(Holding') /\ ActiveExact'
  BY <1>1, Facts, HoldingMoves DEF Accept, ActiveExact, Places, HoldingPlaces
<1>4. PICK c : child' = [child EXCEPT ![r] = c]
  BY Facts DEF Accept, Spawn
<1>5. got' = [got EXCEPT ![r] = got[r]] /\ pc[r] = "reading" /\ UNCHANGED cancelled
  BY Facts DEF Accept
<1>6. ChildHasSlot' /\ ToldIsEnded' /\ CancelledCloses'
  BY <1>1, <1>2, <1>4, <1>5, Facts, OneMoves DEF Places, HoldingPlaces
<1> QED BY <1>2, <1>3, <1>6 DEF HInv

\* A slot is freed, once the worker has gone.
LEMMA StepFree == ASSUME HInv, NEW r \in Requests, Free(r) PROVE HInv'
<1>1. IsFiniteSet(Holding') /\ ActiveExact' /\ active' \in Nat
  BY Facts, HoldingMoves DEF Free, ActiveExact, Places, HoldingPlaces
<1>2. TypeOK'
  BY <1>1 DEF HInv, TypeOK, Free, Final
<1>3. child[r] \notin {"live", "stopping"} /\ r \in Requests
  BY DEF Free, Gone
<1>4. ChildHasSlot' /\ ToldIsEnded' /\ CancelledCloses'
  BY <1>2, <1>3, Facts, OneMoves DEF Free, Places, HoldingPlaces
<1> QED BY <1>1, <1>2, <1>4 DEF HInv

-----------------------------------------------------------------------------
(***************************************************************************)
(* The steps of none, or of all.                                           *)
(***************************************************************************)
LEMMA StepAbort == ASSUME HInv, NEW rs \in SUBSET Requests, AbortAll(rs) PROVE HInv'
<1>1. TypeOK'
  BY DEF HInv, TypeOK, AbortAll, Stopped
<1>2. Holding' = Holding /\ ActiveExact'
  BY DEF HInv, AbortAll, Holding, ActiveExact
<1>3. ChildHasSlot'
  BY <1>2 DEF HInv, TypeOK, AbortAll, Stopped, ChildHasSlot, Gone
<1>4. ToldIsEnded' /\ CancelledCloses'
  BY DEF HInv, AbortAll, ToldIsEnded, CancelledCloses
<1> QED BY <1>1, <1>2, <1>3, <1>4 DEF HInv

LEMMA StepLimit == ASSUME HInv, NEW n \in Limits, PutLimit(n) PROVE HInv'
BY DEF HInv, TypeOK, PutLimit, Holding, ActiveExact, ChildHasSlot, Gone, ToldIsEnded, CancelledCloses

LEMMA StepStutter == ASSUME HInv, UNCHANGED vars PROVE HInv'
BY DEF HInv, TypeOK, vars, Holding, ActiveExact, ChildHasSlot, Gone, ToldIsEnded, CancelledCloses

LEMMA HNext == HInv /\ [Next]_vars => HInv'
<1> SUFFICES ASSUME HInv, [Next]_vars PROVE HInv'
  OBVIOUS
<1>1. ASSUME NEW r \in Requests, Refuse(r) \/ Check(r) \/ Accept(r) \/ Pull(r) \/ Delta(r) PROVE HInv'
  BY <1>1, StepRefuse, StepCheck, StepAccept, StepPull, StepDelta
<1>2. ASSUME NEW r \in Requests, Done(r) \/ Fails(r) \/ ChildExits(r) \/ Timeout(r) PROVE HInv'
  BY <1>2, StepEnds, StepChild
<1>3. ASSUME NEW r \in Requests, Free(r) \/ Cancel(r) PROVE HInv'
  BY <1>3, StepFree, StepCancel
<1>4. ASSUME NEW r \in Requests, Disconnect(r) PROVE HInv'
  BY <1>4, StepAbort DEF Disconnect
<1>5. CASE Shutdown
  BY <1>5, StepAbort DEF Shutdown
<1>6. ASSUME NEW n \in Limits, PutLimit(n) PROVE HInv'
  BY <1>6, StepLimit
<1>7. CASE UNCHANGED vars
  BY <1>7, StepStutter
<1> QED BY <1>1, <1>2, <1>3, <1>4, <1>5, <1>6, <1>7 DEF Next

-----------------------------------------------------------------------------
(***************************************************************************)
(* The theorems.                                                           *)
(***************************************************************************)
\* The inductive invariant of the bridge, for any requests and limits.
THEOREM BridgeInvariant == Spec => []HInv
BY HInit, HNext, PTL DEF Spec

\* The variables keep their types; in particular active is never less than zero.
THEOREM BridgeTypes == Spec => []TypeOK
<1>1. HInv => TypeOK
  BY DEF HInv
<1> QED BY <1>1, BridgeInvariant, PTL

\* However the end, an error, a cancellation and an abort overlap, active counts the
\* slots that are held, and no worker process runs without one (http-bridge.ts, cleanup).
THEOREM BridgeSlotsExact == Spec => []SlotsExact
<1>1. HInv => SlotsExact
  BY DEF HInv, SlotsExact
<1> QED BY <1>1, BridgeInvariant, PTL

\* A caller is told of the end of its answer after its slot is free, and a stream that
\* its consumer has cancelled is sent nothing more (http-bridge.ts:101-105).
THEOREM BridgeToldInOrder == Spec => ToldInOrder
<1>1. HInv => FreedBeforeTold
  BY DEF HInv, TypeOK, ToldIsEnded, FreedBeforeTold, Holding
<1>2. HInv /\ [Next]_vars => [\A r \in cancelled : got'[r] = got[r]]_vars
  <2> SUFFICES ASSUME HInv, Next, NEW c \in cancelled PROVE got'[c] = got[c]
    OBVIOUS
  <2>1. TypeOK /\ c \in Requests /\ pc[c] \in {"closing", "ended"}
    BY Facts, StreamedAssumption DEF HInv, TypeOK, CancelledCloses
  <2>2. ASSUME NEW r \in Requests, Refuse(r) \/ Delta(r) \/ Free(r) PROVE got'[c] = got[c]
    BY <2>1, <2>2 DEF Refuse, Delta, Free, TypeOK
  <2>3. ASSUME NEW r \in Requests,
               \/ Check(r) \/ Accept(r) \/ Pull(r) \/ Done(r) \/ Fails(r)
               \/ ChildExits(r) \/ Timeout(r) \/ Disconnect(r) \/ Cancel(r)
        PROVE  got' = got
    BY <2>3 DEF Check, Accept, Pull, Done, Fails, ChildExits, Timeout, Disconnect, AbortAll, Cancel
  <2>4. ASSUME Shutdown \/ \E n \in Limits : PutLimit(n) PROVE got' = got
    BY <2>4 DEF Shutdown, AbortAll, PutLimit
  <2> QED BY <2>2, <2>3, <2>4 DEF Next
<1> QED BY <1>1, <1>2, BridgeInvariant, PTL DEF Spec, ToldInOrder, QuietAfterCancel

=============================================================================
