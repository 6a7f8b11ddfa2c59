-------------------------- MODULE WebRouterProofs ---------------------------
(***************************************************************************)
(* Proofs about WebRouter, for any requests, limits and cooldown: the      *)
(* inductive invariant IInv, layer by layer, the safety properties it      *)
(* implies, and the refinement of AnswerOnce.                              *)
(***************************************************************************)
EXTENDS WebRouter, FiniteSetTheorems, TLAPS

-----------------------------------------------------------------------------
(***************************************************************************)
(* The slots.                                                              *)
(***************************************************************************)
\* An attempt that begins is one more, and one that ends is one less; a step that
\* neither begins nor ends one leaves their set alone.
LEMMA AttemptsMove ==
  ASSUME SlotInv, NEW r \in Requests, NEW p \in Places, pc' = [pc EXCEPT ![r] = p]
  PROVE  /\ p \in AttemptPlaces /\ r \notin Attempts =>
              Attempts' = Attempts \cup {r} /\ IsFiniteSet(Attempts') /\ Cardinality(Attempts') = active + 1
         /\ p \notin AttemptPlaces /\ r \in Attempts =>
              Attempts' = Attempts \ {r} /\ IsFiniteSet(Attempts') /\ Cardinality(Attempts') = active - 1
         /\ (p \in AttemptPlaces <=> r \in Attempts) =>
              Attempts' = Attempts /\ IsFiniteSet(Attempts') /\ Cardinality(Attempts') = active
<1>1. pc \in [Requests -> Places] /\ IsFiniteSet(Attempts) /\ active = Cardinality(Attempts)
  BY DEF SlotInv, TypeOK, ActiveExact
<1>2. p \in AttemptPlaces => Attempts' = Attempts \cup {r}
  BY <1>1 DEF Attempts
<1>3. p \notin AttemptPlaces => Attempts' = Attempts \ {r}
  BY <1>1 DEF Attempts
<1>4. Cardinality(Attempts) \in Nat
  BY <1>1, FS_CardinalityType
<1>5. IsFiniteSet(Attempts \cup {r}) /\ IsFiniteSet(Attempts \ {r})
  BY <1>1, FS_AddElement, FS_RemoveElement
<1>6. r \notin Attempts => Cardinality(Attempts \cup {r}) = Cardinality(Attempts) + 1
  BY <1>1, FS_AddElement
<1>7. r \in Attempts => Cardinality(Attempts \ {r}) = Cardinality(Attempts) - 1
  BY <1>1, FS_RemoveElement
<1>8. CASE p \in AttemptPlaces /\ r \notin Attempts
  BY <1>1, <1>2, <1>5, <1>6, <1>8
<1>9. CASE p \notin AttemptPlaces /\ r \in Attempts
  BY <1>1, <1>3, <1>5, <1>7, <1>9
<1>10. CASE p \in AttemptPlaces <=> r \in Attempts
  <2>1. Attempts' = Attempts
    BY <1>2, <1>3, <1>10
  <2> QED BY <1>1, <1>10, <2>1
<1> QED BY <1>8, <1>9, <1>10

\* A slot is free to be given back while an attempt holds it.
LEMMA SlotTaken ==
  ASSUME SlotInv, NEW r \in Attempts
  PROVE  active - 1 \in Nat
<1>1. IsFiniteSet(Attempts) /\ active = Cardinality(Attempts)
  BY DEF SlotInv, ActiveExact
<1>2. Cardinality(Attempts) \in Nat /\ Cardinality(Attempts) # 0
  BY <1>1, FS_CardinalityType, FS_EmptySet
<1> QED BY <1>1, <1>2

\* Init has no attempts.
LEMMA SlotInit == Init => SlotInv
<1> SUFFICES ASSUME Init PROVE SlotInv
  OBVIOUS
<1>1. TypeOK
  BY SettingsAssumption DEF Init, TypeOK, Places, Modes, NoStat, Stats
<1>2. Attempts = {}
  BY DEF Init, Attempts, AttemptPlaces
<1> QED BY <1>1, <1>2, FS_EmptySet DEF SlotInv, ActiveExact, Init

\* The reply keeps its type, whatever is sent.
LEMMA SendType ==
  ASSUME TypeOK, NEW r \in Requests, NEW b \in {"none", "web", "codex"},
         NEW g \in {"nothing", "part", "whole", "broken", "refused"}, Send(r, b, g)
  PROVE  /\ by' \in [Requests -> {"none", "web", "codex"}]
         /\ got' \in [Requests -> {"nothing", "part", "whole", "broken", "refused"}]
BY DEF TypeOK, Send, reply

\* The statistics of a request keep their type, whatever is noted.
LEMMA StatType ==
  ASSUME TypeOK, NEW r \in Requests, NEW b \in {"web", "codex"}, NEW f \in BOOLEAN
  PROVE  /\ [stat EXCEPT ![r].backend = b] \in [Requests -> Stats]
         /\ [stat EXCEPT ![r].attempt = TRUE] \in [Requests -> Stats]
         /\ [stat EXCEPT ![r].completed = TRUE] \in [Requests -> Stats]
         /\ [stat EXCEPT ![r].backend = b, ![r].completed = TRUE] \in [Requests -> Stats]
         /\ [stat EXCEPT ![r].backend = b, ![r].fallback = @ \/ f] \in [Requests -> Stats]
<1> USE DEF TypeOK, Stats
<1>1. [stat EXCEPT ![r].backend = b] \in [Requests -> Stats]
  OBVIOUS
<1>2. [stat EXCEPT ![r].attempt = TRUE] \in [Requests -> Stats]
  OBVIOUS
<1>3. [stat EXCEPT ![r].completed = TRUE] \in [Requests -> Stats]
  OBVIOUS
<1>4. [stat EXCEPT ![r].backend = b, ![r].completed = TRUE] \in [Requests -> Stats]
  OBVIOUS
<1>5. [stat EXCEPT ![r].backend = b, ![r].fallback = @ \/ f] \in [Requests -> Stats]
  OBVIOUS
<1> QED BY <1>1, <1>2, <1>3, <1>4, <1>5

\* The types of the two variables that Send changes.
ReplyType ==
  /\ by \in [Requests -> {"none", "web", "codex"}]
  /\ got \in [Requests -> {"nothing", "part", "whole", "broken", "refused"}]

\* The POST handler up to its first await.
LEMMA SlotRoute ==
  ASSUME SlotInv, NEW r \in Requests, Route(r)
  PROVE  SlotInv'
<1> USE DEF SlotInv
<1>0. Modes = {"auto", "web", "codex"} /\ mode \in Modes
  BY SettingsAssumption DEF Modes, TypeOK
<1>1. PICK k \in Kinds :
        RefuseAtOnce(r, k) \/ RouteToCodex(r, k) \/ RouteAround(r, k) \/ Admit(r, k)
  BY DEF Route
<1>2. Ask(k) \in Modes
  BY <1>0, KindsAssumption DEF Ask
<1>3. r \notin Attempts /\ Arrive(r, k)
  BY <1>1 DEF RefuseAtOnce, RouteToCodex, RouteAround, Admit, Arrive, Attempts, AttemptPlaces
<1>4. kind' \in [Requests -> Kinds \cup {NoKind}] /\ want' \in [Requests -> Modes]
  BY <1>2, <1>3 DEF Arrive, TypeOK
<1>5. ASSUME NEW p \in Places \ AttemptPlaces, pc' = [pc EXCEPT ![r] = p],
             UNCHANGED <<router, gone, recorded>>, stat' \in [Requests -> Stats], ReplyType'
      PROVE  SlotInv'
  <2>1. pc' \in [Requests -> Places]
    BY <1>5 DEF TypeOK
  <2>2. TypeOK'
    BY <1>4, <1>5, <2>1 DEF router, TypeOK, ReplyType
  <2>3. active' = active
    BY <1>5 DEF router
  <2> QED BY <1>3, <1>5, <2>2, <2>3, AttemptsMove DEF ActiveExact
<1>6. "ended" \in Places \ AttemptPlaces /\ "codex" \in Places \ AttemptPlaces
  BY DEF Places, AttemptPlaces
<1>7. CASE RefuseAtOnce(r, k)
  <2>1. stat' \in [Requests -> Stats]
    BY <1>7 DEF RefuseAtOnce, TypeOK
  <2>2. ReplyType'
    BY <1>7, SendType DEF RefuseAtOnce, Refuse, ReplyType
  <2> QED BY <1>5, <1>6, <1>7, <2>1, <2>2 DEF RefuseAtOnce
<1>8. CASE RouteToCodex(r, k)
  <2>1. stat' \in [Requests -> Stats]
    BY <1>8, StatType DEF RouteToCodex, ToCodex
  <2>2. ReplyType'
    BY <1>8 DEF RouteToCodex, ToCodex, ReplyType, reply, TypeOK
  <2> QED BY <1>5, <1>6, <1>8, <2>1, <2>2 DEF RouteToCodex, ToCodex
<1>9. CASE RouteAround(r, k) /\ MayFallback(k, Ask(k))
  <2>1. stat' \in [Requests -> Stats]
    BY <1>9, StatType DEF RouteAround, ToCodex
  <2>2. ReplyType'
    BY <1>9 DEF RouteAround, ToCodex, ReplyType, reply, TypeOK
  <2> QED BY <1>5, <1>6, <1>9, <2>1, <2>2 DEF RouteAround, ToCodex
<1>10. CASE RouteAround(r, k) /\ ~MayFallback(k, Ask(k))
  <2>1. stat' \in [Requests -> Stats]
    BY <1>10, StatType DEF RouteAround
  <2>2. ReplyType'
    BY <1>10, SendType DEF RouteAround, Refuse, ReplyType
  <2> QED BY <1>5, <1>6, <1>10, <2>1, <2>2 DEF RouteAround
<1>11. CASE Admit(r, k)
  <2>1. pc' = [pc EXCEPT ![r] = "health"] /\ active' = active + 1 /\ "health" \in AttemptPlaces
    BY <1>11 DEF Admit, AttemptPlaces
  <2>2. stat' \in [Requests -> Stats]
    BY <1>11, StatType DEF Admit
  <2>3. TypeOK'
    BY <1>4, <1>11, <2>1, <2>2 DEF Admit, reply, TypeOK, Places
  <2> QED BY <1>3, <2>1, <2>3, AttemptsMove DEF ActiveExact, Places
<1> QED BY <1>1, <1>7, <1>8, <1>9, <1>10, <1>11

\* A web attempt: only its end gives a slot back, and each end gives one.
LEMMA SlotAttempt ==
  ASSUME SlotInv, NEW r \in Requests, AttemptStep(r)
  PROVE  SlotInv'
<1> USE DEF SlotInv
<1>0. r \in Attempts /\ active - 1 \in Nat
  <2>1. r \in Attempts
    BY DEF AttemptStep, HealthOk, CompleteJson, OpenStream, FirstOutput, StreamCompleted,
           CloseStream, AttemptFails, CatchPlaces, Attempts, AttemptPlaces
  <2> QED BY <2>1, SlotTaken
<1>1. CASE HealthOk(r)
  <2>1. /\ pc' = [pc EXCEPT ![r] = "post"]
        /\ active' = active
    BY <1>1 DEF HealthOk, router
  <2>2. stat' \in [Requests -> Stats]
    BY <1>1, StatType DEF HealthOk
  <2>3. ReplyType'
    BY <1>1, SendType DEF HealthOk, reply, TypeOK, ReplyType
  <2>4. cooldown' \in 0 .. Cooldown /\ outdated' \subseteq Requests
    BY <1>1, SettingsAssumption DEF HealthOk, router, TypeOK
  <2>5. pc' \in [Requests -> Places]
    BY <2>1 DEF TypeOK, Places, AttemptPlaces
  <2>6. TypeOK'
    BY <1>0, <1>1, <2>1, <2>2, <2>3, <2>4, <2>5 DEF HealthOk, router, TypeOK, ReplyType
  <2>7. "post" \in Places /\ "post" \in AttemptPlaces
    BY DEF Places, AttemptPlaces
  <2> QED BY <1>0, <2>1, <2>6, <2>7, AttemptsMove DEF ActiveExact
<1>2. CASE CompleteJson(r)
  <2>1. /\ pc' = [pc EXCEPT ![r] = "ended"]
        /\ active' = active - 1
    BY <1>2 DEF CompleteJson, FreeSlot, Succeeded, router
  <2>2. stat' \in [Requests -> Stats]
    BY <1>2, StatType DEF CompleteJson, FreeSlot, Succeeded
  <2>3. ReplyType'
    BY <1>2, SendType DEF CompleteJson, FreeSlot, Succeeded, reply, TypeOK, ReplyType
  <2>4. cooldown' \in 0 .. Cooldown /\ outdated' \subseteq Requests
    BY <1>2, SettingsAssumption DEF CompleteJson, FreeSlot, Succeeded, router, TypeOK
  <2>5. pc' \in [Requests -> Places]
    BY <2>1 DEF TypeOK, Places, AttemptPlaces
  <2>6. TypeOK'
    BY <1>0, <1>2, <2>1, <2>2, <2>3, <2>4, <2>5 DEF CompleteJson, FreeSlot, Succeeded, router, TypeOK, ReplyType
  <2>7. "ended" \in Places /\ "ended" \notin AttemptPlaces
    BY DEF Places, AttemptPlaces
  <2> QED BY <1>0, <2>1, <2>6, <2>7, AttemptsMove DEF ActiveExact
<1>3. CASE OpenStream(r)
  <2>1. /\ pc' = [pc EXCEPT ![r] = "prelude"]
        /\ active' = active
    BY <1>3 DEF OpenStream, router
  <2>2. stat' \in [Requests -> Stats]
    BY <1>3, StatType DEF OpenStream, TypeOK
  <2>3. ReplyType'
    BY <1>3, SendType DEF OpenStream, reply, TypeOK, ReplyType
  <2>4. cooldown' \in 0 .. Cooldown /\ outdated' \subseteq Requests
    BY <1>3, SettingsAssumption DEF OpenStream, router, TypeOK
  <2>5. pc' \in [Requests -> Places]
    BY <2>1 DEF TypeOK, Places, AttemptPlaces
  <2>6. TypeOK'
    BY <1>0, <1>3, <2>1, <2>2, <2>3, <2>4, <2>5 DEF OpenStream, router, TypeOK, ReplyType
  <2>7. "prelude" \in Places /\ "prelude" \in AttemptPlaces
    BY DEF Places, AttemptPlaces
  <2> QED BY <1>0, <2>1, <2>6, <2>7, AttemptsMove DEF ActiveExact
<1>4. CASE FirstOutput(r)
  <2>1. /\ pc' = [pc EXCEPT ![r] = "output"]
        /\ active' = active
    BY <1>4 DEF FirstOutput, router
  <2>2. stat' \in [Requests -> Stats]
    BY <1>4, StatType DEF FirstOutput, TypeOK
  <2>3. ReplyType'
    BY <1>4, SendType DEF FirstOutput, reply, TypeOK, ReplyType
  <2>4. cooldown' \in 0 .. Cooldown /\ outdated' \subseteq Requests
    BY <1>4, SettingsAssumption DEF FirstOutput, router, TypeOK
  <2>5. pc' \in [Requests -> Places]
    BY <2>1 DEF TypeOK, Places, AttemptPlaces
  <2>6. TypeOK'
    BY <1>0, <1>4, <2>1, <2>2, <2>3, <2>4, <2>5 DEF FirstOutput, router, TypeOK, ReplyType
  <2>7. "output" \in Places /\ "output" \in AttemptPlaces
    BY DEF Places, AttemptPlaces
  <2> QED BY <1>0, <2>1, <2>6, <2>7, AttemptsMove DEF ActiveExact
<1>5. CASE StreamCompleted(r)
  <2>1. /\ pc' = [pc EXCEPT ![r] = "closing"]
        /\ active' = active
    BY <1>5 DEF StreamCompleted, router
  <2>2. stat' \in [Requests -> Stats]
    BY <1>5, StatType DEF StreamCompleted
  <2>3. ReplyType'
    BY <1>5, SendType DEF StreamCompleted, reply, TypeOK, ReplyType
  <2>4. cooldown' \in 0 .. Cooldown /\ outdated' \subseteq Requests
    BY <1>5, SettingsAssumption DEF StreamCompleted, router, TypeOK
  <2>5. pc' \in [Requests -> Places]
    BY <2>1 DEF TypeOK, Places, AttemptPlaces
  <2>6. TypeOK'
    BY <1>0, <1>5, <2>1, <2>2, <2>3, <2>4, <2>5 DEF StreamCompleted, router, TypeOK, ReplyType
  <2>7. "closing" \in Places /\ "closing" \in AttemptPlaces
    BY DEF Places, AttemptPlaces
  <2> QED BY <1>0, <2>1, <2>6, <2>7, AttemptsMove DEF ActiveExact
<1>6. CASE CloseStream(r)
  <2>1. /\ pc' = [pc EXCEPT ![r] = "ended"]
        /\ active' = active - 1
    BY <1>6 DEF CloseStream, FreeSlot, Succeeded, router
  <2>2. stat' \in [Requests -> Stats]
    BY <1>6, StatType DEF CloseStream, FreeSlot, Succeeded, TypeOK
  <2>3. ReplyType'
    BY <1>6, SendType DEF CloseStream, FreeSlot, Succeeded, reply, TypeOK, ReplyType
  <2>4. cooldown' \in 0 .. Cooldown /\ outdated' \subseteq Requests
    BY <1>6, SettingsAssumption DEF CloseStream, FreeSlot, Succeeded, router, TypeOK
  <2>5. pc' \in [Requests -> Places]
    BY <2>1 DEF TypeOK, Places, AttemptPlaces
  <2>6. TypeOK'
    BY <1>0, <1>6, <2>1, <2>2, <2>3, <2>4, <2>5 DEF CloseStream, FreeSlot, Succeeded, router, TypeOK, ReplyType
  <2>7. "ended" \in Places /\ "ended" \notin AttemptPlaces
    BY DEF Places, AttemptPlaces
  <2> QED BY <1>0, <2>1, <2>6, <2>7, AttemptsMove DEF ActiveExact
<1>7. ASSUME NEW busy \in BOOLEAN, NEW retriable \in BOOLEAN, AttemptFails(r, busy, retriable)
      PROVE  SlotInv'
  <2>1. PICK p \in Places \ AttemptPlaces : pc' = [pc EXCEPT ![r] = p]
    BY <1>7 DEF AttemptFails, AnswerFailure, ToCodex, Places, AttemptPlaces
  <2>2. active' = active - 1
    BY <1>7 DEF AttemptFails, FreeSlot
  <2>3. cooldown' \in 0 .. Cooldown /\ outdated' \subseteq Requests
    BY <1>7, SettingsAssumption DEF AttemptFails, TypeOK, Attempts
  <2>4. stat' \in [Requests -> Stats] /\ ReplyType'
    <3>1. CASE gone[r]
      BY <1>7, <3>1 DEF AttemptFails, reply, ReplyType, TypeOK
    <3>2. CASE ~gone[r] /\ pc[r] = "output"
      BY <1>7, <3>2, SendType DEF AttemptFails, AnswerFailure, ReplyType, TypeOK
    <3>3. CASE ~gone[r] /\ pc[r] # "output" /\ ToCodex(r, TRUE)
      BY <3>3, StatType DEF ToCodex, reply, ReplyType, TypeOK
    <3>4. CASE ~gone[r] /\ pc[r] # "output" /\ ~ToCodex(r, TRUE)
      BY <1>7, <3>4, SendType DEF AttemptFails, AnswerFailure, Refuse, ReplyType, TypeOK
    <3> QED BY <3>1, <3>2, <3>3, <3>4
  <2>5. pc' \in [Requests -> Places]
    BY <2>1 DEF TypeOK
  <2>6. TypeOK'
    BY <1>0, <1>7, <2>2, <2>3, <2>4, <2>5 DEF AttemptFails, ReplyType, TypeOK
  <2> QED BY <1>0, <2>1, <2>2, <2>6, AttemptsMove DEF ActiveExact
<1> QED BY <1>1, <1>2, <1>3, <1>4, <1>5, <1>6, <1>7 DEF AttemptStep

\* The codex route holds no slot.
LEMMA SlotCodex ==
  ASSUME SlotInv, NEW r \in Requests, CodexStep(r)
  PROVE  SlotInv'
<1> USE DEF SlotInv
<1>0. r \notin Attempts
  BY DEF CodexStep, CodexOutput, CodexCompletes, CodexFails, Attempts, AttemptPlaces
<1>1. CASE CodexOutput(r)
  <2>1. /\ pc' = [pc EXCEPT ![r] = "sending"]
        /\ active' = active
    BY <1>1 DEF CodexOutput, router
  <2>2. stat' \in [Requests -> Stats]
    BY <1>1, StatType DEF CodexOutput
  <2>3. ReplyType'
    BY <1>1, SendType DEF CodexOutput, reply, TypeOK, ReplyType
  <2>4. cooldown' \in 0 .. Cooldown /\ outdated' \subseteq Requests
    BY <1>1, SettingsAssumption DEF CodexOutput, router, TypeOK
  <2>5. pc' \in [Requests -> Places]
    BY <2>1 DEF TypeOK, Places, AttemptPlaces
  <2>6. TypeOK'
    BY <1>0, <1>1, <2>1, <2>2, <2>3, <2>4, <2>5 DEF CodexOutput, router, TypeOK, ReplyType
  <2>7. "sending" \in Places /\ "sending" \notin AttemptPlaces
    BY DEF Places, AttemptPlaces
  <2> QED BY <1>0, <2>1, <2>6, <2>7, AttemptsMove DEF ActiveExact
<1>2. CASE CodexCompletes(r)
  <2>1. /\ pc' = [pc EXCEPT ![r] = "ended"]
        /\ active' = active
    BY <1>2 DEF CodexCompletes, router
  <2>2. stat' \in [Requests -> Stats]
    BY <1>2, StatType DEF CodexCompletes
  <2>3. ReplyType'
    BY <1>2, SendType DEF CodexCompletes, reply, TypeOK, ReplyType
  <2>4. cooldown' \in 0 .. Cooldown /\ outdated' \subseteq Requests
    BY <1>2, SettingsAssumption DEF CodexCompletes, router, TypeOK
  <2>5. pc' \in [Requests -> Places]
    BY <2>1 DEF TypeOK, Places, AttemptPlaces
  <2>6. TypeOK'
    BY <1>0, <1>2, <2>1, <2>2, <2>3, <2>4, <2>5 DEF CodexCompletes, router, TypeOK, ReplyType
  <2>7. "ended" \in Places /\ "ended" \notin AttemptPlaces
    BY DEF Places, AttemptPlaces
  <2> QED BY <1>0, <2>1, <2>6, <2>7, AttemptsMove DEF ActiveExact
<1>3. CASE CodexFails(r)
  <2>1. /\ pc' = [pc EXCEPT ![r] = "ended"]
        /\ active' = active
    BY <1>3 DEF CodexFails, Refuse, router
  <2>2. stat' \in [Requests -> Stats]
    BY <1>3, StatType DEF CodexFails, Refuse
  <2>3. ReplyType'
    BY <1>3, SendType DEF CodexFails, Refuse, reply, TypeOK, ReplyType
  <2>4. cooldown' \in 0 .. Cooldown /\ outdated' \subseteq Requests
    BY <1>3, SettingsAssumption DEF CodexFails, Refuse, router, TypeOK
  <2>5. pc' \in [Requests -> Places]
    BY <2>1 DEF TypeOK, Places, AttemptPlaces
  <2>6. TypeOK'
    BY <1>0, <1>3, <2>1, <2>2, <2>3, <2>4, <2>5 DEF CodexFails, Refuse, router, TypeOK, ReplyType
  <2>7. "ended" \in Places /\ "ended" \notin AttemptPlaces
    BY DEF Places, AttemptPlaces
  <2> QED BY <1>0, <2>1, <2>6, <2>7, AttemptsMove DEF ActiveExact
<1> QED BY <1>1, <1>2, <1>3 DEF CodexStep

\* Every step keeps the types and the balance of active++ and active--.
LEMMA SlotNext == SlotInv /\ [Next]_vars => SlotInv'
<1> SUFFICES ASSUME SlotInv, [Next]_vars PROVE SlotInv'
  OBVIOUS
<1> USE DEF SlotInv
<1>1. ASSUME NEW r \in Requests, Route(r) PROVE SlotInv'
  BY <1>1, SlotRoute
<1>2. ASSUME NEW r \in Requests, AttemptStep(r) PROVE SlotInv'
  BY <1>2, SlotAttempt
<1>3. ASSUME NEW r \in Requests, CodexStep(r) PROVE SlotInv'
  BY <1>3, SlotCodex
<1>4. ASSUME NEW r \in Requests, Finish(r) PROVE SlotInv'
  BY <1>4 DEF Finish, router, reply, TypeOK, ActiveExact, Attempts
<1>5. ASSUME NEW r \in Requests, ClientGone(r) PROVE SlotInv'
  BY <1>5 DEF ClientGone, router, reply, TypeOK, ActiveExact, Attempts
<1>6. ASSUME NEW m \in SetModes, PutMode(m) PROVE SlotInv'
  BY <1>6, SettingsAssumption DEF PutMode, reply, TypeOK, ActiveExact, Attempts
<1>7. ASSUME NEW n \in Limits, PutLimit(n) PROVE SlotInv'
  BY <1>7 DEF PutLimit, reply, TypeOK, ActiveExact, Attempts
<1>8. CASE Tick
  BY <1>8, SettingsAssumption DEF Tick, reply, TypeOK, ActiveExact, Attempts
<1>9. CASE UNCHANGED vars
  BY <1>9 DEF vars, TypeOK, ActiveExact, Attempts
<1> QED BY <1>1, <1>2, <1>3, <1>4, <1>5, <1>6, <1>7, <1>8, <1>9 DEF Next

-----------------------------------------------------------------------------
(***************************************************************************)
(* The cooldown.                                                           *)
(***************************************************************************)
\* The running attempts all began before the cooldown: one that begins finds none,
\* and a failure makes every attempt under way outdated.
LEMMA CooldownNext ==
  ASSUME TypeOK, CooldownIsNewer, [Next]_vars
  PROVE  CooldownIsNewer'
<1> USE DEF CooldownIsNewer
<1>0. pc \in [Requests -> Places]
  BY DEF TypeOK
<1>1. ASSUME NEW r \in Requests, NEW k \in Kinds, Admit(r, k) PROVE CooldownIsNewer'
  <2>1. cooldown' = 0 \/ ~(cooldown' > 0)
    BY <1>1 DEF Admit, WebUnavailable
  <2> QED BY <2>1
<1>2. ASSUME NEW r \in Requests, NEW k \in Kinds,
             RefuseAtOnce(r, k) \/ RouteToCodex(r, k) \/ RouteAround(r, k)
      PROVE  CooldownIsNewer'
  <2>1. Attempts' \subseteq Attempts /\ cooldown' = cooldown /\ outdated' = outdated
    BY <1>0, <1>2 DEF RefuseAtOnce, RouteToCodex, RouteAround, ToCodex, router, Attempts, AttemptPlaces
  <2> QED BY <2>1
<1>3. ASSUME NEW r \in Requests, AttemptStep(r) PROVE CooldownIsNewer'
  <2>1. Attempts' \subseteq Attempts
    BY <1>0, <1>3 DEF AttemptStep, HealthOk, CompleteJson, OpenStream, FirstOutput, StreamCompleted,
       CloseStream, AttemptFails, AnswerFailure, ToCodex, CatchPlaces, Attempts, AttemptPlaces
  <2>2. CASE \E busy, retriable \in BOOLEAN : AttemptFails(r, busy, retriable)
    BY <2>1, <2>2 DEF AttemptFails
  <2>3. CASE CompleteJson(r) \/ CloseStream(r)
    <3>1. outdated' = outdated /\ (cooldown' = cooldown \/ cooldown' = 0)
      BY <2>3 DEF CompleteJson, CloseStream, Succeeded
    <3> QED BY <2>1, <3>1
  <2>4. CASE HealthOk(r) \/ OpenStream(r) \/ FirstOutput(r) \/ StreamCompleted(r)
    BY <2>1, <2>4 DEF HealthOk, OpenStream, FirstOutput, StreamCompleted, router
  <2> QED BY <1>3, <2>2, <2>3, <2>4 DEF AttemptStep
<1>4. ASSUME NEW r \in Requests, CodexStep(r) PROVE CooldownIsNewer'
  <2>1. Attempts' \subseteq Attempts /\ cooldown' = cooldown /\ outdated' = outdated
    BY <1>0, <1>4 DEF CodexStep, CodexOutput, CodexCompletes, CodexFails, router, Attempts, AttemptPlaces
  <2> QED BY <2>1
<1>5. ASSUME NEW r \in Requests, Finish(r) \/ ClientGone(r) PROVE CooldownIsNewer'
  BY <1>5 DEF Finish, ClientGone, router, Attempts
<1>6. ASSUME NEW m \in SetModes, PutMode(m) PROVE CooldownIsNewer'
  BY <1>6 DEF PutMode
<1>7. ASSUME NEW n \in Limits, PutLimit(n) PROVE CooldownIsNewer'
  BY <1>7 DEF PutLimit, Attempts
<1>8. CASE Tick
  BY <1>8, SettingsAssumption DEF Tick, TypeOK, Attempts
<1>9. CASE UNCHANGED vars
  BY <1>9 DEF vars, Attempts
<1> QED BY <1>1, <1>2, <1>3, <1>4, <1>5, <1>6, <1>7, <1>8, <1>9 DEF Next, Route

-----------------------------------------------------------------------------
(***************************************************************************)
(* What holds of each request by itself.                                   *)
(***************************************************************************)
RequestStep(q) == Route(q) \/ AttemptStep(q) \/ CodexStep(q) \/ Finish(q) \/ ClientGone(q)
RequestInv(r) == BackendKept(r) /\ ReplyAtPlace(r) /\ StatAtReply(r) /\ BookedTruly(r)

\* All that RequestInv says of a request is about these.
SameRequest(r) ==
  /\ pc'[r] = pc[r] /\ kind'[r] = kind[r] /\ want'[r] = want[r]
  /\ by'[r] = by[r] /\ got'[r] = got[r] /\ gone'[r] = gone[r]
  /\ stat'[r] = stat[r] /\ recorded'[r] = recorded[r]

\* So it survives a step that leaves them alone.
LEMMA SameInv ==
  ASSUME NEW r, RequestInv(r), SameRequest(r)
  PROVE  RequestInv(r)'
BY DEF RequestInv, SameRequest, BackendKept, AskedForWeb, AskedForCodex, Arrived, ReplyAtPlace,
       StatAtReply, BookedTruly

\* A handler changes nothing of another request.
LEMMA OthersSame ==
  ASSUME TypeOK, NEW q \in Requests, RequestStep(q), NEW r \in Requests, r # q
  PROVE  SameRequest(r)
<1> USE DEF SameRequest, TypeOK
<1>1. CASE Route(q)
  BY <1>1 DEF Route, RefuseAtOnce, RouteToCodex, RouteAround, Admit, Arrive, ToCodex, Refuse, Send, reply
<1>2. CASE HealthOk(q) \/ OpenStream(q) \/ FirstOutput(q)
  BY <1>2 DEF HealthOk, OpenStream, FirstOutput, Send, reply
<1>3. CASE CompleteJson(q) \/ StreamCompleted(q) \/ CloseStream(q)
  BY <1>3 DEF CompleteJson, StreamCompleted, CloseStream, Send, reply
<1>4. CASE \E busy, retriable \in BOOLEAN : AttemptFails(q, busy, retriable)
  BY <1>4 DEF AttemptFails, AnswerFailure, ToCodex, Refuse, Send, reply
<1>5. CASE CodexStep(q)
  BY <1>5 DEF CodexStep, CodexOutput, CodexCompletes, CodexFails, Refuse, Send, reply
<1>6. CASE Finish(q) \/ ClientGone(q)
  BY <1>6 DEF Finish, ClientGone, reply
<1> QED BY <1>1, <1>2, <1>3, <1>4, <1>5, <1>6 DEF RequestStep, AttemptStep

\* What Send leaves of the reply to r.
LEMMA SendValue ==
  ASSUME TypeOK, NEW r \in Requests, NEW b, NEW g, Send(r, b, g)
  PROVE  /\ gone[r] => by'[r] = by[r] /\ got'[r] = got[r]
         /\ ~gone[r] => by'[r] = b /\ got'[r] = g
BY DEF TypeOK, Send, reply

\* What a fallback leaves of r's reply and statistics.
LEMMA FallbackValue ==
  ASSUME TypeOK, NEW r \in Requests, NEW f \in BOOLEAN, ToCodex(r, f)
  PROVE  /\ pc'[r] = "codex"
         /\ by'[r] = by[r] /\ got'[r] = got[r]
         /\ stat'[r].completed = stat[r].completed
BY DEF TypeOK, Stats, ToCodex, reply

\* A request that arrives goes where it asked to.
LEMMA OwnRoute ==
  ASSUME TypeOK, NEW r \in Requests, RequestInv(r), Route(r)
  PROVE  RequestInv(r)'
<1> USE DEF RequestInv
<1>1. PICK k \in Kinds :
        RefuseAtOnce(r, k) \/ RouteToCodex(r, k) \/ RouteAround(r, k) \/ Admit(r, k)
  BY DEF Route
<1>2. /\ pc[r] = "new" /\ kind'[r] = k /\ want'[r] = Ask(k)
      /\ gone' = gone /\ recorded' = recorded
  BY <1>1 DEF TypeOK, RefuseAtOnce, RouteToCodex, RouteAround, Admit, Arrive
<1>3. /\ ~gone[r] /\ by[r] = "none" /\ got[r] = "nothing" /\ recorded[r] = "open"
      /\ ~stat[r].completed
  BY <1>2 DEF TypeOK, Stats, ReplyAtPlace, StatAtReply, BookedTruly, Arrived
<1>4. CASE RefuseAtOnce(r, k)
  <2>1. /\ pc'[r] = "ended" /\ by'[r] = "none" /\ got'[r] = "refused"
        /\ stat'[r].completed = stat[r].completed
    BY <1>3, <1>4, SendValue DEF TypeOK, RefuseAtOnce, Refuse
  <2> QED BY <1>2, <1>3, <2>1 DEF BackendKept, AskedForWeb, AskedForCodex, Arrived, ReplyAtPlace,
             StatAtReply, BookedTruly, AttemptPlaces
<1>5. CASE (RouteToCodex(r, k) \/ RouteAround(r, k)) /\ pc'[r] = "codex"
  <2>1. /\ by'[r] = "none" /\ got'[r] = "nothing" /\ ~stat'[r].completed
    BY <1>3, <1>5, FallbackValue DEF RouteToCodex, RouteAround, ToCodex, TypeOK
  <2>2. ~AskedForWeb(r)'
    BY <1>2, <1>5 DEF AskedForWeb, RouteToCodex, RouteAround, GoesToCodex, MayFallback, TypeOK
  <2> QED BY <1>2, <1>3, <1>5, <2>1, <2>2 DEF BackendKept, ReplyAtPlace, StatAtReply, BookedTruly, Arrived,
             AttemptPlaces
<1>6. CASE RouteAround(r, k) /\ pc'[r] # "codex"
  <2>1. /\ pc'[r] = "ended" /\ by'[r] = "none" /\ got'[r] = "refused"
        /\ stat'[r].completed = stat[r].completed
    BY <1>3, <1>6, SendValue DEF RouteAround, ToCodex, Refuse, TypeOK, Stats
  <2> QED BY <1>2, <1>3, <2>1 DEF BackendKept, AskedForWeb, AskedForCodex, Arrived, ReplyAtPlace,
             StatAtReply, BookedTruly, AttemptPlaces
<1>7. CASE Admit(r, k)
  <2>1. /\ pc'[r] = "health" /\ by'[r] = "none" /\ got'[r] = "nothing"
        /\ ~stat'[r].completed /\ stat'[r].backend = "web"
    BY <1>3, <1>7 DEF Admit, reply, TypeOK, Stats
  <2>2. ~AskedForCodex(r)'
    BY <1>2, <1>7 DEF AskedForCodex, Admit, GoesToCodex
  <2> QED BY <1>2, <1>3, <2>1, <2>2 DEF BackendKept, ReplyAtPlace, StatAtReply, BookedTruly, Arrived,
             AttemptPlaces
<1>8. RouteToCodex(r, k) => pc'[r] = "codex"
  BY FallbackValue DEF RouteToCodex
<1> QED BY <1>1, <1>4, <1>5, <1>6, <1>7, <1>8

\* A step of an attempt that does not fail.
LEMMA OwnAttempt ==
  ASSUME TypeOK, NEW r \in Requests, RequestInv(r),
         HealthOk(r) \/ CompleteJson(r) \/ OpenStream(r) \/ FirstOutput(r) \/ StreamCompleted(r) \/ CloseStream(r)
  PROVE  RequestInv(r)'
<1> USE DEF RequestInv
<1>1. /\ pc[r] \in AttemptPlaces /\ kind' = kind /\ want' = want /\ gone' = gone /\ recorded' = recorded
  BY DEF HealthOk, CompleteJson, OpenStream, FirstOutput, StreamCompleted, CloseStream, AttemptPlaces
<1>2. /\ stat[r].backend = "web" /\ ~AskedForCodex(r) /\ (recorded[r] = "open" \/ gone[r])
      /\ ~AskedForCodex(r)'
  BY <1>1 DEF StatAtReply, BackendKept, AskedForCodex, Arrived, AttemptPlaces
<1>3. stat'[r].backend = "web"
  <2>1. CASE HealthOk(r)
    BY <1>2, <2>1 DEF HealthOk, TypeOK, Stats
  <2>2. CASE CompleteJson(r) \/ StreamCompleted(r)
    BY <1>2, <2>2 DEF CompleteJson, StreamCompleted, TypeOK, Stats
  <2>3. CASE OpenStream(r) \/ FirstOutput(r) \/ CloseStream(r)
    BY <1>2, <2>3 DEF OpenStream, FirstOutput, CloseStream
  <2> QED BY <2>1, <2>2, <2>3
<1>4. CASE HealthOk(r) \/ OpenStream(r)
  <2>1. /\ pc'[r] \in {"post", "prelude"} /\ pc[r] \in {"health", "post"}
        /\ by'[r] = by[r] /\ got'[r] = got[r]
        /\ stat'[r].completed = stat[r].completed
    BY <1>4 DEF HealthOk, OpenStream, reply, TypeOK, Stats
  <2> QED BY <1>1, <1>2, <1>3, <2>1 DEF BackendKept, AskedForWeb, Arrived, ReplyAtPlace,
             StatAtReply, BookedTruly, AttemptPlaces
<1>5. CASE FirstOutput(r)
  <2>1. pc'[r] = "output" /\ pc[r] = "prelude" /\ stat' = stat
    BY <1>5 DEF FirstOutput, TypeOK
  <2>2. /\ gone[r] => by'[r] = by[r] /\ got'[r] = got[r]
        /\ ~gone[r] => by'[r] = "web" /\ got'[r] = "part"
    BY <1>5, SendValue DEF FirstOutput
  <2> QED BY <1>1, <1>2, <1>3, <2>1, <2>2 DEF BackendKept, AskedForWeb, Arrived, ReplyAtPlace,
             StatAtReply, BookedTruly, AttemptPlaces
<1>6. CASE CompleteJson(r) \/ StreamCompleted(r)
  <2>1. pc'[r] \in {"ended", "closing"} /\ stat'[r].completed
    BY <1>6 DEF CompleteJson, StreamCompleted, TypeOK, Stats
  <2>2. /\ gone[r] => by'[r] = by[r] /\ got'[r] = got[r]
        /\ ~gone[r] => by'[r] = "web" /\ got'[r] = "whole"
    BY <1>6, SendValue DEF CompleteJson, StreamCompleted
  <2> QED BY <1>1, <1>2, <1>3, <2>1, <2>2 DEF BackendKept, AskedForWeb, Arrived, ReplyAtPlace,
             StatAtReply, BookedTruly, AttemptPlaces
<1>7. CASE CloseStream(r)
  <2>1. /\ pc'[r] = "ended" /\ pc[r] = "closing" /\ stat' = stat /\ by' = by /\ got' = got
    BY <1>7 DEF CloseStream, reply, TypeOK
  <2> QED BY <1>1, <1>2, <1>3, <2>1 DEF BackendKept, AskedForWeb, Arrived, ReplyAtPlace,
             StatAtReply, BookedTruly, AttemptPlaces
<1> QED BY <1>4, <1>5, <1>6, <1>7

\* A failed attempt refuses, breaks off or falls back, and a fallback finds that
\* nothing was sent.
LEMMA OwnFailure ==
  ASSUME TypeOK, NEW r \in Requests, RequestInv(r), NEW busy \in BOOLEAN, NEW retriable \in BOOLEAN,
         AttemptFails(r, busy, retriable)
  PROVE  RequestInv(r)'
<1> USE DEF RequestInv
<1>1. /\ pc[r] \in {"health", "post", "prelude", "output"}
      /\ kind' = kind /\ want' = want /\ gone' = gone /\ recorded' = recorded
  BY DEF AttemptFails, CatchPlaces, AttemptPlaces
<1>2. /\ stat[r].backend = "web" /\ ~AskedForCodex(r) /\ (recorded[r] = "open" \/ gone[r])
  BY <1>1 DEF StatAtReply, BackendKept, Arrived, AttemptPlaces
<1>3. CASE gone[r]
  <2>1. pc'[r] = "ended" /\ UNCHANGED <<reply, stat>>
    BY <1>3 DEF AttemptFails, TypeOK
  <2> QED BY <1>1, <1>2, <1>3, <2>1 DEF BackendKept, AskedForWeb, AskedForCodex, Arrived, ReplyAtPlace,
             StatAtReply, BookedTruly, AttemptPlaces, reply
<1>4. CASE ~gone[r] /\ pc[r] = "output"
  <2>1. pc'[r] = "ended" /\ stat' = stat /\ by'[r] = "web" /\ got'[r] = "broken"
    BY <1>4, SendValue DEF AttemptFails, AnswerFailure, TypeOK
  <2> QED BY <1>1, <1>2, <1>4, <2>1 DEF BackendKept, AskedForWeb, AskedForCodex, Arrived, ReplyAtPlace,
             StatAtReply, BookedTruly, AttemptPlaces
<1>5. CASE ~gone[r] /\ pc[r] # "output"
  <2>0. by[r] = "none" /\ got[r] = "nothing" /\ ~stat[r].completed
    BY <1>1, <1>5 DEF ReplyAtPlace, StatAtReply, TypeOK, Stats
  <2>1. CASE MayFallback(kind[r], want[r]) /\ retriable
    <3>1. /\ pc'[r] = "codex" /\ by'[r] = "none" /\ got'[r] = "nothing"
          /\ ~stat'[r].completed
      BY <1>5, <2>0, <2>1, FallbackValue DEF AttemptFails, AnswerFailure
    <3> QED BY <1>1, <1>2, <1>5, <2>1, <3>1 DEF MayFallback, BackendKept, AskedForWeb, AskedForCodex, Arrived,
               ReplyAtPlace, StatAtReply, BookedTruly, AttemptPlaces
  <2>2. CASE ~(MayFallback(kind[r], want[r]) /\ retriable)
    <3>1. pc'[r] = "ended" /\ stat' = stat /\ by'[r] = "none" /\ got'[r] = "refused"
      BY <1>5, <2>2, SendValue DEF AttemptFails, AnswerFailure, Refuse, TypeOK
    <3> QED BY <1>1, <1>2, <1>5, <2>0, <3>1 DEF BackendKept, AskedForWeb, AskedForCodex, Arrived,
               ReplyAtPlace, StatAtReply, BookedTruly, AttemptPlaces
  <2> QED BY <2>1, <2>2
<1> QED BY <1>3, <1>4, <1>5

\* The codex route answers what was routed to it.
LEMMA OwnCodex ==
  ASSUME TypeOK, NEW r \in Requests, RequestInv(r), CodexStep(r)
  PROVE  RequestInv(r)'
<1> USE DEF RequestInv
<1>1. /\ pc[r] \in {"codex", "sending"}
      /\ kind' = kind /\ want' = want /\ gone' = gone /\ recorded' = recorded
  BY DEF CodexStep, CodexOutput, CodexCompletes, CodexFails
<1>2. ~AskedForWeb(r) /\ (recorded[r] = "open" \/ gone[r])
  BY <1>1 DEF StatAtReply, BackendKept
<1>3. gone[r] => by'[r] = by[r] /\ got'[r] = got[r]
  BY SendValue DEF CodexStep, CodexOutput, CodexCompletes, CodexFails, Refuse
<1>4. CASE CodexOutput(r)
  <2>1. /\ pc'[r] = "sending" /\ stat'[r].completed = stat[r].completed /\ pc[r] = "codex"
        /\ ~gone[r] => by'[r] = "codex" /\ got'[r] = "part"
    BY <1>4, SendValue DEF CodexOutput, TypeOK, Stats
  <2> QED BY <1>1, <1>2, <1>3, <2>1 DEF BackendKept, AskedForWeb, AskedForCodex, Arrived,
             ReplyAtPlace, StatAtReply, BookedTruly, AttemptPlaces
<1>5. CASE CodexCompletes(r)
  <2>1. /\ pc'[r] = "ended" /\ stat'[r].completed /\ stat'[r].backend = "codex"
        /\ ~gone[r] => by'[r] = "codex" /\ got'[r] = "whole"
    BY <1>5, SendValue DEF CodexCompletes, TypeOK, Stats
  <2> QED BY <1>1, <1>2, <1>3, <2>1 DEF BackendKept, AskedForWeb, AskedForCodex, Arrived,
             ReplyAtPlace, StatAtReply, BookedTruly, AttemptPlaces
<1>6. CASE CodexFails(r)
  <2>1. pc'[r] = "ended" /\ stat'[r].completed = stat[r].completed
    BY <1>6 DEF CodexFails, TypeOK, Stats
  <2>2. ~gone[r] => \/ by'[r] = "codex" /\ got'[r] = "broken"
                    \/ by'[r] = "none" /\ got'[r] = "refused"
    BY <1>6, SendValue DEF CodexFails, Refuse
  <2> QED BY <1>1, <1>2, <1>3, <2>1, <2>2 DEF BackendKept, AskedForWeb, AskedForCodex, Arrived,
             ReplyAtPlace, StatAtReply, BookedTruly, AttemptPlaces
<1> QED BY <1>4, <1>5, <1>6 DEF CodexStep

\* A response is booked once, when it finishes or when its caller leaves.
LEMMA OwnEnd ==
  ASSUME TypeOK, NEW r \in Requests, RequestInv(r), Finish(r) \/ ClientGone(r)
  PROVE  RequestInv(r)'
<1> USE DEF RequestInv
<1>1. /\ recorded[r] = "open" /\ ~gone[r] /\ Arrived(r)
      /\ UNCHANGED <<pc, kind, want, by, got, stat>>
  BY DEF Finish, ClientGone, reply, Arrived
<1>2. CASE Finish(r)
  <2>1. /\ recorded'[r] = IF stat[r].completed THEN "succeeded" ELSE "failed"
        /\ gone' = gone /\ pc[r] = "ended"
    BY <1>2 DEF Finish, TypeOK
  <2>2. /\ stat[r].completed => got[r] = "whole" /\ by[r] = stat[r].backend
        /\ ~stat[r].completed => got[r] \in {"broken", "refused"}
    BY <1>1, <2>1 DEF ReplyAtPlace, StatAtReply
  <2> QED BY <1>1, <2>1, <2>2 DEF BackendKept, AskedForWeb, AskedForCodex, Arrived,
             ReplyAtPlace, StatAtReply, BookedTruly
<1>3. CASE ClientGone(r)
  <2>1. recorded'[r] = "cancelled" /\ gone'[r]
    BY <1>3 DEF ClientGone, TypeOK
  <2> QED BY <1>1, <2>1 DEF BackendKept, AskedForWeb, AskedForCodex, Arrived,
             ReplyAtPlace, StatAtReply, BookedTruly
<1> QED BY <1>2, <1>3

\* Every step keeps what holds of each request.
LEMMA RequestsNext ==
  ASSUME TypeOK, \A r \in Requests : RequestInv(r), [Next]_vars
  PROVE  \A r \in Requests : RequestInv(r)'
<1> SUFFICES ASSUME NEW r \in Requests PROVE RequestInv(r)'
  OBVIOUS
<1>1. ASSUME NEW q \in Requests, RequestStep(q) PROVE RequestInv(r)'
  <2>1. CASE q # r
    BY <1>1, <2>1, OthersSame, SameInv
  <2>2. CASE q = r
    BY <1>1, <2>2, OwnRoute, OwnAttempt, OwnFailure, OwnCodex, OwnEnd DEF RequestStep, AttemptStep
  <2> QED BY <2>1, <2>2
<1>2. ASSUME UNCHANGED <<pc, kind, want, by, got, gone, stat, recorded>> PROVE RequestInv(r)'
  BY <1>2, SameInv DEF SameRequest
<1>3. ASSUME NEW m \in SetModes, PutMode(m) PROVE RequestInv(r)'
  BY <1>2, <1>3 DEF PutMode, reply
<1>4. ASSUME NEW n \in Limits, PutLimit(n) PROVE RequestInv(r)'
  BY <1>2, <1>4 DEF PutLimit, reply
<1>5. CASE Tick
  BY <1>2, <1>5 DEF Tick, reply
<1>6. CASE UNCHANGED vars
  BY <1>2, <1>6 DEF vars
<1> QED BY <1>1, <1>3, <1>4, <1>5, <1>6 DEF Next, RequestStep

-----------------------------------------------------------------------------
(***************************************************************************)
(* The theorems.                                                           *)
(***************************************************************************)
\* Nothing has happened to any request at first.
LEMMA RequestsInit == Init => \A r \in Requests : RequestInv(r)
BY DEF Init, RequestInv, BackendKept, AskedForWeb, AskedForCodex, Arrived, ReplyAtPlace, StatAtReply,
       BookedTruly, AttemptPlaces, NoStat

\* The inductive invariant, put together from its layers.
THEOREM RouterInvariant == Spec => []IInv
<1>1. IInv <=> SlotInv /\ CooldownIsNewer /\ \A r \in Requests : RequestInv(r)
  BY DEF IInv, KeepsBackend, ReplyInv, RequestInv
<1>2. Init => IInv
  BY <1>1, SlotInit, RequestsInit, SettingsAssumption DEF Init, CooldownIsNewer
<1>3. IInv /\ [Next]_vars => IInv'
  <2> SUFFICES ASSUME IInv, [Next]_vars PROVE IInv'
    OBVIOUS
  <2>1. SlotInv' /\ CooldownIsNewer'
    BY <1>1, SlotNext, CooldownNext DEF SlotInv
  <2>2. \A r \in Requests : RequestInv(r)'
    BY <1>1, RequestsNext DEF SlotInv
  <2> QED BY <2>1, <2>2 DEF IInv, KeepsBackend, ReplyInv, RequestInv
<1> QED BY <1>2, <1>3, PTL DEF Spec

\* The variables keep their types; in particular active never falls below zero.
THEOREM RouterTypes == Spec => []TypeOK
<1>1. IInv => TypeOK
  BY DEF IInv, SlotInv
<1> QED BY <1>1, RouterInvariant, PTL

\* active counts the attempts under way (web-router.ts:175, 265).
THEOREM RouterSlots == Spec => []ActiveExact
<1>1. IInv => ActiveExact
  BY DEF IInv, SlotInv
<1> QED BY <1>1, RouterInvariant, PTL

\* A request that asked for one backend never reaches the other (157-169, 263).
THEOREM RouterKeepsBackend == Spec => []KeepsBackend
<1>1. IInv => KeepsBackend
  BY DEF IInv
<1> QED BY <1>1, RouterInvariant, PTL

\* The statistics book what the caller got (daily-stats.ts:91-136).
THEOREM RouterStats == Spec => []StatsTruthful
<1>1. IInv => StatsTruthful
  BY DEF IInv, ReplyInv, StatsTruthful
<1> QED BY <1>1, RouterInvariant, PTL

\* No attempt of before a cooldown's failure can clear it (176-177, 255-257).
THEOREM RouterCooldown == Spec => []CooldownIsNewer
<1>1. IInv => CooldownIsNewer
  BY DEF IInv
<1> QED BY <1>1, RouterInvariant, PTL

\* So only time and the operator end a cooldown.
THEOREM RouterCooldownKept == Spec => CooldownKept
<1>1. IInv /\ [Next]_vars => [cooldown' < cooldown => pc' = pc]_vars
  <2> SUFFICES ASSUME IInv, Next PROVE cooldown' < cooldown => pc' = pc
    BY DEF vars
  <2>0. cooldown \in Nat /\ (cooldown > 0 => Attempts \subseteq outdated)
    BY SettingsAssumption DEF IInv, SlotInv, TypeOK, CooldownIsNewer
  <2>1. ASSUME NEW r \in Requests, Route(r) PROVE cooldown' = cooldown
    BY <2>1 DEF Route, RefuseAtOnce, RouteToCodex, RouteAround, Admit, router
  <2>2. ASSUME NEW r \in Requests, AttemptStep(r) PROVE ~(cooldown' < cooldown)
    <3>1. CASE HealthOk(r) \/ OpenStream(r) \/ FirstOutput(r) \/ StreamCompleted(r)
      BY <2>0, <3>1 DEF HealthOk, OpenStream, FirstOutput, StreamCompleted, router
    <3>2. CASE CompleteJson(r) \/ CloseStream(r)
      <4>1. r \in Attempts
        BY <3>2 DEF CompleteJson, CloseStream, Attempts, AttemptPlaces
      <4>2. cooldown' = IF r \in outdated THEN cooldown ELSE 0
        BY <3>2 DEF CompleteJson, CloseStream, Succeeded
      <4> QED BY <2>0, <4>1, <4>2
    <3>3. CASE \E busy, retriable \in BOOLEAN : AttemptFails(r, busy, retriable)
      <4>1. cooldown \in 0 .. Cooldown /\ Cooldown \in Nat
        BY SettingsAssumption DEF IInv, SlotInv, TypeOK
      <4>2. cooldown' = cooldown \/ cooldown' = Cooldown
        BY <3>3 DEF AttemptFails
      <4> QED BY <4>1, <4>2
    <3> QED BY <2>2, <3>1, <3>2, <3>3 DEF AttemptStep
  <2>3. ASSUME NEW r \in Requests, CodexStep(r) \/ Finish(r) \/ ClientGone(r) PROVE cooldown' = cooldown
    BY <2>3 DEF CodexStep, CodexOutput, CodexCompletes, CodexFails, Finish, ClientGone, router
  <2>4. ASSUME NEW m \in SetModes, PutMode(m) PROVE pc' = pc
    BY <2>4 DEF PutMode
  <2>5. ASSUME NEW n \in Limits, PutLimit(n) PROVE pc' = pc
    BY <2>5 DEF PutLimit
  <2>6. Tick => pc' = pc
    BY DEF Tick
  <2> QED BY <2>0, <2>1, <2>2, <2>3, <2>4, <2>5, <2>6 DEF Next
<1> QED BY <1>1, RouterInvariant, PTL DEF Spec, CooldownKept

\* A caller that has gone puts the web into no cooldown (254-257).
THEOREM RouterCancelIsQuiet == Spec => CancelIsQuiet
<1> DEFINE Failing == \E r \in Requests : r \in Attempts /\ pc'[r] \notin AttemptPlaces /\ ~gone[r]
<1>1. IInv /\ [Next]_vars => [cooldown' > cooldown => Failing]_vars
  <2> SUFFICES ASSUME IInv, Next, cooldown' > cooldown PROVE Failing
    BY DEF vars
  <2>0. TypeOK /\ cooldown \in Nat
    BY SettingsAssumption DEF IInv, SlotInv, TypeOK
  <2>1. PICK r \in Requests : \E busy, retriable \in BOOLEAN : AttemptFails(r, busy, retriable)
    <3>1. ASSUME NEW r \in Requests, Route(r) PROVE cooldown' = cooldown
      BY <3>1 DEF Route, RefuseAtOnce, RouteToCodex, RouteAround, Admit, router
    <3>2. ASSUME NEW r \in Requests,
                 HealthOk(r) \/ OpenStream(r) \/ FirstOutput(r) \/ StreamCompleted(r)
          PROVE  cooldown' = cooldown
      BY <3>2 DEF HealthOk, OpenStream, FirstOutput, StreamCompleted, router
    <3>3. ASSUME NEW r \in Requests, CompleteJson(r) \/ CloseStream(r)
          PROVE  cooldown' = cooldown \/ cooldown' = 0
      BY <3>3 DEF CompleteJson, CloseStream, Succeeded
    <3>4. ASSUME NEW r \in Requests, CodexStep(r) \/ Finish(r) \/ ClientGone(r)
          PROVE  cooldown' = cooldown
      BY <3>4 DEF CodexStep, CodexOutput, CodexCompletes, CodexFails, Finish, ClientGone, router
    <3>5. ASSUME NEW m \in SetModes, PutMode(m) PROVE cooldown' = 0
      BY <3>5 DEF PutMode
    <3>6. ASSUME NEW n \in Limits, PutLimit(n) PROVE cooldown' = cooldown
      BY <3>6 DEF PutLimit
    <3>7. Tick => cooldown' = cooldown - 1
      BY DEF Tick
    <3> QED BY <2>0, <3>1, <3>2, <3>3, <3>4, <3>5, <3>6, <3>7 DEF Next, AttemptStep
  <2>2. ~gone[r] /\ r \in Attempts
    BY <2>0, <2>1 DEF AttemptFails, CatchPlaces, Attempts
  <2>3. pc'[r] \notin AttemptPlaces
    BY <2>0, <2>1 DEF AttemptFails, AnswerFailure, ToCodex, AttemptPlaces, TypeOK
  <2> QED BY <2>2, <2>3
<1> QED BY <1>1, RouterInvariant, PTL DEF Spec, CancelIsQuiet

-----------------------------------------------------------------------------
(***************************************************************************)
(* The refinement.                                                         *)
(***************************************************************************)
\* What Send does is a step of AnswerOnce, or changes nothing, when the answer so
\* far allows it.
LEMMA SendStep ==
  ASSUME NEW r \in Requests, NEW b, NEW g, Send(r, b, g),
         ~gone[r] => \/ got[r] = "nothing" /\ b \in {"web", "codex"} /\ g \in {"part", "whole"}
                     \/ got[r] = "part" /\ b = by[r] /\ g \in {"whole", "broken"}
                     \/ got[r] = "nothing" /\ b = "none" /\ g = "refused"
  PROVE  Promise!Next \/ UNCHANGED reply
<1>1. CASE gone[r]
  BY <1>1 DEF Send
<1>2. CASE ~gone[r]
  <2>1. Promise!Answer(r, b, g)
    BY <1>2 DEF Send, Promise!Answer
  <2>2. Promise!Begin(r) \/ Promise!Complete(r) \/ Promise!Break(r) \/ Promise!Refuse(r)
    BY <1>2, <2>1 DEF Promise!Begin, Promise!Complete, Promise!Break, Promise!Refuse
  <2> QED BY <2>2 DEF Promise!Next
<1> QED BY <1>1, <1>2

\* Every step of the router is a step of AnswerOnce or changes no reply.
LEMMA StepAnswersOnce ==
  ASSUME IInv, [Next]_vars
  PROVE  Promise!Next \/ UNCHANGED reply
<1>0. /\ TypeOK
      /\ \A r \in Requests : ReplyAtPlace(r) /\ StatAtReply(r)
  BY DEF IInv, SlotInv, ReplyInv
<1>1. ASSUME NEW r \in Requests, NEW k \in Kinds,
             RefuseAtOnce(r, k) \/ RouteToCodex(r, k) \/ RouteAround(r, k) \/ Admit(r, k)
      PROVE  Promise!Next \/ UNCHANGED reply
  <2>1. ~gone[r] => got[r] = "nothing"
    BY <1>0, <1>1 DEF ReplyAtPlace, RefuseAtOnce, RouteToCodex, RouteAround, Admit, Arrive
  <2>2. Send(r, "none", "refused") \/ UNCHANGED reply
    BY <1>1 DEF RefuseAtOnce, RouteToCodex, RouteAround, Admit, ToCodex, Refuse
  <2> QED BY <2>1, <2>2, SendStep
<1>2. ASSUME NEW r \in Requests, AttemptStep(r) PROVE Promise!Next \/ UNCHANGED reply
  <2>1. CASE HealthOk(r) \/ OpenStream(r) \/ CloseStream(r)
    BY <2>1 DEF HealthOk, OpenStream, CloseStream
  <2>2. CASE CompleteJson(r)
    <3>1. ~gone[r] => got[r] = "nothing"
      BY <1>0, <2>2 DEF CompleteJson, ReplyAtPlace
    <3> QED BY <2>2, <3>1, SendStep DEF CompleteJson
  <2>3. CASE FirstOutput(r)
    <3>1. ~gone[r] => got[r] = "nothing"
      BY <1>0, <2>3 DEF FirstOutput, ReplyAtPlace
    <3> QED BY <2>3, <3>1, SendStep DEF FirstOutput
  <2>4. CASE StreamCompleted(r)
    <3>1. ~gone[r] => got[r] = "nothing" \/ (got[r] = "part" /\ by[r] = "web")
      BY <1>0, <2>4 DEF StreamCompleted, ReplyAtPlace
    <3> QED BY <2>4, <3>1, SendStep DEF StreamCompleted
  <2>5. ASSUME NEW busy \in BOOLEAN, NEW retriable \in BOOLEAN, AttemptFails(r, busy, retriable)
        PROVE  Promise!Next \/ UNCHANGED reply
    <3>1. CASE gone[r]
      BY <2>5, <3>1 DEF AttemptFails
    <3>2. CASE ~gone[r] /\ pc[r] = "output"
      <4>1. Send(r, "web", "broken")
        BY <2>5, <3>2 DEF AttemptFails, AnswerFailure
      <4>2. got[r] = "part" /\ by[r] = "web"
        BY <1>0, <3>2 DEF ReplyAtPlace
      <4> QED BY <4>1, <4>2, SendStep
    <3>3. CASE ~gone[r] /\ pc[r] # "output"
      <4>1. Send(r, "none", "refused") \/ UNCHANGED reply
        BY <2>5, <3>3 DEF AttemptFails, AnswerFailure, ToCodex, Refuse
      <4>2. got[r] = "nothing"
        BY <1>0, <2>5, <3>3 DEF AttemptFails, CatchPlaces, AttemptPlaces, ReplyAtPlace
      <4> QED BY <4>1, <4>2, SendStep
    <3> QED BY <3>1, <3>2, <3>3
  <2> QED BY <1>2, <2>1, <2>2, <2>3, <2>4, <2>5 DEF AttemptStep
<1>3. ASSUME NEW r \in Requests, CodexStep(r) PROVE Promise!Next \/ UNCHANGED reply
  <2>1. /\ pc[r] = "codex" /\ ~gone[r] => got[r] = "nothing"
        /\ pc[r] = "sending" /\ ~gone[r] => got[r] = "part" /\ by[r] = "codex"
    BY <1>0 DEF ReplyAtPlace
  <2>2. CASE CodexOutput(r)
    BY <2>1, <2>2, SendStep DEF CodexOutput
  <2>3. CASE CodexCompletes(r)
    BY <2>1, <2>3, SendStep DEF CodexCompletes
  <2>4. CASE CodexFails(r)
    BY <2>1, <2>4, SendStep DEF CodexFails, Refuse
  <2> QED BY <1>3, <2>2, <2>3, <2>4 DEF CodexStep
<1>4. ASSUME NEW r \in Requests, Finish(r) \/ ClientGone(r) PROVE UNCHANGED reply
  BY <1>4 DEF Finish, ClientGone
<1>5. ASSUME NEW m \in SetModes, PutMode(m) PROVE UNCHANGED reply
  BY <1>5 DEF PutMode
<1>6. ASSUME NEW n \in Limits, PutLimit(n) PROVE UNCHANGED reply
  BY <1>6 DEF PutLimit
<1>7. Tick \/ UNCHANGED vars => UNCHANGED reply
  BY DEF Tick, vars, reply
<1> QED BY <1>1, <1>2, <1>3, <1>4, <1>5, <1>6, <1>7 DEF Next, Route

\* Together: the cooldown says what the latest failure of a waiting caller left
\* (170-171, 176-177, 254-257).
THEOREM RouterCooldownSound == Spec => CooldownSound
  BY RouterCooldownKept, RouterCancelIsQuiet DEF CooldownSound


\* The router implements AnswerOnce: no caller is answered twice, and no answer
\* changes its backend once output was sent (web-router.ts:258-264).
THEOREM RouterAnswersOnce == Spec => AnsweredOnce
<1>1. Init => Promise!Init
  BY DEF Init, Promise!Init
<1>2. IInv /\ [Next]_vars => [Promise!Next]_<<by, got>>
  BY StepAnswersOnce DEF reply
<1> QED BY <1>1, <1>2, RouterInvariant, PTL DEF Spec, AnsweredOnce, Promise!Spec

=============================================================================
