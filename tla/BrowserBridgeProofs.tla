------------------------ MODULE BrowserBridgeProofs -------------------------
(***************************************************************************)
(* Proofs about BrowserBridge and the ManualLogin it drives, for any       *)
(* requests, calls and number of attempts: the types, and who owns the     *)
(* window and the verification, whatever calls of the routes overlap.      *)
(***************************************************************************)
EXTENDS BrowserBridge, TLAPS

\* An attempt has its window, then is told to close it by finish(), then verifies.
Windowed(a) == browser[a] \in {"spawning", "open"}
Pending(a) == a \in (finishing \cup verifying) \ aborted

\* The current child has its window, and is the attempt that a stop would abort.
ChildOwned ==
  /\ child # None => Windowed(child) /\ controller = child /\ child \notin aborted
  /\ \A a \in aborted \cup {controller} : a = None \/ browser[a] # "none"

\* Who owns the login, while every window that was told to close did: the current child
\* alone has a window, and what is pending is the current attempt's.
Owned ==
  /\ \A a \in Ids : Windowed(a) => child = a
  /\ child # None => active
  /\ \A a \in Ids : Pending(a) => controller = a /\ state = "verifying"
  /\ \A a \in finishing : browser[a] = "stopping"
  /\ \A a \in verifying : browser[a] = "exited"

LInv ==
  /\ LoginTypeOK
  /\ ChildOwned
  /\ NothingStuck => Owned

-----------------------------------------------------------------------------
LEMMA NoneOutside == None \notin Ids
BY DEF None, Ids

LEMMA LoginInitInv == LoginInit => LInv
BY NoneOutside DEF LoginInit, LInv, LoginTypeOK, ChildOwned, Owned, Windowed, Pending

\* No window stays stuck unless it was, so that a step need only be looked at from a
\* state in which none is.
LEMMA StuckStays ==
  ASSUME LoginTypeOK, NEW a \in Ids, NEW b, b \in {"spawning", "open", "stopping", "exited"},
         browser[a] # "stuck", browser' = [browser EXCEPT ![a] = b]
  PROVE  NothingStuck' => NothingStuck
BY DEF LoginTypeOK, NothingStuck

LEMMA StepStart == ASSUME LInv, NEW a \in Ids, Start(a) PROVE LInv'
<1>1. LoginTypeOK'
  BY DEF LInv, LoginTypeOK, Start, ActiveStates
<1>2. ChildOwned'
  BY NoneOutside DEF LInv, LoginTypeOK, ChildOwned, Windowed, Start, NextAttempt
<1>3. NothingStuck' => NothingStuck
  BY StuckStays DEF LInv, Start, NextAttempt
<1>4. ASSUME NothingStuck PROVE Owned'
  <2>1. Owned /\ child = None /\ browser[a] = "none"
    BY <1>4 DEF LInv, Owned, Start, NextAttempt
  <2>2. \A b \in Ids : ~Windowed(b) /\ ~Pending(b)
    BY <2>1, NoneOutside DEF Owned, Start, active, ActiveStates
  <2> QED
    BY <2>1, <2>2, NoneOutside
       DEF LInv, LoginTypeOK, ChildOwned, Owned, Start, Windowed, Pending, active, ActiveStates
<1> QED BY <1>1, <1>2, <1>3, <1>4 DEF LInv

\* The attempt whose window runs is the only one with anything to do.
LEMMA WindowedAlone ==
  ASSUME LInv, NothingStuck, NEW a \in Ids, Windowed(a)
  PROVE  /\ child = a /\ controller = a /\ a \notin aborted /\ active
         /\ a \notin finishing /\ a \notin verifying
         /\ \A b \in Ids : ~Pending(b)
         /\ \A b \in Ids : Windowed(b) => b = a
BY NoneOutside DEF LInv, LoginTypeOK, ChildOwned, Owned, Windowed, Pending

LEMMA StepResumes == ASSUME LInv, NEW a \in Ids, Resumes(a) PROVE LInv'
<1>1. LoginTypeOK'
  BY DEF LInv, LoginTypeOK, Resumes, Spawned, SpawnFails, ActiveStates
<1>2. ChildOwned'
  BY NoneOutside DEF LInv, LoginTypeOK, ChildOwned, Windowed, Resumes, Spawned, SpawnFails
<1>3. NothingStuck' => NothingStuck
  BY StuckStays DEF LInv, Resumes, Spawned, SpawnFails
<1>4. ASSUME NothingStuck PROVE Owned'
  <2>1. Windowed(a)
    BY DEF Resumes, Spawned, SpawnFails, Windowed
  <2>2. CASE Spawned(a)
    BY <1>4, <2>1, <2>2, WindowedAlone, NoneOutside
       DEF LInv, LoginTypeOK, ChildOwned, Owned, Spawned, Windowed, Pending, active, ActiveStates
  <2>3. CASE SpawnFails(a)
    BY <1>4, <2>1, <2>3, WindowedAlone, NoneOutside
       DEF LInv, LoginTypeOK, ChildOwned, Owned, SpawnFails, Windowed, Pending, active, ActiveStates
  <2> QED BY <2>2, <2>3 DEF Resumes
<1> QED BY <1>1, <1>2, <1>3, <1>4 DEF LInv

LEMMA StepCloses == ASSUME LInv, NEW a \in Ids, NEW clean \in BOOLEAN, WindowCloses(a, clean) PROVE LInv'
<1>1. LoginTypeOK'
  BY DEF LInv, LoginTypeOK, WindowCloses, Verify, ActiveStates
<1>2. ChildOwned'
  BY NoneOutside DEF LInv, LoginTypeOK, ChildOwned, Windowed, WindowCloses, Verify
<1>3. NothingStuck' => NothingStuck
  BY StuckStays DEF LInv, WindowCloses
<1>4. ASSUME NothingStuck PROVE Owned'
  <2>1. Windowed(a)
    BY DEF WindowCloses, Windowed
  <2> QED
    BY <1>4, <2>1, WindowedAlone, NoneOutside
       DEF LInv, LoginTypeOK, ChildOwned, Owned, WindowCloses, Verify, Windowed, Pending
<1> QED BY <1>1, <1>2, <1>3, <1>4 DEF LInv

LEMMA StepFinish == ASSUME LInv, Finish PROVE LInv'
<1>1. child \in Ids /\ LoginTypeOK'
  BY DEF LInv, LoginTypeOK, Finish, ActiveStates
<1>2. ChildOwned'
  BY NoneOutside DEF LInv, LoginTypeOK, ChildOwned, Windowed, Finish
<1>3. NothingStuck' => NothingStuck
  <2>1. SUFFICES ASSUME NothingStuck', ~NothingStuck PROVE FALSE
    OBVIOUS
  <2>2. browser[child] = "stuck"
    BY <1>1, <2>1 DEF LInv, LoginTypeOK, NothingStuck, Finish
  <2> QED
    BY <1>1, <2>2, NoneOutside DEF LInv, ChildOwned, Windowed
<1>4. ASSUME NothingStuck PROVE Owned'
  <2>1. Windowed(child)
    BY <1>1, NoneOutside DEF LInv, ChildOwned
  <2> QED
    BY <1>1, <1>4, <2>1, WindowedAlone, NoneOutside
       DEF LInv, LoginTypeOK, ChildOwned, Owned, Finish, Windowed, Pending
<1> QED BY <1>1, <1>2, <1>3, <1>4 DEF LInv

LEMMA StepStops == ASSUME LInv, NEW a \in Ids, Stops(a) PROVE LInv'
<1>1. LoginTypeOK'
  BY DEF LInv, LoginTypeOK, Stops, WindowStopped, WindowStuck, Verify, ActiveStates
<1>2. ChildOwned'
  BY NoneOutside DEF LInv, LoginTypeOK, ChildOwned, Windowed, Stops, WindowStopped, WindowStuck, Verify
<1>3. CASE WindowStuck(a)
  <2>1. ~NothingStuck'
    BY <1>3 DEF LInv, LoginTypeOK, WindowStuck, NothingStuck
  <2> QED BY <1>1, <1>2, <2>1 DEF LInv
<1>4. CASE WindowStopped(a)
  <2>1. NothingStuck' => NothingStuck
    BY <1>4, StuckStays DEF LInv, WindowStopped
  <2>2. ASSUME NothingStuck PROVE Owned'
    BY <1>4, <2>2, NoneOutside
       DEF LInv, LoginTypeOK, ChildOwned, Owned, WindowStopped, Verify, Windowed, Pending, active, ActiveStates
  <2> QED BY <1>1, <1>2, <2>1, <2>2 DEF LInv
<1> QED BY <1>3, <1>4 DEF Stops

LEMMA StepVerifyEnds == ASSUME LInv, NEW a \in Ids, NEW ok \in BOOLEAN, VerifyEnds(a, ok) PROVE LInv'
<1>1. LoginTypeOK'
  BY DEF LInv, LoginTypeOK, VerifyEnds, ActiveStates
<1>2. ChildOwned'
  BY NoneOutside DEF LInv, LoginTypeOK, ChildOwned, Windowed, VerifyEnds
<1>3. NothingStuck' <=> NothingStuck
  BY DEF VerifyEnds, NothingStuck
<1>4. ASSUME NothingStuck PROVE Owned'
  <2>1. a \notin aborted => controller = a /\ child = None
    BY <1>4, NoneOutside DEF LInv, LoginTypeOK, ChildOwned, Owned, VerifyEnds, Windowed, Pending
  <2> QED
    BY <1>4, <2>1, NoneOutside
       DEF LInv, LoginTypeOK, ChildOwned, Owned, VerifyEnds, Windowed, Pending, active, ActiveStates
<1> QED BY <1>1, <1>2, <1>3, <1>4 DEF LInv

LEMMA StepStop == ASSUME LInv, Stop PROVE LInv'
<1>1. LoginTypeOK'
  BY DEF LInv, LoginTypeOK, Stop, ActiveStates
<1>2. ChildOwned'
  BY NoneOutside DEF LInv, LoginTypeOK, ChildOwned, Windowed, Stop
<1>3. NothingStuck' => NothingStuck
  BY DEF LInv, LoginTypeOK, Stop, NothingStuck
<1>4. ASSUME NothingStuck PROVE Owned'
  BY <1>4, NoneOutside
     DEF LInv, LoginTypeOK, ChildOwned, Owned, Stop, Windowed, Pending, active, ActiveStates
<1> QED BY <1>1, <1>2, <1>3, <1>4 DEF LInv

LEMMA StepLoginStutter == ASSUME LInv, UNCHANGED login PROVE LInv'
BY DEF LInv, LoginTypeOK, ChildOwned, NothingStuck, Owned, Windowed, Pending, active, login

\* Every step of the bridge leaves the login alone, starts it or goes on with it.
LEMMA BridgeLoginStep ==
  Next => UNCHANGED login \/ (\E a \in Ids : Start(a)) \/ LoginGoesOn
BY DEF Next, Infer, StartLogin, Refuse, Check, Accept, RejectBody, TurnEnds, Cleaned,
   RefuseStart, CloseWorkers, AlreadyActive, OpenWindow, CloseFails, LoginStarts

LEMMA LNext == LInv /\ [Next]_vars => LInv'
<1> SUFFICES ASSUME LInv, [Next]_vars PROVE LInv'
  OBVIOUS
<1>1. CASE UNCHANGED login
  BY <1>1, StepLoginStutter
<1>2. CASE \E a \in Ids : Start(a)
  BY <1>2, StepStart
<1>3. CASE LoginGoesOn
  BY <1>3, StepResumes, StepStops, StepCloses, StepVerifyEnds, StepFinish, StepStop DEF LoginGoesOn, Expire
<1> QED BY <1>1, <1>2, <1>3, BridgeLoginStep DEF vars

-----------------------------------------------------------------------------
(***************************************************************************)
(* The theorems.                                                           *)
(***************************************************************************)
\* The inductive invariant of the login holds under any calls of the bridge's routes.
THEOREM LoginInvariant == Spec => []LInv
<1>1. Init => LInv
  BY LoginInitInv DEF Init
<1> QED BY <1>1, LNext, PTL DEF Spec

\* The variables of the bridge and of the login keep their types.
THEOREM BrowserTypes == Spec => []TypeOK
<1> DEFINE BridgeTypeOK ==
      /\ busy \in BOOLEAN
      /\ pc \in [Requests -> {"new", "reading", "turn", "cleaning", "ended"}]
      /\ call \in [Calls -> {"new", "closing", "ended"}]
<1>1. Init => BridgeTypeOK
  BY DEF Init
<1>2. BridgeTypeOK /\ [Next]_vars => BridgeTypeOK'
  <2> SUFFICES ASSUME BridgeTypeOK, [Next]_vars PROVE BridgeTypeOK'
    OBVIOUS
  <2>1. ASSUME NEW r \in Requests, Infer(r) PROVE BridgeTypeOK'
    BY <2>1 DEF Infer, Refuse, Check, Accept, RejectBody, TurnEnds, Cleaned
  <2>2. ASSUME NEW c \in Calls, StartLogin(c) PROVE BridgeTypeOK'
    BY <2>2 DEF StartLogin, RefuseStart, CloseWorkers, AlreadyActive, OpenWindow, CloseFails
  <2>3. CASE UNCHANGED bridge
    BY <2>3 DEF bridge
  <2> QED BY <2>1, <2>2, <2>3 DEF Next, vars
<1>3. LInv /\ BridgeTypeOK => TypeOK
  BY DEF LInv, TypeOK
<1> QED BY <1>1, <1>2, <1>3, LoginInvariant, PTL DEF Spec

\* No window is left open behind a login that is over: one that was not told to close is
\* the current one, and the login is active (manual-login.ts, start and stop).
THEOREM LoginWindowOwned == Spec => []WindowOwned
<1>1. LInv => WindowOwned
  BY NoneOutside DEF LInv, WindowOwned, Owned, Windowed
<1> QED BY <1>1, LoginInvariant, PTL

\* A login is published by the verification of the latest attempt only, and only if it was
\* not cancelled (manual-login.ts, verify).
THEOREM LoginReadyIsCurrent == Spec => ReadyIsCurrent
<1> DEFINE Publishes == state' = "ready" /\ state # "ready"
           ByCurrent == \E a \in verifying : controller = a /\ a \notin aborted
<1>1. LInv /\ [Next]_vars => [NothingStuck /\ Publishes => ByCurrent]_login
  <2> SUFFICES ASSUME LInv, Next, NothingStuck, Publishes PROVE ByCurrent
    BY DEF vars
  <2>1. ASSUME NEW a \in Ids, NEW ok \in BOOLEAN, VerifyEnds(a, ok) PROVE ByCurrent
    BY <2>1, NoneOutside DEF LInv, Owned, Pending, VerifyEnds
  <2>2. ASSUME NEW a \in Ids, Start(a) \/ Resumes(a) \/ Stops(a) PROVE FALSE
    BY <2>2 DEF Start, Resumes, Spawned, SpawnFails, Stops, WindowStopped, WindowStuck, Verify
  <2>3. ASSUME NEW a \in Ids, NEW ok \in BOOLEAN, WindowCloses(a, ok) PROVE FALSE
    BY <2>3 DEF WindowCloses, Verify
  <2>4. CASE Finish \/ Stop \/ Expire \/ UNCHANGED login
    BY <2>4 DEF Finish, Stop, Expire, login
  <2> QED BY <2>1, <2>2, <2>3, <2>4, BridgeLoginStep DEF LoginGoesOn
<1> QED BY <1>1, LoginInvariant, PTL DEF Spec, ReadyIsCurrent

=============================================================================
