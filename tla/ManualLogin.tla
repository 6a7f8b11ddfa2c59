---------------------------- MODULE ManualLogin -----------------------------
(***************************************************************************)
(* Signing in by hand (web/manual-login.ts): an ordinary Chrome opened on  *)
(* the dedicated profile, whose closing, or a call of finish, begins the   *)
(* verification that publishes the login.                                  *)
(*                                                                         *)
(* An attempt is one call of start that did not return at once.  The model *)
(* has Attempts of them, numbered as they are made.  A verification is the *)
(* caller's function (bridge.ts, captureManualLogin): it opens Chrome on   *)
(* the same profile and ends, with or without success, some time after its *)
(* signal has been aborted too.                                            *)
(***************************************************************************)
EXTENDS Naturals

CONSTANT Attempts    \* the most times the window is opened
ASSUME AttemptsAssumption == Attempts \in Nat \ {0}

None == 0
Ids == 1 .. Attempts

VARIABLES
  state,       \* this.state; "expired" counts as "idle"
  child,       \* the attempt of this.child, or None
  controller,  \* the attempt of this.controller, or None
  timer,       \* this.timer is set
  aborted,     \* the attempts whose controller was aborted
  browser,     \* per attempt, its login window
  finishing,   \* the attempts that finish() is stopping the window of
  verifying    \* the attempts whose verification runs

login == <<state, child, controller, timer, aborted, browser, finishing, verifying>>

ActiveStates == {"starting", "waiting_for_login", "verifying"}
active == state \in ActiveStates

LoginTypeOK ==
  /\ state \in ActiveStates \cup {"idle", "ready", "failed"}
  /\ child \in Ids \cup {None}
  /\ controller \in Ids \cup {None}
  /\ timer \in BOOLEAN
  /\ aborted \subseteq Ids
  /\ browser \in [Ids -> {"none", "spawning", "open", "stopping", "stuck", "exited"}]
  /\ finishing \subseteq Ids
  /\ verifying \subseteq Ids

LoginInit ==
  /\ state = "idle"
  /\ child = None
  /\ controller = None
  /\ timer = FALSE
  /\ aborted = {}
  /\ browser = [a \in Ids |-> "none"]
  /\ finishing = {}
  /\ verifying = {}

-----------------------------------------------------------------------------
\* start(), when it is not active: the window is being spawned.
NextAttempt(a) == browser[a] = "none" /\ \A b \in Ids : b < a => browser[b] # "none"

Start(a) ==
  /\ ~active
  /\ NextAttempt(a)
  /\ state' = "starting"
  /\ child' = a
  /\ controller' = a
  /\ browser' = [browser EXCEPT ![a] = "spawning"]
  /\ UNCHANGED <<timer, aborted, finishing, verifying>>

\* The process runs; start() resumes, and does nothing after a stop.
Spawned(a) ==
  /\ browser[a] = "spawning"
  /\ browser' = [browser EXCEPT ![a] = "open"]
  /\ IF a \in aborted \/ child # a
     THEN UNCHANGED <<state, timer>>
     ELSE state' = "waiting_for_login" /\ timer' = TRUE
  /\ UNCHANGED <<child, controller, aborted, finishing, verifying>>

SpawnFails(a) ==
  /\ browser[a] = "spawning"
  /\ browser' = [browser EXCEPT ![a] = "exited"]
  /\ IF a \in aborted
     THEN UNCHANGED <<state, child>>
     ELSE state' = "failed" /\ child' = None
  /\ UNCHANGED <<controller, timer, aborted, finishing, verifying>>

\* Fault: nothing bounds a verification.
Verify_Untimed(a) ==
  /\ state' = "verifying"
  /\ timer' = FALSE
  /\ verifying' = verifying \cup {a}

\* verify(): its timer replaces that of the window.
Verify(a) ==
  /\ state' = "verifying"
  /\ timer' = TRUE
  /\ verifying' = verifying \cup {a}

\* The user closes the window: a clean exit begins the verification.
WindowCloses(a, clean) ==
  /\ browser[a] = "open" /\ child = a
  /\ browser' = [browser EXCEPT ![a] = "exited"]
  /\ child' = None
  /\ IF clean
     THEN Verify(a)
     ELSE state' = "failed" /\ timer' = FALSE /\ UNCHANGED verifying
  /\ UNCHANGED <<controller, aborted, finishing>>

-----------------------------------------------------------------------------
\* Fault: finish() does not ask whether the window is open.
Finish_Anytime ==
  /\ state' = "verifying"
  /\ timer' = FALSE
  /\ browser' = [a \in Ids |-> IF a = child THEN "stopping" ELSE browser[a]]
  /\ finishing' = finishing \cup {child}
  /\ child' = None
  /\ UNCHANGED <<controller, aborted, verifying>>

\* finish(): the window is told to close.  While a verification runs it only waits.
Finish ==
  /\ state = "waiting_for_login" /\ child # None
  /\ state' = "verifying"
  /\ timer' = FALSE
  /\ browser' = [browser EXCEPT ![child] = "stopping"]
  /\ finishing' = finishing \cup {child}
  /\ child' = None
  /\ UNCHANGED <<controller, aborted, verifying>>

\* A window that was told to close has exited; finish() resumes.
WindowStopped(a) ==
  /\ browser[a] = "stopping"
  /\ browser' = [browser EXCEPT ![a] = "exited"]
  /\ finishing' = finishing \ {a}
  /\ IF a \in finishing \ aborted
     THEN Verify(a)
     ELSE UNCHANGED <<state, timer, verifying>>
  /\ UNCHANGED <<child, controller, aborted>>

\* It has not exited 10 seconds later, in spite of a SIGKILL.
WindowStuck(a) ==
  /\ browser[a] = "stopping"
  /\ browser' = [browser EXCEPT ![a] = "stuck"]
  /\ finishing' = finishing \ {a}
  /\ IF a \in finishing THEN state' = "failed" ELSE UNCHANGED state
  /\ UNCHANGED <<child, controller, timer, aborted, verifying>>

\* Fault: a verification does not ask whether it was cancelled.
VerifyEnds_Cancelled(a, ok) ==
  /\ a \in verifying
  /\ verifying' = verifying \ {a}
  /\ state' = IF ok THEN "ready" ELSE "failed"
  /\ timer' = IF controller = a THEN FALSE ELSE timer
  /\ UNCHANGED <<child, controller, aborted, browser, finishing>>

VerifyEnds(a, ok) ==
  /\ a \in verifying
  /\ verifying' = verifying \ {a}
  /\ IF a \in aborted THEN UNCHANGED state ELSE state' = IF ok THEN "ready" ELSE "failed"
  /\ timer' = IF controller = a THEN FALSE ELSE timer
  /\ UNCHANGED <<child, controller, aborted, browser, finishing>>

\* Fault: the window of an attempt that is being spawned is left to itself.
Stop_SparesSpawning ==
  /\ aborted' = aborted \cup (IF controller = None THEN {} ELSE {controller})
  /\ timer' = FALSE
  /\ state' = "idle"
  /\ browser' = [a \in Ids |-> IF a = child /\ browser[a] = "open" THEN "stopping" ELSE browser[a]]
  /\ child' = None
  /\ UNCHANGED <<controller, finishing, verifying>>

\* stop(), by the operator or by the timer: the state is set at once.
Stop ==
  /\ aborted' = aborted \cup (IF controller = None THEN {} ELSE {controller})
  /\ timer' = FALSE
  /\ state' = "idle"
  /\ browser' = [a \in Ids |-> IF a = child /\ browser[a] \in {"spawning", "open"}
                               THEN "stopping" ELSE browser[a]]
  /\ child' = None
  /\ UNCHANGED <<controller, finishing, verifying>>

Expire == timer /\ Stop

-----------------------------------------------------------------------------
Resumes(a) == Spawned(a) \/ SpawnFails(a)
Stops(a) == WindowStopped(a) \/ WindowStuck(a)

\* Every step of the login but its start, which its caller makes.
LoginGoesOn ==
  \/ \E a \in Ids :
       Resumes(a) \/ Stops(a) \/ \E ok \in BOOLEAN : WindowCloses(a, ok) \/ VerifyEnds(a, ok)
  \/ Finish
  \/ Stop
  \/ Expire

\* A spawn succeeds or fails, a window that was told to close exits or is given up,
\* and a timer fires.  Nothing makes the user close the window, and nothing but the
\* timer bounds a verification.
LoginFairness ==
  /\ WF_login(Expire)
  /\ \A a \in Ids : WF_login(Resumes(a)) /\ WF_login(Stops(a))

-----------------------------------------------------------------------------
(***************************************************************************)
(* Properties.                                                             *)
(***************************************************************************)
NothingStuck == \A a \in Ids : browser[a] # "stuck"

\* The properties below are of runs in which every window that was told to close
\* did.  Otherwise finish() fails an attempt it may no longer be about (line 76).

\* Only the verification of the latest attempt, and only if nothing has cancelled it,
\* publishes a login: a stop, an expiry or a new start silences the older ones.
ReadyIsCurrent ==
  [][NothingStuck /\ state' = "ready" /\ state # "ready" =>
       \E a \in verifying : controller = a /\ a \notin aborted]_login

\* A window that was not told to close is the current one: none is left open behind
\* a login that is over.
WindowOwned ==
  NothingStuck => \A a \in Ids : browser[a] \in {"spawning", "open"} => child = a /\ active

\* No login stays active for ever, so the web is not refused for ever.
LoginEnds == []NothingStuck => (active ~> ~active)

=============================================================================
