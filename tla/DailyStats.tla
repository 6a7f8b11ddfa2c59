----------------------------- MODULE DailyStats -----------------------------
(***************************************************************************)
(* The daily statistics (server/daily-stats.ts): counters in memory, and   *)
(* the file they are saved to after every record.                          *)
(*                                                                         *)
(* One day is modelled: record() chooses the day by the time of arrival,   *)
(* and each day has its own counters.  A save blocks the event loop, so    *)
(* that only a crash of the gateway comes between its steps.               *)
(***************************************************************************)
EXTENDS Naturals

CONSTANTS
  MaxCrashes   \* bound: how often the gateway crashes and is started again

ASSUME CrashesAssumption == MaxCrashes \in Nat

VARIABLES
  data,        \* the counters in memory
  active,      \* the requests under way
  file,        \* the file: none is configured, it is missing, unreadable, or holds counters
  save,        \* the steps of a save: none under way, to be written, temporary file complete
  trouble,     \* persistenceError
  crashes

stats == <<data, active, file, save, trouble, crashes>>

Backends == {"web", "codex", "unrouted"}
Outcomes == {"succeeded", "failed", "cancelled"}
Usages == {"reported", "estimated", "unknown"}
Counters == {"requests", "fallbacks", "web_attempts"} \cup Outcomes \cup Usages

Entries ==
  [backend : Backends, fallback : BOOLEAN, webAttempt : BOOLEAN, outcome : Outcomes, usage : Usages]

Buckets == [Counters -> Nat]
Days == [totals : Buckets, backends : [Backends -> Buckets]]

Zero == [k \in Counters |-> 0]
EmptyDay == [totals |-> Zero, backends |-> [b \in Backends |-> Zero]]

\* increment: one request, in what it counts as.
Counted(e) ==
  {"requests", e.outcome, e.usage}
    \cup (IF e.fallback THEN {"fallbacks"} ELSE {})
    \cup (IF e.webAttempt THEN {"web_attempts"} ELSE {})
Increment(bucket, e) ==
  [k \in Counters |-> IF k \in Counted(e) THEN bucket[k] + 1 ELSE bucket[k]]

Recorded(day, e) ==
  [totals |-> Increment(day.totals, e),
   backends |-> [day.backends EXCEPT ![e.backend] = Increment(@, e)]]

\* What a configured path leads to; the day is that of a file that holds one.
Files == [is : {"unset", "missing", "unreadable", "saved"}, day : Days]

StatsTypeOK ==
  /\ data \in Days
  /\ active \in Nat
  /\ file \in Files
  /\ save \in {"none", "begun", "temporary"}
  /\ trouble \in {"none", "load", "write"}
  /\ crashes \in 0 .. MaxCrashes

-----------------------------------------------------------------------------
(***************************************************************************)
(* Saving.                                                                 *)
(***************************************************************************)
Saving == save # "none"

\* persist, which leaves alone a file that could not be read.
Persist == IF file.is = "unset" \/ trouble = "load" THEN "none" ELSE "begun"

\* record, up to its call of persist.
Record(e) ==
  /\ active' = active - 1
  /\ data' = Recorded(data, e)
  /\ save' = Persist
  /\ UNCHANGED <<file, trouble, crashes>>

\* The temporary file is written and synced.
WriteTemporary ==
  /\ save = "begun"
  /\ save' = "temporary"
  /\ UNCHANGED <<data, active, file, trouble, crashes>>

Rename ==
  /\ save = "temporary"
  /\ file' = [is |-> "saved", day |-> data]
  /\ save' = "none"
  /\ trouble' = "none"
  /\ UNCHANGED <<data, active, crashes>>

\* Any step of the save may throw: the file is as it was, and the temporary one goes.
SaveFails ==
  /\ Saving
  /\ save' = "none"
  /\ trouble' = "write"
  /\ UNCHANGED <<data, active, file, crashes>>

\* Fault: a file that cannot be read is taken for a missing one.
Load_Forgives ==
  /\ trouble' = "none"
  /\ data' = file.day
  /\ save' = IF file.is \in {"missing", "unreadable"} THEN "begun" ELSE "none"
  /\ UNCHANGED file

\* The constructor: a missing file is made, an unreadable one is left alone.
Load ==
  /\ trouble' = IF file.is = "unreadable" THEN "load" ELSE "none"
  /\ data' = file.day
  /\ save' = IF file.is = "missing" THEN "begun" ELSE "none"
  /\ UNCHANGED file

\* The gateway ends, in the middle of a save or not, and is started again.
Restart ==
  /\ crashes < MaxCrashes
  /\ crashes' = crashes + 1
  /\ active' = 0
  /\ Load

\* The gateway's first start.
StatsInit ==
  /\ file \in [is : {"unset", "missing", "unreadable", "saved"}, day : {EmptyDay}]
  /\ data = EmptyDay
  /\ active = 0
  /\ save = IF file.is = "missing" THEN "begun" ELSE "none"
  /\ trouble = IF file.is = "unreadable" THEN "load" ELSE "none"
  /\ crashes = 0

SaveStep == WriteTemporary \/ Rename \/ SaveFails

=============================================================================
