----------------------------- MODULE AnswerOnce -----------------------------
(***************************************************************************)
(* What the gateway promises each caller, whatever happens between the two *)
(* backends: an answer comes from one backend, output that has been sent   *)
(* is only ever continued by the backend that began it, and an answer that *)
(* has ended stays as it ended.  A caller may also be refused, or leave.   *)
(***************************************************************************)
CONSTANTS Requests, Backends

VARIABLES
  by,        \* the backend whose output the caller has seen, "none" at first
  got        \* what the caller has seen of the answer

Answers == {"nothing", "part", "whole", "broken", "refused"}

TypeOK ==
  /\ by \in [Requests -> Backends \cup {"none"}]
  /\ got \in [Requests -> Answers]

Init ==
  /\ by = [r \in Requests |-> "none"]
  /\ got = [r \in Requests |-> "nothing"]

Answer(r, b, g) ==
  /\ by' = [by EXCEPT ![r] = b]
  /\ got' = [got EXCEPT ![r] = g]

Begin(r) == got[r] = "nothing" /\ \E b \in Backends : Answer(r, b, "part")

\* A whole answer may be sent at once, or complete the part already sent.
Complete(r) ==
  \/ got[r] = "nothing" /\ \E b \in Backends : Answer(r, b, "whole")
  \/ got[r] = "part" /\ Answer(r, by[r], "whole")

Break(r) == got[r] = "part" /\ Answer(r, by[r], "broken")

\* An error response, with no output of any backend before it.
Refuse(r) == got[r] = "nothing" /\ Answer(r, "none", "refused")

Next == \E r \in Requests : Begin(r) \/ Complete(r) \/ Break(r) \/ Refuse(r)

Spec == Init /\ [][Next]_<<by, got>>

=============================================================================
