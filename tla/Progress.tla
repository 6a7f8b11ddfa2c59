------------------------------ MODULE Progress ------------------------------
(***************************************************************************)
(* The progress of a streamed turn: the phase tracker, which observes the  *)
(* notifications of the app-server (server/phase-tracker.ts), and the      *)
(* keepalive, which writes comments (server/keepalive.ts).                 *)
(*                                                                         *)
(* The tracker is a record that the stream's state holds.  Times are       *)
(* abstracted to what is asked of them: whether the phase has lasted for   *)
(* eight seconds, and whether the last write is older than the interval.   *)
(***************************************************************************)
EXTENDS Naturals

CONSTANTS
  Items,       \* the items of a turn
  Labelled,    \* those with a label: commands, file changes and plans
  NoItem       \* no item, or one without an id

ASSUME ItemsAssumption == Labelled \subseteq Items /\ NoItem \notin Items

Trackers ==
  [active : Items \cup {NoItem}, reported : BOOLEAN, waited : BOOLEAN, detached : BOOLEAN]

NoPhase == [active |-> NoItem, reported |-> FALSE, waited |-> FALSE, detached |-> FALSE]

Forget(t) == [NoPhase EXCEPT !.detached = t.detached]

\* observe, by the method of the notification.
ItemStarted(t, i) ==
  IF t.detached \/ i \notin Labelled \/ t.active = i THEN t ELSE [NoPhase EXCEPT !.active = i]

\* Fault: an item that completes is still told of.
ItemCompleted_Stays(t, i) == IF i = NoItem THEN Forget(t) ELSE t

ItemCompleted(t, i) == IF i = NoItem \/ t.active = i THEN Forget(t) ELSE t

\* A delta of the answer, turn/completed and an error.
PhaseOver(t) == Forget(t)

Detached(t) == [NoPhase EXCEPT !.detached = TRUE]

\* poll: what it returns, with the tracker it leaves; late is that the phase has lasted.
Poll(t, late) ==
  CASE t.detached \/ t.active = NoItem -> [tells |-> NoItem, tracker |-> t]
    [] ~t.reported -> [tells |-> t.active, tracker |-> [t EXCEPT !.reported = TRUE]]
    [] late /\ ~t.waited -> [tells |-> t.active, tracker |-> [t EXCEPT !.waited = TRUE]]
    [] OTHER -> [tells |-> NoItem, tracker |-> t]

\* A tick of the keepalive's timer: the chunk is made, by poll, before it is known
\* whether the last write is old enough for it to be written.
KeepaliveTick(t, late, due) ==
  LET p == Poll(t, late) IN [tracker |-> p.tracker, writes |-> due, tells |-> p.tells]

=============================================================================
