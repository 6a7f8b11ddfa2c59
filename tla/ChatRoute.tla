----------------------------- MODULE ChatRoute ------------------------------
(***************************************************************************)
(* The chat and responses routes (server/routes.ts), from the arrival of a *)
(* request to the end of its response, composed with what the request asks *)
(* for (RequestOptions), the progress a stream tells (Progress) and the    *)
(* daily statistics (DailyStats).                                          *)
(*                                                                         *)
(* Running the turn is TurnRunner's: here it gives notifications and then  *)
(* an answer or an error.  A handler runs from one await to the next in    *)
(* one step.  A save blocks the event loop, so that nothing but its own    *)
(* steps and a crash happens while one is under way.                       *)
(***************************************************************************)
EXTENDS RequestOptions, Progress, DailyStats, FiniteSets, SequencesExt

CONSTANTS
  Requests,
  Scenarios    \* what the requests ask for, as functions of the request

\* via is how the request comes to the route: without the web, after a fallback that asked
\* the web nothing (it is busy, cooling down, not fit for the request) or that asked it for
\* an answer, not at all (its body is not JSON), or never.  Its messages or its input are
\* given, missing, or of a form that the adapter throws at.
Asks ==
  [route : {"chat", "responses"}, stream : BOOLEAN,
   via : {"codex", "declined", "tried", "unparsed", "absent"},
   input : {"given", "missing", "malformed"}, tools : Seq(STRING), choice : STRING,
   header : Options, body : Options, runtime : {"absent", "pool", "oneshot", "other"}]

ASSUME ScenariosAssumption == Scenarios \subseteq [Requests -> Asks]

VARIABLES
  ask,
  reply,       \* each request's response, with the variables of its handlers
  kept,        \* history: the requests that the counters in memory are of
  filed        \* history: the requests that the counters of the file are of

vars == <<ask, reply, kept, filed, stats>>

Marks == {"open", "text", "calls", "message", "closing", "final", "completed", "done", "error"}
Modes == {"none", "pool", "sticky", "stateless"}
Runs == {"none", "pool", "sticky", "oneshot"}

\* The token counts that codex gave with a turn's result: all of them valid, some of them
\* not, or none of them of use.
Counts == {"valid", "odd", "none"}

Replies ==
  [pc : {"new", "turn", "done", "lost"},    \* lost: the gateway ended under it
   head : {"none", "ok", "bad"},            \* the status it was sent with
   sent : Seq(Marks),                       \* what was written, of a repeated mark once
   ended : BOOLEAN, flushed : BOOLEAN, closed : BOOLEAN, aborted : BOOLEAN,
   recorded : BOOLEAN,
   stat : [backend : Backends, fallback : BOOLEAN, webAttempt : BOOLEAN,
           completed : BOOLEAN, usage : Usages],
   given : Counts \cup {"nothing"},         \* history: the counts of its turn's result
   told : [mode : Modes, key : RawKeys, ttl : Nat],   \* its session headers
   ran : Runs,                                        \* how its turn runs
   tracker : Trackers,
   running : SUBSET Items,                  \* history: the items started and not completed
   comment : Items \cup {NoItem}]           \* the item of its last comment, if of one

NewReply ==
  [pc |-> "new", head |-> "none", sent |-> <<>>, ended |-> FALSE, flushed |-> FALSE,
   closed |-> FALSE, aborted |-> FALSE, recorded |-> FALSE,
   stat |-> [backend |-> "unrouted", fallback |-> FALSE, webAttempt |-> FALSE,
             completed |-> FALSE, usage |-> "unknown"], given |-> "nothing",
   told |-> [mode |-> "none", key |-> "absent", ttl |-> 0], ran |-> "none",
   tracker |-> NoPhase, running |-> {}, comment |-> NoItem]

TypeOK ==
  /\ StatsTypeOK
  /\ ask \in Scenarios
  /\ reply \in [Requests -> Replies]
  /\ kept \subseteq Requests /\ filed \subseteq Requests

-----------------------------------------------------------------------------
(***************************************************************************)
(* Writing.  What is written after the connection has closed goes nowhere. *)
(***************************************************************************)
Writes(q, marks) == [q EXCEPT !.sent = IF q.closed THEN @ ELSE @ \o marks]

WritesText(q) ==
  IF q.sent # <<>> /\ Last(q.sent) = "text" THEN q ELSE Writes(q, <<"text">>)

\* The turn of a handler is over.
Quiet(q) ==
  [q EXCEPT !.pc = "done", !.tracker = Detached(@), !.running = {}, !.comment = NoItem]

\* The handler ends the response, with a status if none was sent yet.
Ends(q, status, marks) ==
  [Quiet(Writes(q, marks)) EXCEPT
     !.ended = TRUE,
     !.head = IF @ = "none" /\ ~q.closed THEN status ELSE @]

Becomes(r, q) == reply' = [reply EXCEPT ![r] = q]

-----------------------------------------------------------------------------
(***************************************************************************)
(* Arrival: the statistics' middleware, the parser of the body, and the    *)
(* handler up to the await of its turn.                                    *)
(***************************************************************************)
Emulated(a) == a.route = "chat" /\ Emulates(a.tools, a.choice)

Entered(a) ==
  [NewReply EXCEPT !.stat =
     [@ EXCEPT !.backend = IF a.via = "unparsed" THEN "unrouted" ELSE "codex",
               !.fallback = a.via \in {"declined", "tried"}, !.webAttempt = a.via = "tried"]]

\* What the adapter throws at is not caught: the handler has not come to its try block.
Malformed(a) == a.via \notin {"unparsed", "absent"} /\ a.input = "malformed"

\* A stream is opened before its turn runs.
Turns(q, a, s) ==
  [Writes(q, IF a.stream THEN <<"open">> ELSE <<>>) EXCEPT
     !.pc = "turn", !.head = IF a.stream THEN "ok" ELSE "none",
     !.told = Told(s), !.ran = Dispatch(s, Runtime(a.runtime))]

Arrive(r) ==
  LET a == ask[r]
      s == Resolve(a.header, a.body)
      q == Entered(a)
  IN  /\ reply[r].pc = "new" /\ a.via # "absent" /\ ~Malformed(a) /\ ~Saving
      /\ active' = active + 1
      /\ IF a.via = "unparsed" \/ a.input = "missing" \/ s.kind = "invalid"
         THEN Becomes(r, Ends(q, "bad", <<"error">>))
         ELSE Becomes(r, Turns(q, a, s))
      /\ UNCHANGED <<ask, kept, filed, data, file, save, trouble, crashes>>

-----------------------------------------------------------------------------
(***************************************************************************)
(* While the turn of a stream runs: its notifications and the keepalive.   *)
(* Once the connection has closed, withAbort has ended the wait for them.  *)
(***************************************************************************)
Streams(r) == reply[r].pc = "turn" /\ ask[r].stream /\ ~reply[r].closed /\ ~Saving

\* Fault: the text of a turn that may call tools is streamed as it comes.
Delta_Streamed(r) ==
  /\ Streams(r)
  /\ Becomes(r, [WritesText(reply[r]) EXCEPT !.tracker = PhaseOver(@)])
  /\ UNCHANGED <<ask, kept, filed, stats>>

\* A piece of the answer.  While tool calls may be in it, it is held back.
Delta(r) ==
  /\ Streams(r)
  /\ LET q == IF Emulated(ask[r]) THEN reply[r] ELSE WritesText(reply[r])
     IN  Becomes(r, [q EXCEPT !.tracker = PhaseOver(@)])
  /\ UNCHANGED <<ask, kept, filed, stats>>

ItemStarts(r) ==
  /\ Streams(r)
  /\ \E i \in Items \ reply[r].running :
       Becomes(r, [reply[r] EXCEPT !.tracker = ItemStarted(@, i), !.running = @ \cup {i}])
  /\ UNCHANGED <<ask, kept, filed, stats>>

\* An item completes.  One without an id, turn/completed, and an error that the turn
\* survives only make the tracker forget its phase.
ItemEnds(r) ==
  /\ Streams(r)
  /\ \E i \in reply[r].running \cup {NoItem} :
       Becomes(r, [reply[r] EXCEPT !.tracker = ItemCompleted(@, i), !.running = @ \ {i}])
  /\ UNCHANGED <<ask, kept, filed, stats>>

Keepalive(r) ==
  /\ Streams(r)
  /\ \E late, due \in BOOLEAN :
       LET k == KeepaliveTick(reply[r].tracker, late, due)
       IN  Becomes(r, [reply[r] EXCEPT !.tracker = k.tracker,
                                       !.comment = IF k.writes THEN k.tells ELSE @])
  /\ UNCHANGED <<ask, kept, filed, stats>>

-----------------------------------------------------------------------------
(***************************************************************************)
(* The turn is over.                                                       *)
(***************************************************************************)
\* What the answer's text may name as a call: a tool that is offered, or another.
Named(a) == {<<>>, <<"unoffered">>} \cup {<<f>> : f \in Offered(a.tools)}

\* The ends of the three kinds of responses, for an answer with text or none and with
\* these calls.
ChatEnding(a, text, calls) ==
  IF calls # <<>> THEN <<"calls", "done">>
  ELSE (IF Emulated(a) /\ text THEN <<"text">> ELSE <<>>) \o <<"final", "done">>

ResponsesEnding == <<"closing", "completed", "done">>

CollectedEnding(a, calls) ==
  IF a.route = "chat" /\ (calls # <<>> \/ Requested(a.tools, a.choice) # "none")
  THEN <<"calls">> ELSE <<"message">>

Answer(a, text, calls) ==
  CASE ~a.stream -> CollectedEnding(a, calls)
    [] a.stream /\ a.route = "chat" -> ChatEnding(a, text, calls)
    [] a.stream /\ a.route = "responses" -> ResponsesEnding

\* annotateTurnUsage: counts that are of no use are estimated.
Annotated(counts) ==
  [counts |-> IF counts = "none" THEN "valid" ELSE counts, estimated |-> counts = "none"]

\* Fault: counts are booked whatever they are.
CompleteStats_Trusts(stat, u) ==
  [stat EXCEPT !.completed = TRUE, !.usage = IF u.estimated THEN "estimated" ELSE "reported"]

\* completeStats: the turn has its result, and the counts are booked if all are valid.
CompleteStats(stat, u) ==
  [stat EXCEPT !.completed = TRUE,
               !.usage = IF u.counts # "valid" THEN @
                         ELSE IF u.estimated THEN "estimated" ELSE "reported"]

WithResult(q, counts) ==
  [q EXCEPT !.stat = CompleteStats(@, Annotated(counts)), !.given = counts]

\* The turn's result, with completeStats and then the rest of the response.
TurnSucceeds(r) ==
  /\ reply[r].pc = "turn" /\ ~reply[r].aborted /\ ~Saving
  /\ \E counts \in Counts, text \in BOOLEAN, named \in Named(ask[r]) :
       LET a == ask[r]
           calls == Extracted(named, a.tools, a.choice)
       IN  Becomes(r, WithResult(Ends(reply[r], "ok", Answer(a, text, calls)), counts))
  /\ UNCHANGED <<ask, kept, filed, stats>>

Failure(a) ==
  IF a.stream /\ a.route = "chat" THEN <<"error", "done">> ELSE <<"error">>

\* Fault: an error after the headers were sent leaves the stream open.
TurnFails_LeavesOpen(r) ==
  /\ reply[r].pc = "turn" /\ ~Saving
  /\ Becomes(r, [Ends(reply[r], "bad", Failure(ask[r])) EXCEPT !.ended = reply[r].head = "none"])
  /\ UNCHANGED <<ask, kept, filed, stats>>

\* Any other error than a closed client.  It may come after the client has gone, when
\* no turn was running yet.
TurnFails(r) ==
  /\ reply[r].pc = "turn" /\ ~Saving
  /\ Becomes(r, Ends(reply[r], "bad", Failure(ask[r])))
  /\ UNCHANGED <<ask, kept, filed, stats>>

\* What may be written of an answer before an error in it: what comes before the mark
\* that makes it one.
Begun(a) ==
  {<<>>} \cup (IF ~a.stream THEN {}
               ELSE IF a.route = "responses" THEN {<<"closing">>}
               ELSE IF Emulated(a) THEN {<<"text">>} ELSE {})

\* The turn's result, with completeStats and then an error: what codex gave is not of the
\* form that the answer is made of (a turn id that is no string, say).
AnswerBreaks(r) ==
  /\ reply[r].pc = "turn" /\ ~reply[r].aborted /\ ~Saving
  /\ \E counts \in Counts, begun \in Begun(ask[r]) :
       Becomes(r, WithResult(Ends(reply[r], "bad", begun \o Failure(ask[r])), counts))
  /\ UNCHANGED <<ask, kept, filed, stats>>

\* The error of withAbort: nobody is there to be answered.
ClientClosed(r) ==
  /\ reply[r].pc = "turn" /\ reply[r].aborted /\ ~Saving
  /\ Becomes(r, Quiet(reply[r]))
  /\ UNCHANGED <<ask, kept, filed, stats>>

-----------------------------------------------------------------------------
(***************************************************************************)
(* The end of the response: the finish and close events.                   *)
(***************************************************************************)
Outcome(q, cancelled) ==
  IF cancelled THEN "cancelled"
  ELSE IF q.stat.completed /\ q.head # "bad" THEN "succeeded" ELSE "failed"

Entry(q, cancelled) ==
  [backend |-> q.stat.backend, fallback |-> q.stat.fallback, webAttempt |-> q.stat.webAttempt,
   outcome |-> Outcome(q, cancelled), usage |-> q.stat.usage]

Books(r, cancelled) ==
  /\ Record(Entry(reply[r], cancelled))
  /\ kept' = kept \cup {r}
  /\ UNCHANGED filed

\* Everything has been handed to the connection.
Finish(r) ==
  /\ reply[r].pc = "done" /\ reply[r].ended /\ ~reply[r].flushed /\ ~reply[r].closed /\ ~Saving
  /\ Becomes(r, [reply[r] EXCEPT !.flushed = TRUE, !.recorded = TRUE])
  /\ Books(r, FALSE)
  /\ UNCHANGED ask

\* Fault: the close that follows a finish is booked too.
Close_Twice(r) ==
  /\ reply[r].pc \in {"turn", "done"} /\ ~reply[r].closed /\ ~Saving
  /\ Becomes(r, [reply[r] EXCEPT !.closed = TRUE, !.aborted = ~reply[r].ended, !.recorded = TRUE])
  /\ Books(r, ~reply[r].flushed)
  /\ UNCHANGED ask

\* The connection closes, by the client before all is sent or after that.  A turn that
\* still runs is aborted.
Close(r) ==
  /\ reply[r].pc \in {"turn", "done"} /\ ~reply[r].closed /\ ~Saving
  /\ Becomes(r, [reply[r] EXCEPT !.closed = TRUE, !.aborted = ~reply[r].ended, !.recorded = TRUE])
  /\ IF reply[r].recorded
     THEN UNCHANGED <<kept, filed, stats>>
     ELSE Books(r, ~reply[r].flushed)
  /\ UNCHANGED ask

-----------------------------------------------------------------------------
(***************************************************************************)
(* Saves, and the end and start of the gateway.                            *)
(***************************************************************************)
Saves ==
  /\ SaveStep
  /\ filed' = IF file' # file THEN kept ELSE filed
  /\ UNCHANGED <<ask, reply, kept>>

\* The gateway ends, with the responses as in replies, and is started again.
GatewayEnds(replies) ==
  /\ Restart
  /\ reply' = [r \in Requests |->
                 IF replies[r].pc = "new" THEN replies[r]
                 ELSE [Quiet(replies[r]) EXCEPT !.pc = "lost"]]
  /\ kept' = filed
  /\ UNCHANGED <<ask, filed>>

Crash == GatewayEnds(reply)

\* The adapter throws at a malformed request.  The handler's promise is rejected, nobody
\* listens to it, and Node ends the gateway.
ArrivalThrows(r) ==
  /\ reply[r].pc = "new" /\ Malformed(ask[r]) /\ ~Saving
  /\ GatewayEnds([reply EXCEPT ![r] = Quiet(Entered(ask[r]))])

Init ==
  /\ ask \in Scenarios
  /\ reply = [r \in Requests |-> NewReply]
  /\ kept = {} /\ filed = {}
  /\ StatsInit

Handler(r) ==
  \/ Arrive(r) \/ Delta(r) \/ ItemStarts(r) \/ ItemEnds(r) \/ Keepalive(r)
  \/ TurnSucceeds(r) \/ AnswerBreaks(r) \/ TurnFails(r) \/ ClientClosed(r)
  \/ Finish(r) \/ Close(r)

Next == Saves \/ Crash \/ \E r \in Requests : Handler(r) \/ ArrivalThrows(r)

Spec == Init /\ [][Next]_vars

\* A turn ends (TurnRunner's EveryCallEnds), and a save returns.
Fairness ==
  /\ WF_vars(Saves)
  /\ \A r \in Requests :
       WF_vars(TurnSucceeds(r) \/ AnswerBreaks(r) \/ TurnFails(r) \/ ClientClosed(r))

FairSpec == Spec /\ Fairness

-----------------------------------------------------------------------------
(***************************************************************************)
(* Properties.                                                             *)
(***************************************************************************)
Has(r, marks) == \E i \in DOMAIN reply[r].sent : reply[r].sent[i] \in marks

\* The marks after which a client waits for nothing more.
Endings(r) ==
  IF ~ask[r].stream \/ reply[r].head = "bad" THEN {"calls", "message", "error"}
  ELSE IF ask[r].route = "chat" THEN {"done"} ELSE {"done", "error"}

Answered(r) == Has(r, {"calls", "message", "final", "completed"})

\* What a client reads makes sense: the mark that ends a response comes last, and comes
\* if the handler ended it; no text comes with tool calls, no answer with an error, and
\* a status of success of a response that is no stream only with an answer.
\* (handleChatCompletions, handleResponses: the order of their writes on every path.)
ResponseWellFormed ==
  \A r \in Requests :
    LET q == reply[r]
    IN  /\ \A i \in DOMAIN q.sent : q.sent[i] \in Endings(r) => i = Len(q.sent)
        /\ q.ended /\ q.head # "none" => q.closed \/ Has(r, Endings(r))
        /\ ~(Has(r, {"text"}) /\ Has(r, {"calls"}))
        /\ ~(Has(r, {"error"}) /\ Answered(r))
        /\ ~ask[r].stream /\ q.head = "ok" => Answered(r)

\* A phase that a comment names is of an item that is running (phase-tracker.ts,
\* observe and poll, with the keepalive that asks when it likes).
PhaseTruth ==
  [][\A r \in Requests :
       \/ reply'[r].comment \in {reply[r].comment, NoItem}
       \/ reply'[r].comment \in reply[r].running]_vars

\* A stream that an error broke off after its turn's result.
BrokenOff(r) == ask[r].stream /\ reply[r].given # "nothing" /\ Has(r, {"error"})

UsageOf(given) ==
  CASE given = "valid" -> "reported"
    [] given = "none" -> "estimated"
    [] given \in {"nothing", "odd"} -> "unknown"

\* What a request is counted as: by the way it came, by the counts of its turn's result,
\* and by what its caller saw.
Seen(r) ==
  {"requests", UsageOf(reply[r].given)}
    \cup (IF ask[r].via \in {"declined", "tried"} THEN {"fallbacks"} ELSE {})
    \cup (IF ask[r].via = "tried" THEN {"web_attempts"} ELSE {})
    \cup {IF ~reply[r].flushed THEN "cancelled"
          ELSE IF Answered(r) \/ BrokenOff(r) THEN "succeeded" ELSE "failed"}

BackendOf(r) == IF ask[r].via = "unparsed" THEN "unrouted" ELSE "codex"

Tally(rs) ==
  LET seen == UNION {{r} \X Seen(r) : r \in rs}
  IN  [k \in Counters |-> Cardinality({p \in seen : p[2] = k})]
TalliedDay(rs) ==
  [totals |-> Tally(rs),
   backends |-> [b \in Backends |-> Tally({r \in rs : BackendOf(r) = b})]]

\* Every request is counted once, as what its caller saw of it and its turn gave, and those
\* under way are active; the file says the same of a part of them, and of all of them once
\* a save has gone well (daily-stats.ts, middleware, completeStats and record;
\* docs/daily-stats.md).
StatsExact ==
  /\ data = TalliedDay(kept)
  /\ file.day = TalliedDay(filed)
  /\ active = Cardinality({r \in Requests : reply[r].pc \in {"turn", "done"} /\ ~reply[r].recorded})
  /\ ~Saving /\ trouble = "none" /\ file.is # "unset" => kept = filed

\* A file that cannot be read stays as it is, and one that can loses no count, over
\* failing saves and crashes (daily-stats.ts, persist and the constructor).
FileNeverLoses ==
  [][/\ file.is = "unreadable" => file' = file
     /\ file.is = "saved" =>
          /\ file'.is = "saved"
          /\ \A k \in Counters : file'.day.totals[k] >= file.day.totals[k]]_vars

\* A turn runs in the session that its headers tell of and in no other: a sticky one
\* only where the settings allow it, with a key that fits and a life within their
\* bounds; and a request without a session of its own runs in none that it did not ask
\* for (sticky-options.ts, runTurn and setSessionHeaders).
ServedAsTold ==
  \A r \in Requests : reply[r].ran # "none" =>
    LET q == reply[r]
    IN  /\ q.ran = "sticky" <=> q.told.mode = "sticky"
        /\ q.told.mode = "stateless" => q.ran = "oneshot"
        /\ q.ran = "sticky" =>
             /\ Config.sticky
             /\ q.told.key \in {"k1", "k2", "over128"}
             /\ Config.minTtl <= q.told.ttl /\ q.told.ttl <= Config.maxTtl
        /\ q.ran # "sticky" => q.told.key = "absent" /\ q.told.ttl = 0

\* A request whose turn runs is answered to its end, unless its client leaves or the
\* gateway ends first.
EveryResponseEnds ==
  \A r \in Requests :
    reply[r].pc = "turn" ~> (reply[r].ended \/ reply[r].closed \/ reply[r].pc = "lost")

=============================================================================
