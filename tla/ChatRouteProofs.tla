-------------------------- MODULE ChatRouteProofs ---------------------------
(***************************************************************************)
(* Proofs about ChatRoute, for any requests, items and settings: what the  *)
(* session options come to, the inductive invariant CInv (the types, the   *)
(* sessions and phases that are told, the file of the statistics), and on  *)
(* top of it DInv: what a client reads, by where its handler is, and what  *)
(* is in the books.                                                        *)
(***************************************************************************)
EXTENDS ChatRoute, FiniteSetTheorems, TLAPS

-----------------------------------------------------------------------------
(***************************************************************************)
(* The options of a request.                                               *)
(***************************************************************************)
\* A life that is clamped is within the bounds of the settings.
LEMMA ClampedBounds ==
  ASSUME NEW n \in Int
  PROVE  Clamped(n) \in Nat /\ Config.minTtl <= Clamped(n) /\ Clamped(n) <= Config.maxTtl
BY ConfigAssumption DEF Configs, Clamped

\* A raw value of an option is one of the header's or the body's.
LEMMA ReadTypes ==
  ASSUME NEW header \in Options, NEW body \in Options
  PROVE  ReadKey(header, body) \in RawKeys /\ Read(header, body, "ttl") \in RawTtls
BY DEF Options, ReadKey, Read, InBody, Given, RawKeys, RawTtls

\* What a sticky session may be, and what a turn without one must not have.
SessionFits(s) ==
  /\ s.mode = "sticky" =>
       /\ Config.sticky
       /\ s.explicit
       /\ s.key \in {"k1", "k2", "over128"}
       /\ Config.minTtl <= s.ttl /\ s.ttl <= Config.maxTtl
  /\ s.mode # "sticky" => s.key = "absent" /\ s.ttl = 0

\* resolveSessionOptions (sticky-options.ts:40-83): whatever headers and body say, what
\* comes of them is a mode, and a session only as the settings allow it.
LEMMA ResolveSound ==
  ASSUME NEW header \in Options, NEW body \in Options, Resolve(header, body).kind = "ok"
  PROVE  Resolve(header, body) \in Resolutions /\ SessionFits(Resolve(header, body))
<1> DEFINE rawKey == ReadKey(header, body)
           rawTtl == Read(header, body, "ttl")
           keyed == ~Blank(rawKey)
           mode == NormalMode(Read(header, body, "mode"), keyed)
           explicit == keyed \/ \E n \in {"mode", "ttl", "reset", "policy"} : Present(Read(header, body, n))
           ttl == IF Blank(rawTtl) THEN Config.defaultTtl
                  ELSE IF rawTtl = "word" THEN 0 ELSE ParseInt[rawTtl]
           policy == NormalPolicy(Read(header, body, "policy"))
           reset == Read(header, body, "reset") = "true"
           s == Resolve(header, body)
<1>1. rawKey \in RawKeys /\ rawTtl \in RawTtls
  BY ReadTypes
<1>2. mode \in {"invalid", "pool", "sticky", "stateless"}
  BY DEF NormalMode, Valid
<1>3. ttl \in Int
  BY <1>1, ConfigAssumption, ParseIntAssumption DEF RawTtls, Blank, Configs
<1>4. explicit \in BOOLEAN /\ reset \in BOOLEAN
  OBVIOUS
<1>5. CASE mode = "invalid"
  <2>1. s = Invalid
    BY <1>5 DEF Resolve
  <2> QED BY <2>1 DEF Invalid, Ok
<1>6. CASE mode \in {"pool", "stateless"}
  <2>1. s = Ok(mode, explicit)
    BY <1>6 DEF Resolve
  <2> QED BY <1>4, <1>6, <2>1 DEF Ok, Resolutions, SessionFits, RawKeys
<1>7. CASE mode = "sticky" /\ ~Config.sticky
  <2>1. s = Ok("pool", FALSE)
    BY <1>7 DEF Resolve
  <2> QED BY <2>1 DEF Ok, Resolutions, SessionFits, RawKeys
<1>8. CASE mode = "sticky" /\ Config.sticky
  <2> DEFINE bad == ~KeyFits(rawKey, FromLegacy(header)) \/ ttl <= 0 \/ policy = "invalid"
             good == [Ok("sticky", TRUE) EXCEPT !.key = rawKey, !.ttl = Clamped(ttl), !.reset = reset]
  <2>1. s = IF bad THEN Invalid ELSE good
    BY <1>8 DEF Resolve
  <2>2. ~bad
    <3>1. Invalid.kind # "ok"
      BY DEF Invalid, Ok
    <3> QED BY <2>1, <3>1
  <2>3. rawKey \in {"k1", "k2", "over128"}
    BY <2>2 DEF KeyFits
  <2>4. Clamped(ttl) \in Nat /\ Config.minTtl <= Clamped(ttl) /\ Clamped(ttl) <= Config.maxTtl
    BY <1>3, ClampedBounds
  <2>5. s = good
    BY <2>1, <2>2
  <2>6. s.key = rawKey /\ s.ttl = Clamped(ttl) /\ s.mode = "sticky" /\ s.explicit
    BY <2>5 DEF Ok
  <2>7. s \in Resolutions
    BY <1>1, <1>4, <2>4, <2>5 DEF Ok, Resolutions
  <2> QED BY <1>8, <2>3, <2>4, <2>6, <2>7 DEF SessionFits
<1> QED BY <1>2, <1>5, <1>6, <1>7, <1>8

\* resolveRuntime and the dispatch of runTurn, with what the headers say: the session that
\* is told is the one that the turn runs in.
Served(q) ==
  q.ran # "none" =>
    /\ q.ran = "sticky" <=> q.told.mode = "sticky"
    /\ q.told.mode = "stateless" => q.ran = "oneshot"
    /\ q.ran = "sticky" =>
         /\ Config.sticky
         /\ q.told.key \in {"k1", "k2", "over128"}
         /\ Config.minTtl <= q.told.ttl /\ q.told.ttl <= Config.maxTtl
    /\ q.ran # "sticky" => q.told.key = "absent" /\ q.told.ttl = 0

LEMMA DispatchTypes ==
  ASSUME NEW s \in Resolutions, NEW h \in {"absent", "pool", "oneshot", "other"}
  PROVE  /\ Dispatch(s, Runtime(h)) \in Runs
         /\ Told(s) \in [mode : Modes, key : RawKeys, ttl : Nat]
BY ConfigAssumption DEF Resolutions, Dispatch, Runtime, Configs, Runs, Told, Modes, RawKeys

LEMMA DispatchServes ==
  ASSUME NEW s \in Resolutions, SessionFits(s), NEW h \in {"absent", "pool", "oneshot", "other"},
         NEW q, q.told = Told(s), q.ran = Dispatch(s, Runtime(h))
  PROVE  Served(q)
BY ConfigAssumption DEF Resolutions, SessionFits, Dispatch, Runtime, Configs, Told, Served

-----------------------------------------------------------------------------
(***************************************************************************)
(* One response.                                                           *)
(***************************************************************************)
\* The active item is one that runs; a request that has not come is not booked, and one
\* that is booked was sent whole or its connection closed.
ReplyInv(q) ==
  /\ q \in Replies
  /\ Served(q)
  /\ q.tracker.active \in q.running \cup {NoItem}
  /\ q.pc = "new" => ~q.recorded
  /\ q.recorded => q.flushed \/ q.closed

\* A step of the handler that leaves the place and the session of the request alone.
Same(q, p) ==
  /\ p.pc = q.pc /\ p.recorded = q.recorded /\ p.flushed = q.flushed /\ p.closed = q.closed
  /\ p.told = q.told /\ p.ran = q.ran

LEMMA TrackerTypes ==
  ASSUME NEW t \in Trackers, NEW i \in Items \cup {NoItem}
  PROVE  /\ NoPhase \in Trackers /\ Detached(t) \in Trackers /\ PhaseOver(t) \in Trackers
         /\ ItemCompleted(t, i) \in Trackers
         /\ i \in Items => ItemStarted(t, i) \in Trackers
         /\ Detached(t).active = NoItem /\ PhaseOver(t).active = NoItem
         /\ ItemStarted(t, i).active \in {t.active, i}
         /\ ItemCompleted(t, i).active \in ({t.active} \ {i}) \cup {NoItem}
<1>1. NoPhase \in Trackers /\ NoPhase.active = NoItem
  BY DEF Trackers, NoPhase
<1>2. Forget(t) \in Trackers /\ Forget(t).active = NoItem /\ PhaseOver(t) = Forget(t)
  <2>1. ASSUME NEW b \in BOOLEAN
        PROVE  LET u == [NoPhase EXCEPT !.detached = b] IN u \in Trackers /\ u.active = NoItem
    BY DEF NoPhase, Trackers
  <2>2. t.detached \in BOOLEAN
    BY DEF Trackers
  <2>3. PhaseOver(t) = Forget(t) /\ Forget(t) = [NoPhase EXCEPT !.detached = t.detached]
    BY DEF PhaseOver, Forget
  <2> QED BY <2>1, <2>2, <2>3
<1>3. Detached(t) \in Trackers /\ Detached(t).active = NoItem
  BY DEF Trackers, NoPhase, Detached
<1>4. ItemCompleted(t, i) \in Trackers /\ ItemCompleted(t, i).active \in ({t.active} \ {i}) \cup {NoItem}
  <2>1. CASE i = NoItem \/ t.active = i
    <3>1. ItemCompleted(t, i) = Forget(t)
      BY <2>1 DEF ItemCompleted
    <3> QED BY <1>2, <3>1
  <2>2. CASE ~(i = NoItem \/ t.active = i)
    BY <2>2 DEF ItemCompleted
  <2> QED BY <2>1, <2>2
<1>5. ItemStarted(t, i).active \in {t.active, i} /\ (i \in Items => ItemStarted(t, i) \in Trackers)
  BY DEF Trackers, NoPhase, ItemStarted
<1> QED BY <1>1, <1>2, <1>3, <1>4, <1>5

LEMMA TickTypes ==
  ASSUME NEW t \in Trackers, NEW late \in BOOLEAN, NEW due \in BOOLEAN
  PROVE  /\ KeepaliveTick(t, late, due).tracker \in Trackers
         /\ KeepaliveTick(t, late, due).tracker.active = t.active
         /\ KeepaliveTick(t, late, due).writes \in BOOLEAN
         /\ KeepaliveTick(t, late, due).tells \in {t.active, NoItem}
BY DEF Trackers, KeepaliveTick, Poll

\* Writing adds to what was sent, and to nothing else.
LEMMA WritesKeeps ==
  ASSUME NEW q, ReplyInv(q), NEW marks \in Seq(Marks)
  PROVE  /\ ReplyInv(Writes(q, marks)) /\ Same(q, Writes(q, marks))
         /\ Writes(q, marks).tracker = q.tracker /\ Writes(q, marks).running = q.running
         /\ Writes(q, marks).comment = q.comment
<1>1. q \in Replies /\ q.sent \in Seq(Marks)
  BY DEF ReplyInv, Replies
<1>2. (IF q.closed THEN q.sent ELSE q.sent \o marks) \in Seq(Marks)
  BY <1>1
<1>3. Writes(q, marks) = [q EXCEPT !.sent = IF q.closed THEN q.sent ELSE q.sent \o marks]
  BY DEF Writes
<1>4. Writes(q, marks) \in Replies
  BY <1>1, <1>2, <1>3 DEF Replies
<1> QED BY <1>1, <1>3, <1>4 DEF ReplyInv, Same, Served, Replies

LEMMA WritesTextKeeps ==
  ASSUME NEW q, ReplyInv(q)
  PROVE  /\ ReplyInv(WritesText(q)) /\ Same(q, WritesText(q))
         /\ WritesText(q).tracker = q.tracker /\ WritesText(q).running = q.running
         /\ WritesText(q).comment = q.comment
<1>1. <<"text">> \in Seq(Marks)
  BY DEF Marks
<1> QED BY <1>1, WritesKeeps DEF WritesText, Same

\* The end of a handler stops the keepalive.
LEMMA QuietKeeps ==
  ASSUME NEW q, ReplyInv(q)
  PROVE  /\ ReplyInv(Quiet(q)) /\ Same([q EXCEPT !.pc = "done"], Quiet(q))
         /\ Quiet(q).pc = "done" /\ Quiet(q).comment = NoItem
<1>1. q \in Replies /\ q.tracker \in Trackers
  BY DEF ReplyInv, Replies
<1>2. Detached(q.tracker) \in Trackers /\ Detached(q.tracker).active = NoItem
  BY <1>1, TrackerTypes
<1>3. Quiet(q) \in Replies
  BY <1>1, <1>2 DEF Quiet, Replies
<1> QED BY <1>1, <1>2, <1>3 DEF Quiet, ReplyInv, Same, Served, Replies

LEMMA EndsKeeps ==
  ASSUME NEW q, ReplyInv(q), NEW status \in {"ok", "bad"}, NEW marks \in Seq(Marks)
  PROVE  /\ ReplyInv(Ends(q, status, marks)) /\ Same([q EXCEPT !.pc = "done"], Ends(q, status, marks))
         /\ Ends(q, status, marks).pc = "done" /\ Ends(q, status, marks).comment = NoItem
<1> DEFINE w == Writes(q, marks)
           z == Quiet(w)
<1>1. ReplyInv(w) /\ Same(q, w)
  BY WritesKeeps
<1>2. ReplyInv(z) /\ Same([w EXCEPT !.pc = "done"], z) /\ z.pc = "done" /\ z.comment = NoItem
  BY <1>1, QuietKeeps
<1>3. q \in Replies /\ w \in Replies /\ z \in Replies
  BY <1>1, <1>2 DEF ReplyInv
<1>4. PICK h \in {"none", "ok", "bad"} : Ends(q, status, marks) = [z EXCEPT !.ended = TRUE, !.head = h]
  <2>1. (IF z.head = "none" /\ ~q.closed THEN status ELSE z.head) \in {"none", "ok", "bad"}
    BY <1>3 DEF Replies
  <2> QED BY <2>1 DEF Ends
<1> HIDE DEF w, z
<1>5. [z EXCEPT !.ended = TRUE, !.head = h] \in Replies
  BY <1>3 DEF Replies
<1> QED BY <1>1, <1>2, <1>3, <1>4, <1>5 DEF ReplyInv, Same, Served, Replies

-----------------------------------------------------------------------------
(***************************************************************************)
(* The counters and the file.                                              *)
(***************************************************************************)
\* Counting a request keeps the types of a day, and takes no count away.
LEMMA IncrementGrows ==
  ASSUME NEW bucket \in Buckets, NEW e \in Entries
  PROVE  /\ Increment(bucket, e) \in Buckets
         /\ \A k \in Counters : bucket[k] <= Increment(bucket, e)[k]
BY DEF Buckets, Increment

LEMMA RecordedGrows ==
  ASSUME NEW day \in Days, NEW e \in Entries
  PROVE  /\ Recorded(day, e) \in Days
         /\ \A k \in Counters : day.totals[k] <= Recorded(day, e).totals[k]
<1>1. day.totals \in Buckets /\ day.backends \in [Backends -> Buckets] /\ e.backend \in Backends
  BY DEF Days, Entries
<1>2. Increment(day.totals, e) \in Buckets /\ Increment(day.backends[e.backend], e) \in Buckets
  BY <1>1, IncrementGrows
<1>3. \A k \in Counters : day.totals[k] <= Increment(day.totals, e)[k]
  BY <1>1, IncrementGrows
<1>4. [day.backends EXCEPT ![e.backend] = Increment(@, e)] \in [Backends -> Buckets]
  BY <1>1, <1>2
<1> QED BY <1>2, <1>3, <1>4 DEF Recorded, Days

LEMMA EmptyDayTypes == EmptyDay \in Days
BY DEF EmptyDay, Zero, Days, Buckets

\* An unreadable file is left alone, and the counters in memory are those of the file
\* and more.
FileInv ==
  /\ file.is = "unreadable" => trouble = "load" /\ save = "none"
  /\ \A k \in Counters : file.day.totals[k] <= data.totals[k]

\* active but for its count, which is of the requests under way.
StoreTypeOK ==
  /\ data \in Days
  /\ file \in Files
  /\ save \in {"none", "begun", "temporary"}
  /\ trouble \in {"none", "load", "write"}
  /\ crashes \in 0 .. MaxCrashes

Store == StoreTypeOK /\ FileInv

LEMMA StoreInit == StatsInit => Store /\ active = 0
<1> SUFFICES ASSUME StatsInit PROVE Store
  BY DEF StatsInit
<1>1. file.is \in {"unset", "missing", "unreadable", "saved"} /\ file.day = EmptyDay /\ data = EmptyDay
  BY DEF StatsInit
<1>2. file \in Files
  BY EmptyDayTypes DEF StatsInit, Files
<1>3. \A k \in Counters : EmptyDay.totals[k] <= EmptyDay.totals[k]
  BY DEF EmptyDay, Zero
<1>4. StoreTypeOK
  BY <1>1, <1>2, EmptyDayTypes, CrashesAssumption DEF StatsInit, StoreTypeOK
<1> QED BY <1>1, <1>3, <1>4 DEF Store, FileInv, StatsInit

LEMMA StoreRecord == ASSUME Store, NEW e \in Entries, Record(e) PROVE Store'
<1>1. data' \in Days /\ \A k \in Counters : data.totals[k] <= data'.totals[k]
  BY RecordedGrows DEF Record, Store, StoreTypeOK
<1>2. StoreTypeOK'
  BY <1>1 DEF Record, Persist, Store, StoreTypeOK
<1>3. \A k \in Counters : data.totals[k] \in Nat /\ data'.totals[k] \in Nat /\ file.day.totals[k] \in Nat
  BY <1>1 DEF Store, StoreTypeOK, Files, Days, Buckets
<1>4. \A k \in Counters : file'.day.totals[k] <= data'.totals[k]
  BY <1>1, <1>3 DEF Record, Store, FileInv
<1>5. file'.is = "unreadable" => trouble' = "load" /\ save' = "none"
  BY DEF Record, Persist, Store, FileInv
<1> QED BY <1>2, <1>4, <1>5 DEF Store, FileInv

LEMMA StoreSaves == ASSUME Store, SaveStep PROVE Store'
<1>1. CASE WriteTemporary
  BY <1>1 DEF WriteTemporary, Store, StoreTypeOK, FileInv
<1>2. CASE Rename
  <2>1. file' \in Files /\ file'.is = "saved" /\ file'.day = data /\ data \in Days
    BY <1>2 DEF Rename, Store, StoreTypeOK, Files
  <2>2. \A k \in Counters : data.totals[k] <= data.totals[k]
    BY <2>1 DEF Days, Buckets
  <2> QED BY <1>2, <2>1, <2>2 DEF Rename, Store, StoreTypeOK, FileInv
<1>3. CASE SaveFails
  BY <1>3 DEF SaveFails, Saving, Store, StoreTypeOK, FileInv
<1> QED BY <1>1, <1>2, <1>3 DEF SaveStep

LEMMA StoreRestart == ASSUME Store, Restart PROVE Store'
<1>1. file.day \in Days /\ data' = file.day /\ file' = file
  BY DEF Restart, Load, Store, StoreTypeOK, Files
<1>2. \A k \in Counters : file.day.totals[k] <= file.day.totals[k]
  BY <1>1 DEF Days, Buckets
<1>3. StoreTypeOK'
  BY <1>1, CrashesAssumption DEF Restart, Load, Store, StoreTypeOK
<1> QED BY <1>1, <1>2, <1>3 DEF Store, FileInv, Restart, Load

\* The file loses nothing in any of these steps.
FileStep ==
  /\ file.is = "unreadable" => file' = file
  /\ file.is = "saved" =>
       /\ file'.is = "saved"
       /\ \A k \in Counters : file'.day.totals[k] >= file.day.totals[k]

LEMMA FileStays == ASSUME Store, UNCHANGED file PROVE FileStep
<1>1. \A k \in Counters : file.day.totals[k] \in Nat
  BY DEF Store, StoreTypeOK, Files, Days, Buckets
<1> QED BY <1>1 DEF FileStep

LEMMA FileSaves == ASSUME Store, SaveStep PROVE FileStep
<1>1. CASE Rename
  <2>1. file.is # "unreadable" /\ file'.is = "saved" /\ file'.day = data
    BY <1>1 DEF Rename, Store, FileInv
  <2>2. \A k \in Counters : file.day.totals[k] \in Nat /\ data.totals[k] \in Nat
    BY DEF Store, StoreTypeOK, Files, Days, Buckets
  <2> QED BY <2>1, <2>2 DEF FileStep, Store, FileInv
<1>2. CASE WriteTemporary \/ SaveFails
  BY <1>2, FileStays DEF WriteTemporary, SaveFails
<1> QED BY <1>1, <1>2 DEF SaveStep

-----------------------------------------------------------------------------
(***************************************************************************)
(* The steps.                                                              *)
(***************************************************************************)
InHand(q) == q.pc \in {"turn", "done"} /\ ~q.recorded
UnderWay == {r \in Requests : InHand(reply[r])}

CInv ==
  /\ Store
  /\ ask \in Scenarios
  /\ kept \subseteq Requests /\ filed \subseteq Requests
  /\ reply \in [Requests -> Replies]
  /\ \A r \in Requests : ReplyInv(reply[r])
  /\ IsFiniteSet(UnderWay) /\ active = Cardinality(UnderWay)

LEMMA CInit == Init => CInv
<1> SUFFICES ASSUME Init PROVE CInv
  OBVIOUS
<1>1. Store /\ active = 0
  BY StoreInit DEF Init
<1>2. NewReply \in Replies
  <2>1. NoPhase \in Trackers /\ <<>> \in Seq(Marks) /\ {} \in SUBSET Items
    BY DEF NoPhase, Trackers
  <2> QED BY <2>1 DEF NewReply, Replies, Backends, Usages, Modes, RawKeys, Runs
<1>3. ReplyInv(NewReply)
  BY <1>2 DEF ReplyInv, Served, NewReply, NoPhase
<1>4. UnderWay = {}
  BY DEF Init, UnderWay, InHand, NewReply
<1> QED BY <1>1, <1>2, <1>3, <1>4, FS_EmptySet DEF Init, CInv

\* One response changes: what is under way changes with it.
LEMMA UnderWayMoves ==
  ASSUME CInv, NEW r \in Requests, NEW q, ReplyInv(q), Becomes(r, q)
  PROVE  /\ reply' \in [Requests -> Replies] /\ \A x \in Requests : ReplyInv(reply'[x])
         /\ (InHand(q) <=> InHand(reply[r])) =>
              IsFiniteSet(UnderWay') /\ Cardinality(UnderWay') = active
         /\ InHand(q) /\ ~InHand(reply[r]) =>
              IsFiniteSet(UnderWay') /\ Cardinality(UnderWay') = active + 1
         /\ ~InHand(q) /\ InHand(reply[r]) =>
              IsFiniteSet(UnderWay') /\ Cardinality(UnderWay') = active - 1 /\ active - 1 \in Nat
<1>1. reply \in [Requests -> Replies] /\ reply' = [reply EXCEPT ![r] = q] /\ q \in Replies
  BY DEF CInv, Becomes, ReplyInv
<1>2. \A x \in Requests : reply'[x] = IF x = r THEN q ELSE reply[x]
  BY <1>1
<1>3. reply' \in [Requests -> Replies] /\ \A x \in Requests : ReplyInv(reply'[x])
  BY <1>1, <1>2 DEF CInv
<1>4. IsFiniteSet(UnderWay) /\ active = Cardinality(UnderWay) /\ active \in Nat
  BY FS_CardinalityType DEF CInv
<1>5. UnderWay' = IF InHand(q) THEN UnderWay \cup {r} ELSE UnderWay \ {r}
  BY <1>2 DEF UnderWay, InHand
<1>6. r \in UnderWay <=> InHand(reply[r])
  BY DEF UnderWay
<1>7. CASE InHand(q) <=> InHand(reply[r])
  <2>1. UnderWay' = UnderWay
    BY <1>5, <1>6, <1>7
  <2> QED BY <1>3, <1>4, <1>7, <2>1
<1>8. CASE InHand(q) /\ ~InHand(reply[r])
  BY <1>3, <1>4, <1>5, <1>6, <1>8, FS_AddElement
<1>9. CASE ~InHand(q) /\ InHand(reply[r])
  <2>1. UnderWay' = UnderWay \ {r} /\ r \in UnderWay
    BY <1>5, <1>6, <1>9
  <2>2. IsFiniteSet(UnderWay') /\ Cardinality(UnderWay') = active - 1
    BY <1>4, <2>1, FS_RemoveElement
  <2>3. active - 1 \in Nat
    BY <2>2, FS_CardinalityType
  <2> QED BY <1>3, <1>9, <2>2, <2>3
<1> QED BY <1>7, <1>8, <1>9

\* A comment that is new names an item that runs.
CommentFrom(q, p) == p.comment \in {q.comment, NoItem} \/ p.comment \in q.running
PhaseStep == \A r \in Requests : CommentFrom(reply[r], reply'[r])

\* What is proved of every step.
StepOK == CInv' /\ FileStep /\ PhaseStep

LEMMA CommentMoves ==
  ASSUME CInv, NEW r \in Requests, NEW q, Becomes(r, q), CommentFrom(reply[r], q)
  PROVE  PhaseStep
BY DEF CInv, Becomes, PhaseStep, CommentFrom

\* A step of a handler that touches neither the statistics nor the books.
LEMMA HandlerMoves ==
  ASSUME CInv, NEW r \in Requests, NEW q, ReplyInv(q), Becomes(r, q), CommentFrom(reply[r], q),
         InHand(q) <=> InHand(reply[r]), UNCHANGED <<ask, kept, filed, stats>>
  PROVE  StepOK
<1>1. Store' /\ FileStep
  BY FileStays DEF CInv, Store, StoreTypeOK, FileInv, stats
<1>2. PhaseStep
  BY CommentMoves
<1> QED BY <1>1, <1>2, UnderWayMoves DEF StepOK, CInv, stats

LEMMA AskTypes == ASSUME CInv, NEW r \in Requests PROVE ask[r] \in Asks
BY ScenariosAssumption DEF CInv

LEMMA EndingTypes ==
  ASSUME NEW a \in Asks, NEW text, NEW calls
  PROVE  Answer(a, text, calls) \in Seq(Marks) /\ Failure(a) \in Seq(Marks)
<1>1. /\ <<"calls">> \in Seq(Marks) /\ <<"message">> \in Seq(Marks) /\ <<"error">> \in Seq(Marks)
      /\ <<"calls", "done">> \in Seq(Marks) /\ <<"error", "done">> \in Seq(Marks)
      /\ <<"closing", "completed", "done">> \in Seq(Marks)
      /\ <<"final", "done">> \in Seq(Marks) /\ <<"text">> \in Seq(Marks) /\ <<>> \in Seq(Marks)
  BY DEF Marks
<1>2. ChatEnding(a, text, calls) \in Seq(Marks)
  BY <1>1 DEF ChatEnding
<1>3. CollectedEnding(a, calls) \in Seq(Marks) /\ ResponsesEnding \in Seq(Marks)
  BY <1>1 DEF CollectedEnding, ResponsesEnding
<1>4. a.stream \in BOOLEAN /\ a.route \in {"chat", "responses"}
  BY DEF Asks
<1> QED BY <1>1, <1>2, <1>3, <1>4 DEF Answer, Failure

LEMMA EnteredInv ==
  ASSUME NEW a \in Asks
  PROVE  /\ ReplyInv(Entered(a)) /\ Entered(a).pc = "new" /\ ~Entered(a).recorded
         /\ Entered(a).comment = NoItem /\ Entered(a) \in Replies
<1>1. NoPhase \in Trackers /\ <<>> \in Seq(Marks) /\ {} \in SUBSET Items
  BY DEF NoPhase, Trackers
<1>2. /\ (a.via \in {"declined", "tried"}) \in BOOLEAN /\ (a.via = "tried") \in BOOLEAN
      /\ (IF a.via = "unparsed" THEN "unrouted" ELSE "codex") \in Backends
  BY DEF Backends
<1>3. Entered(a) \in Replies
  BY <1>1, <1>2 DEF Entered, NewReply, Replies, Backends, Usages, Modes, RawKeys, Runs
<1> QED BY <1>3 DEF ReplyInv, Served, Entered, NewReply, NoPhase

LEMMA StepArrive == ASSUME CInv, NEW r \in Requests, Arrive(r) PROVE StepOK
<1> DEFINE a == ask[r]
           s == Resolve(a.header, a.body)
           q == Entered(a)
           bad == a.via = "unparsed" \/ a.input = "missing" \/ s.kind = "invalid"
<1>1. a \in Asks /\ reply[r].pc = "new" /\ ReplyInv(reply[r])
  BY AskTypes DEF Arrive, CInv
<1>2. ReplyInv(q) /\ q.pc = "new" /\ ~q.recorded /\ q.comment = NoItem /\ q \in Replies
  BY <1>1, EnteredInv
<1>3. ASSUME NEW p, ReplyInv(p), InHand(p), p.comment = NoItem, Becomes(r, p) PROVE StepOK
  <2>1. IsFiniteSet(UnderWay') /\ Cardinality(UnderWay') = active + 1
    BY <1>1, <1>3, UnderWayMoves DEF InHand
  <2>2. reply' \in [Requests -> Replies] /\ \A x \in Requests : ReplyInv(reply'[x])
    BY <1>3, UnderWayMoves
  <2>3. Store' /\ FileStep
    BY FileStays DEF Arrive, CInv, Store, StoreTypeOK, FileInv
  <2>4. PhaseStep
    BY <1>3, CommentMoves DEF CommentFrom
  <2> QED BY <2>1, <2>2, <2>3, <2>4 DEF StepOK, CInv, Arrive
<1> HIDE DEF q
<1>4. CASE bad
  <2> DEFINE p == Ends(q, "bad", <<"error">>)
  <2>1. <<"error">> \in Seq(Marks)
    BY DEF Marks
  <2>2. ReplyInv(p) /\ Same([q EXCEPT !.pc = "done"], p) /\ p.pc = "done" /\ p.comment = NoItem
    BY <1>2, <2>1, EndsKeeps
  <2>3. InHand(p)
    BY <1>2, <2>2 DEF Same, InHand, Replies
  <2>4. Becomes(r, p)
    BY <1>4 DEF Arrive, q
  <2> QED BY <1>3, <2>2, <2>3, <2>4
<1>5. CASE ~bad
  <2> DEFINE w == Writes(q, IF a.stream THEN <<"open">> ELSE <<>>)
             p == Turns(q, a, s)
  <2>1. (IF a.stream THEN <<"open">> ELSE <<>>) \in Seq(Marks)
    <3>1. <<"open">> \in Seq(Marks) /\ <<>> \in Seq(Marks)
      BY DEF Marks
    <3> QED BY <3>1
  <2>2. ReplyInv(w) /\ Same(q, w) /\ w.comment = NoItem /\ w \in Replies
    BY <1>2, <2>1, WritesKeeps DEF ReplyInv
  <2>3. a.header \in Options /\ a.body \in Options /\ a.runtime \in {"absent", "pool", "oneshot", "other"}
    BY <1>1 DEF Asks
  <2>4. s.kind = "ok"
    BY <1>5 DEF Resolve, Invalid, Ok
  <2>5. s \in Resolutions /\ SessionFits(s)
    BY <2>3, <2>4, ResolveSound
  <2>6. /\ Dispatch(s, Runtime(a.runtime)) \in Runs
        /\ Told(s) \in [mode : Modes, key : RawKeys, ttl : Nat]
    BY <2>3, <2>5, DispatchTypes
  <2> HIDE DEF w, s
  <2>7. p = [w EXCEPT !.pc = "turn", !.head = IF a.stream THEN "ok" ELSE "none",
                      !.told = Told(s), !.ran = Dispatch(s, Runtime(a.runtime))]
    BY DEF Turns, w
  <2>8. p \in Replies
    BY <2>2, <2>6, <2>7 DEF Replies
  <2>9. p.told = Told(s) /\ p.ran = Dispatch(s, Runtime(a.runtime)) /\ p.pc = "turn"
    BY <2>2, <2>7 DEF Replies
  <2>10. Served(p)
    BY <2>3, <2>5, <2>9, DispatchServes
  <2>11. p.tracker = w.tracker /\ p.running = w.running /\ p.recorded = w.recorded /\ p.comment = w.comment
    BY <2>2, <2>7 DEF Replies
  <2>12. ReplyInv(p) /\ InHand(p) /\ p.comment = NoItem
    BY <1>2, <2>2, <2>8, <2>9, <2>10, <2>11 DEF ReplyInv, Same, InHand
  <2>13. Becomes(r, p)
    BY <1>5 DEF Arrive, q, s
  <2> QED BY <1>3, <2>12, <2>13
<1> QED BY <1>4, <1>5

LEMMA StepDelta == ASSUME CInv, NEW r \in Requests, Delta(r) PROVE StepOK
<1> DEFINE w == IF Emulated(ask[r]) THEN reply[r] ELSE WritesText(reply[r])
           q == [w EXCEPT !.tracker = PhaseOver(w.tracker)]
<1>1. ReplyInv(reply[r]) /\ reply[r].pc = "turn"
  BY DEF CInv, Delta, Streams
<1>2. ReplyInv(w) /\ Same(reply[r], w) /\ w.comment = reply[r].comment
  BY <1>1, WritesTextKeeps DEF Same
<1>3. Becomes(r, q) /\ UNCHANGED <<ask, kept, filed, stats>>
  BY DEF Delta
<1> HIDE DEF w
<1>4. w \in Replies /\ PhaseOver(w.tracker) \in Trackers /\ PhaseOver(w.tracker).active = NoItem
  BY <1>2, TrackerTypes DEF ReplyInv, Replies
<1>5. q \in Replies
  BY <1>4 DEF Replies
<1>6. ReplyInv(q) /\ Same(w, q) /\ q.comment = w.comment
  BY <1>2, <1>4, <1>5 DEF ReplyInv, Served, Same, Replies
<1> QED BY <1>1, <1>2, <1>3, <1>6, HandlerMoves DEF Same, InHand, CommentFrom

LEMMA StepItems == ASSUME CInv, NEW r \in Requests, ItemStarts(r) \/ ItemEnds(r) PROVE StepOK
<1>1. ReplyInv(reply[r]) /\ reply[r].pc = "turn" /\ reply[r] \in Replies
  BY DEF CInv, ItemStarts, ItemEnds, Streams, ReplyInv
<1>2. reply[r].tracker \in Trackers /\ reply[r].running \subseteq Items
  BY <1>1 DEF Replies
<1>3. ASSUME NEW t \in Trackers, NEW running \in SUBSET Items, t.active \in running \cup {NoItem},
             UNCHANGED <<ask, kept, filed, stats>>,
             Becomes(r, [reply[r] EXCEPT !.tracker = t, !.running = running])
      PROVE  StepOK
  <2> DEFINE q == [reply[r] EXCEPT !.tracker = t, !.running = running]
  <2>1. q \in Replies
    BY <1>1, <1>3 DEF Replies
  <2>2. ReplyInv(q) /\ Same(reply[r], q) /\ q.comment = reply[r].comment
    BY <1>1, <1>3, <2>1 DEF ReplyInv, Served, Same, Replies
  <2> QED BY <1>1, <1>3, <2>2, HandlerMoves DEF Same, InHand, CommentFrom
<1>4. CASE ItemStarts(r)
  <2>1. PICK i \in Items :
          Becomes(r, [reply[r] EXCEPT !.tracker = ItemStarted(reply[r].tracker, i),
                                      !.running = reply[r].running \cup {i}])
    BY <1>4 DEF ItemStarts
  <2>2. ItemStarted(reply[r].tracker, i) \in Trackers
    BY <1>2, TrackerTypes
  <2>3. ItemStarted(reply[r].tracker, i).active \in (reply[r].running \cup {i}) \cup {NoItem}
    BY <1>1, <1>2, TrackerTypes DEF ReplyInv
  <2>4. reply[r].running \cup {i} \in SUBSET Items /\ UNCHANGED <<ask, kept, filed, stats>>
    BY <1>2, <1>4 DEF ItemStarts
  <2> QED BY <1>3, <2>1, <2>2, <2>3, <2>4
<1>5. CASE ItemEnds(r)
  <2>1. PICK i \in reply[r].running \cup {NoItem} :
          Becomes(r, [reply[r] EXCEPT !.tracker = ItemCompleted(reply[r].tracker, i),
                                      !.running = reply[r].running \ {i}])
    BY <1>5 DEF ItemEnds
  <2>2. ItemCompleted(reply[r].tracker, i) \in Trackers
    BY <1>2, TrackerTypes
  <2>3. ItemCompleted(reply[r].tracker, i).active \in (reply[r].running \ {i}) \cup {NoItem}
    BY <1>1, <1>2, TrackerTypes DEF ReplyInv
  <2>4. reply[r].running \ {i} \in SUBSET Items /\ UNCHANGED <<ask, kept, filed, stats>>
    BY <1>2, <1>5 DEF ItemEnds
  <2> QED BY <1>3, <2>1, <2>2, <2>3, <2>4
<1> QED BY <1>4, <1>5

LEMMA StepKeepalive == ASSUME CInv, NEW r \in Requests, Keepalive(r) PROVE StepOK
<1>1. ReplyInv(reply[r]) /\ reply[r].pc = "turn" /\ reply[r] \in Replies
  BY DEF CInv, Keepalive, Streams, ReplyInv
<1>2. PICK late \in BOOLEAN, due \in BOOLEAN :
        LET k == KeepaliveTick(reply[r].tracker, late, due)
        IN  Becomes(r, [reply[r] EXCEPT !.tracker = k.tracker,
                                        !.comment = IF k.writes THEN k.tells ELSE reply[r].comment])
  BY DEF Keepalive
<1> DEFINE k == KeepaliveTick(reply[r].tracker, late, due)
           c == IF k.writes THEN k.tells ELSE reply[r].comment
           q == [reply[r] EXCEPT !.tracker = k.tracker, !.comment = c]
<1>3. reply[r].tracker \in Trackers /\ reply[r].tracker.active \in reply[r].running \cup {NoItem}
  BY <1>1 DEF Replies, ReplyInv
<1>4. /\ k.tracker \in Trackers /\ k.tracker.active = reply[r].tracker.active
      /\ k.tells \in reply[r].running \cup {NoItem}
  BY <1>3, TickTypes
<1>5. Becomes(r, q) /\ UNCHANGED <<ask, kept, filed, stats>>
  BY <1>2 DEF Keepalive
<1>6. /\ c \in {reply[r].comment, NoItem} \/ c \in reply[r].running
      /\ c \in Items \cup {NoItem}
  BY <1>1, <1>4 DEF Replies
<1> HIDE DEF k, c
<1>7. q \in Replies /\ q.comment = c
  BY <1>1, <1>4, <1>6 DEF Replies
<1>8. ReplyInv(q) /\ Same(reply[r], q)
  BY <1>1, <1>3, <1>4, <1>7 DEF ReplyInv, Served, Same, Replies
<1> QED BY <1>1, <1>5, <1>6, <1>7, <1>8, HandlerMoves DEF Same, InHand, CommentFrom

\* The result's counts are booked, and nothing else changes.
LEMMA WithResultIs ==
  ASSUME NEW q \in Replies, NEW counts \in Counts
  PROVE  LET p == WithResult(q, counts)
         IN  /\ p \in Replies
             /\ p.stat.completed /\ p.given = counts
             /\ q.stat.usage = "unknown" => p.stat.usage = UsageOf(counts)
             /\ p.stat.backend = q.stat.backend /\ p.stat.fallback = q.stat.fallback
             /\ p.stat.webAttempt = q.stat.webAttempt
             /\ p.pc = q.pc /\ p.head = q.head /\ p.sent = q.sent /\ p.ended = q.ended
             /\ p.flushed = q.flushed /\ p.closed = q.closed /\ p.recorded = q.recorded
             /\ p.aborted = q.aborted /\ p.told = q.told /\ p.ran = q.ran
             /\ p.tracker = q.tracker /\ p.running = q.running /\ p.comment = q.comment
<1> DEFINE usage == IF counts = "odd" THEN q.stat.usage
                    ELSE IF counts = "none" THEN "estimated" ELSE "reported"
           stat == [q.stat EXCEPT !.completed = TRUE, !.usage = usage]
           p == [q EXCEPT !.stat = stat, !.given = counts]
<1>1. CompleteStats(q.stat, Annotated(counts)) = stat
  BY DEF CompleteStats, Annotated, Counts
<1>2. WithResult(q, counts) = p
  BY <1>1 DEF WithResult
<1>3. /\ usage \in Usages
      /\ q.stat.usage = "unknown" => usage = UsageOf(counts)
  BY DEF Usages, Replies, UsageOf, Counts
<1> HIDE DEF usage
<1>4. /\ stat \in [backend : Backends, fallback : BOOLEAN, webAttempt : BOOLEAN,
                   completed : BOOLEAN, usage : Usages]
      /\ stat.completed /\ stat.usage = usage
      /\ stat.backend = q.stat.backend /\ stat.fallback = q.stat.fallback
      /\ stat.webAttempt = q.stat.webAttempt
  BY <1>3 DEF Replies
<1> HIDE DEF stat
<1>5. p \in Replies
  BY <1>4 DEF Replies
<1>6. /\ p.stat = stat /\ p.given = counts
      /\ p.pc = q.pc /\ p.head = q.head /\ p.sent = q.sent /\ p.ended = q.ended
      /\ p.flushed = q.flushed /\ p.closed = q.closed /\ p.recorded = q.recorded
      /\ p.aborted = q.aborted /\ p.told = q.told /\ p.ran = q.ran
      /\ p.tracker = q.tracker /\ p.running = q.running /\ p.comment = q.comment
  BY DEF Replies
<1> HIDE DEF p
<1> QED BY <1>2, <1>3, <1>4, <1>5, <1>6

\* A response that is ended after its turn's result.
LEMMA StepResult ==
  ASSUME CInv, NEW r \in Requests, reply[r].pc = "turn", UNCHANGED <<ask, kept, filed, stats>>,
         NEW status \in {"ok", "bad"}, NEW marks \in Seq(Marks), NEW counts \in Counts,
         Becomes(r, WithResult(Ends(reply[r], status, marks), counts))
  PROVE  StepOK
<1> DEFINE w == Ends(reply[r], status, marks)
           q == WithResult(w, counts)
<1>1. ReplyInv(reply[r]) /\ reply[r] \in Replies
  BY DEF CInv
<1>2. ReplyInv(w) /\ Same([reply[r] EXCEPT !.pc = "done"], w) /\ w.pc = "done" /\ w.comment = NoItem
  BY <1>1, EndsKeeps
<1>3. Becomes(r, q)
  OBVIOUS
<1>4. w.recorded = reply[r].recorded
  BY <1>1, <1>2 DEF Same, Replies
<1> HIDE DEF w
<1>5. w \in Replies
  BY <1>2 DEF ReplyInv
<1>6. /\ q \in Replies /\ Same(w, q) /\ q.comment = w.comment
      /\ q.tracker = w.tracker /\ q.running = w.running
  BY <1>5, WithResultIs DEF Same
<1> HIDE DEF q
<1>7. ReplyInv(q)
  BY <1>2, <1>6 DEF ReplyInv, Served, Same
<1> QED BY <1>1, <1>2, <1>3, <1>4, <1>6, <1>7, HandlerMoves DEF Same, InHand, CommentFrom

LEMMA StepSucceeds == ASSUME CInv, NEW r \in Requests, TurnSucceeds(r) PROVE StepOK
<1>1. ask[r] \in Asks /\ reply[r].pc = "turn" /\ UNCHANGED <<ask, kept, filed, stats>>
  BY AskTypes DEF TurnSucceeds
<1>2. PICK counts \in Counts, text \in BOOLEAN, named \in Named(ask[r]) :
        LET calls == Extracted(named, ask[r].tools, ask[r].choice)
        IN  Becomes(r, WithResult(Ends(reply[r], "ok", Answer(ask[r], text, calls)), counts))
  BY DEF TurnSucceeds
<1> DEFINE marks == Answer(ask[r], text, Extracted(named, ask[r].tools, ask[r].choice))
<1>3. marks \in Seq(Marks)
  BY <1>1, EndingTypes
<1>4. Becomes(r, WithResult(Ends(reply[r], "ok", marks), counts))
  BY <1>2
<1> HIDE DEF marks
<1> QED BY <1>1, <1>3, <1>4, StepResult

LEMMA BegunTypes ==
  ASSUME NEW a \in Asks, NEW begun \in Begun(a)
  PROVE  /\ begun \in Seq(Marks) /\ begun \o Failure(a) \in Seq(Marks)
         /\ begun \in {<<>>, <<"closing">>, <<"text">>}
         /\ begun = <<"text">> => a.stream /\ Emulated(a)
<1>1. <<>> \in Seq(Marks) /\ <<"closing">> \in Seq(Marks) /\ <<"text">> \in Seq(Marks)
  BY DEF Marks
<1>2. /\ begun \in {<<>>, <<"closing">>, <<"text">>}
      /\ begun = <<"text">> => a.stream /\ Emulated(a)
  BY DEF Begun
<1>3. Failure(a) \in Seq(Marks) /\ begun \in Seq(Marks)
  BY <1>1, <1>2, EndingTypes
<1>4. ASSUME NEW s \in Seq(Marks), NEW t \in Seq(Marks) PROVE s \o t \in Seq(Marks)
  OBVIOUS
<1> QED BY <1>2, <1>3, <1>4

LEMMA StepBreaks == ASSUME CInv, NEW r \in Requests, AnswerBreaks(r) PROVE StepOK
<1>1. ask[r] \in Asks /\ reply[r].pc = "turn" /\ UNCHANGED <<ask, kept, filed, stats>>
  BY AskTypes DEF AnswerBreaks
<1>2. PICK counts \in Counts, begun \in Begun(ask[r]) :
        Becomes(r, WithResult(Ends(reply[r], "bad", begun \o Failure(ask[r])), counts))
  BY DEF AnswerBreaks
<1> DEFINE marks == begun \o Failure(ask[r])
<1>3. marks \in Seq(Marks)
  BY <1>1, BegunTypes
<1>4. Becomes(r, WithResult(Ends(reply[r], "bad", marks), counts))
  BY <1>2
<1> HIDE DEF marks
<1> QED BY <1>1, <1>3, <1>4, StepResult

LEMMA StepFails == ASSUME CInv, NEW r \in Requests, TurnFails(r) PROVE StepOK
<1> DEFINE q == Ends(reply[r], "bad", Failure(ask[r]))
<1>1. ReplyInv(reply[r]) /\ reply[r].pc = "turn" /\ reply[r] \in Replies /\ ask[r] \in Asks
  BY AskTypes DEF CInv, TurnFails, ReplyInv
<1>2. Failure(ask[r]) \in Seq(Marks)
  BY <1>1, EndingTypes
<1>3. ReplyInv(q) /\ Same([reply[r] EXCEPT !.pc = "done"], q) /\ q.pc = "done" /\ q.comment = NoItem
  BY <1>1, <1>2, EndsKeeps
<1>4. Becomes(r, q) /\ UNCHANGED <<ask, kept, filed, stats>>
  BY DEF TurnFails
<1> HIDE DEF q
<1>5. q.recorded = reply[r].recorded
  BY <1>1, <1>3 DEF Same, Replies
<1> QED BY <1>1, <1>3, <1>4, <1>5, HandlerMoves DEF InHand, CommentFrom

LEMMA StepClientClosed == ASSUME CInv, NEW r \in Requests, ClientClosed(r) PROVE StepOK
<1> DEFINE q == Quiet(reply[r])
<1>1. ReplyInv(reply[r]) /\ reply[r].pc = "turn" /\ reply[r] \in Replies
  BY DEF CInv, ClientClosed, ReplyInv
<1>2. ReplyInv(q) /\ Same([reply[r] EXCEPT !.pc = "done"], q) /\ q.pc = "done" /\ q.comment = NoItem
  BY <1>1, QuietKeeps
<1>3. Becomes(r, q) /\ UNCHANGED <<ask, kept, filed, stats>>
  BY DEF ClientClosed
<1> HIDE DEF q
<1>4. q.recorded = reply[r].recorded
  BY <1>1, <1>2 DEF Same, Replies
<1> QED BY <1>1, <1>2, <1>3, <1>4, HandlerMoves DEF InHand, CommentFrom

\* What is booked is an entry of the statistics.
LEMMA EntryTypes ==
  ASSUME NEW q \in Replies, NEW cancelled
  PROVE  Entry(q, cancelled) \in Entries
<1>1. /\ q.stat.backend \in Backends /\ q.stat.fallback \in BOOLEAN
      /\ q.stat.webAttempt \in BOOLEAN /\ q.stat.usage \in Usages
  BY DEF Replies
<1>2. Outcome(q, cancelled) \in Outcomes
  BY DEF Outcome, Outcomes
<1> QED BY <1>1, <1>2 DEF Entry, Entries

\* The request is booked, and no more under way.
LEMMA StepBooks ==
  ASSUME CInv, NEW r \in Requests, NEW cancelled, Books(r, cancelled), UNCHANGED ask,
         NEW q, ReplyInv(q), Becomes(r, q), q.comment = reply[r].comment,
         InHand(reply[r]), q.recorded
  PROVE  StepOK
<1>1. Entry(reply[r], cancelled) \in Entries
  BY EntryTypes DEF CInv
<1>2. Record(Entry(reply[r], cancelled)) /\ kept' = kept \cup {r} /\ filed' = filed
  BY DEF Books
<1>3. Store'
  BY <1>1, <1>2, StoreRecord DEF CInv
<1>4. FileStep
  BY <1>2, FileStays DEF CInv, Record
<1>5. PhaseStep
  BY CommentMoves DEF CommentFrom
<1>6. IsFiniteSet(UnderWay') /\ active' = Cardinality(UnderWay')
  BY <1>2, UnderWayMoves DEF InHand, Record
<1> QED BY <1>2, <1>3, <1>4, <1>5, <1>6, UnderWayMoves DEF StepOK, CInv

LEMMA StepFinish == ASSUME CInv, NEW r \in Requests, Finish(r) PROVE StepOK
<1> DEFINE q == [reply[r] EXCEPT !.flushed = TRUE, !.recorded = TRUE]
<1>1. ReplyInv(reply[r]) /\ reply[r] \in Replies /\ reply[r].pc = "done"
  BY DEF CInv, Finish, ReplyInv
<1>2. InHand(reply[r])
  BY <1>1 DEF ReplyInv, InHand, Finish
<1>3. q \in Replies
  BY <1>1 DEF Replies
<1>4. ReplyInv(q) /\ q.comment = reply[r].comment /\ q.recorded
  BY <1>1, <1>3 DEF ReplyInv, Served, Replies
<1> QED BY <1>2, <1>4, StepBooks DEF Finish

LEMMA StepClose == ASSUME CInv, NEW r \in Requests, Close(r) PROVE StepOK
<1> DEFINE q == [reply[r] EXCEPT !.closed = TRUE, !.aborted = ~reply[r].ended, !.recorded = TRUE]
<1>1. ReplyInv(reply[r]) /\ reply[r] \in Replies /\ reply[r].pc \in {"turn", "done"}
  BY DEF CInv, Close, ReplyInv
<1>2. Becomes(r, q) /\ UNCHANGED ask
  BY DEF Close
<1>3. q \in Replies
  <2>1. (~reply[r].ended) \in BOOLEAN
    OBVIOUS
  <2> QED BY <1>1, <2>1 DEF Replies
<1>4. ReplyInv(q) /\ q.comment = reply[r].comment /\ q.recorded /\ ~InHand(q)
  BY <1>1, <1>3 DEF ReplyInv, Served, Replies, InHand
<1>5. CASE reply[r].recorded
  <2>1. ~InHand(reply[r]) /\ UNCHANGED <<kept, filed, stats>>
    BY <1>5 DEF InHand, Close
  <2> QED BY <1>2, <1>4, <2>1, HandlerMoves DEF CommentFrom
<1>6. CASE ~reply[r].recorded
  <2>1. InHand(reply[r]) /\ Books(r, ~reply[r].flushed)
    BY <1>1, <1>6 DEF InHand, Close
  <2> QED BY <1>2, <1>4, <2>1, StepBooks
<1> QED BY <1>5, <1>6

LEMMA StepSaves == ASSUME CInv, Saves PROVE StepOK
<1>1. Store' /\ FileStep
  BY StoreSaves, FileSaves DEF Saves, CInv
<1>2. active' = active /\ UNCHANGED <<ask, reply, kept>> /\ filed' \in {kept, filed}
  BY DEF Saves, SaveStep, WriteTemporary, Rename, SaveFails
<1>3. PhaseStep /\ UnderWay' = UnderWay
  BY <1>2 DEF PhaseStep, CommentFrom, UnderWay
<1> QED BY <1>1, <1>2, <1>3 DEF StepOK, CInv

\* The gateway ends, whatever became of the responses until then.
LEMMA StepGatewayEnds ==
  ASSUME CInv, NEW replies, GatewayEnds(replies),
         \A r \in Requests : replies[r] \in Replies /\ ReplyInv(replies[r]),
         \A r \in Requests : replies[r].pc = "new" => replies[r] = reply[r]
  PROVE  StepOK
<1>1. Store' /\ FileStep
  BY StoreRestart, FileStays DEF GatewayEnds, CInv, Restart, Load
<1>2. \A r \in Requests : reply[r] \in Replies /\ ReplyInv(reply[r])
  BY DEF CInv
<1>3. ASSUME NEW r \in Requests
      PROVE  LET q == [Quiet(replies[r]) EXCEPT !.pc = "lost"]
             IN  ReplyInv(q) /\ q \in Replies /\ q.comment = NoItem /\ ~InHand(q)
  <2> DEFINE w == Quiet(replies[r])
             q == [w EXCEPT !.pc = "lost"]
  <2>1. ReplyInv(w) /\ w.comment = NoItem
    BY QuietKeeps
  <2> HIDE DEF w
  <2>2. w \in Replies
    BY <2>1 DEF ReplyInv
  <2>3. q \in Replies
    BY <2>2 DEF Replies
  <2>4. ReplyInv(q) /\ q.comment = NoItem /\ ~InHand(q)
    BY <2>1, <2>2, <2>3 DEF ReplyInv, Served, InHand, Replies
  <2> QED BY <2>3, <2>4 DEF w
<1>4. \A r \in Requests :
        reply'[r] = IF replies[r].pc = "new" THEN reply[r] ELSE [Quiet(replies[r]) EXCEPT !.pc = "lost"]
  BY DEF GatewayEnds
<1>5. reply' \in [Requests -> Replies] /\ \A r \in Requests : ReplyInv(reply'[r]) /\ ~InHand(reply'[r])
  BY <1>2, <1>3, <1>4 DEF GatewayEnds, InHand
<1>6. PhaseStep
  BY <1>3, <1>4 DEF PhaseStep, CommentFrom
<1>7. UnderWay' = {} /\ active' = 0
  BY <1>5 DEF UnderWay, GatewayEnds, Restart
<1>8. IsFiniteSet(UnderWay') /\ Cardinality(UnderWay') = active'
  BY <1>7, FS_EmptySet
<1> QED BY <1>1, <1>5, <1>6, <1>8 DEF StepOK, CInv, GatewayEnds

LEMMA StepCrash == ASSUME CInv, Crash PROVE StepOK
BY StepGatewayEnds DEF Crash, CInv

\* The responses when the adapter throws at the request r.
Thrown(r) == [reply EXCEPT ![r] = Quiet(Entered(ask[r]))]

LEMMA ThrownIs ==
  ASSUME CInv, NEW r \in Requests
  PROVE  /\ \A x \in Requests : Thrown(r)[x] = IF x = r THEN Quiet(Entered(ask[r])) ELSE reply[x]
         /\ \A x \in Requests : Thrown(r)[x] \in Replies /\ ReplyInv(Thrown(r)[x])
         /\ Quiet(Entered(ask[r])).pc = "done"
<1> DEFINE q == Quiet(Entered(ask[r]))
<1>1. ReplyInv(q) /\ q.pc = "done"
  BY AskTypes, EnteredInv, QuietKeeps
<1>2. q \in Replies
  BY <1>1 DEF ReplyInv
<1> HIDE DEF q
<1>3. reply \in [Requests -> Replies] /\ \A x \in Requests : ReplyInv(reply[x])
  BY DEF CInv
<1>4. Thrown(r) = [reply EXCEPT ![r] = q]
  BY DEF Thrown, q
<1>5. \A x \in Requests : Thrown(r)[x] = IF x = r THEN q ELSE reply[x]
  BY <1>3, <1>4
<1> QED BY <1>1, <1>2, <1>3, <1>5 DEF q

LEMMA StepThrows == ASSUME CInv, NEW r \in Requests, ArrivalThrows(r) PROVE StepOK
<1>1. GatewayEnds(Thrown(r))
  BY DEF ArrivalThrows, Thrown
<1>2. /\ \A x \in Requests : Thrown(r)[x] \in Replies /\ ReplyInv(Thrown(r)[x])
      /\ \A x \in Requests : Thrown(r)[x].pc = "new" => Thrown(r)[x] = reply[x]
  BY ThrownIs
<1> QED BY <1>1, <1>2, StepGatewayEnds

LEMMA StepStutter == ASSUME CInv, UNCHANGED vars PROVE StepOK
<1>1. Store' /\ FileStep
  BY FileStays DEF CInv, vars, stats, Store, StoreTypeOK, FileInv
<1>2. PhaseStep /\ UnderWay' = UnderWay
  BY DEF PhaseStep, CommentFrom, UnderWay, vars
<1> QED BY <1>1, <1>2 DEF StepOK, CInv, vars, stats

LEMMA CNext == CInv /\ [Next]_vars => StepOK
<1> SUFFICES ASSUME CInv, [Next]_vars PROVE StepOK
  OBVIOUS
<1>1. ASSUME NEW r \in Requests, Handler(r) PROVE StepOK
  BY <1>1, StepArrive, StepDelta, StepItems, StepKeepalive, StepSucceeds, StepBreaks, StepFails,
     StepClientClosed, StepFinish, StepClose DEF Handler
<1> QED BY <1>1, StepSaves, StepCrash, StepThrows, StepStutter DEF Next

-----------------------------------------------------------------------------
(***************************************************************************)
(* What a client reads.                                                    *)
(***************************************************************************)
\* One of these marks is in what was written, and stands nowhere but at its end.
Written(sent, marks) == \E i \in DOMAIN sent : sent[i] \in marks
LastOnly(sent, marks) == \A i \in DOMAIN sent : sent[i] \in marks => i = Len(sent)

AnswerMarks == {"calls", "message", "final", "completed"}
EarlyMarks == {"open", "text"}

ClosingMarks(a, head) ==
  IF ~a.stream \/ head = "bad" THEN {"calls", "message", "error"}
  ELSE IF a.route = "chat" THEN {"done"} ELSE {"done", "error"}

\* ResponseWellFormed of one response, to a request that asks for a.
ReadsWell(a, q) ==
  /\ LastOnly(q.sent, ClosingMarks(a, q.head))
  /\ q.ended /\ q.head # "none" => q.closed \/ Written(q.sent, ClosingMarks(a, q.head))
  /\ ~(Written(q.sent, {"text"}) /\ Written(q.sent, {"calls"}))
  /\ ~(Written(q.sent, {"error"}) /\ Written(q.sent, AnswerMarks))
  /\ ~a.stream /\ q.head = "ok" => Written(q.sent, AnswerMarks)

\* While its turn runs, a stream has its status and no more than text, and none where
\* calls may be in it; a response that is collected has nothing.
Midway(a, q) ==
  /\ ~q.ended /\ ~q.flushed /\ (q.aborted <=> q.closed) /\ q.given = "nothing"
  /\ q.head = IF a.stream THEN "ok" ELSE "none"
  /\ ~Written(q.sent, Marks \ EarlyMarks)
  /\ Written(q.sent, {"text"}) => a.stream /\ ~Emulated(a)

\* The response came to what its caller takes for an answer, or broke off after its
\* turn's result.
CameTo(a, q) ==
  \/ Written(q.sent, AnswerMarks)
  \/ a.stream /\ q.given # "nothing" /\ Written(q.sent, {"error"})

\* What will be booked says what was written, and what the turn gave.
CountsTrue(a, q) ==
  /\ q.stat.completed /\ q.head # "bad" <=> CameTo(a, q)
  /\ q.stat.completed <=> q.given # "nothing"
  /\ q.stat.usage = UsageOf(q.given)
  /\ q.stat.backend = IF a.via = "unparsed" THEN "unrouted" ELSE "codex"
  /\ q.stat.fallback <=> a.via \in {"declined", "tried"}
  /\ q.stat.webAttempt <=> a.via = "tried"
  /\ q.recorded <=> q.flushed \/ q.closed

PageInv(a, q) ==
  /\ q.pc = "new" => q = NewReply
  /\ q.pc # "new" => ReadsWell(a, q) /\ CountsTrue(a, q)
  /\ q.pc = "turn" => Midway(a, q)

\* Writing more marks after others.
LEMMA WrittenMore ==
  ASSUME NEW s \in Seq(Marks), NEW t \in Seq(Marks), NEW marks
  PROVE  Written(s \o t, marks) <=> Written(s, marks) \/ Written(t, marks)
<1>1. /\ s \o t \in Seq(Marks) /\ Len(s \o t) = Len(s) + Len(t)
      /\ Len(s) \in Nat /\ Len(t) \in Nat
      /\ DOMAIN s = 1 .. Len(s) /\ DOMAIN t = 1 .. Len(t) /\ DOMAIN (s \o t) = 1 .. Len(s \o t)
  OBVIOUS
<1>2. \A i \in 1 .. Len(s \o t) : (s \o t)[i] = IF i <= Len(s) THEN s[i] ELSE t[i - Len(s)]
  OBVIOUS
<1>3. ASSUME Written(s \o t, marks) PROVE Written(s, marks) \/ Written(t, marks)
  <2>1. PICK i \in 1 .. Len(s \o t) : (s \o t)[i] \in marks
    BY <1>1, <1>3 DEF Written
  <2>2. CASE i <= Len(s)
    BY <1>1, <1>2, <2>1, <2>2 DEF Written
  <2>3. CASE i > Len(s)
    <3>1. i - Len(s) \in 1 .. Len(t) /\ t[i - Len(s)] \in marks
      BY <1>1, <1>2, <2>1, <2>3
    <3> QED BY <1>1, <3>1 DEF Written
  <2> QED BY <1>1, <2>1, <2>2, <2>3
<1>4. ASSUME Written(s, marks) PROVE Written(s \o t, marks)
  <2>1. PICK i \in 1 .. Len(s) : s[i] \in marks
    BY <1>1, <1>4 DEF Written
  <2>2. i \in 1 .. Len(s \o t) /\ (s \o t)[i] \in marks
    BY <1>1, <1>2, <2>1
  <2> QED BY <1>1, <2>2 DEF Written
<1>5. ASSUME Written(t, marks) PROVE Written(s \o t, marks)
  <2>1. PICK i \in 1 .. Len(t) : t[i] \in marks
    BY <1>1, <1>5 DEF Written
  <2>2. i + Len(s) \in 1 .. Len(s \o t) /\ (s \o t)[i + Len(s)] \in marks
    BY <1>1, <1>2, <2>1
  <2> QED BY <1>1, <2>2 DEF Written
<1> QED BY <1>3, <1>4, <1>5

LEMMA LastOnlyMore ==
  ASSUME NEW s \in Seq(Marks), NEW t \in Seq(Marks), NEW marks,
         ~Written(s, marks), LastOnly(t, marks)
  PROVE  LastOnly(s \o t, marks)
<1>1. /\ s \o t \in Seq(Marks) /\ Len(s \o t) = Len(s) + Len(t)
      /\ Len(s) \in Nat /\ Len(t) \in Nat
      /\ DOMAIN s = 1 .. Len(s) /\ DOMAIN t = 1 .. Len(t) /\ DOMAIN (s \o t) = 1 .. Len(s \o t)
  OBVIOUS
<1>2. \A i \in 1 .. Len(s \o t) : (s \o t)[i] = IF i <= Len(s) THEN s[i] ELSE t[i - Len(s)]
  OBVIOUS
<1> SUFFICES ASSUME NEW i \in 1 .. Len(s \o t), (s \o t)[i] \in marks PROVE i = Len(s \o t)
  BY <1>1 DEF LastOnly
<1>3. i > Len(s)
  BY <1>1, <1>2 DEF Written
<1>4. i - Len(s) \in 1 .. Len(t) /\ t[i - Len(s)] \in marks
  BY <1>1, <1>2, <1>3
<1>5. i - Len(s) = Len(t)
  BY <1>1, <1>4 DEF LastOnly
<1> QED BY <1>1, <1>5

LEMMA WrittenWider ==
  ASSUME NEW s, NEW marks, NEW wider, marks \subseteq wider, Written(s, marks)
  PROVE  Written(s, wider)
BY DEF Written

LEMMA WrittenNone ==
  ASSUME NEW s, NEW marks, ~Written(s, marks)
  PROVE  LastOnly(s, marks)
BY DEF Written, LastOnly

\* The end of an answer, and that of a failure, close the response of a handler that has
\* its status.
AnswerCloses(a, marks) ==
  /\ marks \in Seq(Marks)
  /\ LastOnly(marks, ClosingMarks(a, "ok")) /\ Written(marks, ClosingMarks(a, "ok"))
  /\ Written(marks, AnswerMarks) /\ ~Written(marks, {"error"})
  /\ ~(Written(marks, {"text"}) /\ Written(marks, {"calls"}))
  /\ Written(marks, {"calls"}) /\ a.stream => Emulated(a)
  /\ Written(marks, {"text"}) => a.stream

FailureCloses(a, marks) ==
  LET head == IF a.stream THEN "ok" ELSE "bad"
  IN  /\ marks \in Seq(Marks)
      /\ LastOnly(marks, ClosingMarks(a, head)) /\ Written(marks, ClosingMarks(a, head))
      /\ ~Written(marks, AnswerMarks \cup {"text"})

\* The marks of a sequence of one, two or three.
LEMMA WrittenOne ==
  ASSUME NEW x, NEW s, s = <<x>>
  PROVE  \A S : (Written(s, S) <=> x \in S) /\ LastOnly(s, S)
<1>1. DOMAIN s = {1} /\ Len(s) = 1 /\ s[1] = x
  OBVIOUS
<1> QED BY <1>1 DEF Written, LastOnly

LEMMA WrittenTwo ==
  ASSUME NEW x, NEW y, NEW s, s = <<x, y>>
  PROVE  \A S : /\ Written(s, S) <=> x \in S \/ y \in S
                /\ x \notin S => LastOnly(s, S)
<1>1. DOMAIN s = {1, 2} /\ Len(s) = 2 /\ s[1] = x /\ s[2] = y
  OBVIOUS
<1> QED BY <1>1 DEF Written, LastOnly

LEMMA WrittenThree ==
  ASSUME NEW x, NEW y, NEW z, NEW s, s = <<x, y, z>>
  PROVE  \A S : /\ Written(s, S) <=> x \in S \/ y \in S \/ z \in S
                /\ x \notin S /\ y \notin S => LastOnly(s, S)
<1>1. DOMAIN s = {1, 2, 3} /\ Len(s) = 3 /\ s[1] = x /\ s[2] = y /\ s[3] = z
  OBVIOUS
<1> QED BY <1>1 DEF Written, LastOnly

LEMMA AnswerEnds ==
  ASSUME NEW a \in Asks, NEW text \in BOOLEAN, NEW calls,
         calls # <<>> => Emulates(a.tools, a.choice),
         NEW marks, marks = Answer(a, text, calls)
  PROVE  AnswerCloses(a, marks)
<1>1. marks \in Seq(Marks)
  BY EndingTypes
<1>2. calls # <<>> => Emulates(a.tools, a.choice)
  OBVIOUS
<1>3. a.stream \in BOOLEAN /\ a.route \in {"chat", "responses"}
  BY DEF Asks
<1>4. CASE ~a.stream
  <2>1. PICK x \in {"calls", "message"} : marks = <<x>>
    BY <1>4 DEF Answer, CollectedEnding
  <2>2. ClosingMarks(a, "ok") = {"calls", "message", "error"}
    BY <1>4 DEF ClosingMarks
  <2>3. \A S : (Written(marks, S) <=> x \in S) /\ LastOnly(marks, S)
    BY <2>1, WrittenOne, WrittenTwo, WrittenThree
  <2> QED BY <1>1, <1>4, <2>2, <2>3 DEF AnswerCloses, AnswerMarks
<1>5. CASE a.stream /\ a.route = "responses"
  <2>1. marks = <<"closing", "completed", "done">>
    BY <1>5 DEF Answer, ResponsesEnding
  <2>2. ClosingMarks(a, "ok") = {"done", "error"}
    BY <1>5 DEF ClosingMarks
  <2>3. \A S : /\ Written(marks, S) <=> "closing" \in S \/ "completed" \in S \/ "done" \in S
               /\ "closing" \notin S /\ "completed" \notin S => LastOnly(marks, S)
    BY <2>1, WrittenOne, WrittenTwo, WrittenThree
  <2>4. LastOnly(marks, {"done", "error"}) /\ Written(marks, {"done", "error"})
    BY <2>3
  <2>5. Written(marks, AnswerMarks) /\ ~Written(marks, {"error"})
    BY <2>3 DEF AnswerMarks
  <2>6. ~Written(marks, {"text"}) /\ ~Written(marks, {"calls"})
    BY <2>3
  <2> QED BY <1>1, <2>2, <2>4, <2>5, <2>6 DEF AnswerCloses
<1>6. CASE a.stream /\ a.route = "chat"
  <2>1. ClosingMarks(a, "ok") = {"done"}
    BY <1>6 DEF ClosingMarks
  <2>2. marks = ChatEnding(a, text, calls)
    BY <1>6 DEF Answer
  <2>3. ASSUME marks = <<"calls", "done">>, Emulated(a) PROVE AnswerCloses(a, marks)
    <3>1. \A S : /\ Written(marks, S) <=> "calls" \in S \/ "done" \in S
                 /\ "calls" \notin S => LastOnly(marks, S)
      BY <2>3, WrittenOne, WrittenTwo, WrittenThree
    <3>2. Written(marks, {"done"}) /\ LastOnly(marks, {"done"})
      BY <3>1
    <3>3. Written(marks, AnswerMarks) /\ ~Written(marks, {"error"}) /\ ~Written(marks, {"text"})
      BY <3>1 DEF AnswerMarks
    <3> QED BY <1>1, <2>1, <2>3, <3>2, <3>3 DEF AnswerCloses
  <2>4. ASSUME marks = <<"final", "done">> PROVE AnswerCloses(a, marks)
    <3>1. \A S : /\ Written(marks, S) <=> "final" \in S \/ "done" \in S
                 /\ "final" \notin S => LastOnly(marks, S)
      BY <2>4, WrittenOne, WrittenTwo, WrittenThree
    <3>2. Written(marks, {"done"}) /\ LastOnly(marks, {"done"})
      BY <3>1
    <3>3. Written(marks, AnswerMarks) /\ ~Written(marks, {"error"})
      BY <3>1 DEF AnswerMarks
    <3>4. ~Written(marks, {"text"}) /\ ~Written(marks, {"calls"})
      BY <3>1
    <3> QED BY <1>1, <2>1, <3>2, <3>3, <3>4 DEF AnswerCloses
  <2>5. ASSUME marks = <<"text">> \o <<"final", "done">> PROVE AnswerCloses(a, marks)
    <3> DEFINE s == <<"text">>
               t == <<"final", "done">>
    <3>1. s \in Seq(Marks) /\ t \in Seq(Marks)
      BY DEF Marks
    <3>2. \A S : /\ Written(s, S) <=> "text" \in S
                 /\ Written(t, S) <=> "final" \in S \/ "done" \in S
                 /\ "final" \notin S => LastOnly(t, S)
      BY WrittenOne, WrittenTwo, WrittenThree
    <3> HIDE DEF s, t
    <3>3. marks = s \o t
      BY <2>5 DEF s, t
    <3>4. \A S : Written(marks, S) <=> "text" \in S \/ "final" \in S \/ "done" \in S
      BY <3>1, <3>2, <3>3, WrittenMore
    <3>5. ~Written(s, {"done"}) /\ LastOnly(t, {"done"})
      BY <3>2
    <3>6. Written(marks, {"done"}) /\ LastOnly(marks, {"done"})
      BY <3>1, <3>3, <3>4, <3>5, LastOnlyMore
    <3>7. Written(marks, AnswerMarks) /\ ~Written(marks, {"error"}) /\ ~Written(marks, {"calls"})
      BY <3>4 DEF AnswerMarks
    <3> QED BY <1>1, <1>6, <2>1, <3>6, <3>7 DEF AnswerCloses
  <2>6. CASE calls # <<>>
    <3>1. marks = <<"calls", "done">> /\ Emulated(a)
      BY <1>2, <1>6, <2>2, <2>6 DEF ChatEnding, Emulated
    <3> QED BY <2>3, <3>1
  <2>7. CASE calls = <<>> /\ ~(Emulated(a) /\ text)
    <3>1. <<>> \o <<"final", "done">> = <<"final", "done">>
      OBVIOUS
    <3>2. marks = <<"final", "done">>
      BY <2>2, <2>7, <3>1 DEF ChatEnding
    <3> QED BY <2>4, <3>2
  <2>8. CASE calls = <<>> /\ Emulated(a) /\ text
    <3>1. marks = <<"text">> \o <<"final", "done">>
      BY <2>2, <2>8 DEF ChatEnding
    <3> QED BY <2>5, <3>1
  <2> QED BY <2>6, <2>7, <2>8
<1> QED BY <1>3, <1>4, <1>5, <1>6

LEMMA FailureEnds ==
  ASSUME NEW a \in Asks
  PROVE  FailureCloses(a, Failure(a))
<1> DEFINE marks == Failure(a)
           head == IF a.stream THEN "ok" ELSE "bad"
<1>1. marks \in Seq(Marks)
  BY EndingTypes
<1>2. a.stream \in BOOLEAN /\ a.route \in {"chat", "responses"}
  BY DEF Asks
<1>3. CASE a.stream /\ a.route = "chat"
  <2>1. marks = <<"error", "done">> /\ ClosingMarks(a, head) = {"done"}
    BY <1>3 DEF Failure, ClosingMarks
  <2> HIDE DEF marks, head
  <2>2. \A S : (Written(marks, S) <=> "error" \in S \/ "done" \in S) /\ ("error" \notin S => LastOnly(marks, S))
    BY <2>1, WrittenOne, WrittenTwo, WrittenThree
  <2>3. LastOnly(marks, {"done"}) /\ Written(marks, {"done"}) /\ ~Written(marks, AnswerMarks \cup {"text"})
    BY <2>2 DEF AnswerMarks
  <2> QED BY <1>1, <2>1, <2>3 DEF FailureCloses, marks, head
<1>4. CASE ~(a.stream /\ a.route = "chat")
  <2>1. marks = <<"error">> /\ "error" \in ClosingMarks(a, head)
    BY <1>2, <1>4 DEF Failure, ClosingMarks
  <2> HIDE DEF marks, head
  <2>2. \A S : (Written(marks, S) <=> "error" \in S) /\ LastOnly(marks, S)
    BY <2>1, WrittenOne, WrittenTwo, WrittenThree
  <2>3. ~Written(marks, AnswerMarks \cup {"text"})
    BY <2>2 DEF AnswerMarks
  <2> QED BY <1>1, <2>1, <2>2, <2>3 DEF FailureCloses, marks, head
<1> QED BY <1>3, <1>4

-----------------------------------------------------------------------------
(***************************************************************************)
(* Counting.                                                               *)
(***************************************************************************)
\* TalliedDay, of any requests rs whose members count as what F says.
Marked(rs, F, k) == {p \in UNION {{r} \X F[r] : r \in rs} : p[2] = k}
TallyOf(rs, F) == [k \in Counters |-> Cardinality(Marked(rs, F, k))]

LEMMA MarkedGrows ==
  ASSUME NEW rs, NEW r, r \notin rs, NEW F, NEW k
  PROVE  /\ k \in F[r] => Marked(rs \cup {r}, F, k) = Marked(rs, F, k) \cup {<<r, k>>}
         /\ k \notin F[r] => Marked(rs \cup {r}, F, k) = Marked(rs, F, k)
         /\ <<r, k>> \notin Marked(rs, F, k)
<1>1. ASSUME NEW S, NEW p
      PROVE  p \in Marked(S, F, k) <=> \E x \in S : p = <<x, k>> /\ k \in F[x]
  BY DEF Marked
<1>2. \A p : p \in Marked(rs \cup {r}, F, k) <=> p \in Marked(rs, F, k) \/ (p = <<r, k>> /\ k \in F[r])
  BY <1>1
<1>3. <<r, k>> \notin Marked(rs, F, k)
  BY <1>1
<1> QED BY <1>2, <1>3

LEMMA MarkedSame ==
  ASSUME NEW rs, NEW F, NEW G, \A r \in rs : F[r] = G[r], NEW k
  PROVE  Marked(rs, F, k) = Marked(rs, G, k)
BY DEF Marked

LEMMA MarkedSubset ==
  ASSUME NEW rs, NEW all, rs \subseteq all, NEW F, NEW k, IsFiniteSet(Marked(all, F, k))
  PROVE  /\ Marked(rs, F, k) \subseteq Marked(all, F, k) /\ IsFiniteSet(Marked(rs, F, k))
<1>1. Marked(rs, F, k) \subseteq Marked(all, F, k)
  BY DEF Marked
<1> QED BY <1>1, FS_Subset

\* One request more adds one to what it counts as.
LEMMA TallyGrows ==
  ASSUME NEW rs, NEW r, r \notin rs, NEW F, NEW e, Counted(e) = F[r],
         \A k \in Counters : IsFiniteSet(Marked(rs, F, k))
  PROVE  /\ \A k \in Counters : IsFiniteSet(Marked(rs \cup {r}, F, k))
         /\ TallyOf(rs \cup {r}, F) = Increment(TallyOf(rs, F), e)
<1>1. ASSUME NEW k \in Counters
      PROVE  /\ IsFiniteSet(Marked(rs \cup {r}, F, k))
             /\ Cardinality(Marked(rs \cup {r}, F, k)) =
                  IF k \in F[r] THEN Cardinality(Marked(rs, F, k)) + 1 ELSE Cardinality(Marked(rs, F, k))
  <2> DEFINE S == Marked(rs, F, k)
             T == Marked(rs \cup {r}, F, k)
  <2>1. /\ k \in F[r] => T = S \cup {<<r, k>>}
        /\ k \notin F[r] => T = S
        /\ <<r, k>> \notin S
    BY MarkedGrows
  <2>2. IsFiniteSet(S)
    OBVIOUS
  <2> HIDE DEF S, T
  <2>3. IsFiniteSet(S \cup {<<r, k>>}) /\ Cardinality(S \cup {<<r, k>>}) = Cardinality(S) + 1
    BY <2>1, <2>2, FS_AddElement
  <2>4. IsFiniteSet(T) /\ Cardinality(T) = IF k \in F[r] THEN Cardinality(S) + 1 ELSE Cardinality(S)
    BY <2>1, <2>2, <2>3
  <2> QED BY <2>4 DEF S, T
<1>2. \A k \in Counters : TallyOf(rs, F)[k] = Cardinality(Marked(rs, F, k))
  BY DEF TallyOf
<1>3. TallyOf(rs \cup {r}, F) = [k \in Counters |-> Cardinality(Marked(rs \cup {r}, F, k))]
  BY DEF TallyOf
<1> QED BY <1>1, <1>2, <1>3 DEF Increment

\* A day of these requests, which are of the backends that B says.
DayOf(rs, F, B) ==
  [totals |-> TallyOf(rs, F),
   backends |-> [b \in Backends |-> TallyOf({x \in rs : B[x] = b}, F)]]

LEMMA DaySame ==
  ASSUME NEW rs, NEW F, NEW G, \A r \in rs : F[r] = G[r], NEW B
  PROVE  DayOf(rs, F, B) = DayOf(rs, G, B)
<1>1. ASSUME NEW S \in SUBSET rs PROVE TallyOf(S, F) = TallyOf(S, G)
  <2>1. \A k : Marked(S, F, k) = Marked(S, G, k)
    BY MarkedSame
  <2> QED BY <2>1 DEF TallyOf
<1>2. \A b \in Backends : TallyOf({x \in rs : B[x] = b}, F) = TallyOf({x \in rs : B[x] = b}, G)
  BY <1>1
<1> QED BY <1>1, <1>2 DEF DayOf

\* record: what it does to the counters is to count one request more.
LEMMA DayGrows ==
  ASSUME NEW rs, NEW r, r \notin rs, NEW F, NEW B, NEW e \in Entries,
         \A k \in Counters : IsFiniteSet(Marked(rs, F, k)),
         Counted(e) = F[r], B[r] = e.backend
  PROVE  DayOf(rs \cup {r}, F, B) = Recorded(DayOf(rs, F, B), e)
<1> DEFINE Of(b) == {x \in rs : B[x] = b}
           New(b) == {x \in rs \cup {r} : B[x] = b}
<1>1. ASSUME NEW S \in SUBSET rs PROVE TallyOf(S \cup {r}, F) = Increment(TallyOf(S, F), e)
  <2>1. \A k \in Counters : IsFiniteSet(Marked(S, F, k))
    BY MarkedSubset
  <2>2. r \notin S
    OBVIOUS
  <2> QED BY <2>1, <2>2, TallyGrows
<1>2. ASSUME NEW b \in Backends
      PROVE  TallyOf(New(b), F) =
               IF b = e.backend THEN Increment(TallyOf(Of(b), F), e) ELSE TallyOf(Of(b), F)
  <2>1. New(b) = IF b = e.backend THEN Of(b) \cup {r} ELSE Of(b)
    OBVIOUS
  <2>2. Of(b) \in SUBSET rs
    OBVIOUS
  <2> HIDE DEF Of, New
  <2> QED BY <1>1, <2>1, <2>2
<1>3. TallyOf(rs \cup {r}, F) = Increment(TallyOf(rs, F), e)
  BY <1>1
<1> DEFINE old == [b \in Backends |-> TallyOf(Of(b), F)]
           new == [b \in Backends |-> TallyOf(New(b), F)]
<1>4. new = [old EXCEPT ![e.backend] = Increment(old[e.backend], e)]
  <2> HIDE DEF Of, New
  <2> QED BY <1>2
<1>5. DayOf(rs \cup {r}, F, B) = [totals |-> TallyOf(rs \cup {r}, F), backends |-> new]
  BY DEF DayOf
<1>6. DayOf(rs, F, B) = [totals |-> TallyOf(rs, F), backends |-> old]
  BY DEF DayOf
<1> HIDE DEF old, new
<1> QED BY <1>3, <1>4, <1>5, <1>6 DEF Recorded

\* The same counts of a part are those of the whole.
LEMMA PartIsWhole ==
  ASSUME NEW rs, NEW all, rs \subseteq all, NEW F, NEW k,
         \A r \in all : k \in F[r], IsFiniteSet(Marked(all, F, k)),
         Cardinality(Marked(rs, F, k)) = Cardinality(Marked(all, F, k))
  PROVE  rs = all
<1>1. Marked(rs, F, k) \subseteq Marked(all, F, k)
  BY MarkedSubset
<1>2. Marked(rs, F, k) = Marked(all, F, k)
  BY <1>1, FS_Subset
<1>3. ASSUME NEW r \in all PROVE r \in rs
  <2>1. <<r, k>> \in Marked(all, F, k)
    BY DEF Marked
  <2>2. <<r, k>> \in Marked(rs, F, k)
    BY <1>2, <2>1
  <2> QED BY <2>2 DEF Marked
<1> QED BY <1>3

-----------------------------------------------------------------------------
(***************************************************************************)
(* What a client reads, step by step.                                      *)
(***************************************************************************)
\* What a request was booked as stays so.
Fixed(q, p) ==
  q.recorded => /\ p.recorded /\ p.sent = q.sent /\ p.stat = q.stat /\ p.given = q.given
                /\ p.flushed = q.flushed

\* The response is the same, to its reader and to the books.
SameBut(q, p) ==
  /\ p.sent = q.sent /\ p.head = q.head /\ p.ended = q.ended /\ p.stat = q.stat /\ p.given = q.given
  /\ p.flushed = q.flushed /\ p.closed = q.closed /\ p.recorded = q.recorded

LEMMA SameReads ==
  ASSUME NEW a, NEW q, NEW p, PageInv(a, q), q.pc # "new", SameBut(q, p),
         \/ p.pc = q.pc /\ p.aborted = q.aborted
         \/ p.pc \in {"done", "lost"}
  PROVE  PageInv(a, p) /\ Fixed(q, p)
<1>1. ReadsWell(a, q) /\ CountsTrue(a, q)
  BY DEF PageInv
<1>2. ReadsWell(a, p)
  BY <1>1 DEF SameBut, ReadsWell
<1>3. CountsTrue(a, p)
  BY <1>1 DEF SameBut, CountsTrue, CameTo
<1>4. p.pc = "turn" => Midway(a, p)
  BY DEF PageInv, SameBut, Midway
<1>5. Fixed(q, p)
  BY DEF SameBut, Fixed
<1>6. p.pc # "new"
  OBVIOUS
<1> QED BY <1>2, <1>3, <1>4, <1>5, <1>6 DEF PageInv

LEMMA QuietSame ==
  ASSUME NEW q \in Replies
  PROVE  SameBut(q, Quiet(q)) /\ Quiet(q).pc = "done" /\ Quiet(q) \in Replies
<1>1. q.tracker \in Trackers
  BY DEF Replies
<1>2. Detached(q.tracker) \in Trackers
  BY <1>1, TrackerTypes
<1>3. Quiet(q) \in Replies
  BY <1>2 DEF Quiet, Replies
<1> QED BY <1>3 DEF Quiet, SameBut, Replies

\* A handler ends a response.
EndedAs(q, p, status, marks) ==
  /\ p \in Replies
  /\ p.pc = "done" /\ p.ended /\ p.stat = q.stat /\ p.given = q.given
  /\ p.sent = IF q.closed THEN q.sent ELSE q.sent \o marks
  /\ p.head = IF q.head = "none" /\ ~q.closed THEN status ELSE q.head
  /\ p.flushed = q.flushed /\ p.closed = q.closed /\ p.recorded = q.recorded

LEMMA EndsAs ==
  ASSUME NEW q \in Replies, NEW status \in {"ok", "bad"}, NEW marks \in Seq(Marks)
  PROVE  EndedAs(q, Ends(q, status, marks), status, marks)
<1> DEFINE sent == IF q.closed THEN q.sent ELSE q.sent \o marks
           w == [q EXCEPT !.sent = sent]
           head == IF q.head = "none" /\ ~q.closed THEN status ELSE q.head
<1>1. q.sent \in Seq(Marks) /\ q.head \in {"none", "ok", "bad"}
  BY DEF Replies
<1>2. sent \in Seq(Marks) /\ head \in {"none", "ok", "bad"}
  BY <1>1
<1>3. Writes(q, marks) = w
  BY DEF Writes
<1> HIDE DEF sent
<1>4. w \in Replies /\ SameBut([q EXCEPT !.sent = sent], w) /\ w.sent = sent /\ w.head = q.head
  BY <1>2 DEF Replies, SameBut
<1>5. /\ w.stat = q.stat /\ w.given = q.given /\ w.flushed = q.flushed /\ w.closed = q.closed /\ w.recorded = q.recorded
  BY <1>2 DEF Replies
<1> HIDE DEF w
<1>6. SameBut(w, Quiet(w)) /\ Quiet(w).pc = "done" /\ Quiet(w) \in Replies
  BY <1>4, QuietSame
<1> DEFINE z == Quiet(w)
<1>7. Ends(q, status, marks) = [z EXCEPT !.ended = TRUE, !.head = IF z.head = "none" /\ ~q.closed THEN status ELSE z.head]
  BY <1>3 DEF Ends
<1> HIDE DEF z
<1>8. z.head = q.head /\ z \in Replies /\ z.pc = "done"
  BY <1>4, <1>6 DEF SameBut, z
<1>9. Ends(q, status, marks) = [z EXCEPT !.ended = TRUE, !.head = head]
  BY <1>7, <1>8
<1> HIDE DEF head
<1>10. LET p == [z EXCEPT !.ended = TRUE, !.head = head]
       IN  p \in Replies /\ p.pc = "done" /\ p.ended /\ p.head = head /\ p.sent = z.sent /\ p.stat = z.stat /\ p.given = z.given
           /\ p.flushed = z.flushed /\ p.closed = z.closed /\ p.recorded = z.recorded
  BY <1>2, <1>8 DEF Replies
<1>11. z.sent = sent /\ z.stat = q.stat /\ z.given = q.given /\ z.flushed = q.flushed /\ z.closed = q.closed /\ z.recorded = q.recorded
  BY <1>4, <1>5, <1>6 DEF SameBut, z
<1> QED BY <1>9, <1>10, <1>11 DEF EndedAs, sent, head

\* In the middle of a response, nothing that closes it is written.
LEMMA MidwayOpen ==
  ASSUME NEW a, NEW q, Midway(a, q)
  PROVE  /\ ~Written(q.sent, AnswerMarks) /\ ~Written(q.sent, {"error"}) /\ ~Written(q.sent, {"calls"})
         /\ \A head : ~Written(q.sent, ClosingMarks(a, head))
<1>1. /\ AnswerMarks \subseteq Marks \ EarlyMarks
      /\ {"error"} \subseteq Marks \ EarlyMarks /\ {"calls"} \subseteq Marks \ EarlyMarks
      /\ \A head : ClosingMarks(a, head) \subseteq Marks \ EarlyMarks
  BY DEF AnswerMarks, Marks, EarlyMarks, ClosingMarks
<1>2. ~Written(q.sent, Marks \ EarlyMarks)
  BY DEF Midway
<1> QED BY <1>1, <1>2, WrittenWider

LEMMA MidwayReads ==
  ASSUME NEW a, NEW q, Midway(a, q)
  PROVE  ReadsWell(a, q)
<1>1. /\ ~Written(q.sent, AnswerMarks) /\ ~Written(q.sent, {"error"}) /\ ~Written(q.sent, {"calls"})
      /\ \A head : ~Written(q.sent, ClosingMarks(a, head))
  BY MidwayOpen
<1>2. LastOnly(q.sent, ClosingMarks(a, q.head))
  BY <1>1, WrittenNone
<1>3. ~a.stream => q.head # "ok"
  BY DEF Midway
<1>4. ~q.ended
  BY DEF Midway
<1> QED BY <1>1, <1>2, <1>3, <1>4 DEF ReadsWell

\* What a request is booked as when it comes.
Fresh(a, q) ==
  /\ q.stat.backend = IF a.via = "unparsed" THEN "unrouted" ELSE "codex"
  /\ q.stat.fallback <=> a.via \in {"declined", "tried"}
  /\ q.stat.webAttempt <=> a.via = "tried"
  /\ ~q.stat.completed /\ q.stat.usage = "unknown" /\ q.given = "nothing"
  /\ ~q.recorded /\ ~q.flushed /\ ~q.closed

LEMMA EnteredFresh ==
  ASSUME NEW a \in Asks
  PROVE  /\ Entered(a) \in Replies /\ Fresh(a, Entered(a))
         /\ Entered(a).sent = <<>> /\ Entered(a).head = "none"
         /\ ~Entered(a).aborted /\ ~Entered(a).ended
<1>1. Fresh(a, Entered(a))
  BY DEF Entered, NewReply, Fresh
<1> QED BY <1>1, EnteredInv DEF Entered, NewReply

\* Before its turn's result, what has no answer has nothing to count.
LEMMA FreshCounts ==
  ASSUME NEW a, NEW q, Fresh(a, q), ~Written(q.sent, AnswerMarks)
  PROVE  CountsTrue(a, q)
BY DEF Fresh, CountsTrue, CameTo, UsageOf

\* A step of a handler does to the response of r what keeps the invariant.
Moves(r) == \E q : Becomes(r, q) /\ PageInv(ask[r], q) /\ Fixed(reply[r], q)

LEMMA ReadArrive == ASSUME CInv, NEW r \in Requests, PageInv(ask[r], reply[r]), Arrive(r) PROVE Moves(r)
<1> DEFINE a == ask[r]
           s == Resolve(a.header, a.body)
           q == Entered(a)
           bad == a.via = "unparsed" \/ a.input = "missing" \/ s.kind = "invalid"
<1>1. a \in Asks /\ a.stream \in BOOLEAN
  BY AskTypes DEF Asks
<1>2. /\ q \in Replies /\ Fresh(a, q) /\ q.sent = <<>> /\ q.head = "none"
      /\ ~q.aborted /\ ~q.ended
  BY <1>1, EnteredFresh
<1>3. ~reply[r].recorded
  BY DEF Arrive, CInv, ReplyInv
<1> HIDE DEF q
<1>4. \A S : ~Written(<<>>, S)
  BY DEF Written
<1>5. <<>> \in Seq(Marks) /\ <<"error">> \in Seq(Marks) /\ <<"open">> \in Seq(Marks)
  BY DEF Marks
<1>6. CASE bad
  <2> DEFINE p == Ends(q, "bad", <<"error">>)
  <2>1. EndedAs(q, p, "bad", <<"error">>)
    BY <1>2, <1>5, EndsAs
  <2>2. Becomes(r, p)
    BY <1>6 DEF Arrive, q
  <2> HIDE DEF p
  <2>3. p.sent = <<>> \o <<"error">> /\ p.head = "bad" /\ p.pc = "done"
    BY <1>2, <2>1 DEF EndedAs, Fresh
  <2>4. p.sent = <<"error">>
    BY <2>3
  <2>5. \A S : (Written(p.sent, S) <=> "error" \in S) /\ LastOnly(p.sent, S)
    BY <2>4, WrittenOne
  <2>6. ReadsWell(a, p)
    <3>1. ClosingMarks(a, p.head) = {"calls", "message", "error"}
      BY <2>3 DEF ClosingMarks
    <3>2. ~Written(p.sent, AnswerMarks)
      BY <2>5 DEF AnswerMarks
    <3> QED BY <2>3, <2>5, <3>1, <3>2 DEF ReadsWell
  <2>7. CountsTrue(a, p)
    <3>1. ~Written(p.sent, AnswerMarks)
      BY <2>5 DEF AnswerMarks
    <3>2. Fresh(a, p)
      BY <1>2, <2>1 DEF Fresh, EndedAs
    <3> QED BY <3>1, <3>2, FreshCounts
  <2> QED BY <1>3, <2>2, <2>3, <2>6, <2>7 DEF Moves, PageInv, Fixed
<1>7. CASE ~bad
  <2> DEFINE marks == IF a.stream THEN <<"open">> ELSE <<>>
             w == Writes(q, marks)
             p == Turns(q, a, s)
             told == Told(s)
             ran == Dispatch(s, Runtime(a.runtime))
  <2>1. Becomes(r, p)
    BY <1>7 DEF Arrive, q
  <2>2. marks \in Seq(Marks)
    BY <1>5
  <2> HIDE DEF marks, told, ran, s
  <2>3. w = [q EXCEPT !.sent = <<>> \o marks]
    BY <1>2 DEF Writes, Fresh
  <2>4. p = [w EXCEPT !.pc = "turn", !.head = IF a.stream THEN "ok" ELSE "none", !.told = told, !.ran = ran]
    BY DEF Turns, told, ran, s, marks
  <2>5. /\ p.sent = <<>> \o marks /\ p.pc = "turn" /\ p.head = (IF a.stream THEN "ok" ELSE "none")
        /\ p.stat = q.stat /\ p.given = q.given
        /\ p.recorded = q.recorded /\ p.flushed = q.flushed /\ p.closed = q.closed
        /\ p.aborted = q.aborted /\ p.ended = q.ended
    BY <1>2, <2>3, <2>4 DEF Replies
  <2> HIDE DEF p, w
  <2>6. \A S : Written(p.sent, S) => "open" \in S
    <3>1. marks = <<"open">> \/ marks = <<>>
      BY DEF marks
    <3>2. p.sent = marks
      BY <2>2, <2>5
    <3> QED BY <1>4, <3>1, <3>2, WrittenOne
  <2>7. Fresh(a, p)
    BY <1>2, <2>5 DEF Fresh
  <2>8. ~Written(p.sent, AnswerMarks) /\ ~Written(p.sent, Marks \ EarlyMarks) /\ ~Written(p.sent, {"text"})
    BY <2>6 DEF AnswerMarks, EarlyMarks
  <2>9. Midway(a, p)
    BY <1>2, <2>5, <2>7, <2>8 DEF Midway, Fresh
  <2>10. CountsTrue(a, p)
    BY <2>7, <2>8, FreshCounts
  <2>11. ReadsWell(a, p)
    BY <2>9, MidwayReads
  <2> QED BY <1>3, <2>1, <2>5, <2>9, <2>10, <2>11 DEF Moves, PageInv, Fixed
<1> QED BY <1>6, <1>7

LEMMA ReadDelta == ASSUME CInv, NEW r \in Requests, PageInv(ask[r], reply[r]), Delta(r) PROVE Moves(r)
<1> DEFINE a == ask[r]
           w == IF Emulated(a) THEN reply[r] ELSE WritesText(reply[r])
           q == [w EXCEPT !.tracker = PhaseOver(w.tracker)]
<1>1. reply[r] \in Replies /\ reply[r].pc = "turn" /\ a.stream /\ ~reply[r].closed
  BY DEF CInv, Delta, Streams
<1>2. Becomes(r, q)
  BY DEF Delta
<1>3. w = reply[r] \/ (~Emulated(a) /\ w = [reply[r] EXCEPT !.sent = reply[r].sent \o <<"text">>])
  BY <1>1 DEF WritesText, Writes
<1>4. /\ SameBut([reply[r] EXCEPT !.sent = w.sent], q) /\ q.sent = w.sent
      /\ q.pc = "turn" /\ q.aborted = reply[r].aborted
      /\ q.sent = reply[r].sent \/ (~Emulated(a) /\ q.sent = reply[r].sent \o <<"text">>)
  <2> HIDE DEF w
  <2>1. w.sent = reply[r].sent \/ (~Emulated(a) /\ w.sent = reply[r].sent \o <<"text">>)
    BY <1>1, <1>3 DEF Replies
  <2>2. w = [reply[r] EXCEPT !.sent = w.sent]
    BY <1>1, <1>3 DEF Replies
  <2> DEFINE sent == w.sent
  <2> HIDE DEF sent
  <2>3. w = [reply[r] EXCEPT !.sent = sent]
    BY <2>2 DEF sent
  <2>4. /\ q.sent = sent /\ q.pc = "turn" /\ q.aborted = reply[r].aborted
        /\ SameBut([reply[r] EXCEPT !.sent = sent], q)
    BY <1>1, <2>3 DEF Replies, SameBut
  <2> QED BY <2>1, <2>4 DEF sent
<1> DEFINE v == [reply[r] EXCEPT !.sent = q.sent]
<1>5. /\ q.stat = reply[r].stat /\ q.given = reply[r].given /\ q.head = reply[r].head /\ q.ended = reply[r].ended
      /\ q.flushed = reply[r].flushed /\ q.closed = reply[r].closed /\ q.recorded = reply[r].recorded
  BY <1>1, <1>4 DEF SameBut, Replies
<1> HIDE DEF q, w
<1>6. Midway(a, reply[r]) /\ CountsTrue(a, reply[r])
  BY <1>1 DEF PageInv
<1>7. <<"text">> \in Seq(Marks) /\ reply[r].sent \in Seq(Marks)
  BY <1>1 DEF Replies, Marks
<1>8. \A S : Written(q.sent, S) => Written(reply[r].sent, S) \/ ("text" \in S /\ ~Emulated(a))
  <2>1. \A S : Written(<<"text">>, S) => "text" \in S
    BY WrittenOne
  <2>2. \A S : Written(reply[r].sent \o <<"text">>, S) =>
                 Written(reply[r].sent, S) \/ Written(<<"text">>, S)
    BY <1>7, WrittenMore
  <2> QED BY <1>4, <2>1, <2>2
<1>9. Midway(a, q)
  <2>1. ~Written(q.sent, Marks \ EarlyMarks)
    BY <1>6, <1>8 DEF Midway, EarlyMarks
  <2>2. Written(q.sent, {"text"}) => a.stream /\ ~Emulated(a)
    BY <1>1, <1>6, <1>8 DEF Midway
  <2> QED BY <1>4, <1>5, <1>6, <2>1, <2>2 DEF Midway
<1>10. CountsTrue(a, q)
  <2>1. ~Written(q.sent, AnswerMarks)
    BY <1>9, MidwayOpen
  <2>2. ~Written(reply[r].sent, AnswerMarks)
    BY <1>6, MidwayOpen
  <2> QED BY <1>5, <1>6, <2>1, <2>2 DEF CountsTrue, CameTo, Midway
<1>11. ReadsWell(a, q)
  BY <1>9, MidwayReads
<1>12. ~reply[r].recorded
  BY <1>1, <1>6 DEF CountsTrue, Midway
<1> QED BY <1>2, <1>4, <1>9, <1>10, <1>11, <1>12 DEF Moves, PageInv, Fixed

LEMMA ReadItems ==
  ASSUME CInv, NEW r \in Requests, PageInv(ask[r], reply[r]), ItemStarts(r) \/ ItemEnds(r) \/ Keepalive(r)
  PROVE  Moves(r)
<1>1. reply[r] \in Replies /\ reply[r].pc = "turn"
  BY DEF CInv, ItemStarts, ItemEnds, Keepalive, Streams
<1>2. ASSUME NEW t, NEW running, NEW c, NEW q,
             q = [reply[r] EXCEPT !.tracker = t, !.running = running, !.comment = c],
             Becomes(r, q)
      PROVE  Moves(r)
  <2>1. SameBut(reply[r], q) /\ q.pc = reply[r].pc /\ q.aborted = reply[r].aborted
    BY <1>1, <1>2 DEF SameBut, Replies
  <2>2. PageInv(ask[r], q) /\ Fixed(reply[r], q)
    BY <1>1, <2>1, SameReads
  <2> QED BY <1>2, <2>2 DEF Moves
<1>3. ASSUME NEW t, NEW running, Becomes(r, [reply[r] EXCEPT !.tracker = t, !.running = running])
      PROVE  Moves(r)
  <2> DEFINE q == [reply[r] EXCEPT !.tracker = t, !.running = running]
  <2>1. Becomes(r, q)
    BY <1>3
  <2>2. q = [reply[r] EXCEPT !.tracker = t, !.running = running, !.comment = reply[r].comment]
    BY <1>1 DEF Replies
  <2> HIDE DEF q
  <2> QED BY <1>2, <2>1, <2>2
<1>4. ASSUME NEW t, NEW c, Becomes(r, [reply[r] EXCEPT !.tracker = t, !.comment = c])
      PROVE  Moves(r)
  <2> DEFINE q == [reply[r] EXCEPT !.tracker = t, !.comment = c]
  <2>1. Becomes(r, q)
    BY <1>4
  <2>2. q = [reply[r] EXCEPT !.tracker = t, !.running = reply[r].running, !.comment = c]
    BY <1>1 DEF Replies
  <2> HIDE DEF q
  <2> QED BY <1>2, <2>1, <2>2
<1>5. CASE ItemStarts(r)
  <2>1. PICK i \in Items :
          Becomes(r, [reply[r] EXCEPT !.tracker = ItemStarted(reply[r].tracker, i),
                                      !.running = reply[r].running \cup {i}])
    BY <1>5 DEF ItemStarts
  <2> QED BY <1>3, <2>1
<1>6. CASE ItemEnds(r)
  <2>1. PICK i \in reply[r].running \cup {NoItem} :
          Becomes(r, [reply[r] EXCEPT !.tracker = ItemCompleted(reply[r].tracker, i),
                                      !.running = reply[r].running \ {i}])
    BY <1>6 DEF ItemEnds
  <2> QED BY <1>3, <2>1
<1>7. CASE Keepalive(r)
  <2>1. PICK late \in BOOLEAN, due \in BOOLEAN :
          LET k == KeepaliveTick(reply[r].tracker, late, due)
          IN  Becomes(r, [reply[r] EXCEPT !.tracker = k.tracker,
                                          !.comment = IF k.writes THEN k.tells ELSE reply[r].comment])
    BY <1>7 DEF Keepalive
  <2> QED BY <1>4, <2>1
<1> QED BY <1>5, <1>6, <1>7

LEMMA ReadSucceeds == ASSUME CInv, NEW r \in Requests, PageInv(ask[r], reply[r]), TurnSucceeds(r) PROVE Moves(r)
<1> DEFINE a == ask[r]
<1>1. reply[r] \in Replies /\ reply[r].pc = "turn" /\ ~reply[r].aborted /\ a \in Asks
  BY AskTypes DEF CInv, TurnSucceeds
<1>2. PICK counts \in Counts, text \in BOOLEAN, named \in Named(a) :
        LET calls == Extracted(named, a.tools, a.choice)
        IN  Becomes(r, WithResult(Ends(reply[r], "ok", Answer(a, text, calls)), counts))
  BY DEF TurnSucceeds
<1> DEFINE calls == Extracted(named, a.tools, a.choice)
           marks == Answer(a, text, calls)
           w == Ends(reply[r], "ok", marks)
           q == WithResult(w, counts)
<1>3. AnswerCloses(a, marks)
  <2>1. calls # <<>> => Emulates(a.tools, a.choice)
    BY DEF Extracted
  <2> QED BY <1>1, <2>1, AnswerEnds
<1>4. Becomes(r, q)
  BY <1>2
<1> HIDE DEF calls, marks
<1>5. marks \in Seq(Marks)
  BY <1>3 DEF AnswerCloses
<1>6. EndedAs(reply[r], w, "ok", marks)
  BY <1>1, <1>5, EndsAs
<1> HIDE DEF w
<1>7. Midway(a, reply[r]) /\ CountsTrue(a, reply[r])
  BY <1>1 DEF PageInv
<1>8. w \in Replies /\ w.pc = "done" /\ w.stat.usage = "unknown"
  BY <1>6, <1>7 DEF EndedAs, CountsTrue, Midway, UsageOf
<1>9. /\ q.pc = "done" /\ q.sent = w.sent /\ q.head = w.head /\ q.ended = w.ended
      /\ q.flushed = w.flushed /\ q.closed = w.closed /\ q.recorded = w.recorded
      /\ q.stat.completed /\ q.stat.usage = UsageOf(counts) /\ q.given = counts
      /\ q.stat.backend = w.stat.backend /\ q.stat.fallback = w.stat.fallback
      /\ q.stat.webAttempt = w.stat.webAttempt
  BY <1>8, WithResultIs
<1> HIDE DEF q
<1>10. ~reply[r].closed /\ ~reply[r].recorded /\ ~reply[r].flushed
  BY <1>1, <1>7 DEF Midway, CountsTrue
<1>11. /\ q.sent = reply[r].sent \o marks /\ q.head = "ok"
       /\ ~q.closed /\ ~q.recorded /\ ~q.flushed
       /\ q.stat.backend = reply[r].stat.backend /\ q.stat.fallback = reply[r].stat.fallback
       /\ q.stat.webAttempt = reply[r].stat.webAttempt
  BY <1>6, <1>7, <1>9, <1>10 DEF EndedAs, Midway
<1>12. reply[r].sent \in Seq(Marks)
  BY <1>1 DEF Replies
<1>13. \A S : Written(q.sent, S) <=> Written(reply[r].sent, S) \/ Written(marks, S)
  BY <1>5, <1>11, <1>12, WrittenMore
<1>14. ReadsWell(a, q)
  <2>1. LastOnly(q.sent, ClosingMarks(a, "ok"))
    <3>1. ~Written(reply[r].sent, ClosingMarks(a, "ok"))
      BY <1>7, MidwayOpen
    <3>2. LastOnly(marks, ClosingMarks(a, "ok"))
      BY <1>3 DEF AnswerCloses
    <3> QED BY <1>5, <1>11, <1>12, <3>1, <3>2, LastOnlyMore
  <2>2. Written(q.sent, ClosingMarks(a, "ok")) /\ Written(q.sent, AnswerMarks)
    BY <1>3, <1>13 DEF AnswerCloses
  <2>3. ~(Written(q.sent, {"text"}) /\ Written(q.sent, {"calls"}))
    <3>1. ~Written(reply[r].sent, {"calls"})
      BY <1>7, MidwayOpen
    <3> QED BY <1>3, <1>7, <1>13, <3>1 DEF AnswerCloses, Midway
  <2>4. ~Written(q.sent, {"error"})
    <3>1. ~Written(reply[r].sent, {"error"})
      BY <1>7, MidwayOpen
    <3> QED BY <1>3, <1>13, <3>1 DEF AnswerCloses
  <2> QED BY <1>11, <2>1, <2>2, <2>3, <2>4 DEF ReadsWell
<1>15. CountsTrue(a, q)
  <2>1. CameTo(a, q)
    BY <1>3, <1>13 DEF AnswerCloses, CameTo
  <2>2. q.given # "nothing"
    BY <1>9 DEF Counts
  <2> QED BY <1>7, <1>9, <1>11, <2>1, <2>2 DEF CountsTrue
<1> QED BY <1>4, <1>9, <1>10, <1>14, <1>15 DEF Moves, PageInv, Fixed

\* An error ends a response from the middle of it, after what was begun of an answer.
LEMMA FailureReads ==
  ASSUME NEW a \in Asks, NEW q \in Replies, Midway(a, q), ReadsWell(a, q),
         NEW begun \in Begun(a),
         NEW p, EndedAs(q, p, "bad", begun \o Failure(a))
  PROVE  /\ ReadsWell(a, p) /\ ~Written(p.sent, AnswerMarks)
         /\ ~q.closed => /\ p.head = IF a.stream THEN "ok" ELSE "bad"
                         /\ Written(p.sent, {"error"})
<1> DEFINE fail == Failure(a)
           marks == begun \o fail
           head == IF a.stream THEN "ok" ELSE "bad"
<1>1. /\ begun \in Seq(Marks) /\ marks \in Seq(Marks)
      /\ begun \in {<<>>, <<"closing">>, <<"text">>}
      /\ begun = <<"text">> => a.stream /\ Emulated(a)
  BY BegunTypes
<1>2. FailureCloses(a, fail) /\ fail \in Seq(Marks) /\ Written(fail, {"error"})
  <2>1. FailureCloses(a, fail)
    BY FailureEnds
  <2>2. Written(<<"error", "done">>, {"error"}) /\ Written(<<"error">>, {"error"})
    BY WrittenOne, WrittenTwo
  <2>3. fail = <<"error", "done">> \/ fail = <<"error">>
    BY DEF Failure
  <2>4. Written(fail, {"error"})
    BY <2>2, <2>3
  <2> QED BY <2>1, <2>4 DEF FailureCloses
<1> HIDE DEF fail
<1>3. \A S : Written(begun, S) => "closing" \in S \/ "text" \in S
  <2>1. \A S : /\ ~Written(<<>>, S)
               /\ Written(<<"closing">>, S) => "closing" \in S
               /\ Written(<<"text">>, S) => "text" \in S
    BY WrittenOne DEF Written
  <2> QED BY <1>1, <2>1
<1>4. \A S : Written(marks, S) <=> Written(begun, S) \/ Written(fail, S)
  BY <1>1, <1>2, WrittenMore
<1>5. q.sent \in Seq(Marks)
  BY DEF Replies
<1>6. ~Written(marks, AnswerMarks)
  <2>1. ~Written(begun, AnswerMarks)
    BY <1>3 DEF AnswerMarks
  <2>2. ~Written(fail, AnswerMarks)
    BY <1>2, WrittenWider DEF FailureCloses
  <2> QED BY <1>4, <2>1, <2>2
<1>7. LastOnly(marks, ClosingMarks(a, head)) /\ Written(marks, ClosingMarks(a, head))
  <2>1. ~Written(begun, ClosingMarks(a, head))
    BY <1>3 DEF ClosingMarks
  <2>2. LastOnly(fail, ClosingMarks(a, head)) /\ Written(fail, ClosingMarks(a, head))
    BY <1>2 DEF FailureCloses
  <2> QED BY <1>1, <1>2, <1>4, <2>1, <2>2, LastOnlyMore
<1> HIDE DEF marks
<1>8. p.sent = IF q.closed THEN q.sent ELSE q.sent \o marks
  BY DEF EndedAs, marks, fail
<1>9. \A S : Written(p.sent, S) => Written(q.sent, S) \/ Written(marks, S)
  BY <1>1, <1>5, <1>8, WrittenMore
<1>10. ~Written(p.sent, AnswerMarks)
  <2>1. ~Written(q.sent, AnswerMarks)
    BY MidwayOpen
  <2> QED BY <1>6, <1>9, <2>1
<1>11. ~Written(p.sent, {"calls"})
  BY <1>10, WrittenWider DEF AnswerMarks
<1>12. CASE q.closed
  <2>1. p.sent = q.sent /\ p.head = q.head /\ p.closed
    BY <1>8, <1>12 DEF EndedAs
  <2>2. ~a.stream => p.head # "ok"
    BY <2>1 DEF Midway
  <2> QED BY <1>10, <1>11, <1>12, <2>1, <2>2 DEF ReadsWell
<1>13. CASE ~q.closed
  <2>1. p.sent = q.sent \o marks /\ p.head = head
    BY <1>8, <1>13 DEF EndedAs, Midway
  <2>2. LastOnly(p.sent, ClosingMarks(a, head)) /\ Written(p.sent, ClosingMarks(a, head))
    <3>1. ~Written(q.sent, ClosingMarks(a, head))
      BY MidwayOpen
    <3> QED BY <1>1, <1>5, <1>7, <2>1, <3>1, LastOnlyMore, WrittenMore
  <2>3. ~a.stream => p.head # "ok"
    BY <2>1
  <2>4. Written(p.sent, {"error"})
    <3>1. Written(marks, {"error"})
      BY <1>2, <1>4
    <3> QED BY <1>1, <1>5, <2>1, <3>1, WrittenMore
  <2> QED BY <1>10, <1>11, <1>13, <2>1, <2>2, <2>3, <2>4 DEF ReadsWell
<1> QED BY <1>12, <1>13

LEMMA ReadBreaks == ASSUME CInv, NEW r \in Requests, PageInv(ask[r], reply[r]), AnswerBreaks(r) PROVE Moves(r)
<1> DEFINE a == ask[r]
<1>1. reply[r] \in Replies /\ reply[r].pc = "turn" /\ ~reply[r].aborted /\ a \in Asks
  BY AskTypes DEF CInv, AnswerBreaks
<1>2. PICK counts \in Counts, begun \in Begun(a) :
        Becomes(r, WithResult(Ends(reply[r], "bad", begun \o Failure(a)), counts))
  BY DEF AnswerBreaks
<1> DEFINE marks == begun \o Failure(a)
           w == Ends(reply[r], "bad", marks)
           q == WithResult(w, counts)
<1>3. Becomes(r, q)
  BY <1>2
<1>4. marks \in Seq(Marks)
  BY <1>1, BegunTypes
<1>5. EndedAs(reply[r], w, "bad", marks)
  BY <1>1, <1>4, EndsAs
<1> HIDE DEF w
<1>6. Midway(a, reply[r]) /\ CountsTrue(a, reply[r]) /\ ReadsWell(a, reply[r])
  BY <1>1 DEF PageInv
<1>7. ~reply[r].closed /\ ~reply[r].recorded /\ ~reply[r].flushed
  BY <1>1, <1>6 DEF Midway, CountsTrue
<1>8. /\ ReadsWell(a, w) /\ ~Written(w.sent, AnswerMarks) /\ Written(w.sent, {"error"})
      /\ w.head = IF a.stream THEN "ok" ELSE "bad"
  BY <1>1, <1>5, <1>6, <1>7, FailureReads
<1>9. w \in Replies /\ w.pc = "done" /\ w.stat.usage = "unknown"
  BY <1>5, <1>6 DEF EndedAs, CountsTrue, Midway, UsageOf
<1>10. /\ q.pc = "done" /\ q.sent = w.sent /\ q.head = w.head /\ q.ended = w.ended
       /\ q.flushed = w.flushed /\ q.closed = w.closed /\ q.recorded = w.recorded
       /\ q.stat.completed /\ q.stat.usage = UsageOf(counts) /\ q.given = counts
       /\ q.stat.backend = w.stat.backend /\ q.stat.fallback = w.stat.fallback
       /\ q.stat.webAttempt = w.stat.webAttempt
  BY <1>9, WithResultIs
<1> HIDE DEF q
<1>11. ~q.closed /\ ~q.recorded /\ ~q.flushed /\ w.stat = reply[r].stat
  BY <1>5, <1>7, <1>10 DEF EndedAs
<1>12. ReadsWell(a, q)
  BY <1>8, <1>10 DEF ReadsWell
<1>13. CountsTrue(a, q)
  <2>1. q.given # "nothing" /\ a.stream \in BOOLEAN
    BY <1>1, <1>10 DEF Counts, Asks
  <2>2. CameTo(a, q) <=> a.stream
    BY <1>8, <1>10, <2>1 DEF CameTo
  <2>3. q.stat.completed /\ q.head # "bad" <=> CameTo(a, q)
    BY <1>8, <1>10, <2>1, <2>2
  <2> QED BY <1>6, <1>10, <1>11, <2>1, <2>3 DEF CountsTrue
<1> QED BY <1>3, <1>7, <1>10, <1>12, <1>13 DEF Moves, PageInv, Fixed

LEMMA ReadFails == ASSUME CInv, NEW r \in Requests, PageInv(ask[r], reply[r]), TurnFails(r) PROVE Moves(r)
<1> DEFINE a == ask[r]
           marks == Failure(a)
           q == Ends(reply[r], "bad", marks)
<1>1. reply[r] \in Replies /\ reply[r].pc = "turn" /\ a \in Asks
  BY AskTypes DEF CInv, TurnFails
<1>2. Becomes(r, q)
  BY DEF TurnFails
<1>3. marks \in Seq(Marks)
  BY <1>1, EndingTypes
<1>4. EndedAs(reply[r], q, "bad", marks)
  BY <1>1, <1>3, EndsAs
<1> HIDE DEF q
<1>5. Midway(a, reply[r]) /\ CountsTrue(a, reply[r]) /\ ReadsWell(a, reply[r])
  BY <1>1 DEF PageInv
<1>6. <<>> \in Begun(a) /\ <<>> \o marks = marks
  BY <1>3 DEF Begun
<1>7. ReadsWell(a, q) /\ ~Written(q.sent, AnswerMarks)
  BY <1>1, <1>4, <1>5, <1>6, FailureReads
<1>8. CountsTrue(a, q)
  <2>1. q.given = "nothing" /\ q.stat = reply[r].stat
    BY <1>4, <1>5 DEF EndedAs, Midway
  <2>2. ~CameTo(a, q) /\ ~q.stat.completed
    BY <1>5, <1>7, <2>1 DEF CameTo, CountsTrue, Midway
  <2> QED BY <1>4, <1>5, <2>1, <2>2 DEF CountsTrue, EndedAs, Midway
<1>9. Fixed(reply[r], q)
  BY <1>4, <1>5 DEF Fixed, EndedAs, CountsTrue, Midway
<1> QED BY <1>2, <1>4, <1>7, <1>8, <1>9 DEF Moves, PageInv, EndedAs

LEMMA ReadClientClosed == ASSUME CInv, NEW r \in Requests, PageInv(ask[r], reply[r]), ClientClosed(r) PROVE Moves(r)
<1> DEFINE q == Quiet(reply[r])
<1>1. reply[r] \in Replies /\ reply[r].pc = "turn" /\ Becomes(r, q)
  BY DEF CInv, ClientClosed
<1>2. SameBut(reply[r], q) /\ q.pc = "done"
  BY <1>1, QuietSame
<1> HIDE DEF q
<1>3. PageInv(ask[r], q) /\ Fixed(reply[r], q)
  BY <1>1, <1>2, SameReads
<1> QED BY <1>1, <1>3 DEF Moves

\* The end of a response is booked, and what was read stays.
LEMMA ReadBooked ==
  ASSUME NEW a, NEW q \in Replies, PageInv(a, q), q.pc \in {"turn", "done"},
         NEW flushed \in BOOLEAN, NEW closed \in BOOLEAN, NEW aborted \in BOOLEAN,
         flushed \/ closed, q.flushed => flushed, q.closed => closed,
         q.recorded => q.flushed = flushed,
         q.pc = "turn" => ~flushed /\ closed /\ aborted,
         NEW p, p = [q EXCEPT !.flushed = flushed, !.closed = closed, !.aborted = aborted, !.recorded = TRUE]
  PROVE  PageInv(a, p) /\ Fixed(q, p)
<1>1. /\ p.sent = q.sent /\ p.head = q.head /\ p.ended = q.ended /\ p.stat = q.stat /\ p.pc = q.pc
      /\ p.given = q.given /\ p.flushed = flushed /\ p.closed = closed /\ p.aborted = aborted /\ p.recorded
  BY DEF Replies
<1>2. ReadsWell(a, q) /\ CountsTrue(a, q)
  BY DEF PageInv
<1>3. ReadsWell(a, p)
  BY <1>1, <1>2 DEF ReadsWell
<1>4. CountsTrue(a, p)
  BY <1>1, <1>2 DEF CountsTrue, CameTo
<1>5. p.pc = "turn" => Midway(a, p)
  BY <1>1 DEF PageInv, Midway
<1>6. Fixed(q, p)
  BY <1>1 DEF Fixed
<1> QED BY <1>1, <1>3, <1>4, <1>5, <1>6 DEF PageInv

LEMMA ReadFinish == ASSUME CInv, NEW r \in Requests, PageInv(ask[r], reply[r]), Finish(r) PROVE Moves(r)
<1> DEFINE q == [reply[r] EXCEPT !.flushed = TRUE, !.recorded = TRUE]
           p == [reply[r] EXCEPT !.flushed = TRUE, !.closed = reply[r].closed,
                                 !.aborted = reply[r].aborted, !.recorded = TRUE]
<1>1. /\ reply[r] \in Replies /\ reply[r].pc = "done" /\ Becomes(r, q)
      /\ ~reply[r].flushed /\ ~reply[r].closed
  BY DEF CInv, Finish
<1>2. q = p /\ reply[r].closed \in BOOLEAN /\ reply[r].aborted \in BOOLEAN
  BY <1>1 DEF Replies
<1>3. ~reply[r].recorded
  BY <1>1 DEF PageInv, CountsTrue
<1>4. PageInv(ask[r], p) /\ Fixed(reply[r], p)
  BY <1>1, <1>2, <1>3, ReadBooked
<1> HIDE DEF p
<1> QED BY <1>1, <1>2, <1>4 DEF Moves

LEMMA ReadClose == ASSUME CInv, NEW r \in Requests, PageInv(ask[r], reply[r]), Close(r) PROVE Moves(r)
<1> DEFINE q == [reply[r] EXCEPT !.closed = TRUE, !.aborted = ~reply[r].ended, !.recorded = TRUE]
           p == [reply[r] EXCEPT !.flushed = reply[r].flushed, !.closed = TRUE,
                                 !.aborted = ~reply[r].ended, !.recorded = TRUE]
<1>1. /\ reply[r] \in Replies /\ reply[r].pc \in {"turn", "done"} /\ Becomes(r, q)
      /\ ~reply[r].closed
  BY DEF CInv, Close
<1>2. q = p /\ reply[r].flushed \in BOOLEAN /\ (~reply[r].ended) \in BOOLEAN
  BY <1>1 DEF Replies
<1>3. reply[r].pc = "turn" => ~reply[r].flushed /\ ~reply[r].ended
  BY DEF PageInv, Midway
<1>4. PageInv(ask[r], p) /\ Fixed(reply[r], p)
  BY <1>1, <1>2, <1>3, ReadBooked
<1> HIDE DEF p
<1> QED BY <1>1, <1>2, <1>4 DEF Moves

LEMMA ReadHandler == ASSUME CInv, NEW r \in Requests, PageInv(ask[r], reply[r]), Handler(r) PROVE Moves(r)
BY ReadArrive, ReadDelta, ReadItems, ReadSucceeds, ReadBreaks, ReadFails, ReadClientClosed, ReadFinish,
   ReadClose DEF Handler

-----------------------------------------------------------------------------
(***************************************************************************)
(* The books.                                                              *)
(***************************************************************************)
\* What a request is counted as, and of which backend.
SeenBy(a, q) ==
  {"requests", UsageOf(q.given)}
    \cup (IF a.via \in {"declined", "tried"} THEN {"fallbacks"} ELSE {})
    \cup (IF a.via = "tried" THEN {"web_attempts"} ELSE {})
    \cup {IF ~q.flushed THEN "cancelled" ELSE IF CameTo(a, q) THEN "succeeded" ELSE "failed"}

SeenNow == [r \in Requests |-> SeenBy(ask[r], reply[r])]
BackNow == [r \in Requests |-> BackendOf(r)]

\* What is filed was kept, what was kept was recorded, and the counters in memory and on
\* disk are those of what was kept and filed.
BooksInv ==
  /\ filed \subseteq kept /\ kept \subseteq Requests
  /\ \A r \in kept : reply[r].recorded
  /\ \A k \in Counters : IsFiniteSet(Marked(kept, SeenNow, k))
  /\ data = DayOf(kept, SeenNow, BackNow)
  /\ file.day = DayOf(filed, SeenNow, BackNow)
  /\ ~Saving /\ trouble = "none" /\ file.is # "unset" => kept = filed

PagesInv == \A r \in Requests : PageInv(ask[r], reply[r])

DInv == PagesInv /\ BooksInv

\* The entry that is booked counts as what the caller saw.
LEMMA EntrySeen ==
  ASSUME NEW a, NEW q \in Replies, NEW p, CountsTrue(a, q), NEW cancelled \in BOOLEAN,
         p.sent = q.sent, p.stat = q.stat, p.given = q.given, p.flushed = ~cancelled
  PROVE  /\ Counted(Entry(q, cancelled)) = SeenBy(a, p)
         /\ Entry(q, cancelled).backend = IF a.via = "unparsed" THEN "unrouted" ELSE "codex"
<1> DEFINE e == Entry(q, cancelled)
<1>1. /\ e.backend = q.stat.backend /\ e.fallback = q.stat.fallback
      /\ e.webAttempt = q.stat.webAttempt /\ e.usage = q.stat.usage
      /\ e.outcome = Outcome(q, cancelled)
  BY DEF Entry
<1> HIDE DEF e
<1>2. e.outcome = IF ~p.flushed THEN "cancelled" ELSE IF CameTo(a, p) THEN "succeeded" ELSE "failed"
  <2>1. CameTo(a, p) <=> CameTo(a, q)
    BY DEF CameTo
  <2> QED BY <1>1, <2>1 DEF Outcome, CountsTrue
<1>3. e.usage = UsageOf(p.given)
  BY <1>1 DEF CountsTrue
<1>4. /\ e.fallback <=> a.via \in {"declined", "tried"}
      /\ e.webAttempt <=> a.via = "tried"
  BY <1>1 DEF CountsTrue
<1>5. Counted(e) = {"requests"} \cup {e.outcome} \cup {e.usage}
                     \cup (IF e.fallback THEN {"fallbacks"} ELSE {})
                     \cup (IF e.webAttempt THEN {"web_attempts"} ELSE {})
  BY DEF Counted
<1>6. Counted(e) = SeenBy(a, p)
  BY <1>2, <1>3, <1>4, <1>5 DEF SeenBy
<1>7. e.backend = IF a.via = "unparsed" THEN "unrouted" ELSE "codex"
  BY <1>1 DEF CountsTrue
<1> QED BY <1>6, <1>7 DEF e

\* What was kept is seen as before.
LEMMA SeenStays ==
  ASSUME BooksInv, ask' = ask, \A r \in Requests : Fixed(reply[r], reply'[r])
  PROVE  /\ BackNow' = BackNow
         /\ \A r \in kept : SeenNow'[r] = SeenNow[r] /\ reply'[r].recorded
         /\ \A k \in Counters : Marked(kept, SeenNow', k) = Marked(kept, SeenNow, k)
         /\ data = DayOf(kept, SeenNow', BackNow)
         /\ file.day = DayOf(filed, SeenNow', BackNow)
<1>1. BackNow' = BackNow
  BY DEF BackNow, BackendOf
<1>2. ASSUME NEW r \in kept PROVE SeenNow'[r] = SeenNow[r] /\ reply'[r].recorded
  <2>1. r \in Requests /\ reply[r].recorded
    BY DEF BooksInv
  <2>2. /\ reply'[r].recorded /\ reply'[r].sent = reply[r].sent
        /\ reply'[r].stat = reply[r].stat /\ reply'[r].given = reply[r].given
        /\ reply'[r].flushed = reply[r].flushed
    BY <2>1 DEF Fixed
  <2>3. SeenBy(ask[r], reply'[r]) = SeenBy(ask[r], reply[r])
    BY <2>2 DEF SeenBy, CameTo
  <2>4. SeenNow'[r] = SeenBy(ask'[r], reply'[r]) /\ SeenNow[r] = SeenBy(ask[r], reply[r])
    BY <2>1 DEF SeenNow
  <2> QED BY <2>2, <2>3, <2>4
<1>3. filed \subseteq kept
  BY DEF BooksInv
<1> DEFINE F == SeenNow
           G == SeenNow'
           B == BackNow
<1>4. data = DayOf(kept, F, B) /\ file.day = DayOf(filed, F, B)
  BY DEF BooksInv
<1>5. \A r \in kept : F[r] = G[r]
  BY <1>2
<1> HIDE DEF F, G, B
<1>6. \A k \in Counters : Marked(kept, G, k) = Marked(kept, F, k)
  BY <1>5, MarkedSame
<1>7. DayOf(kept, F, B) = DayOf(kept, G, B) /\ DayOf(filed, F, B) = DayOf(filed, G, B)
  BY <1>3, <1>5, DaySame
<1> QED BY <1>1, <1>2, <1>4, <1>6, <1>7 DEF F, G, B

\* A step of a handler that books nothing.
LEMMA BooksStay ==
  ASSUME BooksInv, ask' = ask, \A r \in Requests : Fixed(reply[r], reply'[r]),
         UNCHANGED <<kept, filed, data, file, save, trouble>>
  PROVE  BooksInv'
<1>1. /\ BackNow' = BackNow
      /\ \A r \in kept : reply'[r].recorded
      /\ \A k \in Counters : Marked(kept, SeenNow', k) = Marked(kept, SeenNow, k)
      /\ data = DayOf(kept, SeenNow', BackNow)
      /\ file.day = DayOf(filed, SeenNow', BackNow)
  BY SeenStays
<1> QED BY <1>1 DEF BooksInv, Saving

\* A request is booked.
LEMMA BooksGrow ==
  ASSUME CInv, BooksInv, ask' = ask, \A x \in Requests : Fixed(reply[x], reply'[x]),
         NEW r \in Requests, ~reply[r].recorded, reply'[r].recorded,
         NEW cancelled \in BOOLEAN, Books(r, cancelled), ~Saving,
         CountsTrue(ask[r], reply[r]),
         reply'[r].sent = reply[r].sent, reply'[r].stat = reply[r].stat,
         reply'[r].given = reply[r].given,
         reply'[r].flushed = ~cancelled
  PROVE  BooksInv'
<1> DEFINE e == Entry(reply[r], cancelled)
           F == SeenNow
           G == SeenNow'
           B == BackNow
<1>1. r \notin kept /\ kept \subseteq Requests /\ filed \subseteq kept /\ reply[r] \in Replies
  BY DEF BooksInv, CInv
<1>2. /\ BackNow' = B
      /\ \A x \in kept : G[x] = F[x] /\ reply'[x].recorded
      /\ \A k \in Counters : Marked(kept, G, k) = Marked(kept, F, k)
      /\ data = DayOf(kept, G, B)
      /\ file.day = DayOf(filed, G, B)
  BY SeenStays
<1>3. e \in Entries
  BY <1>1, EntryTypes
<1>4. Counted(e) = SeenBy(ask[r], reply'[r]) /\ e.backend = BackendOf(r)
  BY <1>1, EntrySeen DEF BackendOf
<1>5. Counted(e) = G[r] /\ B[r] = e.backend
  BY <1>4 DEF SeenNow, BackNow
<1>6. \A k \in Counters : IsFiniteSet(Marked(kept, G, k))
  BY <1>2 DEF BooksInv
<1>7. /\ kept' = kept \cup {r} /\ filed' = filed /\ data' = Recorded(data, e)
      /\ save' = Persist /\ file' = file /\ trouble' = trouble
  BY DEF Books, Record
<1> HIDE DEF e, F, G, B
<1>8. \A k \in Counters : IsFiniteSet(Marked(kept \cup {r}, G, k))
  BY <1>1, <1>5, <1>6, TallyGrows
<1>9. DayOf(kept \cup {r}, G, B) = Recorded(DayOf(kept, G, B), e)
  BY <1>1, <1>3, <1>5, <1>6, DayGrows
<1>10. data' = DayOf(kept', G, B) /\ file'.day = DayOf(filed', G, B)
  BY <1>2, <1>7, <1>9
<1>11. filed' \subseteq kept' /\ kept' \subseteq Requests /\ \A x \in kept' : reply'[x].recorded
  BY <1>1, <1>2, <1>7
<1>12. ~Saving' /\ trouble' = "none" /\ file'.is # "unset" => kept' = filed'
  BY <1>7 DEF Persist, Saving
<1>13. \A k \in Counters : IsFiniteSet(Marked(kept', G, k))
  BY <1>7, <1>8
<1> QED BY <1>2, <1>10, <1>11, <1>12, <1>13 DEF BooksInv, G, B

LEMMA DInit == Init => DInv
<1> SUFFICES ASSUME Init PROVE DInv
  OBVIOUS
<1>1. PagesInv
  <2>1. \A r \in Requests : reply[r] = NewReply /\ NewReply.pc = "new"
    BY DEF Init, NewReply
  <2> QED BY <2>1 DEF PagesInv, PageInv
<1>2. \A F, k : Marked({}, F, k) = {}
  BY DEF Marked
<1>3. \A F, k : IsFiniteSet(Marked({}, F, k)) /\ Cardinality(Marked({}, F, k)) = 0
  BY <1>2, FS_EmptySet
<1>4. \A F : TallyOf({}, F) = Zero
  BY <1>3 DEF TallyOf, Zero
<1>5. ASSUME NEW F, NEW B PROVE DayOf({}, F, B) = EmptyDay
  <2>1. \A b : {x \in {} : B[x] = b} = {}
    OBVIOUS
  <2> QED BY <1>4, <2>1 DEF DayOf, EmptyDay
<1>6. kept = {} /\ filed = {} /\ data = EmptyDay /\ file.day = EmptyDay
  BY DEF Init, StatsInit
<1> QED BY <1>1, <1>3, <1>5, <1>6 DEF DInv, BooksInv

\* One response moves: those of the others stay.
LEMMA PagesMove ==
  ASSUME CInv, PagesInv, NEW r \in Requests, ask' = ask, Moves(r)
  PROVE  PagesInv' /\ \A x \in Requests : Fixed(reply[x], reply'[x])
<1>1. PICK q : Becomes(r, q) /\ PageInv(ask[r], q) /\ Fixed(reply[r], q)
  BY DEF Moves
<1>2. \A x \in Requests : reply'[x] = IF x = r THEN q ELSE reply[x]
  BY <1>1 DEF CInv, Becomes
<1>3. \A x \in Requests : PageInv(ask[x], reply'[x])
  BY <1>1, <1>2 DEF PagesInv
<1>4. \A x \in Requests : Fixed(reply[x], reply[x])
  BY DEF Fixed
<1>5. \A x \in Requests : Fixed(reply[x], reply'[x])
  BY <1>1, <1>2, <1>4
<1> QED BY <1>3, <1>5 DEF PagesInv

LEMMA DHandler == ASSUME CInv, DInv, NEW r \in Requests, Handler(r) PROVE DInv'
<1>1. ask' = ask
  BY DEF Handler, Arrive, Delta, ItemStarts, ItemEnds, Keepalive, TurnSucceeds, AnswerBreaks,
         TurnFails, ClientClosed, Finish, Close
<1>2. PageInv(ask[r], reply[r])
  BY DEF DInv, PagesInv
<1>3. Moves(r)
  BY <1>2, ReadHandler
<1>4. PagesInv' /\ \A x \in Requests : Fixed(reply[x], reply'[x])
  BY <1>1, <1>3, PagesMove DEF DInv
<1>5. reply[r] \in Replies /\ reply \in [Requests -> Replies]
  BY DEF CInv
<1>6. CASE Arrive(r)
  <2>1. UNCHANGED <<kept, filed, data, file, save, trouble>>
    BY <1>6 DEF Arrive
  <2> QED BY <1>1, <1>4, <2>1, BooksStay DEF DInv
<1>7. CASE \/ Delta(r) \/ ItemStarts(r) \/ ItemEnds(r) \/ Keepalive(r)
           \/ TurnSucceeds(r) \/ AnswerBreaks(r) \/ TurnFails(r) \/ ClientClosed(r)
  <2>1. UNCHANGED <<kept, filed, data, file, save, trouble>>
    BY <1>7 DEF Delta, ItemStarts, ItemEnds, Keepalive, TurnSucceeds, AnswerBreaks, TurnFails,
           ClientClosed, stats
  <2> QED BY <1>1, <1>4, <2>1, BooksStay DEF DInv
<1>8. CASE Finish(r)
  <2>1. reply[r].pc = "done" /\ ~reply[r].flushed /\ ~reply[r].closed /\ ~Saving /\ Books(r, FALSE)
    BY <1>8 DEF Finish
  <2>2. reply' = [reply EXCEPT ![r] = [reply[r] EXCEPT !.flushed = TRUE, !.recorded = TRUE]]
    BY <1>8 DEF Finish, Becomes
  <2>3. /\ reply'[r].sent = reply[r].sent /\ reply'[r].stat = reply[r].stat
        /\ reply'[r].given = reply[r].given /\ reply'[r].flushed = ~FALSE /\ reply'[r].recorded
    BY <1>5, <2>2 DEF Replies
  <2>4. CountsTrue(ask[r], reply[r]) /\ ~reply[r].recorded
    BY <1>2, <2>1 DEF PageInv, CountsTrue
  <2> QED BY <1>1, <1>4, <2>1, <2>3, <2>4, BooksGrow DEF DInv
<1>9. CASE Close(r)
  <2>1. reply[r].pc \in {"turn", "done"} /\ ~reply[r].closed /\ ~Saving
    BY <1>9 DEF Close
  <2>2. CASE reply[r].recorded
    <3>1. UNCHANGED <<kept, filed, data, file, save, trouble>>
      BY <1>9, <2>2 DEF Close, stats
    <3> QED BY <1>1, <1>4, <3>1, BooksStay DEF DInv
  <2>3. CASE ~reply[r].recorded
    <3> DEFINE cancelled == ~reply[r].flushed
    <3>1. Books(r, cancelled)
      BY <1>9, <2>3 DEF Close
    <3>2. reply' = [reply EXCEPT ![r] = [reply[r] EXCEPT !.closed = TRUE, !.aborted = ~reply[r].ended, !.recorded = TRUE]]
      BY <1>9 DEF Close, Becomes
    <3>3. /\ reply'[r].sent = reply[r].sent /\ reply'[r].stat = reply[r].stat
          /\ reply'[r].given = reply[r].given
          /\ reply'[r].flushed = reply[r].flushed /\ reply'[r].recorded
      BY <1>5, <3>2 DEF Replies
    <3>4. CountsTrue(ask[r], reply[r])
      BY <1>2, <2>1 DEF PageInv
    <3>5. cancelled \in BOOLEAN /\ reply[r].flushed = ~cancelled
      BY <1>5 DEF Replies
    <3> HIDE DEF cancelled
    <3> QED BY <1>1, <1>4, <2>1, <2>3, <3>1, <3>3, <3>4, <3>5, BooksGrow DEF DInv
  <2> QED BY <2>2, <2>3
<1> QED BY <1>6, <1>7, <1>8, <1>9 DEF Handler

\* A save: what is on disk afterwards is what was kept, or as before.
LEMMA DSaves == ASSUME CInv, DInv, Saves PROVE DInv'
<1>1. UNCHANGED <<ask, reply, kept>> /\ SaveStep /\ filed' = IF file' # file THEN kept ELSE filed
  BY DEF Saves
<1>2. PagesInv'
  BY <1>1 DEF DInv, PagesInv
<1>3. SeenNow' = SeenNow /\ BackNow' = BackNow
  BY <1>1 DEF SeenNow, BackNow, BackendOf
<1>4. /\ filed \subseteq kept /\ kept \subseteq Requests
      /\ \A r \in kept : reply[r].recorded
      /\ \A k \in Counters : IsFiniteSet(Marked(kept, SeenNow, k))
      /\ data = DayOf(kept, SeenNow, BackNow)
      /\ file.day = DayOf(filed, SeenNow, BackNow)
  BY DEF DInv, BooksInv
<1>5. CASE WriteTemporary \/ SaveFails
  <2>1. file' = file /\ data' = data /\ filed' = filed
    BY <1>1, <1>5 DEF WriteTemporary, SaveFails
  <2>2. Saving' \/ trouble' # "none"
    BY <1>5 DEF WriteTemporary, SaveFails, Saving
  <2> QED BY <1>1, <1>2, <1>3, <1>4, <2>1, <2>2 DEF DInv, BooksInv
<1>6. CASE Rename
  <2>1. file'.day = data /\ data' = data
    BY <1>6 DEF Rename
  <2>2. filed' = kept
    <3>1. CASE file' # file
      BY <1>1, <3>1
    <3>2. CASE file' = file
      <4>1. DayOf(kept, SeenNow, BackNow) = DayOf(filed, SeenNow, BackNow)
        BY <1>4, <2>1, <3>2
      <4>2. TallyOf(kept, SeenNow) = TallyOf(filed, SeenNow)
        BY <4>1 DEF DayOf
      <4>3. "requests" \in Counters
        BY DEF Counters
      <4>4. Cardinality(Marked(filed, SeenNow, "requests")) = Cardinality(Marked(kept, SeenNow, "requests"))
        BY <4>2, <4>3 DEF TallyOf
      <4>5. \A r \in kept : "requests" \in SeenNow[r]
        BY <1>4 DEF SeenNow, SeenBy
      <4>6. filed = kept
        <5> DEFINE F == SeenNow
        <5>1. /\ filed \subseteq kept /\ \A r \in kept : "requests" \in F[r]
              /\ IsFiniteSet(Marked(kept, F, "requests"))
              /\ Cardinality(Marked(filed, F, "requests")) = Cardinality(Marked(kept, F, "requests"))
          BY <1>4, <4>3, <4>4, <4>5
        <5> HIDE DEF F
        <5> QED BY <5>1, PartIsWhole
      <4> QED BY <1>1, <3>2, <4>6
    <3> QED BY <3>1, <3>2
  <2> QED BY <1>1, <1>2, <1>3, <1>4, <2>1, <2>2 DEF DInv, BooksInv
<1> QED BY <1>1, <1>5, <1>6 DEF SaveStep

\* A restart loses of the books what was not filed.
LEMMA DGatewayEnds ==
  ASSUME CInv, DInv, NEW replies, GatewayEnds(replies),
         \A r \in Requests : replies[r] \in Replies /\ PageInv(ask[r], replies[r]) /\ Fixed(reply[r], replies[r])
  PROVE  DInv'
<1>1. /\ ask' = ask /\ filed' = filed /\ kept' = filed /\ file' = file /\ data' = file.day
  BY DEF GatewayEnds, Restart, Load
<1>2. ASSUME NEW r \in Requests
      PROVE  PageInv(ask[r], reply'[r]) /\ Fixed(reply[r], reply'[r])
  <2>1. replies[r] \in Replies /\ PageInv(ask[r], replies[r]) /\ Fixed(reply[r], replies[r])
    OBVIOUS
  <2>2. CASE replies[r].pc = "new"
    <3>1. reply'[r] = replies[r]
      BY <2>2 DEF GatewayEnds
    <3> QED BY <2>1, <3>1
  <2>3. CASE replies[r].pc # "new"
    <3> DEFINE w == Quiet(replies[r])
               q == [w EXCEPT !.pc = "lost"]
    <3>1. reply'[r] = q
      BY <2>3 DEF GatewayEnds
    <3>2. SameBut(replies[r], w) /\ w \in Replies
      BY <2>1, QuietSame
    <3> HIDE DEF w
    <3>3. SameBut(replies[r], q) /\ q.pc = "lost"
      BY <3>2 DEF SameBut, Replies
    <3> HIDE DEF q
    <3>4. PageInv(ask[r], q) /\ Fixed(replies[r], q)
      BY <2>1, <2>3, <3>3, SameReads
    <3>5. Fixed(reply[r], q)
      BY <2>1, <3>4 DEF Fixed
    <3> QED BY <3>1, <3>4, <3>5
  <2> QED BY <2>2, <2>3
<1>3. PagesInv'
  BY <1>1, <1>2 DEF PagesInv
<1>4. /\ BackNow' = BackNow
      /\ \A r \in kept : reply'[r].recorded
      /\ \A k \in Counters : Marked(kept, SeenNow', k) = Marked(kept, SeenNow, k)
      /\ file.day = DayOf(filed, SeenNow', BackNow)
  BY <1>1, <1>2, SeenStays DEF DInv
<1>5. /\ filed \subseteq kept /\ kept \subseteq Requests
      /\ \A k \in Counters : IsFiniteSet(Marked(kept, SeenNow, k))
  BY DEF DInv, BooksInv
<1> DEFINE G == SeenNow'
           B == BackNow'
<1>6. \A k \in Counters : IsFiniteSet(Marked(kept, G, k))
  BY <1>4, <1>5
<1>7. data' = DayOf(kept', G, B) /\ file'.day = DayOf(filed', G, B)
  BY <1>1, <1>4
<1> HIDE DEF G
<1>8. \A k \in Counters : IsFiniteSet(Marked(filed, G, k))
  BY <1>5, <1>6, MarkedSubset
<1>9. BooksInv'
  BY <1>1, <1>4, <1>5, <1>7, <1>8 DEF BooksInv, G
<1> QED BY <1>3, <1>9 DEF DInv

LEMMA DCrash == ASSUME CInv, DInv, Crash PROVE DInv'
<1>1. \A r \in Requests : reply[r] \in Replies /\ PageInv(ask[r], reply[r]) /\ Fixed(reply[r], reply[r])
  BY DEF CInv, DInv, PagesInv, Fixed
<1> QED BY <1>1, DGatewayEnds DEF Crash

\* A request that the adapter throws at has been sent nothing, and is in no books.
LEMMA DThrows == ASSUME CInv, DInv, NEW r \in Requests, ArrivalThrows(r) PROVE DInv'
<1> DEFINE e == Entered(ask[r])
           q == Quiet(e)
<1>1. GatewayEnds(Thrown(r)) /\ reply[r].pc = "new"
  BY DEF ArrivalThrows, Thrown
<1>2. e \in Replies /\ Fresh(ask[r], e) /\ e.sent = <<>> /\ e.head = "none" /\ ~e.ended
  BY AskTypes, EnteredFresh
<1> HIDE DEF e
<1>3. SameBut(e, q) /\ q.pc = "done"
  BY <1>2, QuietSame
<1> HIDE DEF q
<1>4. Fresh(ask[r], q) /\ q.sent = <<>> /\ q.head = "none" /\ ~q.ended
  BY <1>2, <1>3 DEF SameBut, Fresh
<1>5. \A S : ~Written(q.sent, S) /\ LastOnly(q.sent, S)
  BY <1>4 DEF Written, LastOnly
<1>6. ReadsWell(ask[r], q)
  BY <1>4, <1>5 DEF ReadsWell
<1>7. CountsTrue(ask[r], q)
  BY <1>4, <1>5, FreshCounts
<1>8. PageInv(ask[r], q)
  BY <1>3, <1>6, <1>7 DEF PageInv
<1>9. ~reply[r].recorded
  BY <1>1 DEF CInv, ReplyInv
<1>10. \A x \in Requests : Thrown(r)[x] = IF x = r THEN q ELSE reply[x]
  BY ThrownIs DEF q, e
<1>11. ASSUME NEW x \in Requests
       PROVE  /\ Thrown(r)[x] \in Replies /\ PageInv(ask[x], Thrown(r)[x])
              /\ Fixed(reply[x], Thrown(r)[x])
  <2>1. Thrown(r)[x] \in Replies
    BY ThrownIs
  <2>2. CASE x = r
    BY <1>8, <1>9, <1>10, <2>1, <2>2 DEF Fixed
  <2>3. CASE x # r
    BY <1>10, <2>1, <2>3 DEF DInv, PagesInv, Fixed
  <2> QED BY <2>2, <2>3
<1> QED BY <1>1, <1>11, DGatewayEnds

LEMMA DNext == CInv /\ DInv /\ [Next]_vars => DInv'
<1> SUFFICES ASSUME CInv, DInv, [Next]_vars PROVE DInv'
  OBVIOUS
<1>1. CASE UNCHANGED vars
  BY <1>1 DEF vars, stats, DInv, PagesInv, BooksInv, SeenNow, BackNow, BackendOf, Saving
<1>2. CASE Next
  BY <1>2, DHandler, DSaves, DCrash, DThrows DEF Next
<1> QED BY <1>1, <1>2

-----------------------------------------------------------------------------
(***************************************************************************)
(* The theorems.                                                           *)
(***************************************************************************)
\* The inductive invariant of the routes, for any requests, items and settings.
THEOREM RoutesInvariant == Spec => []CInv
<1>1. CInv /\ [Next]_vars => CInv'
  BY CNext DEF StepOK
<1> QED BY <1>1, CInit, PTL DEF Spec

\* The variables keep their types; in particular the count of the requests under way is
\* never less than zero, over responses that finish and close and over restarts.
THEOREM RoutesTypes == Spec => []TypeOK
<1>1. CInv => TypeOK
  BY FS_CardinalityType DEF CInv, Store, StoreTypeOK, StatsTypeOK, TypeOK
<1> QED BY <1>1, RoutesInvariant, PTL

\* The statistics' active counts the requests whose response has neither finished nor
\* closed (daily-stats.ts:96-106).
THEOREM RoutesActive ==
  Spec => [](active = Cardinality({r \in Requests : reply[r].pc \in {"turn", "done"} /\ ~reply[r].recorded}))
<1>1. CInv => active = Cardinality({r \in Requests : reply[r].pc \in {"turn", "done"} /\ ~reply[r].recorded})
  BY DEF CInv, UnderWay, InHand
<1> QED BY <1>1, RoutesInvariant, PTL

\* Whatever headers, body and settings say, a turn runs in the session that its headers
\* tell of, within the bounds of the settings.
THEOREM RoutesServeAsTold == Spec => []ServedAsTold
<1>1. CInv => ServedAsTold
  BY DEF CInv, ReplyInv, Served, ServedAsTold
<1> QED BY <1>1, RoutesInvariant, PTL

\* A comment that names a phase names one of an item that runs, however the items of a
\* turn and the ticks of the keepalive overlap.
THEOREM RoutesPhaseTruth == Spec => PhaseTruth
<1>1. CInv /\ [Next]_vars =>
        [\A r \in Requests :
           \/ reply'[r].comment \in {reply[r].comment, NoItem}
           \/ reply'[r].comment \in reply[r].running]_vars
  BY CNext DEF StepOK, PhaseStep, CommentFrom
<1> QED BY <1>1, RoutesInvariant, PTL DEF Spec, PhaseTruth

\* Over any number of failing saves and crashes, a file that cannot be read stays as it
\* is, and one that can loses no count.
THEOREM RoutesFileNeverLoses == Spec => FileNeverLoses
<1>1. CInv /\ [Next]_vars =>
        [/\ file.is = "unreadable" => file' = file
         /\ file.is = "saved" =>
              /\ file'.is = "saved"
              /\ \A k \in Counters : file'.day.totals[k] >= file.day.totals[k]]_vars
  BY CNext DEF StepOK, FileStep
<1> QED BY <1>1, RoutesInvariant, PTL DEF Spec, FileNeverLoses

\* The second inductive invariant: what was written, and what is in the books.
THEOREM RoutesBooks == Spec => []DInv
<1>1. DInv /\ CInv /\ [Next]_vars => DInv'
  BY DNext
<1> QED BY <1>1, DInit, RoutesInvariant, PTL DEF Spec

\* Whatever the options, however notifications, errors and the closing of connections come,
\* what a client reads makes sense (handleChatCompletions, handleResponses).
THEOREM RoutesWellFormed == Spec => []ResponseWellFormed
<1>1. CInv /\ DInv => ResponseWellFormed
  <2> SUFFICES ASSUME CInv, DInv, NEW r \in Requests
               PROVE  LET q == reply[r]
                      IN  /\ \A i \in DOMAIN q.sent : q.sent[i] \in Endings(r) => i = Len(q.sent)
                          /\ q.ended /\ q.head # "none" => q.closed \/ Has(r, Endings(r))
                          /\ ~(Has(r, {"text"}) /\ Has(r, {"calls"}))
                          /\ ~(Has(r, {"error"}) /\ Answered(r))
                          /\ ~ask[r].stream /\ q.head = "ok" => Answered(r)
    BY DEF ResponseWellFormed
  <2>1. PageInv(ask[r], reply[r])
    BY DEF DInv, PagesInv
  <2>2. /\ \A S : Has(r, S) <=> Written(reply[r].sent, S)
        /\ Answered(r) <=> Written(reply[r].sent, AnswerMarks)
        /\ Endings(r) = ClosingMarks(ask[r], reply[r].head)
    BY DEF Has, Answered, Written, AnswerMarks, Endings, ClosingMarks
  <2>3. ReadsWell(ask[r], reply[r])
    <3>1. CASE reply[r].pc = "new"
      <4>1. reply[r].sent = <<>> /\ ~reply[r].ended /\ reply[r].head = "none"
        BY <2>1, <3>1 DEF PageInv, NewReply
      <4> QED BY <4>1 DEF ReadsWell, Written, LastOnly
    <3>2. CASE reply[r].pc # "new"
      BY <2>1, <3>2 DEF PageInv
    <3> QED BY <3>1, <3>2
  <2> QED BY <2>2, <2>3 DEF ReadsWell, LastOnly
<1> QED BY <1>1, RoutesInvariant, RoutesBooks, PTL

\* Every request is counted once, as what its caller saw and its turn gave, in memory and,
\* as far as a save has gone well, in the file; for any number of requests, saves and ends of
\* the gateway, with counts that are valid or not, fallbacks that asked the web or not, and
\* answers that an error breaks off.
THEOREM RoutesStatsExact == Spec => []StatsExact
<1>1. CInv /\ DInv => StatsExact
  <2> SUFFICES ASSUME CInv, DInv PROVE StatsExact
    OBVIOUS
  <2>1. \A r \in Requests : SeenNow[r] = Seen(r) /\ BackNow[r] = BackendOf(r)
    BY DEF SeenNow, SeenBy, CameTo, Seen, BrokenOff, Written, AnswerMarks, Answered, Has, BackNow
  <2>2. ASSUME NEW rs \in SUBSET Requests PROVE Tally(rs) = TallyOf(rs, SeenNow)
    <3>1. {{r} \X Seen(r) : r \in rs} = {{r} \X SeenNow[r] : r \in rs}
      BY <2>1
    <3> QED BY <3>1 DEF Tally, TallyOf, Marked
  <2>3. ASSUME NEW rs \in SUBSET Requests PROVE TalliedDay(rs) = DayOf(rs, SeenNow, BackNow)
    <3>1. \A b : {r \in rs : BackendOf(r) = b} = {r \in rs : BackNow[r] = b}
      BY <2>1
    <3>2. \A b : Tally({r \in rs : BackendOf(r) = b}) = TallyOf({r \in rs : BackNow[r] = b}, SeenNow)
      BY <2>2, <3>1
    <3> QED BY <2>2, <3>2 DEF TalliedDay, DayOf
  <2>4. /\ kept \subseteq Requests /\ filed \subseteq Requests
        /\ data = DayOf(kept, SeenNow, BackNow)
        /\ file.day = DayOf(filed, SeenNow, BackNow)
        /\ ~Saving /\ trouble = "none" /\ file.is # "unset" => kept = filed
    BY DEF DInv, BooksInv
  <2>5. active = Cardinality({r \in Requests : reply[r].pc \in {"turn", "done"} /\ ~reply[r].recorded})
    BY DEF CInv, UnderWay, InHand
  <2> QED BY <2>3, <2>4, <2>5 DEF StatsExact
<1> QED BY <1>1, RoutesInvariant, RoutesBooks, PTL

=============================================================================
