--------------------------- MODULE TurnOutputProofs ---------------------------
(***************************************************************************)
(* Proofs about TurnRunner, for any calls, kinds and number of processes:  *)
(* the types, that what is given back to the pool is clean, and that a     *)
(* call collects the output of its own turn.  They rest on where the       *)
(* handlers of notifications are, and on which turns may run at once at an *)
(* app-server; the invariant of TurnRunnerProofs is used as a fact.        *)
(***************************************************************************)
EXTENDS TurnRunnerProofs

-----------------------------------------------------------------------------
(***************************************************************************)
(* The inductive invariant: call by call, pair by pair, and for the pool.  *)
(***************************************************************************)
Session == \E c \in Calls : Sticky(c)
Live(c) == call[c].pc \in {"starting", "turning"} /\ ~Sticky(c)
Turning(c) == op[c].promise = "pending"
Handling(p) == DOMAIN worker[p].handlers

\* A call that has ended and whose operation is over, here and at the app-server.
Done(c) ==
  /\ call[c].pc = "ended"
  /\ op[c].rpc = "none" /\ op[c].promise = "none" /\ op[c].remote # "running"

\* A turn that is not over has its handler, and a process that was not told to end has
\* the handlers of such turns only.
Handled(c) ==
  /\ Turning(c) => On(c) \in Procs /\ c \in Handling(On(c))
  /\ \A p \in Procs : c \in Handling(p) /\ ~worker[p].dead => On(c) = p /\ Turning(c)

\* Where a call is, and what it left there.
Placed(c) ==
  /\ On(c) \in Procs => worker[On(c)].os # "none"
  /\ Session /\ ~Sticky(c) => On(c) # 1
  /\ Live(c) => On(c) \notin idle
  /\ On(c) \in idle => Done(c)
  /\ call[c].pc \in {"new", "acquiring"} => On(c) = 0 /\ op[c].promise = "none" /\ op[c].remote # "running"

\* A call runs its turns on a thread of its own or on that of the session.
Threaded(c) ==
  /\ op[c].thread \in {"none", "sticky", c}
  /\ op[c].thread = "sticky" => On(c) = 1 /\ Sticky(c)
  /\ op[c].remote = "running" => op[c].thread # "none" /\ On(c) \in Procs

\* What the promise of a turn tells of the turn at the app-server, and whose output is
\* collected.
Truthful(c) ==
  /\ op[c].rpc = "turn/start" \/ op[c].heard => op[c].promise # "none"
  /\ op[c].thread # "sticky" /\ op[c].promise = "resolved" => op[c].remote # "running"
  /\ (op[c].thread = "sticky" /\ op[c].remote = "running" /\ ~op[c].shared /\ ~worker[1].dead) =>
       op[c].promise \in {"pending", "rejected"}
  /\ ~op[c].shared => op[c].text \subseteq {c}

Mine(c) == Handled(c) /\ Placed(c) /\ Threaded(c) /\ Truthful(c)

\* Nobody else is under way on a process that is not the session's, and no other turn
\* runs on the session's thread while one is collected that shares it with nobody.
Pair(c, d) ==
  /\ Live(c) /\ On(d) = On(c) => Done(d)
  /\ (op[c].thread = "sticky" /\ op[d].thread = "sticky" /\ Turning(c) /\ ~op[c].shared) =>
       op[d].remote # "running"

PoolTidy ==
  /\ \A p \in idle : Handling(p) = {}
  /\ \A p \in Procs : worker[p].os = "none" => ~worker[p].dead /\ p \notin idle
  /\ Session => worker[1].os # "none" /\ 1 \notin idle

Tidy ==
  /\ \A c \in Calls : Mine(c)
  /\ \A c, d \in Calls : c # d => Pair(c, d)
  /\ PoolTidy

Inv == RInv /\ TypeOK /\ Tidy

-----------------------------------------------------------------------------
(***************************************************************************)
(* What the handlers of AppServer do to the lists of a process.            *)
(***************************************************************************)
LEMMA ListFacts ==
  ASSUME NEW l \in Lists
  PROVE  /\ DOMAIN l \in SUBSET Calls
         /\ l \in [DOMAIN l -> SUBSET Calls]
BY DEF Lists

LEMMA ListIs ==
  ASSUME NEW S \in SUBSET Calls, NEW l \in [S -> SUBSET Calls]
  PROVE  l \in Lists /\ DOMAIN l = S
BY DEF Lists

LEMMA EmptyIs == EmptyList \in Lists /\ DOMAIN EmptyList = {}
<1>1. EmptyList \in [{} -> SUBSET Calls]
  BY DEF EmptyList
<1> QED BY <1>1, ListIs

Typical(w) == w \in [Procs -> Workers]
ListOf(w, p) == DOMAIN w[p].handlers

\* Of processes w and v: the handlers are the same, and so is what else is told of them.
SameLists(w, v) == \A q \in Procs : ListOf(v, q) = ListOf(w, q)

LEMMA KillLists ==
  ASSUME NEW w, Typical(w), NEW p \in {0} \cup Procs
  PROVE  /\ Typical(Kill(w, p)) /\ SameLists(w, Kill(w, p))
         /\ \A q \in Procs : Kill(w, p)[q].os = w[q].os /\ (Kill(w, p)[q].dead <=> (w[q].dead \/ q = p))
<1>1. CASE p = 0
  BY <1>1, OneProcess DEF Kill, SameLists
<1>2. CASE p # 0
  <2>1. Kill(w, p) = [w EXCEPT ![p].dead = TRUE]
    BY <1>2 DEF Kill
  <2>2. Typical(Kill(w, p))
    BY <1>2, <2>1 DEF Typical, Workers
  <2>3. \A q \in Procs : /\ Kill(w, p)[q].os = w[q].os /\ (Kill(w, p)[q].dead <=> (w[q].dead \/ q = p))
                         /\ Kill(w, p)[q].handlers = w[q].handlers
    BY <1>2, <2>1 DEF Typical, Workers
  <2> QED BY <2>2, <2>3 DEF SameLists, ListOf
<1> QED BY <1>1, <1>2

LEMMA SpawnLists ==
  ASSUME NEW w, Typical(w), NEW p \in Procs
  PROVE  /\ Typical(Spawned(w, p)) /\ SameLists(w, Spawned(w, p))
         /\ \A q \in Procs : /\ Spawned(w, p)[q].os = IF q = p THEN "up" ELSE w[q].os
                             /\ Spawned(w, p)[q].dead = w[q].dead
<1>1. Typical(Spawned(w, p))
  BY DEF Typical, Workers, Spawned
<1>2. \A q \in Procs : /\ Spawned(w, p)[q].os = (IF q = p THEN "up" ELSE w[q].os)
                       /\ Spawned(w, p)[q].dead = w[q].dead
                       /\ Spawned(w, p)[q].handlers = w[q].handlers
  BY DEF Typical, Workers, Spawned
<1> QED BY <1>1, <1>2 DEF SameLists, ListOf

\* One list changes.
LEMMA ListPut ==
  ASSUME NEW w, Typical(w), NEW p \in Procs, NEW l \in Lists
  PROVE  /\ Typical([w EXCEPT ![p].handlers = l]) /\ SameLife(w, [w EXCEPT ![p].handlers = l])
         /\ \A q \in Procs : ListOf([w EXCEPT ![p].handlers = l], q) = IF q = p THEN DOMAIN l ELSE ListOf(w, q)
<1> DEFINE v == [w EXCEPT ![p].handlers = l]
<1>1. Typical(v)
  BY DEF Typical, Workers
<1>2. \A q \in Procs : /\ v[q].os = w[q].os /\ v[q].dead = w[q].dead
                       /\ v[q].handlers = IF q = p THEN l ELSE w[q].handlers
  BY DEF Typical, Workers
<1> HIDE DEF v
<1>3. SameLife(w, v)
  BY <1>2 DEF SameLife
<1>4. \A q \in Procs : ListOf(v, q) = IF q = p THEN DOMAIN l ELSE ListOf(w, q)
  BY <1>2 DEF ListOf
<1> QED BY <1>1, <1>3, <1>4 DEF v

LEMMA SubscribeLists ==
  ASSUME NEW w, Typical(w), NEW p \in Procs, NEW c \in Calls
  PROVE  /\ Typical(TurnWorker(w, p, c)) /\ SameLife(w, TurnWorker(w, p, c))
         /\ \A q \in Procs : ListOf(TurnWorker(w, p, c), q) =
                               IF q = p THEN ListOf(w, q) \cup {c} ELSE ListOf(w, q)
<1> DEFINE k == w[p].handlers
           l == [h \in DOMAIN k \cup {c} |-> IF h = c THEN DOMAIN k ELSE k[h]]
<1>1. TurnWorker(w, p, c) = [w EXCEPT ![p].handlers = l]
  BY DEF TurnWorker
<1>2. k \in Lists
  BY DEF Typical, Workers
<1> HIDE DEF k
<1>3. l \in [DOMAIN k \cup {c} -> SUBSET Calls]
  BY <1>2, ListFacts
<1>4. DOMAIN k \cup {c} \in SUBSET Calls
  BY <1>2, ListFacts
<1> HIDE DEF l
<1>5. l \in Lists /\ DOMAIN l = DOMAIN k \cup {c}
  BY <1>3, <1>4, ListIs
<1>6. DOMAIN k = ListOf(w, p)
  BY DEF k, ListOf
<1> DEFINE v == [w EXCEPT ![p].handlers = l]
<1>7. /\ Typical(v) /\ SameLife(w, v)
      /\ \A q \in Procs : ListOf(v, q) = IF q = p THEN DOMAIN l ELSE ListOf(w, q)
  BY <1>5, ListPut
<1> HIDE DEF v
<1> QED BY <1>1, <1>5, <1>6, <1>7 DEF v

LEMMA UnsubscribeLists ==
  ASSUME NEW w, Typical(w), NEW p \in Procs, NEW hs
  PROVE  /\ Typical(Unsubscribed(w, p, hs)) /\ SameLife(w, Unsubscribed(w, p, hs))
         /\ \A q \in Procs : ListOf(Unsubscribed(w, p, hs), q) =
                               IF q = p THEN ListOf(w, q) \ hs ELSE ListOf(w, q)
<1> DEFINE k == w[p].handlers
           l == [h \in DOMAIN k \ hs |-> k[h] \ hs]
<1>1. Unsubscribed(w, p, hs) = [w EXCEPT ![p].handlers = l]
  BY DEF Unsubscribed
<1>2. k \in Lists
  BY DEF Typical, Workers
<1> HIDE DEF k
<1>3. l \in [DOMAIN k \ hs -> SUBSET Calls]
  BY <1>2, ListFacts
<1>4. DOMAIN k \ hs \in SUBSET Calls
  BY <1>2, ListFacts
<1> HIDE DEF l
<1>5. l \in Lists /\ DOMAIN l = DOMAIN k \ hs
  BY <1>3, <1>4, ListIs
<1>6. DOMAIN k = ListOf(w, p)
  BY DEF k, ListOf
<1> DEFINE v == [w EXCEPT ![p].handlers = l]
<1>7. /\ Typical(v) /\ SameLife(w, v)
      /\ \A q \in Procs : ListOf(v, q) = IF q = p THEN DOMAIN l ELSE ListOf(w, q)
  BY <1>5, ListPut
<1> HIDE DEF v
<1> QED BY <1>1, <1>5, <1>6, <1>7 DEF v

-----------------------------------------------------------------------------
(***************************************************************************)
(* A step of one call, c: what it may do to the others.                    *)
(***************************************************************************)
\* Of operations o and u: those of the others are the same, but may have become shared.
Same(u, o, c) ==
  \A d \in Calls \ {c} :
    /\ u[d].on = o[d].on /\ u[d].thread = o[d].thread /\ u[d].rpc = o[d].rpc
    /\ u[d].promise = o[d].promise /\ u[d].heard = o[d].heard /\ u[d].remote = o[d].remote
    /\ u[d].text = o[d].text /\ (o[d].shared => u[d].shared)

\* Processes w become v: what has been started or told to end stays so, and only what
\* has been started is told to end.
Onward(w, v) ==
  \A p \in Procs : /\ v[p].os = "none" => w[p].os = "none" /\ (v[p].dead => w[p].dead)
                   /\ w[p].dead => v[p].dead

\* Nobody but c comes or goes.
OnlyMoves(w, v, c) == \A p \in Procs : ListOf(v, p) \ {c} = ListOf(w, p) \ {c}

\* What is given back to the pool is nobody else's.
FreeOfOthers(c) == \A p \in idle' \ idle : \A d \in Calls \ {c} : On(d) = p => Done(d)

CallsBeside(c) == /\ \A d \in Calls \ {c} : call'[d] = call[d]
                  /\ call'[c].kind = "sticky" <=> call[c].kind = "sticky"

StepOf(c) ==
  /\ CallsBeside(c)
  /\ Same(op', op, c)
  /\ Onward(worker, worker')
  /\ OnlyMoves(worker, worker', c)
  /\ FreeOfOthers(c)

LEMMA OtherIsDone ==
  ASSUME NEW c \in Calls, StepOf(c), NEW d \in Calls \ {c}
  PROVE  /\ (Done(d)' <=> Done(d))
         /\ (Live(d)' <=> Live(d))
         /\ (Turning(d)' <=> Turning(d))
         /\ On(d)' = On(d)
         /\ (Sticky(d)' <=> Sticky(d))
BY DEF StepOf, CallsBeside, Same, Done, Live, Turning, On, Sticky

LEMMA SessionStays == ASSUME NEW c \in Calls, StepOf(c) PROVE Session' <=> Session
BY DEF StepOf, CallsBeside, Session, Sticky

LEMMA OtherIsMine ==
  ASSUME Tidy, NEW c \in Calls, StepOf(c), 1 \in Procs, NEW d \in Calls \ {c}
  PROVE  Mine(d)'
<1>1. /\ (Done(d)' <=> Done(d)) /\ (Live(d)' <=> Live(d)) /\ (Turning(d)' <=> Turning(d))
      /\ On(d)' = On(d) /\ (Sticky(d)' <=> Sticky(d)) /\ (Session' <=> Session)
  BY OtherIsDone, SessionStays
<1>2. Handled(d) /\ Placed(d) /\ Threaded(d) /\ Truthful(d)
  BY DEF Tidy, Mine
<1>3. \A p \in Procs : (d \in Handling(p)' <=> d \in Handling(p))
  BY DEF StepOf, OnlyMoves, ListOf, Handling
<1>4. Handled(d)'
  BY <1>1, <1>2, <1>3 DEF Handled, StepOf, Onward
<1>5. Placed(d)'
  <2>1. On(d) \in Procs => worker'[On(d)].os # "none"
    BY <1>2 DEF Placed, StepOf, Onward
  <2>2. Live(d) => On(d) \notin idle'
    BY <1>2 DEF Placed, StepOf, FreeOfOthers, Done, Live
  <2>3. On(d) \in idle' => Done(d)
    BY <1>2 DEF Placed, StepOf, FreeOfOthers
  <2>4. call'[d].pc \in {"new", "acquiring"} => On(d) = 0 /\ op'[d].promise = "none" /\ op'[d].remote # "running"
    BY <1>2 DEF Placed, StepOf, CallsBeside, Same
  <2> QED BY <1>1, <1>2, <2>1, <2>2, <2>3, <2>4 DEF Placed
<1>6. Threaded(d)'
  BY <1>1, <1>2 DEF Threaded, StepOf, Same
<1>7. Truthful(d)'
  BY <1>1, <1>2 DEF Truthful, StepOf, Same, Onward
<1> QED BY <1>4, <1>5, <1>6, <1>7 DEF Mine

LEMMA StepTidy ==
  ASSUME Tidy, NEW c \in Calls, StepOf(c), 1 \in Procs, Mine(c)', PoolTidy',
         \A d \in Calls \ {c} : Pair(c, d)' /\ Pair(d, c)'
  PROVE  Tidy'
<1>1. ASSUME NEW d \in Calls PROVE Mine(d)'
  BY OtherIsMine
<1>2. ASSUME NEW d \in Calls, NEW e \in Calls, d # e PROVE Pair(d, e)'
  <2>1. CASE d = c \/ e = c
    BY <1>2, <2>1
  <2>2. CASE d # c /\ e # c
    <3>1. Pair(d, e)
      BY <1>2 DEF Tidy
    <3>2. /\ (Done(e)' <=> Done(e)) /\ (Live(d)' <=> Live(d)) /\ (Turning(d)' <=> Turning(d))
          /\ On(d)' = On(d) /\ On(e)' = On(e)
      BY <2>2, OtherIsDone
    <3>3. Same(op', op, c)
      BY DEF StepOf
    <3> QED BY <2>2, <3>1, <3>2, <3>3 DEF Pair, Same
  <2> QED BY <2>1, <2>2
<1> QED BY <1>1, <1>2 DEF Tidy

\* What a call that goes on is to the others, when it stays where it is.
LEMMA StaysPaired ==
  ASSUME Tidy, NEW c \in Calls, StepOf(c), NEW d \in Calls \ {c},
         On(c)' = On(c), op'[c].thread = op[c].thread, op'[c].remote = "running" => op[c].remote = "running",
         op[c].shared => op'[c].shared, Turning(c)' => Turning(c),
         Live(c)' => Live(c), ~Done(c)
  PROVE  Pair(c, d)' /\ Pair(d, c)'
<1>1. Pair(c, d) /\ Pair(d, c)
  BY DEF Tidy
<1>2. /\ (Done(d)' <=> Done(d)) /\ (Live(d)' <=> Live(d)) /\ (Turning(d)' <=> Turning(d))
      /\ On(d)' = On(d)
  BY OtherIsDone
<1>3. Same(op', op, c)
  BY DEF StepOf
<1>4. Pair(c, d)'
  BY <1>1, <1>2, <1>3 DEF Pair, Same
<1>5. Pair(d, c)'
  BY <1>1, <1>2, <1>3 DEF Pair, Same
<1> QED BY <1>4, <1>5

\* The pool, when nothing is given back to it.
LEMMA PoolStays ==
  ASSUME Tidy, NEW c \in Calls, StepOf(c), 1 \in Procs, idle' \subseteq idle, idle \subseteq Procs,
         \A p \in idle' : c \notin Handling(p)'
  PROVE  PoolTidy'
<1>1. \A p \in idle : Handling(p) = {}
  BY DEF Tidy, PoolTidy
<1>2. \A p \in idle' : Handling(p)' = {}
  BY <1>1 DEF StepOf, OnlyMoves, ListOf, Handling
<1>3. \A p \in Procs : worker'[p].os = "none" => ~worker'[p].dead /\ p \notin idle'
  BY DEF Tidy, PoolTidy, StepOf, Onward
<1>4. Session' => worker'[1].os # "none" /\ 1 \notin idle'
  BY SessionStays DEF Tidy, PoolTidy, StepOf, Onward
<1> QED BY <1>2, <1>3, <1>4 DEF PoolTidy

\* A call that ends, on a process that is killed.
LEMMA EndsTidy ==
  ASSUME Tidy, 1 \in Procs, idle \subseteq Procs, NEW c \in Calls, StepOf(c), idle' = idle, ~Done(c),
         call'[c].pc = "ended",
         On(c)' = On(c), op'[c].thread = op[c].thread, op'[c].remote = op[c].remote, op'[c].shared = op[c].shared,
         op'[c].rpc = "none", op'[c].promise \in {"none", "rejected"}, op'[c].heard = FALSE, op'[c].text = {},
         \A p \in Procs : ListOf(worker', p) \subseteq ListOf(worker, p),
         On(c) \in Procs => worker'[On(c)].dead
  PROVE  Tidy'
<1>1. Handled(c) /\ Placed(c) /\ Threaded(c) /\ Truthful(c)
  BY DEF Tidy, Mine
<1>2. ~Turning(c)' /\ ~Live(c)' /\ (Sticky(c)' <=> Sticky(c)) /\ (Session' <=> Session)
  BY SessionStays DEF Turning, Live, StepOf, CallsBeside, Sticky
<1>3. Handled(c)'
  BY <1>1, <1>2 DEF Handled, StepOf, Onward, Handling, ListOf
<1>4. Placed(c)'
  BY <1>1, <1>2 DEF Placed, StepOf, Onward
<1>5. Threaded(c)'
  BY <1>1, <1>2 DEF Threaded
<1>6. Truthful(c)'
  BY <1>1 DEF Truthful, Threaded
<1>7. \A p \in idle' : c \notin Handling(p)'
  BY DEF Tidy, PoolTidy, Handling, ListOf
<1>8. PoolTidy'
  BY <1>7, PoolStays
<1>9. \A d \in Calls \ {c} : Pair(c, d)' /\ Pair(d, c)'
  BY <1>2, StaysPaired
<1> QED BY <1>3, <1>4, <1>5, <1>6, <1>8, <1>9, StepTidy DEF Mine

\* A call that goes on, or begins, on a new process.
LEMMA LaunchTidy ==
  ASSUME Tidy, 1 \in Procs, idle \subseteq Procs, NEW c \in Calls, StepOf(c), idle' = idle,
         call'[c].pc = "starting", ~Sticky(c),
         NEW p \in Procs, worker[p].os = "none", worker'[p].os # "none",
         op'[c].on = p, op'[c].thread = "none", op'[c].rpc = "initialize", op'[c].promise = "none",
         op'[c].heard = FALSE, op'[c].remote = "none", op'[c].text = {},
         \A q \in Procs : ListOf(worker', q) \subseteq ListOf(worker, q),
         \A q \in Procs : c \in ListOf(worker', q) => worker'[q].dead
  PROVE  Tidy'
<1>1. PoolTidy /\ (\A d \in Calls : Placed(d))
  BY DEF Tidy, Mine
<1>2. ~Turning(c)' /\ On(c)' = p /\ ~Sticky(c)' /\ (Session' <=> Session)
  BY SessionStays DEF Turning, On, StepOf, CallsBeside, Sticky
<1>3. p \notin idle /\ (Session => p # 1)
  BY <1>1 DEF PoolTidy
<1>4. Handled(c)'
  BY <1>2 DEF Handled, Handling, ListOf
<1>5. Placed(c)'
  BY <1>2, <1>3 DEF Placed
<1>6. Threaded(c)' /\ Truthful(c)'
  BY DEF Threaded, Truthful
<1>7. \A q \in idle' : c \notin Handling(q)'
  BY <1>1 DEF PoolTidy, Handling, ListOf
<1>8. PoolTidy'
  BY <1>7, PoolStays
<1>9. ASSUME NEW d \in Calls \ {c} PROVE Pair(c, d)' /\ Pair(d, c)'
  <2>1. On(d) # p /\ On(d)' = On(d)
    BY <1>1, OtherIsDone DEF Placed
  <2> QED BY <1>2, <2>1 DEF Pair
<1> QED BY <1>4, <1>5, <1>6, <1>8, <1>9, StepTidy DEF Mine


-----------------------------------------------------------------------------
(***************************************************************************)
(* What the handlers do to the turn of an operation.                       *)
(***************************************************************************)
\* Of operations u and o: c's turn is the same one, at the same place, and the others'
\* operations are the same.
SameTurn(a, b) == a.on = b.on /\ a.thread = b.thread /\ a.remote = b.remote /\ a.shared = b.shared
Retells(u, o, c) == Same(u, o, c) /\ SameTurn(u[c], o[c])

LEMMA PutSame ==
  ASSUME NEW o \in [Calls -> Operations], NEW c \in Calls, NEW r, NEW u, u = [o EXCEPT ![c] = r]
  PROVE  Same(u, o, c) /\ u[c] = r
BY DEF Same

LEMMA SameAgain ==
  ASSUME NEW c, NEW o, NEW u, NEW v, Same(u, o, c), Same(v, u, c) PROVE Same(v, o, c)
BY DEF Same

LEMMA RetellsAgain ==
  ASSUME NEW c, NEW o, NEW u, NEW v, Retells(u, o, c), Retells(v, u, c) PROVE Retells(v, o, c)
BY SameAgain DEF Retells, SameTurn

LEMMA OverTells ==
  ASSUME NEW o \in [Calls -> Operations], NEW c \in Calls
  PROVE  /\ Retells(Over(o, c), o, c) /\ Over(o, c)[c].text = {}
         /\ Retells(Rejected(o, c), o, c) /\ Rejected(o, c)[c].text = {}
<1> DEFINE r == [o[c] EXCEPT !.rpc = "none", !.asked = FALSE, !.reply = "none", !.promise = "none", !.heard = FALSE, !.text = {}]
           t == [r EXCEPT !.promise = "rejected"]
<1>1. o[c] \in Operations
  OBVIOUS
<1>2. SameTurn(r, o[c]) /\ r.text = {} /\ r \in Operations
  BY <1>1 DEF Operations, SameTurn
<1>3. Over(o, c) = [o EXCEPT ![c] = r]
  BY DEF Over
<1> HIDE DEF r
<1>4. SameTurn(t, o[c]) /\ t.text = {}
  BY <1>2 DEF Operations, SameTurn
<1>5. Rejected(o, c) = [o EXCEPT ![c] = t]
  BY <1>3 DEF Rejected
<1> HIDE DEF t
<1>6. Retells(Over(o, c), o, c) /\ Over(o, c)[c].text = {}
  BY <1>2, <1>3, PutSame DEF Retells
<1>7. Retells(Rejected(o, c), o, c) /\ Rejected(o, c)[c].text = {}
  BY <1>4, <1>5, PutSame DEF Retells
<1> QED BY <1>6, <1>7

LEMMA TakenTells ==
  ASSUME op \in [Calls -> Operations], NEW c \in Calls
  PROVE  Retells(Taken(c), op, c) /\ Taken(c)[c].text = op[c].text
<1> DEFINE r == [op[c] EXCEPT !.rpc = "none", !.asked = FALSE, !.reply = "none"]
<1>1. op[c] \in Operations
  OBVIOUS
<1>2. SameTurn(r, op[c]) /\ r.text = op[c].text
  BY <1>1 DEF Operations, SameTurn
<1>3. Taken(c) = [op EXCEPT ![c] = r]
  BY DEF Taken
<1> HIDE DEF r
<1> QED BY <1>2, <1>3, PutSame DEF Retells

LEMMA AskTells ==
  ASSUME NEW w, NEW o \in [Calls -> Operations], NEW c \in Calls, NEW m
  PROVE  Retells(Ask(w, o, c, m), o, c) /\ Ask(w, o, c, m)[c].text = o[c].text
<1> DEFINE b == w[o[c].on].os = "up"
           r == [o[c] EXCEPT !.rpc = m, !.reply = "none", !.asked = b]
<1> HIDE DEF b
<1>1. o[c] \in Operations
  OBVIOUS
<1>2. SameTurn(r, o[c]) /\ r.text = o[c].text
  BY <1>1 DEF Operations, SameTurn
<1>3. Ask(w, o, c, m) = [o EXCEPT ![c] = r]
  BY DEF Ask, b
<1> HIDE DEF r
<1> QED BY <1>2, <1>3, PutSame DEF Retells

LEMMA CatchTells ==
  ASSUME NEW o \in [Calls -> Operations], NEW c \in Calls
  PROVE  Retells(CatchOp(o, c), o, c) /\ CatchOp(o, c) \in [Calls -> Operations]
<1> DEFINE b == o[c].forsaken \/ o[c].promise = "rejected"
           r == [o[c] EXCEPT !.timer = FALSE, !.temp = FALSE, !.forsaken = b]
<1>1. o[c] \in Operations /\ b \in BOOLEAN
  BY DEF Operations
<1> HIDE DEF b
<1>2. SameTurn(r, o[c]) /\ r \in Operations
  BY <1>1 DEF Operations, SameTurn
<1>3. CatchOp(o, c) = [o EXCEPT ![c] = r]
  BY DEF CatchOp, b
<1> HIDE DEF r
<1> QED BY <1>2, <1>3, PutSame DEF Retells

\* Nothing has been asked of process p yet.
Unasked(a, p) ==
  /\ a.on = p /\ a.thread = "none" /\ a.remote = "none" /\ a.text = {}
  /\ a.promise = "none" /\ a.heard = FALSE /\ a.rpc = "none"

LEMMA AtTells ==
  ASSUME NEW o \in [Calls -> Operations], NEW c \in Calls, NEW p \in Procs
  PROVE  Same(PutOn(o, c, p), o, c) /\ PutOn(o, c, p) \in [Calls -> Operations] /\ Unasked(PutOn(o, c, p)[c], p)
<1> DEFINE r == [NoOp EXCEPT !.on = p, !.forsaken = o[c].forsaken]
           u == PutOn(o, c, p)
<1>1. Unasked(r, p)
  BY DEF NoOp, Unasked
<1>2. r \in Operations
  <2>1. o[c].forsaken \in BOOLEAN
    BY DEF Operations
  <2> QED BY <2>1, NoOpTyped
<1>3. u = [o EXCEPT ![c] = r]
  BY DEF PutOn
<1> HIDE DEF r, u
<1>4. u \in [Calls -> Operations]
  BY <1>2, <1>3
<1>5. Same(u, o, c) /\ u[c] = r
  BY <1>3, PutSame
<1> QED BY <1>1, <1>4, <1>5 DEF u

\* Operations o become u when c's turn begins on thread t: who shares it, and that the
\* others may learn of it.
BegunOn(u, w, o, c, t) ==
  /\ Same(u, o, c)
  /\ u[c].thread = t /\ u[c].text = {} /\ u[c].remote \in {"none", "running"}
  /\ u[c].shared <=> Companions(w, o, o[c].on, t) # {}
  /\ \A d \in Calls \ {c} : u[d].shared <=> (o[d].shared \/ d \in Companions(w, o, o[c].on, t))

LEMMA TurnTells ==
  ASSUME NEW w, NEW o \in [Calls -> Operations], NEW c \in Calls, NEW t \in Calls \cup {"sticky"}
  PROVE  BegunOn(TurnOp(w, o, c, t), w, o, c, t)
<1> DEFINE with == Companions(w, o, o[c].on, t)
           a == Ask(w, o, c, "turn/start")[c]
           up == w[o[c].on].os = "up"
           r == [a EXCEPT !.thread = t, !.promise = "pending", !.heard = FALSE, !.timer = TRUE,
                          !.remote = IF up THEN "running" ELSE "none",
                          !.temp = TRUE, !.text = {}, !.shared = with # {}]
           u == TurnOp(w, o, c, t)
<1>1. a \in Operations
  <2>1. "turn/start" \in {"initialize", "thread/start", "turn/start"}
    OBVIOUS
  <2>2. Becomes(Ask(w, o, c, "turn/start"), o, c, "turn/start", o[c].on, o[c].promise, o[c].heard, o[c].timer)
    BY <2>1, Asked
  <2> QED BY <2>2 DEF Becomes, Keeps
<1>2. u = [h \in Calls |-> IF h = c THEN r ELSE [o[h] EXCEPT !.shared = @ \/ h \in with]]
  BY DEF TurnOp
<1> HIDE DEF a, with, up, u
<1>3. /\ r.thread = t /\ r.text = {} /\ r.remote \in {"none", "running"}
      /\ r.shared <=> with # {}
  BY <1>1 DEF Operations
<1> HIDE DEF r
<1>4. u[c] = r
  BY <1>2
<1>5. ASSUME NEW d \in Calls \ {c}
      PROVE  /\ u[d].shared <=> (o[d].shared \/ d \in with)
             /\ u[d].on = o[d].on /\ u[d].thread = o[d].thread /\ u[d].rpc = o[d].rpc
             /\ u[d].promise = o[d].promise /\ u[d].heard = o[d].heard /\ u[d].remote = o[d].remote
             /\ u[d].text = o[d].text
  <2> DEFINE b == o[d].shared \/ d \in with
  <2>1. u[d] = [o[d] EXCEPT !.shared = b]
    BY <1>2
  <2> HIDE DEF b
  <2>2. /\ u[d].shared = b
        /\ u[d].on = o[d].on /\ u[d].thread = o[d].thread /\ u[d].rpc = o[d].rpc
        /\ u[d].promise = o[d].promise /\ u[d].heard = o[d].heard /\ u[d].remote = o[d].remote
        /\ u[d].text = o[d].text
    <3>1. o[d] \in Operations
      OBVIOUS
    <3> QED BY <2>1, <3>1 DEF Operations
  <2> QED BY <2>2 DEF b
<1>6. Same(u, o, c)
  BY <1>5 DEF Same
<1> QED BY <1>3, <1>4, <1>5, <1>6 DEF u, with, BegunOn

-----------------------------------------------------------------------------
(***************************************************************************)
(* The ways an operation and a call end.                                   *)
(***************************************************************************)
\* Processes w, on the way of a step of c: at most c's handlers are gone.
Toward(c, w) ==
  /\ Typical(w) /\ Onward(worker, w) /\ OnlyMoves(worker, w, c)
  /\ \A p \in Procs : ListOf(w, p) \subseteq ListOf(worker, p)

\* What the invariants tell of a call.
LEMMA FromInv ==
  ASSUME Inv, NEW c \in Calls
  PROVE  /\ op \in [Calls -> Operations] /\ op[c] \in Operations
         /\ call \in [Calls -> CallStates] /\ call[c] \in CallStates
         /\ idle \subseteq Procs /\ 1 \in Procs /\ On(c) \in {0} \cup Procs
         /\ Typical(worker) /\ Tidy /\ Promised(op, call, c) /\ Place(worker, op, call, c)
         /\ Handled(c) /\ Placed(c) /\ Threaded(c) /\ Truthful(c) /\ PoolTidy
         /\ Toward(c, worker)
<1>1. op \in [Calls -> Operations] /\ call \in [Calls -> CallStates] /\ idle \subseteq Procs /\ Typical(worker)
  BY DEF Inv, TypeOK, Typical
<1>2. op[c] \in Operations /\ call[c] \in CallStates /\ 1 \in Procs
  BY <1>1, OneProcess
<1>3. On(c) \in {0} \cup Procs
  BY <1>2 DEF Operations, On
<1>4. Tidy /\ Handled(c) /\ Placed(c) /\ Threaded(c) /\ Truthful(c) /\ PoolTidy
  BY DEF Inv, Tidy, Mine
<1>5. Promised(op, call, c) /\ Place(worker, op, call, c)
  BY DEF Inv, RInv, Good
<1>6. Toward(c, worker)
  BY <1>1 DEF Toward, Onward, OnlyMoves
<1> QED BY <1>1, <1>2, <1>3, <1>4, <1>5, <1>6

LEMMA KillToward ==
  ASSUME Inv, NEW c \in Calls, NEW w, Toward(c, w)
  PROVE  /\ Toward(c, Discarded(c, w))
         /\ On(c) \in Procs => Discarded(c, w)[On(c)].dead
         /\ \A p \in Procs : Discarded(c, w)[p].os = w[p].os
<1>1. On(c) \in {0} \cup Procs /\ Placed(c)
  BY FromInv
<1> DEFINE v == Kill(w, On(c))
<1>2. Typical(w) /\ Onward(worker, w) /\ OnlyMoves(worker, w, c)
  BY DEF Toward
<1>3. /\ Typical(v) /\ SameLists(w, v)
      /\ \A q \in Procs : v[q].os = w[q].os /\ (v[q].dead <=> (w[q].dead \/ q = On(c)))
  BY <1>1, <1>2, KillLists
<1> HIDE DEF v
<1>4. Onward(worker, v)
  BY <1>1, <1>2, <1>3 DEF Onward, Placed
<1>5. OnlyMoves(worker, v, c)
  BY <1>2, <1>3 DEF OnlyMoves, SameLists
<1>6. Toward(c, v)
  BY <1>3, <1>4, <1>5 DEF Toward, SameLists
<1> QED BY <1>3, <1>6 DEF v, Discarded

LEMMA CatchToward ==
  ASSUME Inv, NEW c \in Calls, On(c) \in Procs
  PROVE  /\ Toward(c, CatchWorker(worker, op, c))
         /\ \A p \in Procs : CatchWorker(worker, op, c)[p].os = worker[p].os
<1> DEFINE v == Unsubscribed(worker, On(c), {c})
<1>1. Typical(worker)
  BY FromInv
<1>2. /\ Typical(v) /\ SameLife(worker, v)
      /\ \A q \in Procs : ListOf(v, q) = IF q = On(c) THEN ListOf(worker, q) \ {c} ELSE ListOf(worker, q)
  BY <1>1, UnsubscribeLists
<1> HIDE DEF v
<1>3. Onward(worker, v)
  BY <1>2 DEF Onward, SameLife
<1>4. OnlyMoves(worker, v, c)
  BY <1>2 DEF OnlyMoves
<1>5. \A p \in Procs : ListOf(v, p) \subseteq ListOf(worker, p)
  BY <1>2
<1>6. Toward(c, v)
  BY <1>2, <1>3, <1>4, <1>5 DEF Toward
<1>7. Toward(c, Discarded(c, v)) /\ \A p \in Procs : Discarded(c, v)[p].os = worker[p].os
  BY <1>2, <1>6, KillToward DEF SameLife
<1> QED BY <1>7 DEF v, CatchWorker, Discarded, On

\* c is a call that is not over, and has become r.
LEMMA MakesStep ==
  ASSUME Inv, NEW c \in Calls, Same(op', op, c), NEW r, call' = [call EXCEPT ![c] = r],
         r.kind = "sticky" <=> call[c].kind = "sticky",
         Onward(worker, worker'), OnlyMoves(worker, worker', c), idle' \subseteq idle
  PROVE  StepOf(c) /\ call'[c] = r
<1>1. call \in [Calls -> CallStates]
  BY FromInv
<1>2. CallsBeside(c) /\ call'[c] = r
  BY <1>1 DEF CallsBeside
<1>3. FreeOfOthers(c)
  BY DEF FreeOfOthers
<1> QED BY <1>2, <1>3 DEF StepOf

LEMMA EndsHere ==
  ASSUME Inv, NEW c \in Calls, NEW w, Toward(c, w), NEW o \in [Calls -> Operations], Retells(o, op, c),
         ~Done(c), worker' = Discarded(c, w), op' = Over(o, c) \/ op' = Rejected(o, c), idle' = idle,
         NEW r, call' = [call EXCEPT ![c] = r], r.kind = call[c].kind, r.pc = "ended"
  PROVE  Tidy' /\ Typical(worker')
<1>1. Tidy /\ 1 \in Procs /\ idle \subseteq Procs
  BY FromInv
<1>2. Retells(op', o, c) /\ op'[c].text = {}
  BY OverTells
<1>3. op'[c].rpc = "none" /\ op'[c].promise \in {"none", "rejected"} /\ op'[c].heard = FALSE
  <2>1. /\ Becomes(Over(o, c), o, c, "none", o[c].on, "none", FALSE, o[c].timer)
        /\ Becomes(Rejected(o, c), o, c, "none", o[c].on, "rejected", FALSE, o[c].timer)
    BY Overs
  <2> QED BY <2>1 DEF Becomes
<1>4. Retells(op', op, c)
  BY <1>2, RetellsAgain
<1>5. Toward(c, worker') /\ (On(c) \in Procs => worker'[On(c)].dead)
  BY KillToward
<1>6. StepOf(c) /\ call'[c] = r
  BY <1>4, <1>5, MakesStep DEF Retells, Toward
<1>7. On(c)' = On(c) /\ op'[c].thread = op[c].thread /\ op'[c].remote = op[c].remote /\ op'[c].shared = op[c].shared
  BY <1>4 DEF Retells, SameTurn, On
<1>8. Tidy'
  BY <1>1, <1>2, <1>3, <1>5, <1>6, <1>7, EndsTidy DEF Toward
<1> QED BY <1>5, <1>8 DEF Toward

LEMMA LaunchHere ==
  ASSUME Inv, NEW c \in Calls, NEW w, Toward(c, w), \A p \in Procs : w[p].os = worker[p].os,
         NEW o \in [Calls -> Operations], Same(o, op, c),
         \A p \in Procs : c \in ListOf(w, p) => w[p].dead,
         Launch(c, w, o), idle' = idle,
         NEW r, call' = [call EXCEPT ![c] = r], r.kind # "sticky", call[c].kind # "sticky", r.pc = "starting"
  PROVE  Tidy' /\ Typical(worker')
<1> DEFINE p == Fresh
           v == Spawned(w, p)
           n == PutOn(o, c, p)
<1>1. p \in Procs /\ worker[p].os = "none" /\ worker' = v /\ op' = Ask(v, n, c, "initialize")
  BY FreshIsUnused DEF Launch
<1>2. Tidy /\ 1 \in Procs /\ idle \subseteq Procs
  BY FromInv
<1>3. /\ Typical(v) /\ SameLists(w, v)
      /\ \A q \in Procs : v[q].os = (IF q = p THEN "up" ELSE w[q].os) /\ v[q].dead = w[q].dead
  BY <1>1, SpawnLists DEF Toward
<1>4. Same(n, o, c) /\ n \in [Calls -> Operations] /\ Unasked(n[c], p)
  BY <1>1, AtTells
<1> HIDE DEF n, v, p
<1>5. Retells(op', n, c) /\ op'[c].text = {}
  BY <1>1, <1>4, AskTells DEF Unasked
<1>6. op'[c].rpc = "initialize" /\ op'[c].promise = "none" /\ op'[c].heard = FALSE
  BY <1>1, <1>4, Asked DEF Becomes, Unasked
<1>7. op'[c].on = p /\ op'[c].thread = "none" /\ op'[c].remote = "none"
  BY <1>4, <1>5 DEF Retells, SameTurn, Unasked
<1>8. Same(op', op, c)
  <2>1. Same(n, op, c)
    BY <1>4, SameAgain
  <2> QED BY <1>5, <2>1, SameAgain DEF Retells
<1>9. Onward(worker, v)
  BY <1>3 DEF Onward, Toward
<1>10. OnlyMoves(worker, v, c) /\ \A q \in Procs : ListOf(v, q) \subseteq ListOf(worker, q)
  BY <1>3 DEF OnlyMoves, Toward, SameLists
<1>11. StepOf(c) /\ call'[c] = r
  BY <1>1, <1>8, <1>9, <1>10, MakesStep
<1>12. \A q \in Procs : c \in ListOf(worker', q) => worker'[q].dead
  BY <1>1, <1>3 DEF SameLists
<1>13. worker'[p].os # "none" /\ ~Sticky(c)
  BY <1>1, <1>3 DEF Sticky
<1>14. Tidy'
  BY <1>1, <1>2, <1>5, <1>6, <1>7, <1>10, <1>11, <1>12, <1>13, LaunchTidy
<1> QED BY <1>1, <1>3, <1>14

\* The handlers of a call whose process is killed are on processes that are dead.
LEMMA NoneLeft ==
  ASSUME Inv, NEW c \in Calls, NEW w, Toward(c, w)
  PROVE  \A p \in Procs : c \in ListOf(Discarded(c, w), p) => Discarded(c, w)[p].dead
<1>1. Handled(c)
  BY FromInv
<1> DEFINE v == Discarded(c, w)
<1>2. Toward(c, v) /\ (On(c) \in Procs => v[On(c)].dead)
  BY KillToward
<1> HIDE DEF v
<1>3. ASSUME NEW p \in Procs, c \in ListOf(v, p) PROVE v[p].dead
  <2>1. c \in Handling(p)
    BY <1>2, <1>3 DEF Toward, ListOf, Handling
  <2>2. CASE worker[p].dead
    BY <1>2, <2>2 DEF Toward, Onward
  <2>3. CASE ~worker[p].dead
    BY <1>1, <1>2, <2>1, <2>3 DEF Handled
  <2> QED BY <2>2, <2>3
<1> QED BY <1>3 DEF v

LEMMA FailsTidy ==
  ASSUME Inv, NEW c \in Calls, NEW w, Toward(c, w), \A p \in Procs : w[p].os = worker[p].os,
         NEW o \in [Calls -> Operations], Retells(o, op, c), ~Done(c), Fails(c, w, o)
  PROVE  Tidy' /\ Typical(worker')
<1> DEFINE v == Discarded(c, w)
           r == [call[c] EXCEPT !.kind = "oneshot", !.pc = "starting"]
           t == [call[c] EXCEPT !.pc = "ended", !.end = "error"]
<1>1. idle' = idle /\ call[c] \in CallStates
  BY FromInv DEF Fails
<1>2. \/ call[c].kind = "collected" /\ Launch(c, v, o) /\ call' = [call EXCEPT ![c] = r]
      \/ worker' = v /\ op' = Over(o, c) /\ call' = [call EXCEPT ![c] = t]
  BY DEF Fails, Sets
<1>3. r.pc = "starting" /\ r.kind = "oneshot" /\ t.pc = "ended" /\ t.kind = call[c].kind
  BY <1>1 DEF CallStates
<1>4. Toward(c, v) /\ (\A p \in Procs : v[p].os = worker[p].os) /\ (\A p \in Procs : c \in ListOf(v, p) => v[p].dead)
  BY KillToward, NoneLeft
<1>5. Same(o, op, c)
  BY DEF Retells
<1> HIDE DEF r, t
<1>6. CASE call[c].kind = "collected" /\ Launch(c, v, o) /\ call' = [call EXCEPT ![c] = r]
  <2> HIDE DEF v
  <2>1. r.kind # "sticky" /\ call[c].kind # "sticky"
    BY <1>3, <1>6
  <2> QED BY <1>1, <1>3, <1>4, <1>5, <1>6, <2>1, LaunchHere
<1>7. CASE worker' = v /\ op' = Over(o, c) /\ call' = [call EXCEPT ![c] = t]
  BY <1>1, <1>3, <1>7, EndsHere
<1> QED BY <1>2, <1>6, <1>7

LEMMA RejectsTidy ==
  ASSUME Inv, NEW c \in Calls, NEW w, Toward(c, w), \A p \in Procs : w[p].os = worker[p].os,
         NEW o \in [Calls -> Operations], Retells(o, op, c), ~Done(c), OpRejects(c, w, o)
  PROVE  Tidy' /\ Typical(worker')
<1>1. CASE call[c].pc = "turning" /\ Fails(c, w, o)
  BY <1>1, FailsTidy
<1>2. CASE /\ call[c].pc = "ended"
           /\ worker' = Discarded(c, w)
           /\ op' = IF call[c].abandoned THEN Rejected(o, c) ELSE Over(o, c)
           /\ UNCHANGED <<call, idle>>
  <2>1. call \in [Calls -> CallStates]
    BY FromInv
  <2>2. call' = [call EXCEPT ![c] = call[c]]
    BY <1>2, <2>1
  <2>3. op' = Over(o, c) \/ op' = Rejected(o, c)
    BY <1>2
  <2> QED BY <1>2, <2>2, <2>3, EndsHere
<1> QED BY <1>1, <1>2 DEF OpRejects, Rejected

-----------------------------------------------------------------------------
(***************************************************************************)
(* The continuations of awaits.                                            *)
(***************************************************************************)
\* A call that is not over goes on where it is.
LEMMA GoesOn ==
  ASSUME Inv, NEW c \in Calls, StepOf(c), ~Done(c), idle' = idle,
         On(c)' = On(c), op'[c].thread = op[c].thread, op'[c].shared = op[c].shared, op'[c].remote = op[c].remote,
         SameLists(worker, worker'),
         Turning(c)' => Turning(c), Turning(c) => Turning(c)' \/ worker'[On(c)].dead,
         Live(c)' => Live(c),
         call'[c].pc \in {"new", "acquiring"} => call[c].pc \in {"new", "acquiring"} /\ op' = op,
         Truthful(c)'
  PROVE  Tidy'
<1>1. Tidy /\ 1 \in Procs /\ idle \subseteq Procs /\ Handled(c) /\ Placed(c) /\ Threaded(c)
  BY FromInv
<1>2. (Sticky(c)' <=> Sticky(c)) /\ (Session' <=> Session)
  BY SessionStays DEF StepOf, CallsBeside, Sticky
<1>3. Handled(c)'
  BY <1>1 DEF Handled, StepOf, Onward, Handling, ListOf, SameLists
<1>4. Placed(c)'
  <2>1. On(c) \notin idle
    BY <1>1 DEF Placed
  <2> QED BY <1>1, <1>2, <2>1 DEF Placed, StepOf, Onward, On
<1>5. Threaded(c)'
  BY <1>1, <1>2 DEF Threaded
<1>6. PoolTidy'
  <2>1. \A p \in idle' : c \notin Handling(p)'
    BY <1>1 DEF Tidy, PoolTidy, Handling, ListOf, SameLists
  <2> QED BY <1>1, <2>1, PoolStays
<1>7. \A d \in Calls \ {c} : Pair(c, d)' /\ Pair(d, c)'
  BY <1>1, StaysPaired
<1> QED BY <1>1, <1>3, <1>4, <1>5, <1>6, <1>7, StepTidy DEF Mine

\* The request that a call waited for was answered.
LEMMA ResumesHere ==
  ASSUME Inv, NEW c \in Calls, op[c].rpc # "none"
  PROVE  /\ ~Done(c) /\ On(c) \in Procs
         /\ Taken(c) \in [Calls -> Operations] /\ Retells(Taken(c), op, c) /\ Taken(c)[c].text = op[c].text
         /\ Taken(c)[c].on = On(c) /\ Taken(c)[c].rpc = "none"
         /\ Taken(c)[c].promise = op[c].promise /\ Taken(c)[c].heard = op[c].heard
<1>1. op \in [Calls -> Operations] /\ Place(worker, op, call, c)
  BY FromInv
<1>2. ~Done(c) /\ On(c) \in Procs
  BY <1>1 DEF Done, Place, On
<1>3. Retells(Taken(c), op, c) /\ Taken(c)[c].text = op[c].text
  BY <1>1, TakenTells
<1>4. Becomes(Taken(c), op, c, "none", op[c].on, op[c].promise, op[c].heard, op[c].timer)
  BY <1>1, Takes
<1> QED BY <1>2, <1>3, <1>4 DEF Becomes, Keeps, On

LEMMA RefusedTidy ==
  ASSUME Inv, NEW c \in Calls, StartFails(c) \/ ThreadFails(c) \/ TurnRefused(c)
  PROVE  Tidy' /\ Typical(worker')
<1>1. op[c].rpc # "none"
  BY DEF StartFails, ThreadFails, TurnRefused, Resumes
<1> DEFINE o == Taken(c)
<1>2. ~Done(c) /\ On(c) \in Procs /\ o \in [Calls -> Operations] /\ Retells(o, op, c)
  BY <1>1, ResumesHere
<1>3. Toward(c, worker)
  BY FromInv
<1>4. CASE StartFails(c) \/ ThreadFails(c)
  <2>1. Fails(c, worker, o) \/ OpRejects(c, worker, o)
    BY <1>4 DEF StartFails, ThreadFails
  <2> HIDE DEF o
  <2> QED BY <1>2, <1>3, <2>1, FailsTidy, RejectsTidy
<1>5. CASE TurnRefused(c)
  <2> DEFINE u == CatchOp(o, c)
             v == CatchWorker(worker, op, c)
  <2>1. OpRejects(c, v, u)
    BY <1>5 DEF TurnRefused
  <2> HIDE DEF o
  <2>2. Retells(u, o, c) /\ u \in [Calls -> Operations]
    BY <1>2, CatchTells
  <2>3. Toward(c, v) /\ \A p \in Procs : v[p].os = worker[p].os
    BY <1>2, CatchToward
  <2> HIDE DEF u, v
  <2>4. Retells(u, op, c)
    BY <1>2, <2>2, RetellsAgain
  <2> QED BY <1>2, <2>1, <2>2, <2>3, <2>4, RejectsTidy
<1> QED BY <1>4, <1>5

LEMMA StartedTidy ==
  ASSUME Inv, NEW c \in Calls, Started(c)
  PROVE  Tidy' /\ Typical(worker')
<1> DEFINE o == Taken(c)
<1>1. op[c].rpc = "initialize" /\ Operate(c, o)
  BY DEF Started, Resumes
<1>2. /\ ~Done(c) /\ On(c) \in Procs /\ o \in [Calls -> Operations] /\ Retells(o, op, c)
      /\ o[c].on = On(c) /\ o[c].promise = op[c].promise /\ o[c].heard = op[c].heard /\ o[c].text = op[c].text
  BY <1>1, ResumesHere
<1>3. /\ Toward(c, worker) /\ Promised(op, call, c) /\ Place(worker, op, call, c) /\ call[c] \in CallStates
      /\ Threaded(c) /\ Truthful(c) /\ Typical(worker) /\ op[c] \in Operations
  BY FromInv
<1>4. op[c].promise = "none" /\ op[c].heard = FALSE
  <2>1. op[c].heard \in BOOLEAN
    BY <1>3 DEF Operations
  <2> QED BY <1>1, <1>3, <2>1 DEF Promised
<1>5. call[c].pc = "starting" /\ ~Sticky(c)
  BY <1>1, <1>3 DEF Place, Sticky
<1> DEFINE r == [call[c] EXCEPT !.pc = "ended", !.end = "closed", !.abandoned = TRUE]
           t == [call[c] EXCEPT !.pc = "turning"]
<1>6. r.pc = "ended" /\ r.kind = call[c].kind /\ t.pc = "turning" /\ t.kind = call[c].kind
  BY <1>3 DEF CallStates
<1> HIDE DEF o
<1>7. CASE worker[o[c].on].dead /\ call[c].gone
  <2>1. WithAbort(c, worker, Rejected(o, c)) /\ idle' = idle
    BY <1>1, <1>7 DEF Operate, Rejected
  <2>2. Rejected(o, c)[c].on = On(c)
    BY <1>2, OverTells DEF Retells, SameTurn
  <2>3. worker' = Discarded(c, worker) /\ op' = Rejected(o, c) /\ call' = [call EXCEPT ![c] = r]
    BY <1>7, <2>1, <2>2 DEF WithAbort, Discarded, Sets
  <2> HIDE DEF r
  <2> QED BY <1>2, <1>3, <1>6, <2>1, <2>3, EndsHere
<1>8. CASE worker[o[c].on].dead /\ ~call[c].gone
  <2>1. Fails(c, worker, o)
    BY <1>1, <1>8 DEF Operate
  <2> QED BY <1>2, <1>3, <2>1, FailsTidy
<1>9. CASE ~worker[o[c].on].dead
  <2> DEFINE u == Ask(worker, o, c, "thread/start")
  <2>1. WithAbort(c, worker, u) /\ idle' = idle
    BY <1>1, <1>9 DEF Operate
  <2>2. Becomes(u, o, c, "thread/start", o[c].on, o[c].promise, o[c].heard, o[c].timer)
    BY <1>2, Asked
  <2>3. Retells(u, o, c) /\ u[c].text = o[c].text
    BY <1>2, AskTells
  <2> HIDE DEF u
  <2>4. op' = u /\ Retells(u, op, c) /\ u[c].on = On(c)
    BY <1>2, <2>1, <2>2, <2>3, RetellsAgain DEF WithAbort, Becomes
  <2>5. \/ worker' = Discarded(c, worker) /\ call' = [call EXCEPT ![c] = r]
        \/ worker' = worker /\ call' = [call EXCEPT ![c] = t]
    BY <2>1, <2>4 DEF WithAbort, Discarded, Sets
  <2> HIDE DEF r, t
  <2>6. Toward(c, worker') /\ SameLists(worker, worker')
    <3>1. SameLists(worker, Discarded(c, worker))
      BY <1>2, <1>3, KillLists DEF Discarded
    <3> QED BY <1>3, <2>5, <3>1, KillToward DEF SameLists
  <2>7. StepOf(c) /\ call'[c].pc \in {"turning", "ended"}
    <3>1. PICK q : q \in {r, t} /\ call' = [call EXCEPT ![c] = q]
      BY <2>5
    <3>2. q.kind = call[c].kind /\ q.pc \in {"turning", "ended"}
      BY <1>6, <3>1
    <3>3. StepOf(c) /\ call'[c] = q
      BY <2>1, <2>4, <2>6, <3>1, <3>2, MakesStep DEF Retells, Toward
    <3> QED BY <3>2, <3>3
  <2>8. /\ On(c)' = On(c) /\ op'[c].thread = op[c].thread /\ op'[c].shared = op[c].shared
        /\ op'[c].remote = op[c].remote
    BY <2>4 DEF Retells, SameTurn, On
  <2>9. op'[c].promise = "none" /\ op'[c].heard = FALSE /\ op'[c].rpc = "thread/start" /\ op'[c].text = op[c].text
    BY <1>2, <1>4, <2>2, <2>3, <2>4 DEF Becomes
  <2>10. Truthful(c)'
    BY <1>3, <1>5, <2>8, <2>9 DEF Truthful, Threaded
  <2>11. ~Turning(c)' /\ ~Turning(c) /\ Live(c)
    BY <1>4, <1>5, <2>9 DEF Turning, Live
  <2> QED BY <1>2, <2>1, <2>6, <2>7, <2>8, <2>10, <2>11, GoesOn DEF Toward
<1> QED BY <1>7, <1>8, <1>9

LEMMA AcceptedTidy ==
  ASSUME Inv, NEW c \in Calls, TurnAccepted(c)
  PROVE  Tidy' /\ Typical(worker')
<1> DEFINE o == Taken(c)
           r == [o[c] EXCEPT !.heard = TRUE]
<1>1. /\ op[c].rpc = "turn/start" /\ op' = [o EXCEPT ![c] = r]
      /\ worker' = worker /\ call' = call /\ idle' = idle
  BY DEF TurnAccepted, Resumes
<1>2. /\ ~Done(c) /\ On(c) \in Procs /\ o \in [Calls -> Operations] /\ Retells(o, op, c)
      /\ o[c].on = On(c) /\ o[c].rpc = "none" /\ o[c].promise = op[c].promise /\ o[c].text = op[c].text
  BY <1>1, ResumesHere
<1>3. Toward(c, worker) /\ Truthful(c) /\ call \in [Calls -> CallStates] /\ Typical(worker)
  BY FromInv
<1> HIDE DEF o
<1>4. SameTurn(r, o[c]) /\ r.rpc = "none" /\ r.promise = op[c].promise /\ r.text = op[c].text
  <2>1. o[c] \in Operations
    BY <1>2
  <2> QED BY <1>2, <2>1 DEF Operations, SameTurn
<1> HIDE DEF r
<1>5. Same(op', o, c) /\ op'[c] = r
  BY <1>1, <1>2, PutSame
<1>6. Retells(op', op, c)
  BY <1>2, <1>4, <1>5, RetellsAgain DEF Retells
<1>7. StepOf(c)
  <2>1. call' = [call EXCEPT ![c] = call[c]]
    BY <1>1, <1>3
  <2> QED BY <1>1, <1>3, <1>6, <2>1, MakesStep DEF Retells, Toward
<1>8. /\ On(c)' = On(c) /\ op'[c].thread = op[c].thread /\ op'[c].shared = op[c].shared
      /\ op'[c].remote = op[c].remote /\ op'[c].promise = op[c].promise /\ op'[c].text = op[c].text
  BY <1>4, <1>5, <1>6 DEF Retells, SameTurn, On
<1>9. Truthful(c)'
  BY <1>1, <1>3, <1>8 DEF Truthful
<1>10. call[c].pc \notin {"new", "acquiring"}
  <2>1. Place(worker, op, call, c)
    BY FromInv
  <2> QED BY <1>1, <2>1 DEF Place
<1>11. SameLists(worker, worker') /\ (Turning(c)' <=> Turning(c)) /\ (Live(c)' <=> Live(c))
  BY <1>1, <1>8 DEF SameLists, Turning, Live, Sticky
<1>12. Tidy'
  BY <1>1, <1>2, <1>7, <1>8, <1>9, <1>10, <1>11, GoesOn
<1> QED BY <1>1, <1>3, <1>12

-----------------------------------------------------------------------------
(***************************************************************************)
(* A turn begins, and is over.                                             *)
(***************************************************************************)
\* A call that is over is no matter for the others.
LEMMA DoneTidy ==
  ASSUME Tidy, NEW c \in Calls, StepOf(c), 1 \in Procs, Mine(c)', PoolTidy', Done(c)' PROVE Tidy'
<1>1. ~Live(c)' /\ ~Turning(c)' /\ op'[c].remote # "running"
  BY DEF Done, Live, Turning
<1>2. \A d \in Calls \ {c} : Pair(c, d)' /\ Pair(d, c)'
  BY <1>1 DEF Pair
<1> QED BY <1>2, StepTidy

LEMMA ThreadStartedTidy ==
  ASSUME Inv, NEW c \in Calls, ThreadStarted(c)
  PROVE  Tidy' /\ Typical(worker')
<1>1. op[c].rpc = "thread/start"
  BY DEF ThreadStarted, Resumes
<1>2. /\ ~Done(c) /\ On(c) \in Procs /\ Taken(c) \in [Calls -> Operations] /\ Retells(Taken(c), op, c)
  BY <1>1, ResumesHere
<1>3. /\ Toward(c, worker) /\ Handled(c) /\ Placed(c) /\ Threaded(c) /\ Typical(worker) /\ PoolTidy /\ Tidy
      /\ Place(worker, op, call, c) /\ op \in [Calls -> Operations] /\ call \in [Calls -> CallStates]
      /\ idle \subseteq Procs /\ 1 \in Procs
  BY FromInv
<1>4. CASE worker[On(c)].dead
  <2>1. OpRejects(c, worker, Taken(c))
    BY <1>4 DEF ThreadStarted
  <2> QED BY <1>2, <1>3, <2>1, RejectsTidy
<1>5. CASE ~worker[On(c)].dead
  <2> DEFINE v == TurnWorker(worker, On(c), c)
             u == TurnOp(worker, op, c, c)
  <2>1. op' = u /\ worker' = v /\ call' = call /\ idle' = idle
    BY <1>5 DEF ThreadStarted
  <2>2. /\ Typical(v) /\ SameLife(worker, v)
        /\ \A q \in Procs : ListOf(v, q) = IF q = On(c) THEN ListOf(worker, q) \cup {c} ELSE ListOf(worker, q)
    BY <1>2, <1>3, SubscribeLists
  <2>3. Same(u, op, c) /\ u[c].thread = c /\ u[c].text = {}
    <3>1. BegunOn(u, worker, op, c, c)
      BY <1>3, TurnTells
    <3> QED BY <3>1 DEF BegunOn
  <2>4. Becomes(u, op, c, "turn/start", op[c].on, "pending", FALSE, TRUE)
    BY <1>3, TurnBegun
  <2> HIDE DEF u, v
  <2>5. /\ op'[c].thread = c /\ op'[c].text = {} /\ On(c)' = On(c)
        /\ op'[c].rpc = "turn/start" /\ op'[c].promise = "pending" /\ op'[c].heard = FALSE
    BY <2>1, <2>3, <2>4 DEF Becomes, On
  <2>6. Onward(worker, worker') /\ OnlyMoves(worker, worker', c)
    BY <2>1, <2>2 DEF Onward, OnlyMoves, SameLife
  <2>7. StepOf(c) /\ call'[c] = call[c]
    <3>1. call' = [call EXCEPT ![c] = call[c]]
      BY <1>3, <2>1
    <3> QED BY <2>1, <2>3, <2>6, <3>1, MakesStep
  <2>8. On(c) \notin idle
    BY <1>2, <1>3 DEF Placed
  <2>9. (Live(c)' <=> Live(c)) /\ (Sticky(c)' <=> Sticky(c)) /\ (Session' <=> Session)
    BY <2>1 DEF Live, Sticky, Session
  <2>10. Handled(c)'
    <3>1. c \in ListOf(worker', On(c))
      BY <1>2, <2>1, <2>2
    <3>2. ASSUME NEW p \in Procs, p # On(c), c \in Handling(p)' PROVE worker'[p].dead
      <4>1. c \in Handling(p)
        BY <2>1, <2>2, <3>2 DEF Handling, ListOf
      <4>2. worker[p].dead
        BY <1>3, <3>2, <4>1 DEF Handled
      <4> QED BY <2>6, <4>2 DEF Onward
    <3>3. Turning(c)'
      BY <2>5 DEF Turning
    <3> QED BY <1>2, <2>5, <3>1, <3>2, <3>3 DEF Handled, Handling, ListOf
  <2>11. Placed(c)'
    <3>1. call'[c].pc \notin {"new", "acquiring"}
      BY <1>1, <1>3, <2>7 DEF Place
    <3> QED BY <1>2, <1>3, <2>1, <2>5, <2>6, <2>8, <2>9, <3>1 DEF Placed, Onward
  <2>12. c # "sticky" /\ c # "none"
    BY CallsAssumption
  <2>13. Threaded(c)' /\ Truthful(c)'
    BY <1>2, <2>5, <2>12 DEF Threaded, Truthful
  <2>14. PoolTidy'
    <3>1. ASSUME NEW p \in idle' PROVE c \notin Handling(p)'
      <4>1. p \in Procs /\ p # On(c) /\ p \in idle
        BY <1>3, <2>1, <2>8
      <4>2. c \notin Handling(p)
        BY <1>3, <4>1 DEF PoolTidy
      <4> QED BY <2>1, <2>2, <4>1, <4>2 DEF Handling, ListOf
    <3> QED BY <1>3, <2>1, <2>7, <3>1, PoolStays
  <2>15. ASSUME NEW d \in Calls \ {c} PROVE Pair(c, d)' /\ Pair(d, c)'
    <3>1. Pair(c, d) /\ Pair(d, c)
      BY <1>3 DEF Tidy
    <3>2. /\ (Done(d)' <=> Done(d)) /\ (Live(d)' <=> Live(d)) /\ On(d)' = On(d)
      BY <2>7, OtherIsDone
    <3>3. Pair(c, d)'
      BY <2>5, <2>9, <2>12, <3>1, <3>2 DEF Pair
    <3>4. Pair(d, c)'
      BY <1>2, <2>5, <2>12, <3>1, <3>2 DEF Pair
    <3> QED BY <3>3, <3>4
  <2>16. Tidy'
    BY <1>3, <2>7, <2>10, <2>11, <2>13, <2>14, <2>15, StepTidy DEF Mine
  <2> QED BY <2>1, <2>2, <2>16
<1> QED BY <1>4, <1>5

\* The operation of a call that is no session's, when its turn has succeeded.
LEMMA SucceedsTidy ==
  ASSUME Inv, NEW c \in Calls, NEW o \in [Calls -> Operations], Retells(o, op, c), op[c].promise = "resolved",
         Succeeds(c, o)
  PROVE  Tidy' /\ Typical(worker')
<1> DEFINE r == [call[c] EXCEPT !.pc = "ended", !.end = "ok"]
<1>1. /\ call[c].pc = "turning" /\ op' = Over(o, c) /\ call' = [call EXCEPT ![c] = r]
      /\ idle' = IF Pooled(c) /\ ~worker[On(c)].dead THEN idle \cup {On(c)} ELSE idle
      /\ worker' = IF call[c].kind \in {"oneshot", "health"} THEN Discarded(c, worker) ELSE worker
  BY DEF Succeeds, Sets, Discarded
<1>2. /\ Toward(c, worker) /\ Handled(c) /\ Placed(c) /\ Threaded(c) /\ Truthful(c) /\ PoolTidy /\ Tidy
      /\ Typical(worker) /\ Place(worker, op, call, c) /\ call[c] \in CallStates /\ idle \subseteq Procs /\ 1 \in Procs
      /\ call \in [Calls -> CallStates]
  BY FromInv
<1>3. r.pc = "ended" /\ r.kind = call[c].kind
  BY <1>2 DEF CallStates
<1> HIDE DEF r
<1>4. Becomes(op', o, c, "none", o[c].on, "none", FALSE, o[c].timer) /\ Retells(op', o, c) /\ op'[c].text = {}
  BY <1>1, Overs, OverTells
<1>5. Retells(op', op, c) /\ op'[c].rpc = "none" /\ op'[c].promise = "none" /\ op'[c].heard = FALSE
  BY <1>4, RetellsAgain DEF Becomes
<1>6. /\ On(c)' = On(c) /\ op'[c].thread = op[c].thread /\ op'[c].shared = op[c].shared
      /\ op'[c].remote = op[c].remote
  BY <1>5 DEF Retells, SameTurn, On
<1>7. On(c) \in Procs /\ ~Done(c) /\ ~Turning(c) /\ ~Turning(c)'
  BY <1>1, <1>2, <1>5 DEF Place, On, Done, Turning
<1>8. Toward(c, worker') /\ SameLists(worker, worker') /\ Typical(worker')
  <2>1. SameLists(worker, Discarded(c, worker)) /\ SameLists(worker, worker)
    BY <1>2, <1>7, KillLists DEF Discarded, SameLists
  <2> QED BY <1>1, <1>2, <2>1, KillToward DEF Toward
<1>9. call'[c] = r /\ CallsBeside(c)
  BY <1>1, <1>2, <1>3 DEF CallsBeside
<1>10. ASSUME NEW d \in Calls \ {c}, ~Sticky(c), On(d) = On(c) PROVE Done(d)
  BY <1>1, <1>2, <1>10 DEF Tidy, Pair, Live
<1>11. Pooled(c) => ~Sticky(c)
  BY DEF Pooled, Sticky
<1>12. FreeOfOthers(c)
  BY <1>1, <1>10, <1>11 DEF FreeOfOthers
<1>13. StepOf(c)
  BY <1>5, <1>8, <1>9, <1>12 DEF StepOf, Retells, Toward
<1>14. ~Live(c)' /\ (Sticky(c)' <=> Sticky(c)) /\ (Session' <=> Session)
  BY <1>3, <1>9, <1>13, SessionStays DEF Live, Sticky
<1>15. CASE Sticky(c)
  <2>1. idle' = idle /\ worker' = worker
    BY <1>1, <1>11, <1>15 DEF Sticky
  <2>2. On(c) = 1
    BY <1>1, <1>2, <1>15 DEF Place, Sticky, On
  <2>3. Truthful(c)'
    BY <1>2, <1>5, <1>4, <1>6, <2>1 DEF Truthful
  <2>4. Tidy'
    BY <1>3, <1>6, <1>7, <1>8, <1>9, <1>13, <1>14, <2>1, <2>3, GoesOn
  <2> QED BY <1>8, <2>4
<1>16. CASE ~Sticky(c)
  <2>1. op[c].remote # "running" /\ op[c].thread # "sticky"
    BY <1>2, <1>16 DEF Truthful, Threaded
  <2>2. Done(c)'
    BY <1>3, <1>5, <1>6, <1>9, <2>1 DEF Done
  <2>3. Handled(c)'
    <3>1. ASSUME NEW p \in Procs, c \in Handling(p)' PROVE worker'[p].dead
      <4>1. c \in Handling(p)
        BY <1>8, <3>1 DEF Handling, ListOf, SameLists
      <4>2. worker[p].dead
        BY <1>2, <1>7, <4>1 DEF Handled
      <4> QED BY <1>8, <4>2 DEF Toward, Onward
    <3> QED BY <1>7, <3>1 DEF Handled
  <2>4. Placed(c)'
    <3>1. worker'[On(c)].os # "none"
      BY <1>2, <1>7, <1>8 DEF Placed, Toward, Onward
    <3> QED BY <1>2, <1>3, <1>6, <1>9, <1>14, <2>2, <3>1 DEF Placed
  <2>5. Threaded(c)' /\ Truthful(c)'
    BY <1>2, <1>4, <1>5, <1>6, <1>14, <2>1 DEF Threaded, Truthful
  <2>6. PoolTidy'
    <3>1. ASSUME NEW p \in idle' PROVE Handling(p)' = {} /\ p \in Procs /\ worker'[p].os # "none"
      <4>1. CASE p \in idle
        <5>1. p \in Procs /\ Handling(p) = {} /\ worker[p].os # "none"
          BY <1>2, <4>1 DEF PoolTidy
        <5> QED BY <1>8, <5>1 DEF Handling, ListOf, SameLists, Toward, Onward
      <4>2. CASE p \notin idle
        <5>1. p = On(c) /\ ~worker[p].dead
          BY <1>1, <3>1, <4>2
        <5>2. ASSUME NEW d \in Handling(p) PROVE FALSE
          <6>1. d \in Calls
            <7>1. worker[p].handlers \in Lists
              BY <1>2, <1>7, <5>1 DEF Typical, Workers
            <7> QED BY <7>1, ListFacts DEF Handling
          <6>2. On(d) = p /\ Turning(d)
            BY <1>2, <1>7, <5>1, <5>2, <6>1 DEF Tidy, Mine, Handled
          <6>3. d # c
            BY <1>7, <6>2
          <6>4. Done(d)
            BY <1>10, <1>16, <5>1, <6>1, <6>2, <6>3
          <6> QED BY <6>2, <6>4 DEF Done, Turning
        <5>3. Handling(p) = {}
          BY <5>2
        <5>4. worker[p].os # "none"
          BY <1>2, <1>7, <5>1 DEF Placed
        <5> QED BY <1>7, <1>8, <5>1, <5>3, <5>4 DEF Handling, ListOf, SameLists, Toward, Onward
      <4> QED BY <4>1, <4>2
    <3>2. \A p \in Procs : worker'[p].os = "none" => ~worker'[p].dead
      BY <1>2, <1>8 DEF PoolTidy, Toward, Onward
    <3>3. Session => worker'[1].os # "none" /\ 1 \notin idle'
      BY <1>1, <1>2, <1>8, <1>16 DEF PoolTidy, Placed, Toward, Onward
    <3> QED BY <1>14, <3>1, <3>2, <3>3 DEF PoolTidy
  <2>7. Tidy'
    BY <1>2, <1>13, <2>2, <2>3, <2>4, <2>5, <2>6, DoneTidy DEF Mine
  <2> QED BY <1>8, <2>7
<1> QED BY <1>15, <1>16

LEMMA TurnSettlesTidy ==
  ASSUME Inv, NEW c \in Calls, TurnSettles(c)
  PROVE  Tidy' /\ Typical(worker')
<1> DEFINE r == [op[c] EXCEPT !.temp = FALSE]
           o == [op EXCEPT ![c] = r]
<1>1. op[c].heard /\ op[c].promise \in {"resolved", "rejected"}
  BY DEF TurnSettles, TurnOver
<1>2. /\ op[c].promise = "rejected" => OpRejects(c, worker, o)
      /\ op[c].promise # "rejected" => \/ Succeeds(c, o)
                                       \/ call[c].pc = "ended" /\ op' = Over(o, c) /\ UNCHANGED <<worker, call, idle>>
  BY DEF TurnSettles
<1>3. /\ Toward(c, worker) /\ Placed(c) /\ Threaded(c) /\ Truthful(c) /\ Tidy /\ Typical(worker)
      /\ op \in [Calls -> Operations] /\ call \in [Calls -> CallStates] /\ op[c] \in Operations
  BY FromInv
<1>4. r \in Operations /\ SameTurn(r, op[c])
  BY <1>3 DEF Operations, SameTurn
<1> HIDE DEF r
<1>5. Same(o, op, c) /\ o[c] = r /\ o \in [Calls -> Operations]
  BY <1>3, <1>4, PutSame
<1> HIDE DEF o
<1>6. Retells(o, op, c) /\ ~Done(c)
  BY <1>1, <1>4, <1>5 DEF Retells, Done
<1>7. CASE op[c].promise = "rejected"
  BY <1>2, <1>3, <1>5, <1>6, <1>7, RejectsTidy
<1>8. CASE op[c].promise = "resolved" /\ Succeeds(c, o)
  BY <1>5, <1>6, <1>8, SucceedsTidy
<1>9. CASE op[c].promise = "resolved" /\ call[c].pc = "ended" /\ op' = Over(o, c) /\ UNCHANGED <<worker, call, idle>>
  <2>1. Becomes(op', o, c, "none", o[c].on, "none", FALSE, o[c].timer) /\ Retells(op', o, c) /\ op'[c].text = {}
    BY <1>5, <1>9, Overs, OverTells
  <2>2. Retells(op', op, c) /\ op'[c].rpc = "none" /\ op'[c].promise = "none" /\ op'[c].heard = FALSE
    BY <1>6, <2>1, RetellsAgain DEF Becomes
  <2>3. /\ On(c)' = On(c) /\ op'[c].thread = op[c].thread /\ op'[c].shared = op[c].shared
        /\ op'[c].remote = op[c].remote
    BY <2>2 DEF Retells, SameTurn, On
  <2>4. Truthful(c)'
    BY <1>3, <1>9, <2>1, <2>2, <2>3 DEF Truthful
  <2>5. StepOf(c)
    <3>1. call' = [call EXCEPT ![c] = call[c]]
      BY <1>3, <1>9
    <3> QED BY <1>3, <1>9, <2>2, <3>1, MakesStep DEF Retells, Toward
  <2>6. SameLists(worker, worker') /\ ~Turning(c)' /\ ~Turning(c) /\ ~Live(c)' /\ call'[c].pc = "ended"
    BY <1>9, <2>2 DEF SameLists, Turning, Live
  <2>7. Tidy'
    BY <1>6, <1>9, <2>3, <2>4, <2>5, <2>6, GoesOn
  <2> QED BY <1>3, <1>9, <2>7
<1> QED BY <1>1, <1>2, <1>7, <1>8, <1>9

-----------------------------------------------------------------------------
(***************************************************************************)
(* Calls begin.                                                            *)
(***************************************************************************)
\* A call that has not begun, or waits for a worker.
LEMMA BeforeBegin ==
  ASSUME Inv, NEW c \in Calls, call[c].pc \in {"new", "acquiring"}
  PROVE  /\ ~Done(c) /\ ~Turning(c) /\ On(c) = 0 /\ op[c].rpc = "none" /\ op[c].promise = "none"
         /\ op[c].remote # "running"
         /\ \A p \in Procs : c \in Handling(p) => worker[p].dead
<1>1. Handled(c) /\ Placed(c) /\ Place(worker, op, call, c)
  BY FromInv
<1> QED BY <1>1 DEF Handled, Placed, Place, Done, Turning

LEMMA StickyFailsTidy ==
  ASSUME Inv, NEW c \in Calls, BeginSticky(c), worker[1].dead
  PROVE  Tidy' /\ Typical(worker')
<1> DEFINE o == PutOn(op, c, 1)
           t == [call[c] EXCEPT !.pc = "ended", !.end = "error"]
<1>1. call[c].pc = "new" /\ Sticky(c) /\ Fails(c, worker, o)
  BY DEF BeginSticky
<1>2. /\ Toward(c, worker) /\ Placed(c) /\ Tidy /\ Typical(worker) /\ PoolTidy
      /\ op \in [Calls -> Operations] /\ call \in [Calls -> CallStates] /\ call[c] \in CallStates
      /\ idle \subseteq Procs /\ 1 \in Procs
  BY FromInv
<1>3. ~Done(c) /\ ~Turning(c) /\ On(c) = 0 /\ \A p \in Procs : c \in Handling(p) => worker[p].dead
  BY <1>1, BeforeBegin
<1>4. Same(o, op, c) /\ o \in [Calls -> Operations] /\ Unasked(o[c], 1)
  BY <1>2, AtTells
<1>5. worker' = worker /\ op' = Over(o, c) /\ call' = [call EXCEPT ![c] = t] /\ idle' = idle
  BY <1>1, <1>3 DEF Fails, Sticky, Discarded, Kill, Sets
<1>6. t.pc = "ended" /\ t.kind = call[c].kind
  BY <1>2 DEF CallStates
<1> HIDE DEF o, t
<1>7. Becomes(op', o, c, "none", o[c].on, "none", FALSE, o[c].timer) /\ Retells(op', o, c) /\ op'[c].text = {}
  BY <1>4, <1>5, Overs, OverTells
<1>8. /\ op'[c].on = 1 /\ op'[c].thread = "none" /\ op'[c].remote = "none"
      /\ op'[c].rpc = "none" /\ op'[c].promise = "none" /\ op'[c].heard = FALSE
  BY <1>4, <1>7 DEF Becomes, Retells, SameTurn, Unasked
<1>9. Same(op', op, c)
  BY <1>4, <1>7, SameAgain DEF Retells
<1>10. StepOf(c) /\ call'[c] = t
  BY <1>2, <1>5, <1>6, <1>9, MakesStep DEF Toward
<1>11. (Sticky(c)' <=> Sticky(c)) /\ Session
  BY <1>1, <1>6, <1>10 DEF Sticky, Session
<1>12. Done(c)'
  BY <1>6, <1>8, <1>10 DEF Done
<1>13. Handled(c)'
  BY <1>3, <1>5, <1>8 DEF Handled, Turning, Handling
<1>14. Placed(c)'
  <2>1. worker'[1].os # "none" /\ 1 \notin idle'
    BY <1>2, <1>5, <1>11 DEF PoolTidy
  <2> QED BY <1>1, <1>6, <1>8, <1>10, <1>11, <1>12, <2>1 DEF Placed, On, Live
<1>15. Threaded(c)' /\ Truthful(c)'
  BY <1>7, <1>8 DEF Threaded, Truthful
<1>16. PoolTidy'
  <2>1. \A p \in idle' : c \notin Handling(p)'
    BY <1>2, <1>5 DEF PoolTidy, Handling
  <2> QED BY <1>2, <1>5, <1>10, <2>1, PoolStays
<1>17. Tidy'
  BY <1>2, <1>10, <1>12, <1>13, <1>14, <1>15, <1>16, DoneTidy DEF Mine
<1> QED BY <1>2, <1>5, <1>17

LEMMA StickyBeginsTidy ==
  ASSUME Inv, NEW c \in Calls, BeginSticky(c), ~worker[1].dead
  PROVE  Tidy' /\ Typical(worker')
<1> DEFINE o == PutOn(op, c, 1)
           u == TurnOp(worker, o, c, "sticky")
           v == TurnWorker(worker, 1, c)
           r == [call[c] EXCEPT !.pc = "turning"]
<1>1. Idle /\ call[c].pc = "new" /\ Sticky(c) /\ WithAbort(c, v, u) /\ idle' = idle
  BY DEF BeginSticky
<1>2. /\ Toward(c, worker) /\ Placed(c) /\ Tidy /\ Typical(worker) /\ PoolTidy
      /\ op \in [Calls -> Operations] /\ call \in [Calls -> CallStates] /\ call[c] \in CallStates
      /\ idle \subseteq Procs /\ 1 \in Procs /\ Place(worker, op, call, c)
  BY FromInv
<1>3. ~Done(c) /\ ~Turning(c) /\ On(c) = 0 /\ \A p \in Procs : c \in Handling(p) => worker[p].dead
  BY <1>1, BeforeBegin
<1>4. Same(o, op, c) /\ o \in [Calls -> Operations] /\ Unasked(o[c], 1)
  BY <1>2, AtTells
<1>5. worker' = v /\ op' = u /\ call' = [call EXCEPT ![c] = r]
  BY <1>1, <1>2 DEF WithAbort, Place, Sets
<1>6. r.pc = "turning" /\ r.kind = call[c].kind
  BY <1>2 DEF CallStates
<1> HIDE DEF o, r
<1>7. BegunOn(u, worker, o, c, "sticky") /\ Becomes(u, o, c, "turn/start", o[c].on, "pending", FALSE, TRUE)
  BY <1>4, TurnTells, TurnBegun
<1>8. /\ Typical(v) /\ SameLife(worker, v)
      /\ \A q \in Procs : ListOf(v, q) = IF q = 1 THEN ListOf(worker, q) \cup {c} ELSE ListOf(worker, q)
  BY <1>2, SubscribeLists
<1> HIDE DEF u, v
<1>9. /\ op'[c].on = 1 /\ op'[c].thread = "sticky" /\ op'[c].text = {}
      /\ op'[c].rpc = "turn/start" /\ op'[c].promise = "pending" /\ op'[c].heard = FALSE
      /\ Same(op', o, c)
  BY <1>4, <1>5, <1>7 DEF BegunOn, Becomes, Unasked
<1>10. Same(op', op, c)
  BY <1>4, <1>9, SameAgain
<1>11. Onward(worker, worker') /\ OnlyMoves(worker, worker', c)
  BY <1>5, <1>8 DEF Onward, OnlyMoves, SameLife
<1>12. StepOf(c) /\ call'[c] = r
  BY <1>1, <1>5, <1>6, <1>10, <1>11, MakesStep
<1>13. (Sticky(c)' <=> Sticky(c)) /\ Sticky(c)' /\ Session /\ Session'
  BY <1>1, <1>6, <1>12 DEF Sticky, Session
<1>14. Turning(c)' /\ ~Live(c)' /\ On(c)' = 1
  BY <1>9, <1>13 DEF Turning, Live, On
<1>15. Handled(c)'
  <2>1. c \in ListOf(worker', 1)
    BY <1>2, <1>5, <1>8
  <2>2. ASSUME NEW p \in Procs, p # 1, c \in ListOf(worker', p) PROVE worker'[p].dead
    <3>1. c \in Handling(p)
      BY <1>5, <1>8, <2>2 DEF Handling, ListOf
    <3> QED BY <1>3, <1>11, <3>1 DEF Onward
  <2> QED BY <1>2, <1>14, <2>1, <2>2 DEF Handled, Handling, ListOf
<1>16. worker'[1].os # "none" /\ 1 \notin idle'
  BY <1>1, <1>2, <1>11, <1>13 DEF PoolTidy, Onward
<1>17. Placed(c)'
  BY <1>6, <1>12, <1>13, <1>14, <1>16 DEF Placed
<1>18. Threaded(c)' /\ Truthful(c)'
  BY <1>2, <1>9, <1>13, <1>14 DEF Threaded, Truthful
<1>19. PoolTidy'
  <2>1. ASSUME NEW p \in idle' PROVE c \notin Handling(p)'
    <3>1. p \in Procs /\ p # 1 /\ p \in idle
      BY <1>1, <1>2, <1>16
    <3>2. c \notin Handling(p)
      BY <1>2, <3>1 DEF PoolTidy
    <3> QED BY <1>5, <1>8, <3>1, <3>2 DEF Handling, ListOf
  <2> QED BY <1>1, <1>2, <1>12, <2>1, PoolStays
<1>20. ASSUME NEW d \in Calls \ {c} PROVE Pair(c, d)' /\ Pair(d, c)'
  <2>1. Handled(d) /\ Placed(d) /\ Truthful(d) /\ Threaded(d)
    BY <1>2 DEF Tidy, Mine
  <2>2. (Live(d)' <=> Live(d)) /\ (Turning(d)' <=> Turning(d)) /\ On(d)' = On(d)
    BY <1>12, OtherIsDone
  <2>3. /\ op'[d].thread = op[d].thread /\ op'[d].remote = op[d].remote
        /\ o[d].thread = op[d].thread /\ o[d].remote = op[d].remote /\ (op[d].shared => o[d].shared)
    BY <1>4, <1>10 DEF Same
  <2>4. /\ op'[c].shared <=> Companions(worker, o, 1, "sticky") # {}
        /\ d \in Companions(worker, o, 1, "sticky") => op'[d].shared
    BY <1>4, <1>5, <1>7 DEF BegunOn, Unasked
  <2>5. ASSUME op[d].thread = "sticky", op[d].remote = "running", ~op'[c].shared PROVE FALSE
    <3>1. d \notin Companions(worker, o, 1, "sticky")
      BY <2>4, <2>5
    <3>2. d \notin Handling(1) /\ ~op[d].shared
      BY <2>3, <2>5, <3>1 DEF Companions, Handling
    <3>3. op[d].promise \in {"pending", "rejected"}
      BY <2>1, <2>5, <3>2 DEF Truthful
    <3>4. op[d].promise # "rejected"
      BY <1>1 DEF Idle, Resumed, TurnOver, Unheard
    <3>5. On(d) = 1 /\ ~Turning(d)
      BY <2>1, <2>5, <3>2 DEF Threaded, Handled
    <3> QED BY <3>3, <3>4, <3>5 DEF Turning
  <2>6. ASSUME Turning(d), op[d].thread = "sticky" PROVE op'[d].shared
    <3>1. On(d) = 1 /\ d \in Handling(1)
      BY <2>1, <2>6 DEF Handled, Threaded
    <3>2. d \in Companions(worker, o, 1, "sticky")
      BY <2>3, <2>6, <3>1 DEF Companions, Handling
    <3> QED BY <2>4, <3>2
  <2>7. Live(d) => On(d) # 1
    BY <1>13, <2>1 DEF Placed, Live
  <2>8. Pair(c, d)'
    BY <1>14, <2>3, <2>5 DEF Pair
  <2>9. Pair(d, c)'
    BY <1>14, <2>2, <2>3, <2>6, <2>7 DEF Pair
  <2> QED BY <2>8, <2>9
<1>21. Tidy'
  BY <1>2, <1>12, <1>15, <1>17, <1>18, <1>19, <1>20, StepTidy DEF Mine
<1> QED BY <1>5, <1>8, <1>21

LEMMA ColdTidy ==
  ASSUME Inv, NEW c \in Calls, call[c].pc \in {"new", "acquiring"}, call[c].kind # "sticky",
         Launch(c, worker, op), Sets(c, [call[c] EXCEPT !.pc = "starting"]), idle' = idle
  PROVE  Tidy' /\ Typical(worker')
<1> DEFINE r == [call[c] EXCEPT !.pc = "starting"]
<1>1. Toward(c, worker) /\ op \in [Calls -> Operations] /\ call[c] \in CallStates
  BY FromInv
<1>2. call' = [call EXCEPT ![c] = r] /\ r.pc = "starting" /\ r.kind # "sticky"
  BY <1>1 DEF Sets, CallStates
<1>3. \A p \in Procs : c \in ListOf(worker, p) => worker[p].dead
  BY BeforeBegin DEF Handling, ListOf
<1>4. Same(op, op, c)
  BY DEF Same
<1> HIDE DEF r
<1> QED BY <1>1, <1>2, <1>3, <1>4, LaunchHere

LEMMA WarmTidy ==
  ASSUME Inv, NEW c \in Calls, call[c].pc \in {"new", "acquiring"}, call[c].kind # "sticky",
         NEW p \in WarmWorkers, Warm(c, p)
  PROVE  Tidy' /\ Typical(worker')
<1> DEFINE o == PutOn(op, c, p)
           u == Ask(worker, o, c, "thread/start")
           r == [call[c] EXCEPT !.pc = "ended", !.end = "closed", !.abandoned = TRUE]
           t == [call[c] EXCEPT !.pc = "turning"]
<1>1. WithAbort(c, worker, u) /\ idle' = idle \ {p} /\ p \in idle
  BY DEF Warm, WarmWorkers
<1>2. /\ Toward(c, worker) /\ Placed(c) /\ Tidy /\ Typical(worker) /\ PoolTidy
      /\ op \in [Calls -> Operations] /\ call \in [Calls -> CallStates] /\ call[c] \in CallStates
      /\ idle \subseteq Procs /\ 1 \in Procs
  BY FromInv
<1>3. ~Done(c) /\ ~Turning(c) /\ On(c) = 0 /\ \A q \in Procs : c \in Handling(q) => worker[q].dead
  BY BeforeBegin
<1>4. p \in Procs /\ worker[p].os # "none" /\ (Session => p # 1) /\ Handling(p) = {}
  BY <1>1, <1>2 DEF PoolTidy
<1>5. Same(o, op, c) /\ o \in [Calls -> Operations] /\ Unasked(o[c], p)
  BY <1>2, <1>4, AtTells
<1>6. r.pc = "ended" /\ r.kind = call[c].kind /\ t.pc = "turning" /\ t.kind = call[c].kind
  BY <1>2 DEF CallStates
<1> HIDE DEF o
<1>7. /\ Becomes(u, o, c, "thread/start", o[c].on, o[c].promise, o[c].heard, o[c].timer)
      /\ Retells(u, o, c) /\ u[c].text = o[c].text
  BY <1>5, Asked, AskTells
<1> HIDE DEF u
<1>8. /\ op' = u /\ op'[c].on = p /\ op'[c].thread = "none" /\ op'[c].remote = "none" /\ op'[c].text = {}
      /\ op'[c].rpc = "thread/start" /\ op'[c].promise = "none" /\ op'[c].heard = FALSE
  BY <1>1, <1>5, <1>7 DEF WithAbort, Becomes, Retells, SameTurn, Unasked
<1>9. \/ worker' = Kill(worker, p) /\ call' = [call EXCEPT ![c] = r]
      \/ worker' = worker /\ call' = [call EXCEPT ![c] = t]
  BY <1>1, <1>8 DEF WithAbort, Sets
<1> HIDE DEF r, t
<1>10. /\ Typical(worker') /\ SameLists(worker, worker')
       /\ \A q \in Procs : worker'[q].os = worker[q].os /\ (worker[q].dead => worker'[q].dead)
                           /\ (worker'[q].dead => worker[q].dead \/ q = p)
  <2>1. /\ Typical(Kill(worker, p)) /\ SameLists(worker, Kill(worker, p))
        /\ \A q \in Procs : Kill(worker, p)[q].os = worker[q].os
                            /\ (Kill(worker, p)[q].dead <=> (worker[q].dead \/ q = p))
    BY <1>2, <1>4, KillLists
  <2> QED BY <1>2, <1>9, <2>1 DEF SameLists
<1>11. Onward(worker, worker') /\ OnlyMoves(worker, worker', c)
  BY <1>4, <1>10 DEF Onward, OnlyMoves, SameLists
<1>12. Same(op', op, c)
  BY <1>5, <1>7, <1>8, SameAgain DEF Retells
<1>13. StepOf(c) /\ call'[c].pc \in {"turning", "ended"}
  <2>1. PICK q : q \in {r, t} /\ call' = [call EXCEPT ![c] = q]
    BY <1>9
  <2>2. q.kind = call[c].kind /\ q.pc \in {"turning", "ended"}
    BY <1>6, <2>1
  <2>3. StepOf(c) /\ call'[c] = q
    BY <1>1, <1>11, <1>12, <2>1, <2>2, MakesStep
  <2> QED BY <2>2, <2>3
<1>14. ~Sticky(c) /\ ~Sticky(c)' /\ (Session' <=> Session) /\ ~Turning(c)' /\ On(c)' = p
  BY <1>8, <1>13, SessionStays DEF Sticky, StepOf, CallsBeside, Turning, On
<1>15. Handled(c)'
  BY <1>3, <1>10, <1>14 DEF Handled, Handling, ListOf, SameLists
<1>16. Placed(c)'
  BY <1>1, <1>4, <1>10, <1>13, <1>14 DEF Placed
<1>17. Threaded(c)' /\ Truthful(c)'
  BY <1>8 DEF Threaded, Truthful
<1>18. PoolTidy'
  <2>1. \A q \in idle' : c \notin Handling(q)'
    BY <1>1, <1>2, <1>10 DEF PoolTidy, Handling, ListOf, SameLists
  <2> QED BY <1>1, <1>2, <1>13, <2>1, PoolStays
<1>19. ASSUME NEW d \in Calls \ {c} PROVE Pair(c, d)' /\ Pair(d, c)'
  <2>1. Placed(d)
    BY <1>2 DEF Tidy, Mine
  <2>2. (Done(d)' <=> Done(d)) /\ (Live(d)' <=> Live(d)) /\ On(d)' = On(d)
    BY <1>13, OtherIsDone
  <2>3. (On(d) = p => Done(d)) /\ (Live(d) => On(d) # p)
    BY <1>1, <2>1 DEF Placed
  <2> QED BY <1>8, <1>14, <2>2, <2>3 DEF Pair
<1>20. Tidy'
  BY <1>2, <1>13, <1>15, <1>16, <1>17, <1>18, <1>19, StepTidy DEF Mine
<1> QED BY <1>10, <1>20

LEMMA AcquireTidy ==
  ASSUME Inv, NEW c \in Calls, call[c].pc \in {"new", "acquiring"}, call[c].kind # "sticky", Acquire(c)
  PROVE  Tidy' /\ Typical(worker')
<1>1. CASE Cold(c)
  BY <1>1, ColdTidy DEF Cold
<1>2. CASE \E p \in WarmWorkers : Warm(c, p)
  BY <1>2, WarmTidy
<1> QED BY <1>1, <1>2 DEF Acquire

\* A call that only waits, or whose caller has left.
LEMMA OnlyRecorded ==
  ASSUME Inv, NEW c \in Calls, op' = op, idle' = idle, ~Done(c),
         NEW r, call' = [call EXCEPT ![c] = r], r.kind = call[c].kind,
         \/ r.pc = call[c].pc /\ worker' = worker
         \/ r.pc = "acquiring" /\ call[c].pc = "new" /\ worker' = worker
         \/ r.pc = "ended" /\ worker' = Discarded(c, worker)
  PROVE  Tidy' /\ Typical(worker')
<1>1. Toward(c, worker) /\ Typical(worker) /\ Truthful(c) /\ Threaded(c) /\ On(c) \in {0} \cup Procs
  BY FromInv
<1>2. Toward(c, worker') /\ SameLists(worker, worker') /\ Typical(worker')
  <2>1. SameLists(worker, Discarded(c, worker)) /\ SameLists(worker, worker)
    BY <1>1, KillLists DEF Discarded, SameLists
  <2> QED BY <1>1, <2>1, KillToward DEF Toward
<1>3. Same(op', op, c)
  BY DEF Same
<1>4. StepOf(c) /\ call'[c] = r
  BY <1>2, <1>3, MakesStep DEF Toward
<1>5. Truthful(c)'
  BY <1>1, <1>2, OneProcess DEF Truthful, Toward, Onward
<1>6. (Turning(c)' <=> Turning(c)) /\ (Live(c)' => Live(c)) /\ On(c)' = On(c)
  BY <1>4 DEF Turning, Live, Sticky, On
<1>7. Tidy'
  BY <1>2, <1>4, <1>5, <1>6, GoesOn
<1> QED BY <1>2, <1>7

LEMMA BeginTidy ==
  ASSUME Inv, NEW c \in Calls, Begin(c)
  PROVE  Tidy' /\ Typical(worker')
<1>1. CASE BeginSticky(c)
  BY <1>1, StickyFailsTidy, StickyBeginsTidy
<1>2. CASE BeginOneshot(c)
  BY <1>2, ColdTidy DEF BeginOneshot
<1>3. CASE BeginPool(c)
  BY <1>3, AcquireTidy DEF BeginPool, Pooled
<1>4. CASE WaitForCapacity(c)
  <2> DEFINE r == [call[c] EXCEPT !.pc = "acquiring"]
  <2>1. call[c].pc = "new" /\ call' = [call EXCEPT ![c] = r] /\ worker' = worker /\ op' = op /\ idle' = idle
    BY <1>4 DEF WaitForCapacity, Sets
  <2>2. ~Done(c)
    BY <2>1 DEF Done
  <2>3. call[c] \in CallStates
    BY FromInv
  <2>4. r.kind = call[c].kind /\ r.pc = "acquiring"
    BY <2>3 DEF CallStates
  <2> HIDE DEF r
  <2> QED BY <2>1, <2>2, <2>4, OnlyRecorded
<1> QED BY <1>1, <1>2, <1>3, <1>4 DEF Begin

LEMMA DisconnectTidy ==
  ASSUME Inv, NEW c \in Calls, Disconnect(c)
  PROVE  Tidy' /\ Typical(worker')
<1> DEFINE r == [call[c] EXCEPT !.gone = TRUE, !.pc = "ended", !.end = "closed"]
           t == [call[c] EXCEPT !.gone = TRUE]
<1>1. /\ call[c].pc \in {"acquiring", "starting", "turning"} /\ op' = op /\ idle' = idle
      /\ \/ call' = [call EXCEPT ![c] = r] /\ worker' = Discarded(c, worker)
         \/ call' = [call EXCEPT ![c] = t] /\ worker' = worker
  BY DEF Disconnect, Sets, Discarded
<1>2. call[c] \in CallStates
  BY FromInv
<1>3. r.kind = call[c].kind /\ r.pc = "ended" /\ t.kind = call[c].kind /\ t.pc = call[c].pc
  BY <1>2 DEF CallStates
<1>4. ~Done(c)
  BY <1>1 DEF Done
<1> HIDE DEF r, t
<1> QED BY <1>1, <1>3, <1>4, OnlyRecorded

-----------------------------------------------------------------------------
(***************************************************************************)
(* Events: of several calls at once, and of none.                          *)
(***************************************************************************)
\* Operation a becomes b: the turn stays where it is, its promise may settle, and it may
\* be over at the app-server.
Tells(a, b) ==
  /\ b.on = a.on /\ b.thread = a.thread /\ b.rpc = a.rpc /\ b.heard = a.heard /\ b.shared = a.shared
  /\ b.remote = "running" => a.remote = "running"
  /\ \/ b.promise = a.promise
     \/ a.promise = "pending" /\ b.promise \in {"resolved", "rejected"}

LEMMA EventTidy ==
  ASSUME Inv, call' = call, idle' \subseteq idle, Onward(worker, worker'),
         \A p \in Procs : ListOf(worker', p) \subseteq ListOf(worker, p),
         \A c \in Calls : Tells(op[c], op'[c]),
         \A c \in Calls : Handled(c)' /\ Truthful(c)'
  PROVE  Tidy'
<1>1. Tidy /\ PoolTidy /\ 1 \in Procs /\ idle \subseteq Procs
  BY OneProcess DEF Inv, Tidy, TypeOK
<1>2. Session' <=> Session
  BY DEF Session, Sticky
<1>3. ASSUME NEW c \in Calls
      PROVE  /\ On(c)' = On(c) /\ (Sticky(c)' <=> Sticky(c)) /\ (Live(c)' <=> Live(c))
             /\ (Done(c) => Done(c)') /\ (Turning(c)' => Turning(c))
             /\ (op[c].promise = "none" => op'[c].promise = "none")
  BY DEF Tells, On, Sticky, Live, Done, Turning
<1>4. ASSUME NEW c \in Calls PROVE Mine(c)'
  <2>1. Placed(c) /\ Threaded(c)
    BY <1>1 DEF Tidy, Mine
  <2>2. Placed(c)'
    <3>1. On(c) \in Procs => worker'[On(c)].os # "none"
      BY <2>1 DEF Placed, Onward
    <3>2. call'[c].pc \in {"new", "acquiring"} =>
            On(c) = 0 /\ op'[c].promise = "none" /\ op'[c].remote # "running"
      BY <1>3, <2>1 DEF Placed, Tells
    <3> QED BY <1>2, <1>3, <2>1, <3>1, <3>2 DEF Placed
  <2>3. Threaded(c)'
    BY <1>3, <2>1 DEF Threaded, Tells
  <2> QED BY <2>2, <2>3 DEF Mine
<1>5. ASSUME NEW c \in Calls, NEW d \in Calls, c # d PROVE Pair(c, d)'
  <2>1. Pair(c, d)
    BY <1>1, <1>5 DEF Tidy
  <2>2. Tells(op[c], op'[c]) /\ Tells(op[d], op'[d])
    OBVIOUS
  <2> QED BY <1>3, <2>1, <2>2 DEF Pair, Tells
<1>6. PoolTidy'
  <2>1. \A p \in idle' : Handling(p)' = {}
    BY <1>1 DEF PoolTidy, Handling, ListOf
  <2> QED BY <1>1, <1>2, <2>1 DEF PoolTidy, Onward
<1> QED BY <1>4, <1>5, <1>6 DEF Tidy

\* An event that settles no promise and brings no output.
LEMMA QuietTidy ==
  ASSUME Inv, call' = call, idle' \subseteq idle, Onward(worker, worker'), SameLists(worker, worker'),
         \A c \in Calls : Tells(op[c], op'[c]) /\ op'[c].promise = op[c].promise /\ op'[c].text = op[c].text
  PROVE  Tidy'
<1>1. ASSUME NEW c \in Calls PROVE Handled(c)' /\ Truthful(c)'
  <2>1. Handled(c) /\ Truthful(c)
    BY FromInv
  <2>2. Tells(op[c], op'[c]) /\ op'[c].promise = op[c].promise /\ op'[c].text = op[c].text
    OBVIOUS
  <2>3. On(c)' = On(c) /\ (Turning(c)' <=> Turning(c))
    BY <2>2 DEF On, Turning, Tells
  <2>4. Handled(c)'
    BY <2>1, <2>3 DEF Handled, Handling, ListOf, SameLists, Onward
  <2>5. Truthful(c)'
    BY <2>1, <2>2, OneProcess DEF Truthful, Tells, Onward
  <2> QED BY <2>4, <2>5
<1>2. \A p \in Procs : ListOf(worker', p) \subseteq ListOf(worker, p)
  BY DEF SameLists
<1>3. \A c \in Calls : Tells(op[c], op'[c])
  OBVIOUS
<1> QED BY <1>1, <1>2, <1>3, EventTidy

\* A process ends or is told to, and requests to it fail.
LEMMA LifeTidy ==
  ASSUME Inv, call' = call, idle' \subseteq idle, NEW p \in Procs, worker[p].os # "none",
         NEW os \in {"ended", "reaped"}, NEW b \in BOOLEAN, worker[p].dead => b,
         \/ worker' = [worker EXCEPT ![p].os = os, ![p].dead = b]
         \/ worker' = Kill(worker, p)
         \/ worker' = worker,
         \/ op' = op
         \/ RejectPending(p)
  PROVE  Tidy' /\ Typical(worker')
<1>1. Typical(worker) /\ op \in [Calls -> Operations]
  BY DEF Inv, TypeOK, Typical
<1>2. /\ Typical(Kill(worker, p)) /\ SameLists(worker, Kill(worker, p))
      /\ \A q \in Procs : Kill(worker, p)[q].os = worker[q].os /\ (Kill(worker, p)[q].dead <=> (worker[q].dead \/ q = p))
  BY <1>1, KillLists
<1>3. Typical(worker') /\ SameLists(worker, worker') /\ Onward(worker, worker')
  <2>1. CASE worker' = [worker EXCEPT ![p].os = os, ![p].dead = b]
    <3>1. Typical(worker')
      BY <1>1, <2>1 DEF Typical, Workers
    <3>2. \A q \in Procs : /\ worker'[q].os = (IF q = p THEN os ELSE worker[q].os)
                           /\ worker'[q].dead = (IF q = p THEN b ELSE worker[q].dead)
                           /\ worker'[q].handlers = worker[q].handlers
      BY <1>1, <2>1 DEF Typical, Workers
    <3> QED BY <3>1, <3>2 DEF SameLists, ListOf, Onward
  <2>2. CASE worker' = Kill(worker, p)
    BY <1>2, <2>2 DEF Onward
  <2>3. CASE worker' = worker
    BY <1>1, <2>3 DEF Onward, SameLists
  <2> QED BY <2>1, <2>2, <2>3
<1>4. ASSUME NEW c \in Calls
      PROVE  Tells(op[c], op'[c]) /\ op'[c].promise = op[c].promise /\ op'[c].text = op[c].text
  <2>1. op[c] \in Operations
    BY <1>1
  <2>2. op'[c] = op[c] \/ op'[c] = [op[c] EXCEPT !.reply = "error"]
    BY DEF RejectPending
  <2> QED BY <2>1, <2>2 DEF Operations, Tells
<1>5. Tidy'
  BY <1>3, <1>4, QuietTidy
<1> QED BY <1>3, <1>5

\* A request is answered, and its turn may be over.
Answers(b, a, x, y) == b = [a EXCEPT !.reply = x, !.remote = y] /\ (y = a.remote \/ y = "over")

LEMMA AnswerTidy ==
  ASSUME Inv, call' = call, idle' = idle, worker' = worker, NEW c \in Calls,
         \/ op' = [op EXCEPT ![c].reply = "ok"]
         \/ op' = [op EXCEPT ![c].reply = "error"]
         \/ op' = [op EXCEPT ![c].reply = "error", ![c].remote = IF @ = "running" THEN "over" ELSE @]
  PROVE  Tidy' /\ Typical(worker')
<1>1. Typical(worker) /\ op \in [Calls -> Operations]
  BY DEF Inv, TypeOK, Typical
<1>2. ASSUME NEW d \in Calls
      PROVE  Tells(op[d], op'[d]) /\ op'[d].promise = op[d].promise /\ op'[d].text = op[d].text
  <2>1. op[d] \in Operations
    BY <1>1
  <2>2. op'[d] = op[d] \/ \E x, y : Answers(op'[d], op[d], x, y)
    <3>1. CASE op' = [op EXCEPT ![c].reply = "ok"]
      <4>1. op'[d] = op[d] \/ op'[d] = [op[d] EXCEPT !.reply = "ok"]
        BY <1>1, <3>1
      <4>2. [op[d] EXCEPT !.reply = "ok"] = [op[d] EXCEPT !.reply = "ok", !.remote = op[d].remote]
        BY <2>1 DEF Operations
      <4> QED BY <4>1, <4>2 DEF Answers
    <3>2. CASE op' = [op EXCEPT ![c].reply = "error"]
      <4>1. op'[d] = op[d] \/ op'[d] = [op[d] EXCEPT !.reply = "error"]
        BY <1>1, <3>2
      <4>2. [op[d] EXCEPT !.reply = "error"] = [op[d] EXCEPT !.reply = "error", !.remote = op[d].remote]
        BY <2>1 DEF Operations
      <4> QED BY <4>1, <4>2 DEF Answers
    <3>3. CASE op' = [op EXCEPT ![c].reply = "error", ![c].remote = IF @ = "running" THEN "over" ELSE @]
      <4> DEFINE y == IF op[c].remote = "running" THEN "over" ELSE op[c].remote
      <4>1. op'[d] = op[d] \/ (d = c /\ op'[d] = [op[d] EXCEPT !.reply = "error", !.remote = y])
        BY <1>1, <2>1, <3>3 DEF Operations
      <4> QED BY <4>1 DEF Answers
    <3> QED BY <3>1, <3>2, <3>3
  <2>3. CASE op'[d] = op[d]
    BY <2>3 DEF Tells
  <2>4. CASE \E x, y : Answers(op'[d], op[d], x, y)
    <3>1. PICK x, y : Answers(op'[d], op[d], x, y)
      BY <2>4
    <3>2. Tells(op[d], op'[d])
      BY <2>1, <3>1 DEF Operations, Tells, Answers
    <3>3. op'[d].promise = op[d].promise /\ op'[d].text = op[d].text
      BY <2>1, <3>1 DEF Operations, Answers
    <3> QED BY <3>2, <3>3
  <2> QED BY <2>2, <2>3, <2>4
<1>3. Onward(worker, worker') /\ SameLists(worker, worker')
  BY DEF Onward, SameLists
<1>4. Tidy'
  BY <1>2, <1>3, QuietTidy
<1> QED BY <1>1, <1>4

LEMMA TimeoutTidy ==
  ASSUME Inv, call' = call, idle' = idle, NEW c \in Calls, TurnTimeout(c)
  PROVE  Tidy' /\ Typical(worker')
<1> DEFINE r == [op[c] EXCEPT !.promise = "rejected", !.timer = FALSE]
<1>1. op' = [op EXCEPT ![c] = r] /\ worker' = Discarded(c, worker) /\ op[c].timer
  BY DEF TurnTimeout, Discarded, On
<1>2. /\ Toward(c, worker) /\ Handled(c) /\ Typical(worker) /\ Promised(op, call, c) /\ Truthful(c) /\ Threaded(c)
      /\ op \in [Calls -> Operations] /\ op[c] \in Operations /\ call \in [Calls -> CallStates] /\ PoolTidy
  BY FromInv
<1>3. /\ SameTurn(r, op[c]) /\ r.promise = "rejected" /\ r.text = op[c].text /\ r.rpc = op[c].rpc
      /\ r.heard = op[c].heard
  BY <1>2 DEF Operations, SameTurn
<1> HIDE DEF r
<1>4. Turning(c) /\ On(c) \in Procs
  BY <1>1, <1>2 DEF Promised, Turning, Handled
<1>5. Same(op', op, c) /\ op'[c] = r
  BY <1>1, <1>2, PutSame
<1>6. Toward(c, worker') /\ worker'[On(c)].dead /\ Typical(worker') /\ SameLists(worker, worker')
  <2>1. SameLists(worker, Discarded(c, worker))
    BY <1>2, <1>4, KillLists DEF Discarded
  <2> QED BY <1>1, <1>2, <1>4, <2>1, KillToward DEF Toward
<1>7. StepOf(c) /\ call'[c] = call[c]
  <2>1. call' = [call EXCEPT ![c] = call[c]]
    BY <1>2
  <2> QED BY <1>5, <1>6, <2>1, MakesStep DEF Toward
<1>8. /\ On(c)' = On(c) /\ op'[c].thread = op[c].thread /\ op'[c].shared = op[c].shared
      /\ op'[c].remote = op[c].remote /\ op'[c].promise = "rejected" /\ op'[c].text = op[c].text
  BY <1>3, <1>5 DEF SameTurn, On
<1>9. Truthful(c)'
  BY <1>2, <1>6, <1>8 DEF Truthful, Threaded
<1>10. ~Turning(c)' /\ ~Done(c) /\ (Live(c)' <=> Live(c))
  BY <1>4, <1>8 DEF Turning, Done, Live, Sticky
<1>11. call[c].pc \notin {"new", "acquiring"}
  <2>1. Placed(c)
    BY FromInv
  <2> QED BY <1>4, <2>1 DEF Placed, Turning
<1>12. Tidy'
  BY <1>6, <1>7, <1>8, <1>9, <1>10, <1>11, GoesOn
<1> QED BY <1>6, <1>12

\* A notification of d's turn reaches handlers of the process that are for its thread, and
\* of those that share it with nobody only d's own.
LEMMA OwnNotice ==
  ASSUME Inv, NEW d \in Calls, op[d].remote = "running", NEW c \in Calls, Matches(c, d), Turning(c),
         op[c].thread # "sticky" \/ ~op[c].shared
  PROVE  c = d
<1> SUFFICES ASSUME c # d PROVE FALSE
  OBVIOUS
<1>1. Threaded(c) /\ Threaded(d) /\ Pair(c, d)
  BY DEF Inv, Tidy, Mine
<1>2. op[c].thread = op[d].thread
  BY DEF Matches
<1>3. op[d].thread \in {"sticky", d} /\ op[c].thread \in {"none", "sticky", c}
  BY <1>1 DEF Threaded
<1>4. c \notin {"none", "sticky"} /\ d \notin {"none", "sticky"}
  BY CallsAssumption
<1>5. op[c].thread = "sticky" /\ op[d].thread = "sticky"
  BY <1>2, <1>3, <1>4
<1> QED BY <1>1, <1>5 DEF Pair

LEMMA DeltaTidy ==
  ASSUME Inv, call' = call, idle' = idle, NEW d \in Calls, Delta(d)
  PROVE  Tidy' /\ Typical(worker')
<1> DEFINE hs == Reached(op[d].on, d, FALSE)
<1>1. /\ op[d].remote = "running" /\ worker' = worker
      /\ op' = [c \in Calls |-> IF c \in hs /\ op[c].promise = "pending"
                               THEN [op[c] EXCEPT !.text = @ \cup {d}] ELSE op[c]]
  BY DEF Delta, TurnRuns
<1>2. \A c \in hs : Matches(c, d)
  BY DEF Reached
<1> HIDE DEF hs
<1>3. Typical(worker) /\ op \in [Calls -> Operations]
  BY DEF Inv, TypeOK, Typical
<1>4. ASSUME NEW c \in Calls
      PROVE  /\ Tells(op[c], op'[c]) /\ op'[c].promise = op[c].promise
             /\ op'[c].text = op[c].text \/ (c \in hs /\ Turning(c) /\ op'[c].text = op[c].text \cup {d})
  <2>1. op[c] \in Operations
    BY <1>3
  <2>2. \/ op'[c] = op[c]
        \/ c \in hs /\ op[c].promise = "pending" /\ op'[c] = [op[c] EXCEPT !.text = op[c].text \cup {d}]
    BY <1>1, <2>1 DEF Operations
  <2>3. CASE op'[c] = op[c]
    BY <2>3 DEF Tells
  <2>4. CASE c \in hs /\ op[c].promise = "pending" /\ op'[c] = [op[c] EXCEPT !.text = op[c].text \cup {d}]
    BY <2>1, <2>4 DEF Operations, Tells, Turning
  <2> QED BY <2>2, <2>3, <2>4
<1>5. ASSUME NEW c \in Calls PROVE Handled(c)' /\ Truthful(c)'
  <2>1. Handled(c) /\ Truthful(c) /\ Threaded(c)
    BY FromInv
  <2>2. Tells(op[c], op'[c]) /\ op'[c].promise = op[c].promise
    BY <1>4
  <2>3. On(c)' = On(c) /\ (Turning(c)' <=> Turning(c))
    BY <2>2 DEF On, Turning, Tells
  <2>4. Handled(c)'
    BY <1>1, <2>1, <2>3 DEF Handled, Handling
  <2>5. ~op'[c].shared => op'[c].text \subseteq {c}
    <3>1. SUFFICES ASSUME ~op[c].shared PROVE op'[c].text \subseteq {c}
      BY <2>2 DEF Tells
    <3>2. op[c].text \subseteq {c}
      BY <2>1, <3>1 DEF Truthful
    <3>3. c \in hs /\ Turning(c) => c = d
      BY <1>1, <1>2, <3>1, OwnNotice
    <3> QED BY <1>4, <3>2, <3>3
  <2>6. Truthful(c)'
    BY <1>1, <2>1, <2>2, <2>5 DEF Truthful, Tells
  <2> QED BY <2>4, <2>6
<1>6. Onward(worker, worker') /\ \A p \in Procs : ListOf(worker', p) \subseteq ListOf(worker, p)
  BY <1>1 DEF Onward
<1>7. Tidy'
  BY <1>4, <1>5, <1>6, EventTidy
<1> QED BY <1>1, <1>3, <1>7

\* What the end of d's turn does to the others: how is what it tells them.
Ended(a, b, reached, how, own) ==
  /\ b.on = a.on /\ b.thread = a.thread /\ b.rpc = a.rpc /\ b.heard = a.heard /\ b.shared = a.shared
  /\ b.text = a.text
  /\ b.promise = IF reached /\ a.promise = "pending" THEN how ELSE a.promise
  /\ b.remote = IF own /\ how = "resolved" THEN "over" ELSE a.remote

LEMMA TurnEndsTidy ==
  ASSUME Inv, call' = call, idle' = idle, NEW d \in Calls, NEW how \in {"resolved", "rejected"}, TurnEnds(d, how)
  PROVE  Tidy' /\ Typical(worker')
<1> DEFINE p == op[d].on
           hs == Reached(p, d, TRUE)
           Told(o) == [o EXCEPT !.timer = FALSE, !.promise = IF @ = "pending" THEN how ELSE @]
<1>1. /\ op[d].remote = "running" /\ worker' = Unsubscribed(worker, p, hs)
      /\ op' = [c \in Calls |->
                  LET o == IF c \in hs THEN Told(op[c]) ELSE op[c]
                  IN  IF c = d /\ how = "resolved" THEN [o EXCEPT !.remote = "over"] ELSE o]
  BY DEF TurnEnds, TurnRuns
<1>2. \A c \in hs : Matches(c, d)
  BY DEF Reached
<1> HIDE DEF hs
<1>3. Typical(worker) /\ op \in [Calls -> Operations] /\ p \in Procs
  <2>1. Threaded(d)
    BY FromInv
  <2> QED BY <1>1, <2>1 DEF Inv, TypeOK, Typical, Threaded, On
<1>4. /\ Typical(worker') /\ SameLife(worker, worker')
      /\ \A q \in Procs : ListOf(worker', q) = IF q = p THEN ListOf(worker, q) \ hs ELSE ListOf(worker, q)
  <2> HIDE DEF p
  <2>1. \A v : v = Unsubscribed(worker, p, hs) =>
          /\ Typical(v) /\ SameLife(worker, v)
          /\ \A q \in Procs : ListOf(v, q) = IF q = p THEN ListOf(worker, q) \ hs ELSE ListOf(worker, q)
    BY <1>3, UnsubscribeLists
  <2> QED BY <1>1, <2>1
<1>5. ASSUME NEW c \in Calls PROVE Ended(op[c], op'[c], c \in hs, how, c = d)
  <2>1. op[c] \in Operations
    BY <1>3
  <2> DEFINE a == IF c \in hs THEN Told(op[c]) ELSE op[c]
             x == IF op[c].promise = "pending" THEN how ELSE op[c].promise
  <2>2. op'[c] = IF c = d /\ how = "resolved" THEN [a EXCEPT !.remote = "over"] ELSE a
    BY <1>1
  <2>3. Told(op[c]) = [op[c] EXCEPT !.timer = FALSE, !.promise = x]
    BY <2>1 DEF Operations
  <2>4. a \in Operations /\ Ended(op[c], a, c \in hs, how, FALSE)
    <3>1. CASE c \in hs
      <4>1. a = [op[c] EXCEPT !.timer = FALSE, !.promise = x]
        BY <2>3, <3>1
      <4> HIDE DEF a
      <4> QED BY <2>1, <3>1, <4>1 DEF Operations, Ended
    <3>2. CASE c \notin hs
      BY <2>1, <3>2 DEF Ended
    <3> QED BY <3>1, <3>2
  <2> HIDE DEF a
  <2>5. CASE c = d /\ how = "resolved"
    BY <2>2, <2>4, <2>5 DEF Operations, Ended
  <2>6. CASE ~(c = d /\ how = "resolved")
    BY <2>2, <2>4, <2>6 DEF Ended
  <2> QED BY <2>5, <2>6
<1>6. ASSUME NEW c \in Calls PROVE Tells(op[c], op'[c])
  <2>1. Ended(op[c], op'[c], c \in hs, how, c = d)
    BY <1>5
  <2> QED BY <2>1 DEF Ended, Tells
<1>7. Onward(worker, worker') /\ \A q \in Procs : ListOf(worker', q) \subseteq ListOf(worker, q)
  BY <1>4 DEF Onward, SameLife
<1>8. ASSUME NEW c \in Calls PROVE Handled(c)' /\ Truthful(c)'
  <2>1. Handled(c) /\ Truthful(c) /\ Threaded(c) /\ Threaded(d)
    BY FromInv
  <2>2. Ended(op[c], op'[c], c \in hs, how, c = d)
    BY <1>5
  <2>3. On(c)' = On(c) /\ (Turning(c)' <=> Turning(c) /\ c \notin hs)
    BY <2>2 DEF On, Turning, Ended
  <2>4. Handled(c)'
    <3>1. ASSUME Turning(c)' PROVE On(c) \in Procs /\ c \in ListOf(worker', On(c))
      BY <1>4, <2>1, <2>3, <3>1 DEF Handled, Handling, ListOf
    <3>2. ASSUME NEW q \in Procs, c \in ListOf(worker', q), ~worker'[q].dead
          PROVE  On(c) = q /\ Turning(c)'
      <4>1. c \in Handling(q) /\ ~worker[q].dead
        BY <1>4, <3>2 DEF Handling, ListOf, SameLife
      <4>2. On(c) = q /\ Turning(c)
        BY <2>1, <4>1 DEF Handled
      <4>3. c \in hs => q = p
        BY <1>2, <4>2 DEF Matches, On
      <4>4. c \notin hs
        BY <1>4, <3>2, <4>3
      <4> QED BY <2>3, <4>2, <4>4
    <3> QED BY <2>3, <3>1, <3>2 DEF Handled, Handling, ListOf
  <2>5. op[c].thread # "sticky" /\ op'[c].promise = "resolved" => op'[c].remote # "running"
    <3>1. SUFFICES ASSUME op[c].thread # "sticky", op'[c].promise = "resolved", op[c].promise # "resolved"
                   PROVE  op'[c].remote # "running"
      BY <2>1, <2>2 DEF Truthful, Ended
    <3>2. c \in hs /\ Turning(c) /\ how = "resolved"
      BY <2>2, <3>1 DEF Ended, Turning
    <3>3. c = d
      BY <1>1, <1>2, <3>1, <3>2, OwnNotice
    <3> QED BY <2>2, <3>2, <3>3 DEF Ended
  <2>6. op[c].thread = "sticky" /\ op'[c].remote = "running" /\ ~op[c].shared /\ ~worker[1].dead =>
          op'[c].promise \in {"pending", "rejected"}
    <3>1. SUFFICES ASSUME op[c].thread = "sticky", op'[c].remote = "running", ~op[c].shared, ~worker[1].dead
                   PROVE  op'[c].promise \in {"pending", "rejected"}
      OBVIOUS
    <3>2. op[c].remote = "running" /\ ~(c = d /\ how = "resolved")
      BY <2>2, <3>1 DEF Ended
    <3>3. op[c].promise \in {"pending", "rejected"}
      BY <2>1, <3>1, <3>2 DEF Truthful
    <3>4. CASE c \in hs /\ Turning(c)
      <4>1. c = d
        BY <1>1, <1>2, <3>1, <3>4, OwnNotice
      <4> QED BY <2>2, <3>2, <3>4, <4>1 DEF Ended, Turning
    <3>5. CASE ~(c \in hs /\ Turning(c))
      BY <2>2, <3>3, <3>5 DEF Ended, Turning
    <3> QED BY <3>4, <3>5
  <2>7. op[c].promise # "none" => op'[c].promise # "none"
    BY <2>2 DEF Ended
  <2>8. worker'[1].dead <=> worker[1].dead
    BY <1>4, OneProcess DEF SameLife
  <2>9. Truthful(c)'
    BY <2>1, <2>2, <2>5, <2>6, <2>7, <2>8 DEF Truthful, Ended
  <2> QED BY <2>4, <2>9
<1>9. Tidy'
  BY <1>6, <1>7, <1>8, EventTidy
<1> QED BY <1>4, <1>9

LEMMA DriverTidy ==
  ASSUME Inv, Driver
  PROVE  Tidy' /\ Typical(worker')
<1>1. call' = call /\ idle' = idle /\ idle' \subseteq idle
  BY DEF Driver
<1>2. Typical(worker) /\ op \in [Calls -> Operations]
  BY DEF Inv, TypeOK, Typical
<1>3. CASE Unhandled \/ EndChunk
  <2>1. worker' = worker /\ op' = op
    BY <1>3 DEF Unhandled, EndChunk
  <2>2. Onward(worker, worker') /\ SameLists(worker, worker')
    BY <2>1 DEF Onward, SameLists
  <2>3. \A c \in Calls : Tells(op[c], op'[c]) /\ op'[c].promise = op[c].promise /\ op'[c].text = op[c].text
    BY <2>1 DEF Tells
  <2>4. Tidy'
    BY <1>1, <2>2, <2>3, QuietTidy
  <2> QED BY <1>2, <2>1, <2>4
<1>4. ASSUME NEW p \in Procs, Ends(p) \/ Exit(p) \/ SpawnError(p) PROVE Tidy' /\ Typical(worker')
  <2>1. worker[p].os # "none" /\ worker[p].dead \in BOOLEAN
    BY <1>2, <1>4 DEF Ends, Exit, SpawnError, Typical, Workers
  <2>2. CASE Ends(p)
    <3>1. worker' = [worker EXCEPT ![p].os = "ended", ![p].dead = worker[p].dead] /\ op' = op
      BY <1>2, <2>2 DEF Ends, Typical, Workers
    <3> QED BY <1>1, <2>1, <3>1, LifeTidy
  <2>3. CASE Exit(p) \/ SpawnError(p)
    <3>1. worker' = [worker EXCEPT ![p].os = "reaped", ![p].dead = TRUE] /\ RejectPending(p)
      BY <2>3 DEF Exit, SpawnError, Reap
    <3> QED BY <1>1, <2>1, <3>1, LifeTidy
  <2> QED BY <1>4, <2>2, <2>3
<1>5. ASSUME NEW c \in Calls, RequestTimeout(c) \/ Response(c) PROVE Tidy' /\ Typical(worker')
  BY <1>1, <1>5, AnswerTidy DEF RequestTimeout, Response
<1>6. ASSUME NEW c \in Calls, TurnTimeout(c) PROVE Tidy' /\ Typical(worker')
  BY <1>1, <1>6, TimeoutTidy
<1>7. ASSUME NEW c \in Calls, Delta(c) PROVE Tidy' /\ Typical(worker')
  BY <1>1, <1>7, DeltaTidy
<1>8. ASSUME NEW c \in Calls, Completed(c) \/ ErrorNotice(c) PROVE Tidy' /\ Typical(worker')
  <2>1. PICK how \in {"resolved", "rejected"} : TurnEnds(c, how)
    BY <1>8 DEF Completed, ErrorNotice
  <2> QED BY <1>1, <2>1, TurnEndsTidy
<1> QED BY <1>3, <1>4, <1>5, <1>6, <1>7, <1>8 DEF Driver, ProcessEvent

LEMMA EvictTidy ==
  ASSUME Inv, NEW p \in Procs, Evict(p)
  PROVE  Tidy' /\ Typical(worker')
<1>1. p \in idle /\ idle' = idle \ {p} /\ worker' = Kill(worker, p) /\ op' = op /\ call' = call
  BY DEF Evict
<1>2. worker[p].os # "none"
  BY <1>1 DEF Inv, Tidy, PoolTidy
<1>3. idle' \subseteq idle /\ "ended" \in {"ended", "reaped"} /\ TRUE \in BOOLEAN
  BY <1>1
<1> QED BY <1>1, <1>2, <1>3, LifeTidy

-----------------------------------------------------------------------------
(***************************************************************************)
(* The theorems.                                                           *)
(***************************************************************************)
LEMMA ContinueTidy ==
  ASSUME Inv, NEW c \in Calls, Continue(c)
  PROVE  Tidy' /\ Typical(worker')
BY RefusedTidy, StartedTidy, ThreadStartedTidy, AcceptedTidy, TurnSettlesTidy DEF Continue

LEMMA StepKeeps ==
  ASSUME Inv, [Next]_vars
  PROVE  Tidy' /\ Typical(worker')
<1>1. CASE Driver
  BY <1>1, DriverTidy
<1>2. ASSUME NEW c \in Calls, Begin(c) \/ Woken(c) \/ Continue(c) \/ Disconnect(c)
      PROVE  Tidy' /\ Typical(worker')
  <2>1. CASE Woken(c)
    <3>1. call[c].pc = "acquiring" /\ Acquire(c)
      BY <2>1 DEF Woken
    <3>2. Place(worker, op, call, c)
      BY FromInv
    <3>3. call[c].kind # "sticky"
      BY <3>1, <3>2 DEF Place
    <3> QED BY <3>1, <3>3, AcquireTidy
  <2> QED BY <1>2, <2>1, BeginTidy, ContinueTidy, DisconnectTidy
<1>3. ASSUME NEW p \in Procs, Evict(p) PROVE Tidy' /\ Typical(worker')
  BY <1>3, EvictTidy
<1>4. CASE UNCHANGED vars
  <2>1. worker' = worker /\ op' = op /\ call' = call /\ idle' = idle
    BY <1>4 DEF vars
  <2>2. Tidy /\ Typical(worker)
    BY DEF Inv, TypeOK, Typical
  <2>3. /\ Onward(worker, worker') /\ SameLists(worker, worker') /\ idle' \subseteq idle
        /\ \A c \in Calls : Tells(op[c], op'[c]) /\ op'[c].promise = op[c].promise /\ op'[c].text = op[c].text
    BY <2>1 DEF Onward, SameLists, Tells
  <2>4. Tidy'
    BY <2>1, <2>3, QuietTidy
  <2> QED BY <2>1, <2>2, <2>4
<1> QED BY <1>1, <1>2, <1>3, <1>4 DEF Next

LEMMA ChunkAndDown ==
  ASSUME Inv, [Next]_vars
  PROVE  chunk' \in {0} \cup Procs /\ down' \in {"no", "rejection", "pipe"}
<1>1. /\ chunk \in {0} \cup Procs /\ down \in {"no", "rejection", "pipe"}
      /\ \A c \in Calls : op[c].on \in {0} \cup Procs
  BY DEF Inv, TypeOK, Operations
<1>2. CASE Driver
  BY <1>1, <1>2 DEF Driver, ProcessEvent, Unhandled, EndChunk, Ends, Exit, SpawnError, RequestTimeout,
       TurnTimeout, Response, Delta, Completed, ErrorNotice, TurnEnds, TurnRuns, Reads
<1>3. ASSUME NEW c \in Calls, Begin(c) \/ Woken(c) \/ Continue(c) \/ Disconnect(c)
      PROVE  chunk' \in {0} \cup Procs /\ down' \in {"no", "rejection", "pipe"}
  <2>1. chunk' = chunk
    BY <1>3 DEF Begin, BeginSticky, BeginOneshot, BeginPool, WaitForCapacity, Woken, Continue, StartFails, Started,
         ThreadFails, ThreadStarted, TurnRefused, TurnAccepted, TurnSettles, Disconnect
  <2>2. down' = down \/ down' \in {"no", "pipe"}
    BY <1>3 DEF Begin, BeginSticky, BeginOneshot, BeginPool, WaitForCapacity, Woken, Continue, StartFails, Started,
         ThreadFails, ThreadStarted, TurnRefused, TurnAccepted, TurnSettles, Disconnect,
         Operate, Acquire, Cold, Warm, WriteTo
  <2> QED BY <1>1, <2>1, <2>2
<1>4. ASSUME NEW p \in Procs, Evict(p)
      PROVE  chunk' \in {0} \cup Procs /\ down' \in {"no", "rejection", "pipe"}
  BY <1>1, <1>4 DEF Evict
<1>5. CASE UNCHANGED vars
  BY <1>1, <1>5 DEF vars
<1> QED BY <1>2, <1>3, <1>4, <1>5 DEF Next

LEMMA InitKeeps == Init => Inv
<1> SUFFICES ASSUME Init PROVE Inv
  OBVIOUS
<1>1. RInv
  BY InitGood
<1>2. op \in [Calls -> Operations] /\ call \in [Calls -> CallStates] /\ idle = {} /\ op = [c \in Calls |-> NoOp]
  BY <1>1 DEF RInv, Good, Typed, Init
<1>3. /\ worker = [p \in Procs |->
                     [os |-> IF p = 1 /\ Session THEN "up" ELSE "none", dead |-> FALSE, handlers |-> EmptyList]]
      /\ chunk = 0 /\ down = "no"
  BY DEF Init, Session
<1>4. Typical(worker)
  BY <1>3, EmptyIs DEF Typical, Workers
<1>5. \A c \in Calls : /\ op[c].on = 0 /\ op[c].thread = "none" /\ op[c].rpc = "none" /\ op[c].promise = "none"
                       /\ op[c].heard = FALSE /\ op[c].remote = "none" /\ op[c].text = {}
  BY <1>2 DEF NoOp
<1>6. TypeOK
  BY <1>2, <1>3, <1>4, <1>5 DEF TypeOK, Typical
<1>7. \A c \in Calls : call[c].pc \in {"new", "ended"}
  BY DEF Init
<1>8. \A p \in Procs : Handling(p) = {}
  BY <1>3, EmptyIs DEF Handling
<1>9. ASSUME NEW c \in Calls PROVE Mine(c)
  <2>1. On(c) = 0 /\ On(c) \notin Procs /\ ~Turning(c) /\ ~Live(c)
    BY <1>5, <1>7, OneProcess DEF On, Turning, Live
  <2>2. Handled(c)
    BY <1>8, <2>1 DEF Handled
  <2>3. Placed(c)
    BY <1>2, <1>5, <2>1, OneProcess DEF Placed
  <2>4. Threaded(c) /\ Truthful(c)
    BY <1>5 DEF Threaded, Truthful
  <2> QED BY <2>2, <2>3, <2>4 DEF Mine
<1>10. \A c, d \in Calls : Pair(c, d)
  BY <1>5, <1>7 DEF Pair, Live
<1>11. PoolTidy
  BY <1>2, <1>3, OneProcess DEF PoolTidy
<1> QED BY <1>1, <1>6, <1>9, <1>10, <1>11 DEF Inv, Tidy

LEMMA NextKeeps == Inv /\ [Next]_vars => Inv'
<1> SUFFICES ASSUME Inv, [Next]_vars PROVE Inv'
  OBVIOUS
<1>1. RInv'
  BY NextGood DEF Inv
<1>2. Tidy' /\ Typical(worker')
  BY StepKeeps
<1>3. op' \in [Calls -> Operations] /\ call' \in [Calls -> CallStates] /\ idle' \subseteq Procs
  BY <1>1 DEF RInv, Good, Typed
<1>4. \A c \in Calls : op'[c].heard => op'[c].promise # "none"
  BY <1>2 DEF Tidy, Mine, Truthful
<1>5. TypeOK'
  BY <1>2, <1>3, <1>4, ChunkAndDown DEF TypeOK, Typical
<1> QED BY <1>1, <1>2, <1>5 DEF Inv

THEOREM OutputInvariant == Spec => []Inv
BY InitKeeps, NextKeeps, PTL DEF Spec

\* The variables keep their types, and what somebody listens to is a promise.
THEOREM RunnerTypes == Spec => []TypeOK
<1>1. Inv => TypeOK
  BY DEF Inv
<1> QED BY <1>1, OutputInvariant, PTL

\* Whatever way a call ends, its worker is in good hands or told to end; what is back in
\* the pool has no handler left and no turn under way, so that the next caller finds none.
THEOREM RunnerWorkersAccounted == Spec => []WorkersAccounted
<1>1. Inv => ReturnedClean
  BY DEF Inv, Tidy, Mine, Placed, PoolTidy, ReturnedClean, Handling, Done
<1> QED BY <1>1, OutputInvariant, RunnerNoOrphans, PTL DEF WorkersAccounted

\* Unless two turns ran at once on the session's thread, what a call collects is the
\* output of its own turn: that of a turn that failed before it, or that is still under
\* way at the app-server for somebody else, never reaches its handler.
THEOREM RunnerOwnOutput == Spec => []OwnOutput
<1>1. Inv => OwnOutput
  BY DEF Inv, Tidy, Mine, Truthful, OwnOutput
<1> QED BY <1>1, OutputInvariant, PTL
===============================================================================
