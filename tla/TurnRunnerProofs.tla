-------------------------- MODULE TurnRunnerProofs --------------------------
(***************************************************************************)
(* Proofs about TurnRunner, for any calls, kinds and number of processes:  *)
(* that no process is left without an owner, that no turn is begun for a   *)
(* caller that has left, and which rejections can end the gateway.         *)
(*                                                                         *)
(* Nothing here depends on which handlers a process has: TurnOutputProofs  *)
(* has what does.                                                          *)
(***************************************************************************)
EXTENDS TurnRunner, TLAPS

-----------------------------------------------------------------------------
(***************************************************************************)
(* The inductive invariant, of processes w, operations o, calls cl and     *)
(* idle workers id.                                                        *)
(***************************************************************************)
\* Processes are records, whatever their handlers are.
Lives(H) == [Procs -> [os : {"none", "up", "ended", "reaped"}, dead : BOOLEAN, handlers : H]]
Shape(w) == \E H : w \in Lives(H)

\* The promise of a turn: it has a listener once turn/start is answered; without one, it
\* is pending only until then, and rejects later only for a call that was abandoned.
Promised(o, cl, c) ==
  /\ o[c].rpc = "initialize" => o[c].promise = "none"
  /\ o[c].heard => o[c].rpc = "none"
  /\ o[c].timer => o[c].promise = "pending"
  /\ o[c].promise = "pending" /\ ~o[c].heard => o[c].rpc = "turn/start"
  /\ o[c].promise = "rejected" /\ ~o[c].heard => o[c].rpc = "turn/start" \/ cl[c].abandoned

\* What a call asks of which process, by where it is.
Place(w, o, cl, c) ==
  /\ cl[c].pc = "new" => ~cl[c].gone
  /\ cl[c].kind = "absent" => cl[c].pc = "ended"
  /\ cl[c].pc \in {"new", "acquiring"} => o[c].rpc = "none"
  /\ cl[c].pc = "starting" <=> o[c].rpc = "initialize"
  /\ cl[c].pc \in {"starting", "turning"} \/ o[c].rpc # "none" => o[c].on \in Procs
  /\ cl[c].kind = "sticky" => cl[c].pc \notin {"acquiring", "starting"} /\ (cl[c].pc = "turning" => o[c].on = 1)
  /\ cl[c].gone /\ o[c].rpc = "thread/start" => w[o[c].on].dead

\* A process that runs, and has not been told to end, has an owner.
OwnedBy(p, o, cl, id) ==
  \/ p \in id
  \/ p = 1 /\ \E c \in Calls : cl[c].kind = "sticky"
  \/ \E c \in Calls : o[c].on = p /\ cl[c].pc \in {"starting", "turning"}
Owned(w, o, cl, id) == \A p \in Procs : w[p].os = "up" /\ ~w[p].dead => OwnedBy(p, o, cl, id)

Typed(w, o, cl, id) ==
  /\ Shape(w)
  /\ o \in [Calls -> Operations]
  /\ cl \in [Calls -> CallStates]
  /\ id \subseteq Procs

Good(w, o, cl, id) ==
  /\ Typed(w, o, cl, id)
  /\ Owned(w, o, cl, id)
  /\ \A c \in Calls : Promised(o, cl, c) /\ Place(w, o, cl, c)

RInv == Good(worker, op, call, idle) /\ SurvivesOtherwise

-----------------------------------------------------------------------------
(***************************************************************************)
(* What the handlers of AppServer do to processes and operations.          *)
(***************************************************************************)
LEMMA OneProcess == 1 \in Procs /\ 0 \notin Procs
BY ProcsAssumption DEF Procs

LEMMA Killed ==
  ASSUME NEW w, Shape(w), NEW p \in {0} \cup Procs
  PROVE  /\ Shape(Kill(w, p))
         /\ \A q \in Procs : /\ Kill(w, p)[q].os = w[q].os
                             /\ Kill(w, p)[q].dead <=> (w[q].dead \/ q = p)
<1>1. PICK H : w \in Lives(H)
  BY DEF Shape
<1>2. CASE p = 0
  BY <1>2, OneProcess DEF Kill
<1>3. CASE p # 0
  <2>1. Kill(w, p) = [w EXCEPT ![p].dead = TRUE]
    BY <1>3 DEF Kill
  <2>2. Kill(w, p) \in Lives(H)
    BY <1>1, <1>3, <2>1 DEF Lives
  <2>3. \A q \in Procs : Kill(w, p)[q].os = w[q].os /\ (Kill(w, p)[q].dead <=> (w[q].dead \/ q = p))
    BY <1>1, <1>3, <2>1 DEF Lives
  <2> QED BY <2>2, <2>3 DEF Shape
<1> QED BY <1>2, <1>3

LEMMA Spawns ==
  ASSUME NEW w, Shape(w), NEW p \in Procs
  PROVE  /\ Shape(Spawned(w, p))
         /\ \A q \in Procs : /\ Spawned(w, p)[q].os = IF q = p THEN "up" ELSE w[q].os
                             /\ Spawned(w, p)[q].dead = w[q].dead
<1>1. PICK H : w \in Lives(H)
  BY DEF Shape
<1>2. Spawned(w, p) \in Lives(H)
  BY <1>1 DEF Lives, Spawned
<1>3. \A q \in Procs : /\ Spawned(w, p)[q].os = IF q = p THEN "up" ELSE w[q].os
                       /\ Spawned(w, p)[q].dead = w[q].dead
  BY <1>1 DEF Lives, Spawned
<1> QED BY <1>2, <1>3 DEF Shape

\* Subscribing and unsubscribing leave everything else of a process alone.
SameLife(w, v) == \A q \in Procs : v[q].os = w[q].os /\ v[q].dead = w[q].dead

LEMMA NewHandlers ==
  ASSUME NEW w, Shape(w), NEW p, NEW x
  PROVE  Shape([w EXCEPT ![p].handlers = x]) /\ SameLife(w, [w EXCEPT ![p].handlers = x])
<1>1. PICK H : w \in Lives(H)
  BY DEF Shape
<1>2. w \in Lives(H \cup {x})
  BY <1>1 DEF Lives
<1>3. [w EXCEPT ![p].handlers = x] \in Lives(H \cup {x})
  BY <1>2 DEF Lives
<1>4. SameLife(w, [w EXCEPT ![p].handlers = x])
  BY <1>2 DEF Lives, SameLife
<1> QED BY <1>3, <1>4 DEF Shape

LEMMA Subscribes ==
  ASSUME NEW w, Shape(w), NEW p, NEW c, NEW hs
  PROVE  /\ Shape(TurnWorker(w, p, c)) /\ SameLife(w, TurnWorker(w, p, c))
         /\ Shape(Unsubscribed(w, p, hs)) /\ SameLife(w, Unsubscribed(w, p, hs))
<1>1. \A x : Shape([w EXCEPT ![p].handlers = x]) /\ SameLife(w, [w EXCEPT ![p].handlers = x])
  BY NewHandlers
<1>2. Shape(TurnWorker(w, p, c)) /\ SameLife(w, TurnWorker(w, p, c))
  BY <1>1 DEF TurnWorker
<1>3. Shape(Unsubscribed(w, p, hs)) /\ SameLife(w, Unsubscribed(w, p, hs))
  BY <1>1 DEF Unsubscribed
<1> QED BY <1>2, <1>3

LEMMA NoOpTyped ==
  /\ NoOp \in Operations
  /\ \A p \in Procs, b \in BOOLEAN : [NoOp EXCEPT !.on = p, !.forsaken = b] \in Operations
BY DEF NoOp, Operations

\* What changes of the others' operations is nothing the invariant reads.
Keeps(u, o, c) ==
  /\ u \in [Calls -> Operations]
  /\ \A d \in Calls \ {c} : /\ u[d].rpc = o[d].rpc /\ u[d].on = o[d].on /\ u[d].promise = o[d].promise
                            /\ u[d].heard = o[d].heard /\ u[d].timer = o[d].timer

\* Operations o have become u, and c's is as described.
Becomes(u, o, c, m, p, promise, heard, timer) ==
  /\ Keeps(u, o, c)
  /\ u[c].rpc = m /\ u[c].on = p /\ u[c].promise = promise /\ u[c].heard = heard /\ u[c].timer = timer

LEMMA Puts ==
  ASSUME NEW o \in [Calls -> Operations], NEW c \in Calls, NEW r \in Operations
  PROVE  Becomes([o EXCEPT ![c] = r], o, c, r.rpc, r.on, r.promise, r.heard, r.timer)
BY DEF Becomes, Keeps

LEMMA Asked ==
  ASSUME NEW w, NEW o \in [Calls -> Operations], NEW c \in Calls, NEW m \in {"initialize", "thread/start", "turn/start"}
  PROVE  Becomes(Ask(w, o, c, m), o, c, m, o[c].on, o[c].promise, o[c].heard, o[c].timer)
<1> DEFINE b == w[o[c].on].os = "up"
           r == [o[c] EXCEPT !.rpc = m, !.reply = "none", !.asked = b]
<1>1. b \in BOOLEAN
  OBVIOUS
<1> HIDE DEF b
<1>2. r \in Operations /\ r.rpc = m /\ r.on = o[c].on /\ r.promise = o[c].promise /\ r.heard = o[c].heard /\ r.timer = o[c].timer
  <2>1. o[c] \in Operations
    OBVIOUS
  <2> QED BY <1>1, <2>1 DEF Operations
<1>3. Ask(w, o, c, m) = [o EXCEPT ![c] = r]
  BY DEF Ask, b
<1> HIDE DEF r
<1> QED BY <1>2, <1>3 DEF Becomes, Keeps

Rejected(o, c) == [Over(o, c) EXCEPT ![c].promise = "rejected"]

LEMMA Overs ==
  ASSUME NEW o \in [Calls -> Operations], NEW c \in Calls
  PROVE  /\ Becomes(Over(o, c), o, c, "none", o[c].on, "none", FALSE, o[c].timer)
         /\ Becomes(Rejected(o, c), o, c, "none", o[c].on, "rejected", FALSE, o[c].timer)
<1> DEFINE r == [o[c] EXCEPT !.rpc = "none", !.asked = FALSE, !.reply = "none", !.promise = "none", !.heard = FALSE, !.text = {}]
           t == [r EXCEPT !.promise = "rejected"]
<1>1. o[c] \in Operations
  OBVIOUS
<1>2. r \in Operations /\ r.rpc = "none" /\ r.on = o[c].on /\ r.promise = "none" /\ r.heard = FALSE /\ r.timer = o[c].timer
  BY <1>1 DEF Operations
<1>3. Over(o, c) = [o EXCEPT ![c] = r]
  BY DEF Over
<1> HIDE DEF r
<1>4. t \in Operations /\ t.rpc = "none" /\ t.on = o[c].on /\ t.promise = "rejected" /\ t.heard = FALSE /\ t.timer = o[c].timer
  BY <1>2 DEF Operations
<1>5. Rejected(o, c) = [o EXCEPT ![c] = t]
  BY <1>3 DEF Rejected
<1> HIDE DEF t
<1>6. Becomes(Over(o, c), o, c, "none", o[c].on, "none", FALSE, o[c].timer)
  BY <1>2, <1>3 DEF Becomes, Keeps
<1>7. Becomes(Rejected(o, c), o, c, "none", o[c].on, "rejected", FALSE, o[c].timer)
  BY <1>4, <1>5 DEF Becomes, Keeps
<1> QED BY <1>6, <1>7

LEMMA Takes ==
  ASSUME op \in [Calls -> Operations], NEW c \in Calls
  PROVE  Becomes(Taken(c), op, c, "none", op[c].on, op[c].promise, op[c].heard, op[c].timer)
<1> DEFINE r == [op[c] EXCEPT !.rpc = "none", !.asked = FALSE, !.reply = "none"]
<1>1. op[c] \in Operations
  OBVIOUS
<1>2. r \in Operations /\ r.rpc = "none" /\ r.on = op[c].on /\ r.promise = op[c].promise /\ r.heard = op[c].heard /\ r.timer = op[c].timer
  BY <1>1 DEF Operations
<1>3. Taken(c) = [op EXCEPT ![c] = r]
  BY DEF Taken
<1> HIDE DEF r
<1> QED BY <1>2, <1>3 DEF Becomes, Keeps

LEMMA Places ==
  ASSUME NEW o \in [Calls -> Operations], NEW c \in Calls, NEW p \in Procs
  PROVE  Becomes(PutOn(o, c, p), o, c, "none", p, "none", FALSE, FALSE)
<1> DEFINE r == [NoOp EXCEPT !.on = p, !.forsaken = o[c].forsaken]
<1> o[c].forsaken \in BOOLEAN
  BY DEF Operations
<1>1. r \in Operations /\ r.rpc = "none" /\ r.on = p /\ r.promise = "none" /\ r.heard = FALSE /\ r.timer = FALSE
  BY DEF NoOp, Operations
<1>2. PutOn(o, c, p) = [o EXCEPT ![c] = r]
  BY DEF PutOn
<1> HIDE DEF r
<1> QED BY <1>1, <1>2 DEF Becomes, Keeps

LEMMA Catches ==
  ASSUME NEW o \in [Calls -> Operations], NEW c \in Calls
  PROVE  Becomes(CatchOp(o, c), o, c, o[c].rpc, o[c].on, o[c].promise, o[c].heard, FALSE)
<1> DEFINE b == o[c].forsaken \/ o[c].promise = "rejected"
           r == [o[c] EXCEPT !.timer = FALSE, !.temp = FALSE, !.forsaken = b]
<1>1. o[c] \in Operations /\ b \in BOOLEAN
  BY DEF Operations
<1> HIDE DEF b
<1>2. r \in Operations /\ r.rpc = o[c].rpc /\ r.on = o[c].on /\ r.promise = o[c].promise /\ r.heard = o[c].heard /\ r.timer = FALSE
  BY <1>1 DEF Operations
<1>3. CatchOp(o, c) = [o EXCEPT ![c] = r]
  BY DEF CatchOp, b
<1> HIDE DEF r
<1> QED BY <1>2, <1>3 DEF Becomes, Keeps

\* The turn of c begins: it may make others' shared, and nothing else of theirs.
LEMMA TurnBegun ==
  ASSUME NEW w, NEW o \in [Calls -> Operations], NEW c \in Calls, NEW t \in Calls \cup {"sticky"}
  PROVE  Becomes(TurnOp(w, o, c, t), o, c, "turn/start", o[c].on, "pending", FALSE, TRUE)
<1> DEFINE with == Companions(w, o, o[c].on, t)
           a == Ask(w, o, c, "turn/start")[c]
           remote == IF w[o[c].on].os = "up" THEN "running" ELSE "none"
           shared == with # {}
           r == [a EXCEPT !.thread = t, !.promise = "pending", !.heard = FALSE, !.timer = TRUE,
                          !.remote = remote, !.temp = TRUE, !.text = {}, !.shared = shared]
<1>1. a \in Operations /\ a.rpc = "turn/start" /\ a.on = o[c].on
  <2>1. "turn/start" \in {"initialize", "thread/start", "turn/start"}
    OBVIOUS
  <2>2. Becomes(Ask(w, o, c, "turn/start"), o, c, "turn/start", o[c].on, o[c].promise, o[c].heard, o[c].timer)
    BY <2>1, Asked
  <2> QED BY <2>2 DEF Becomes, Keeps
<1>2. TurnOp(w, o, c, t) = [h \in Calls |-> IF h = c THEN r ELSE [o[h] EXCEPT !.shared = @ \/ h \in with]]
  BY DEF TurnOp
<1>3. r \in Operations /\ r.rpc = "turn/start" /\ r.on = o[c].on /\ r.promise = "pending" /\ r.heard = FALSE /\ r.timer = TRUE
  <2>1. remote \in {"none", "running", "over"} /\ shared \in BOOLEAN /\ {} \in SUBSET Calls
    OBVIOUS
  <2> HIDE DEF a, with, remote, shared
  <2>2. r \in Operations
    BY <1>1, <2>1 DEF Operations
  <2>3. r.rpc = a.rpc /\ r.on = a.on /\ r.promise = "pending" /\ r.heard = FALSE /\ r.timer = TRUE
    BY <1>1 DEF Operations
  <2> QED BY <1>1, <2>2, <2>3
<1> HIDE DEF a, with, remote, shared
<1> HIDE DEF r
<1>4. ASSUME NEW d \in Calls
      PROVE  LET q == [o[d] EXCEPT !.shared = @ \/ d \in with]
             IN  /\ q \in Operations /\ q.rpc = o[d].rpc /\ q.on = o[d].on /\ q.promise = o[d].promise
                 /\ q.heard = o[d].heard /\ q.timer = o[d].timer
  <2>1. o[d] \in Operations
    OBVIOUS
  <2>2. \A b \in BOOLEAN : LET q == [o[d] EXCEPT !.shared = b]
                           IN  /\ q \in Operations /\ q.rpc = o[d].rpc /\ q.on = o[d].on /\ q.promise = o[d].promise
                               /\ q.heard = o[d].heard /\ q.timer = o[d].timer
    BY <2>1 DEF Operations
  <2>3. (o[d].shared \/ d \in with) \in BOOLEAN
    OBVIOUS
  <2> QED BY <2>2, <2>3
<1> DEFINE u == TurnOp(w, o, c, t)
<1>5. \A d \in Calls : /\ u[d] \in Operations
                       /\ d # c => /\ u[d].rpc = o[d].rpc /\ u[d].on = o[d].on /\ u[d].promise = o[d].promise
                                   /\ u[d].heard = o[d].heard /\ u[d].timer = o[d].timer
  BY <1>2, <1>3, <1>4
<1>6. u[c] = r
  BY <1>2
<1>7. u = [d \in Calls |-> u[d]]
  BY <1>2
<1> HIDE DEF u
<1>8. u \in [Calls -> Operations]
  BY <1>5, <1>7
<1>9. Keeps(u, o, c)
  BY <1>5, <1>8 DEF Keeps
<1>10. Becomes(u, o, c, "turn/start", o[c].on, "pending", FALSE, TRUE)
  BY <1>3, <1>6, <1>9 DEF Becomes
<1> QED BY <1>10 DEF u

-----------------------------------------------------------------------------
(***************************************************************************)
(* A step of call c: what it keeps of the others, from processes w and     *)
(* operations o.                                                           *)
(***************************************************************************)
Others(c, w, o) ==
  /\ Typed(w, o, call, idle)
  /\ \A d \in Calls \ {c} : Promised(o, call, d) /\ Place(w, o, call, d)

OwnedElse(p, c, o) ==
  \/ p \in idle
  \/ p = 1 /\ \E d \in Calls : call[d].kind = "sticky"
  \/ \E d \in Calls \ {c} : o[d].on = p /\ call[d].pc \in {"starting", "turning"}

\* Every process that runs has an owner other than c, or is process q.
Beside(c, w, o, q) ==
  /\ Others(c, w, o)
  /\ \A p \in Procs : w[p].os = "up" /\ ~w[p].dead => OwnedElse(p, c, o) \/ p = q

\* Process 0 is none.
Alone(c, w, o) == Beside(c, w, o, 0)

\* Each process that runs has an owner when c has become r.
LeavesNone(c, w, o, r) ==
  \A p \in Procs : w[p].os = "up" /\ ~w[p].dead =>
    \/ p \in idle' \/ (OwnedElse(p, c, o) /\ p \notin idle)
    \/ p = 1 /\ \E d \in Calls : call[d].kind = "sticky"
    \/ p = op'[c].on /\ r.pc \in {"starting", "turning"}

\* What the invariant says of the call itself is kept if it holds of the others already.
LEMMA Replaced ==
  ASSUME NEW c \in Calls, NEW w, NEW o, Others(c, w, o),
         NEW r \in CallStates, call' = [call EXCEPT ![c] = r], r.kind = "sticky" <=> call[c].kind = "sticky",
         worker' = w, Keeps(op', o, c), idle' \subseteq Procs,
         LeavesNone(c, w, o, r),
         Promised(op', call', c), Place(w, op', call', c)
  PROVE  Good(worker', op', call', idle')
<1>1. /\ call \in [Calls -> CallStates] /\ call'[c] = r /\ \A d \in Calls \ {c} : call'[d] = call[d]
      /\ call' \in [Calls -> CallStates]
  BY DEF Others, Typed
<1>2. Typed(worker', op', call', idle')
  BY <1>1 DEF Others, Typed, Keeps
<1>3. Owned(worker', op', call', idle')
  <2>1. ASSUME NEW p \in Procs, w[p].os = "up", ~w[p].dead
        PROVE  OwnedBy(p, op', call', idle')
    <3>1. CASE p \in idle'
      BY <3>1 DEF OwnedBy
    <3>2. CASE p = 1 /\ \E d \in Calls : call[d].kind = "sticky"
      <4>1. \E d \in Calls : call'[d].kind = "sticky"
        BY <1>1, <3>2
      <4> QED BY <3>2, <4>1 DEF OwnedBy
    <3>3. CASE \E d \in Calls \ {c} : o[d].on = p /\ call[d].pc \in {"starting", "turning"}
      BY <1>1, <3>3 DEF OwnedBy, Keeps
    <3>4. CASE p = op'[c].on /\ r.pc \in {"starting", "turning"}
      BY <1>1, <3>4 DEF OwnedBy
    <3> QED BY <2>1, <3>1, <3>2, <3>3, <3>4 DEF LeavesNone, OwnedElse
  <2> QED BY <2>1 DEF Owned
<1>4. \A d \in Calls \ {c} : Promised(op', call', d) /\ Place(worker', op', call', d)
  BY <1>1 DEF Others, Promised, Place, Keeps
<1> QED BY <1>2, <1>3, <1>4 DEF Good

\* Killing a process leaves it nobody's.
LEMMA Abandons ==
  ASSUME NEW c \in Calls, NEW w, NEW o, NEW q \in {0} \cup Procs, Beside(c, w, o, q)
  PROVE  Alone(c, Kill(w, q), o)
<1>1. Shape(w) /\ Typed(w, o, call, idle)
  BY DEF Beside, Others, Typed
<1> DEFINE v == Kill(w, q)
<1>2. Shape(v) /\ \A p \in Procs : v[p].os = w[p].os /\ (v[p].dead <=> (w[p].dead \/ p = q))
  BY <1>1, Killed
<1> HIDE DEF v
<1>3. Others(c, v, o)
  <2>1. Typed(v, o, call, idle)
    BY <1>1, <1>2 DEF Typed
  <2>2. ASSUME NEW d \in Calls \ {c} PROVE Place(v, o, call, d)
    BY <1>2 DEF Beside, Others, Place
  <2> QED BY <2>1, <2>2 DEF Beside, Others
<1>4. \A p \in Procs : v[p].os = "up" /\ ~v[p].dead => OwnedElse(p, c, o) \/ p = 0
  BY <1>2 DEF Beside
<1> QED BY <1>3, <1>4 DEF Alone, Beside, v

\* Subscribing changes nothing of it.
LEMMA LifeIsAll ==
  ASSUME NEW c \in Calls, NEW w, NEW o, NEW q, Beside(c, w, o, q), NEW v, Shape(v), SameLife(w, v)
  PROVE  Beside(c, v, o, q)
<1>1. \A p \in Procs : v[p].os = w[p].os /\ v[p].dead = w[p].dead
  BY DEF SameLife
<1>2. Typed(v, o, call, idle)
  BY DEF Beside, Others, Typed
<1>3. ASSUME NEW d \in Calls \ {c} PROVE Place(v, o, call, d)
  BY <1>1 DEF Beside, Others, Place
<1> QED BY <1>1, <1>2, <1>3 DEF Beside, Others

\* From a state in which the invariant holds.
LEMMA FromGood ==
  ASSUME Good(worker, op, call, idle), NEW c \in Calls
  PROVE  /\ Beside(c, worker, op, op[c].on) /\ Promised(op, call, c) /\ Place(worker, op, call, c)
         /\ op[c].on \in {0} \cup Procs /\ Shape(worker)
         /\ op \in [Calls -> Operations] /\ call[c] \in CallStates /\ idle \subseteq Procs
         /\ call[c].pc \notin {"starting", "turning"} => Alone(c, worker, op)
<1>1. Typed(worker, op, call, idle) /\ Owned(worker, op, call, idle)
  BY DEF Good
<1>2. op[c] \in Operations
  BY <1>1 DEF Typed
<1>3. Others(c, worker, op)
  BY DEF Good, Others
<1>4. Beside(c, worker, op, op[c].on)
  BY <1>1, <1>3 DEF Owned, OwnedBy, Beside, OwnedElse
<1>5. call[c].pc \notin {"starting", "turning"} => Alone(c, worker, op)
  BY <1>1, <1>3 DEF Owned, OwnedBy, Alone, Beside, OwnedElse
<1>6. op[c].on \in {0} \cup Procs
  BY <1>2 DEF Operations
<1> QED BY <1>1, <1>4, <1>5, <1>6 DEF Good, Typed

\* What the others keep, they keep when only c's operation changes.
LEMMA OnlyHis ==
  ASSUME NEW c \in Calls, NEW w, NEW o, NEW u, Keeps(u, o, c), NEW q, Beside(c, w, o, q)
  PROVE  Beside(c, w, u, q)
<1>1. Others(c, w, u)
  BY DEF Beside, Others, Typed, Promised, Place, Keeps
<1>2. \A p : OwnedElse(p, c, o) => OwnedElse(p, c, u)
  BY DEF OwnedElse, Keeps
<1> QED BY <1>1, <1>2 DEF Beside

LEMMA AloneIsBeside ==
  ASSUME NEW c, NEW w, NEW o, NEW q, Alone(c, w, o) PROVE Beside(c, w, o, q)
BY OneProcess DEF Alone, Beside

-----------------------------------------------------------------------------
(***************************************************************************)
(* The ways an operation and a call begin and end.                         *)
(***************************************************************************)
LEMMA FreshIsUnused == Unused # {} => Fresh \in Procs /\ worker[Fresh].os = "none"
BY DEF Fresh, Unused

LEMMA Launches ==
  ASSUME NEW c \in Calls, NEW w, NEW o, Alone(c, w, o), Launch(c, w, o), idle' = idle,
         NEW r \in CallStates, call' = [call EXCEPT ![c] = r], r.pc = "starting",
         r.kind \notin {"sticky", "absent"}, call[c].kind # "sticky"
  PROVE  Good(worker', op', call', idle')
<1> DEFINE p == Fresh
           v == Spawned(w, p)
           n == PutOn(o, c, p)
<1>1. p \in Procs /\ worker' = v /\ op' = Ask(v, n, c, "initialize")
  BY FreshIsUnused DEF Launch
<1>2. Typed(w, o, call, idle) /\ Shape(w) /\ o \in [Calls -> Operations]
  BY DEF Alone, Beside, Others, Typed
<1>3. Shape(v) /\ \A q \in Procs : v[q].os = (IF q = p THEN "up" ELSE w[q].os) /\ v[q].dead = w[q].dead
  BY <1>1, <1>2, Spawns
<1>4. Becomes(n, o, c, "none", p, "none", FALSE, FALSE) /\ n \in [Calls -> Operations]
  <2>1. Becomes(n, o, c, "none", p, "none", FALSE, FALSE)
    BY <1>1, <1>2, Places
  <2> QED BY <2>1 DEF Becomes, Keeps
<1> HIDE DEF n, v, p
<1>5. Becomes(op', n, c, "initialize", n[c].on, n[c].promise, n[c].heard, n[c].timer)
  BY <1>1, <1>4, Asked
<1>6. Becomes(op', o, c, "initialize", p, "none", FALSE, FALSE)
  BY <1>4, <1>5 DEF Becomes, Keeps
<1>7. Others(c, v, o)
  BY <1>2, <1>3 DEF Alone, Beside, Others, Typed, Place
<1>8. call'[c] = r
  BY <1>2 DEF Typed
<1>9. Promised(op', call', c) /\ Place(v, op', call', c)
  BY <1>1, <1>6, <1>8 DEF Promised, Place, Becomes
<1>10. idle' \subseteq Procs
  BY <1>2 DEF Typed
<1>11. \A q \in Procs : v[q].os = "up" /\ ~v[q].dead => OwnedElse(q, c, o) \/ q = op'[c].on
  BY <1>3, <1>6, OneProcess DEF Alone, Beside, Becomes
<1>12. LeavesNone(c, v, o, r)
  BY <1>11 DEF LeavesNone
<1>13. Keeps(op', o, c) /\ worker' = v /\ (r.kind = "sticky" <=> call[c].kind = "sticky")
  BY <1>1, <1>6 DEF Becomes
<1> QED BY <1>7, <1>9, <1>10, <1>12, <1>13, Replaced

LEMMA EndsCall ==
  ASSUME NEW c \in Calls, NEW w, NEW o, Alone(c, w, o), ~o[c].timer, worker' = w, idle' = idle,
         NEW r \in CallStates, call' = [call EXCEPT ![c] = r], r.pc = "ended", r.kind = call[c].kind,
         op' = Over(o, c) \/ (r.abandoned /\ op' = Rejected(o, c))
  PROVE  Good(worker', op', call', idle')
<1>1. Typed(w, o, call, idle) /\ o \in [Calls -> Operations] /\ Others(c, w, o)
  BY DEF Alone, Beside, Others, Typed
<1>2. /\ Becomes(Over(o, c), o, c, "none", o[c].on, "none", FALSE, o[c].timer)
      /\ Becomes(Rejected(o, c), o, c, "none", o[c].on, "rejected", FALSE, o[c].timer)
  BY <1>1, Overs
<1>3. /\ Keeps(op', o, c) /\ op'[c].rpc = "none" /\ op'[c].heard = FALSE /\ op'[c].timer = o[c].timer
      /\ op'[c].promise = "none" \/ (op'[c].promise = "rejected" /\ r.abandoned)
  BY <1>2 DEF Becomes
<1>4. call'[c] = r /\ idle' \subseteq Procs
  BY <1>1 DEF Typed
<1>5. Promised(op', call', c)
  BY <1>3, <1>4 DEF Promised
<1>6. Place(w, op', call', c)
  BY <1>3, <1>4 DEF Place
<1>7. LeavesNone(c, w, o, r)
  BY OneProcess DEF Alone, Beside, LeavesNone
<1> QED BY <1>1, <1>3, <1>4, <1>5, <1>6, <1>7, Replaced

LEMMA FailsGood ==
  ASSUME NEW c \in Calls, NEW w, NEW o, Alone(c, Discarded(c, w), o), ~o[c].timer, Fails(c, w, o)
  PROVE  Good(worker', op', call', idle')
<1> DEFINE v == Discarded(c, w)
           r == [call[c] EXCEPT !.kind = "oneshot", !.pc = "starting"]
           t == [call[c] EXCEPT !.pc = "ended", !.end = "error"]
<1>1. idle' = idle /\ call[c] \in CallStates
  BY DEF Fails, Alone, Beside, Others, Typed
<1>2. \/ call[c].kind = "collected" /\ Launch(c, v, o) /\ call' = [call EXCEPT ![c] = r]
      \/ worker' = v /\ op' = Over(o, c) /\ call' = [call EXCEPT ![c] = t]
  BY DEF Fails, Sets
<1>3. r \in CallStates /\ r.pc = "starting" /\ r.kind = "oneshot"
  BY <1>1 DEF CallStates, Kinds
<1>4. t \in CallStates /\ t.pc = "ended" /\ t.kind = call[c].kind
  BY <1>1 DEF CallStates
<1>5. Alone(c, v, o)
  OBVIOUS
<1> HIDE DEF r, t, v
<1>6. CASE call[c].kind = "collected" /\ Launch(c, v, o) /\ call' = [call EXCEPT ![c] = r]
  <2>1. r.kind \notin {"sticky", "absent"} /\ call[c].kind # "sticky"
    BY <1>3, <1>6
  <2> QED BY <1>1, <1>3, <1>5, <1>6, <2>1, Launches
<1>7. CASE worker' = v /\ op' = Over(o, c) /\ call' = [call EXCEPT ![c] = t]
  BY <1>1, <1>4, <1>5, <1>7, EndsCall
<1> QED BY <1>2, <1>6, <1>7

LEMMA RejectsGood ==
  ASSUME NEW c \in Calls, NEW w, NEW o, Alone(c, Discarded(c, w), o), ~o[c].timer, OpRejects(c, w, o)
  PROVE  Good(worker', op', call', idle')
<1>1. CASE call[c].pc = "turning" /\ Fails(c, w, o)
  BY <1>1, FailsGood
<1>2. CASE /\ call[c].pc = "ended"
           /\ worker' = Discarded(c, w)
           /\ op' = IF call[c].abandoned THEN Rejected(o, c) ELSE Over(o, c)
           /\ UNCHANGED <<call, idle>>
  <2> DEFINE v == Discarded(c, w)
  <2>1. call \in [Calls -> CallStates]
    BY DEF Alone, Beside, Others, Typed
  <2>2. worker' = v /\ idle' = idle /\ call' = [call EXCEPT ![c] = call[c]] /\ call[c] \in CallStates
    BY <1>2, <2>1
  <2>3. op' = Over(o, c) \/ (call[c].abandoned /\ op' = Rejected(o, c))
    BY <1>2
  <2>4. Alone(c, v, o)
    OBVIOUS
  <2> HIDE DEF v
  <2> QED BY <1>2, <2>2, <2>3, <2>4, EndsCall
<1> QED BY <1>1, <1>2 DEF OpRejects, Rejected

LEMMA WithAbortGood ==
  ASSUME NEW c \in Calls, NEW w, NEW o, NEW u, WithAbort(c, w, u), Keeps(u, o, c), Beside(c, w, o, u[c].on),
         call[c] \in CallStates, call[c].kind # "absent", call[c].kind = "sticky" => u[c].on = 1,
         u[c].on \in Procs, u[c].rpc \in {"none", "thread/start", "turn/start"}, u[c].heard = FALSE,
         u[c].timer => u[c].promise = "pending", u[c].promise = "pending" => u[c].rpc = "turn/start",
         u[c].promise = "rejected" => call[c].gone,
         idle' \subseteq Procs, idle \ {u[c].on} \subseteq idle'
  PROVE  Good(worker', op', call', idle')
<1> DEFINE t == [call[c] EXCEPT !.pc = "turning"]
           r == [call[c] EXCEPT !.pc = "ended", !.end = "closed", !.abandoned = TRUE]
           v == Kill(w, u[c].on)
<1>1. op' = u /\ Keeps(op', o, c)
  BY DEF WithAbort
<1>2. call \in [Calls -> CallStates] /\ Others(c, w, o)
  BY DEF Beside, Others, Typed
<1>3. /\ t \in CallStates /\ t.pc = "turning" /\ t.kind = call[c].kind /\ t.gone = call[c].gone
      /\ r \in CallStates /\ r.pc = "ended" /\ r.kind = call[c].kind /\ r.abandoned = TRUE
  BY DEF CallStates
<1>4. CASE call[c].gone
  <2>1. call' = [call EXCEPT ![c] = r] /\ worker' = v
    BY <1>4 DEF WithAbort, Sets
  <2>2. call'[c] = r
    BY <1>2, <2>1
  <2>3. Alone(c, v, o)
    BY Abandons
  <2>4. v[u[c].on].dead
    <3>1. Shape(w)
      BY <1>2 DEF Others, Typed
    <3> QED BY <3>1, Killed
  <2> HIDE DEF r, v
  <2>5. Others(c, v, o) /\ LeavesNone(c, v, o, r)
    <3>1. \A q \in Procs : v[q].os = "up" /\ ~v[q].dead => q # u[c].on /\ OwnedElse(q, c, o)
      BY <2>3, <2>4, OneProcess DEF Alone, Beside
    <3> QED BY <2>3, <3>1 DEF Alone, Beside, LeavesNone
  <2>6. Promised(op', call', c)
    BY <1>1, <1>3, <2>2 DEF Promised
  <2>7. Place(v, op', call', c)
    BY <1>1, <1>3, <2>2, <2>4 DEF Place
  <2>8. r.kind = "sticky" <=> call[c].kind = "sticky"
    BY <1>3
  <2> QED BY <1>1, <1>3, <2>1, <2>5, <2>6, <2>7, <2>8, Replaced
<1>5. CASE ~call[c].gone
  <2>1. call' = [call EXCEPT ![c] = t] /\ worker' = w
    BY <1>5 DEF WithAbort, Sets
  <2>2. call'[c] = t
    BY <1>2, <2>1
  <2> HIDE DEF t
  <2>3. LeavesNone(c, w, o, t)
    BY <1>1, <1>3 DEF Beside, LeavesNone
  <2>4. Promised(op', call', c)
    <3>1. u[c].promise # "rejected"
      BY <1>5
    <3> QED BY <1>1, <3>1 DEF Promised
  <2>5. Place(w, op', call', c)
    BY <1>1, <1>3, <1>5, <2>2 DEF Place
  <2>6. t.kind = "sticky" <=> call[c].kind = "sticky"
    BY <1>3
  <2> QED BY <1>1, <1>2, <1>3, <2>1, <2>3, <2>4, <2>5, <2>6, Replaced
<1> QED BY <1>4, <1>5

-----------------------------------------------------------------------------
(***************************************************************************)
(* Every action keeps the invariant.                                       *)
(***************************************************************************)
\* The call of a request has no timer, unless the request is turn/start.
LEMMA NoTimer ==
  ASSUME NEW c \in Calls, Promised(op, call, c), op[c].rpc \notin {"none", "turn/start"}
  PROVE  /\ ~op[c].timer /\ op[c].heard = op[c].heard /\ ~op[c].heard
         /\ op[c].promise # "pending" /\ (op[c].promise = "rejected" => call[c].abandoned)
BY DEF Promised

\* The worker of a call may be killed again.
LEMMA DiscardsAgain ==
  ASSUME NEW c \in Calls, NEW w, NEW o, Alone(c, w, o), op[c].on \in {0} \cup Procs
  PROVE  Alone(c, Discarded(c, w), o)
BY AloneIsBeside, Abandons DEF Discarded, On

\* A call whose request is taken: its process may be killed.
LEMMA TakenAlone ==
  ASSUME Good(worker, op, call, idle), NEW c \in Calls
  PROVE  Alone(c, Discarded(c, worker), Taken(c))
<1>1. Beside(c, worker, op, op[c].on) /\ op[c].on \in {0} \cup Procs /\ op \in [Calls -> Operations]
  BY FromGood
<1>2. Keeps(Taken(c), op, c)
  BY <1>1, Takes DEF Becomes
<1>3. Beside(c, worker, Taken(c), op[c].on)
  BY <1>1, <1>2, OnlyHis
<1> QED BY <1>1, <1>3, Abandons DEF Discarded, On

LEMMA StartFailsGood ==
  ASSUME Good(worker, op, call, idle), NEW c \in Calls, StartFails(c)
  PROVE  Good(worker', op', call', idle')
<1>1. op[c].rpc = "initialize" /\ Fails(c, worker, Taken(c))
  BY DEF StartFails, Resumes
<1>2. ~Taken(c)[c].timer
  <2>1. op \in [Calls -> Operations] /\ Promised(op, call, c)
    BY FromGood
  <2> QED BY <1>1, <2>1, NoTimer, Takes DEF Becomes
<1> QED BY <1>1, <1>2, TakenAlone, FailsGood

LEMMA ThreadFailsGood ==
  ASSUME Good(worker, op, call, idle), NEW c \in Calls,
         op[c].rpc = "thread/start", OpRejects(c, worker, Taken(c))
  PROVE  Good(worker', op', call', idle')
<1>1. ~Taken(c)[c].timer
  <2>1. op \in [Calls -> Operations] /\ Promised(op, call, c)
    BY FromGood
  <2> QED BY <2>1, NoTimer, Takes DEF Becomes
<1> QED BY <1>1, TakenAlone, RejectsGood

LEMMA StartedGood ==
  ASSUME Good(worker, op, call, idle), NEW c \in Calls, Started(c)
  PROVE  Good(worker', op', call', idle') /\ down' \in {"no", "pipe"}
<1> DEFINE o == Taken(c)
           p == op[c].on
<1>1. /\ op \in [Calls -> Operations] /\ Promised(op, call, c) /\ Place(worker, op, call, c)
      /\ call[c] \in CallStates /\ Beside(c, worker, op, p) /\ idle \subseteq Procs
  BY FromGood
<1>2. op[c].rpc = "initialize" /\ Operate(c, o) /\ down = "no"
  BY DEF Started, Resumes, Microtasks
<1>3. ~op[c].timer /\ op[c].heard = FALSE /\ op[c].promise = "none"
  <2>1. op[c].heard \in BOOLEAN
    BY <1>1 DEF Operations
  <2> QED BY <1>1, <1>2, <2>1 DEF Promised
<1>4. p \in Procs /\ call[c].kind \notin {"sticky", "absent"}
  BY <1>1, <1>2 DEF Place
<1>5. Becomes(o, op, c, "none", p, op[c].promise, op[c].heard, op[c].timer)
  BY <1>1, Takes
<1>6. o \in [Calls -> Operations] /\ o[c].on = p /\ o[c].heard = FALSE /\ ~o[c].timer /\ o[c].promise = "none"
  BY <1>3, <1>5 DEF Becomes, Keeps
<1>7. Alone(c, Discarded(c, worker), o)
  BY TakenAlone
<1> HIDE DEF o, p
<1>8. CASE worker[p].dead /\ ~call[c].gone
  <2>1. Fails(c, worker, o) /\ down' = down
    BY <1>2, <1>6, <1>8 DEF Operate
  <2> QED BY <1>2, <1>6, <1>7, <2>1, FailsGood
<1>9. CASE worker[p].dead /\ call[c].gone
  <2> DEFINE u == Rejected(o, c)
  <2>1. WithAbort(c, worker, u) /\ down' = down /\ idle' = idle
    BY <1>2, <1>6, <1>9 DEF Operate, Rejected
  <2>2. Becomes(u, o, c, "none", p, "rejected", FALSE, o[c].timer)
    BY <1>6, Overs
  <2>3. Becomes(u, op, c, "none", p, "rejected", FALSE, o[c].timer)
    BY <1>5, <2>2 DEF Becomes, Keeps
  <2> HIDE DEF u
  <2>4. u[c].on = p /\ u[c].rpc = "none" /\ u[c].heard = FALSE /\ ~u[c].timer /\ u[c].promise = "rejected" /\ Keeps(u, op, c)
    BY <1>6, <2>3 DEF Becomes
  <2>5. Beside(c, worker, op, u[c].on) /\ idle' \subseteq Procs /\ idle \ {u[c].on} \subseteq idle'
    BY <1>1, <2>1, <2>4
  <2>6. Good(worker', op', call', idle')
    BY <1>1, <1>4, <1>9, <2>1, <2>4, <2>5, WithAbortGood
  <2> QED BY <1>2, <2>1, <2>6
<1>10. CASE ~worker[p].dead
  <2> DEFINE u == Ask(worker, o, c, "thread/start")
  <2>1. WithAbort(c, worker, u) /\ down' \in {"no", "pipe"} /\ idle' = idle
    BY <1>2, <1>6, <1>10 DEF Operate, WriteTo
  <2>2. Becomes(u, o, c, "thread/start", p, "none", FALSE, o[c].timer)
    <3>1. "thread/start" \in {"initialize", "thread/start", "turn/start"}
      OBVIOUS
    <3>2. Becomes(u, o, c, "thread/start", o[c].on, o[c].promise, o[c].heard, o[c].timer)
      BY <1>6, <3>1, Asked
    <3> QED BY <1>6, <3>2
  <2>3. Becomes(u, op, c, "thread/start", p, "none", FALSE, o[c].timer)
    BY <1>5, <2>2 DEF Becomes, Keeps
  <2> HIDE DEF u
  <2>4. u[c].on = p /\ u[c].rpc = "thread/start" /\ u[c].heard = FALSE /\ ~u[c].timer /\ u[c].promise = "none" /\ Keeps(u, op, c)
    BY <1>6, <2>3 DEF Becomes
  <2>5. Beside(c, worker, op, u[c].on) /\ idle' \subseteq Procs /\ idle \ {u[c].on} \subseteq idle'
    BY <1>1, <2>1, <2>4
  <2>6. Good(worker', op', call', idle')
    BY <1>1, <1>4, <2>1, <2>4, <2>5, WithAbortGood
  <2> QED BY <2>1, <2>6
<1> QED BY <1>8, <1>9, <1>10

\* A sticky call begins its turn at once, on process 1.
LEMMA BeginStickyGood ==
  ASSUME Good(worker, op, call, idle), NEW c \in Calls, BeginSticky(c)
  PROVE  Good(worker', op', call', idle') /\ down' \in {"no", "pipe"}
<1> DEFINE o == PutOn(op, c, 1)
<1>1. /\ op \in [Calls -> Operations] /\ Place(worker, op, call, c) /\ Shape(worker)
      /\ call[c] \in CallStates /\ idle \subseteq Procs /\ op[c].on \in {0} \cup Procs
  BY FromGood
<1>2. call[c].pc = "new" /\ call[c].kind = "sticky" /\ down = "no" /\ ~call[c].gone
  BY <1>1 DEF BeginSticky, Sticky, Idle, Microtasks, Place
<1>3. Alone(c, worker, op)
  BY <1>2, FromGood
<1>4. Becomes(o, op, c, "none", 1, "none", FALSE, FALSE)
  BY <1>1, OneProcess, Places
<1>5. Alone(c, worker, o) /\ o \in [Calls -> Operations] /\ o[c].on = 1 /\ ~o[c].timer
  BY <1>3, <1>4, OnlyHis DEF Becomes, Keeps, Alone
<1>6. CASE worker[1].dead
  <2>1. Fails(c, worker, o) /\ down' = down
    BY <1>6 DEF BeginSticky
  <2>2. Alone(c, Discarded(c, worker), o)
    BY <1>1, <1>5, DiscardsAgain
  <2> QED BY <1>2, <1>5, <2>1, <2>2, FailsGood
<1>7. CASE ~worker[1].dead
  <2> DEFINE v == TurnWorker(worker, 1, c)
             u == TurnOp(worker, o, c, "sticky")
  <2>1. WithAbort(c, v, u) /\ down' \in {"no", "pipe"} /\ idle' = idle
    BY <1>7 DEF BeginSticky, WriteTo
  <2>2. Shape(v) /\ SameLife(worker, v)
    BY <1>1, Subscribes
  <2> HIDE DEF o
  <2>3. Becomes(u, o, c, "turn/start", 1, "pending", FALSE, TRUE)
    <3>1. "sticky" \in Calls \cup {"sticky"}
      OBVIOUS
    <3>2. Becomes(u, o, c, "turn/start", o[c].on, "pending", FALSE, TRUE)
      BY <1>5, <3>1, TurnBegun
    <3> QED BY <1>5, <3>2
  <2>4. Becomes(u, op, c, "turn/start", 1, "pending", FALSE, TRUE)
    BY <1>4, <2>3 DEF Becomes, Keeps
  <2> HIDE DEF u, v
  <2>5. u[c].on = 1 /\ u[c].rpc = "turn/start" /\ u[c].heard = FALSE /\ u[c].promise = "pending" /\ Keeps(u, op, c)
    BY <2>4 DEF Becomes
  <2>6. Beside(c, v, op, u[c].on)
    <3>1. Beside(c, worker, op, u[c].on)
      BY <1>3, AloneIsBeside
    <3> QED BY <2>2, <3>1, LifeIsAll
  <2>7. idle' \subseteq Procs /\ idle \ {u[c].on} \subseteq idle' /\ u[c].on \in Procs
    BY <1>1, <2>1, <2>5, OneProcess
  <2>8. Good(worker', op', call', idle')
    BY <1>1, <1>2, <2>1, <2>5, <2>6, <2>7, WithAbortGood
  <2> QED BY <2>1, <2>8
<1> QED BY <1>6, <1>7

LEMMA StartingGood ==
  ASSUME Good(worker, op, call, idle), NEW c \in Calls, Launch(c, worker, op),
         call[c].pc \in {"new", "acquiring"}, call[c].kind # "sticky",
         Sets(c, [call[c] EXCEPT !.pc = "starting"]), idle' = idle
  PROVE  Good(worker', op', call', idle')
<1> DEFINE r == [call[c] EXCEPT !.pc = "starting"]
<1>1. call[c] \in CallStates /\ Alone(c, worker, op) /\ Place(worker, op, call, c)
  BY FromGood
<1>2. r \in CallStates /\ r.pc = "starting" /\ r.kind = call[c].kind
  BY <1>1 DEF CallStates
<1>3. call[c].kind # "absent" /\ call' = [call EXCEPT ![c] = r]
  BY <1>1 DEF Place, Sets
<1> HIDE DEF r
<1>4. r.kind \notin {"sticky", "absent"}
  BY <1>2, <1>3
<1> QED BY <1>1, <1>2, <1>3, <1>4, Launches

LEMMA WarmGood ==
  ASSUME Good(worker, op, call, idle), NEW c \in Calls, NEW p \in WarmWorkers, Warm(c, p),
         call[c].pc \in {"new", "acquiring"}, call[c].kind # "sticky"
  PROVE  Good(worker', op', call', idle') /\ down' \in {"no", "pipe"}
<1> DEFINE o == PutOn(op, c, p)
           u == Ask(worker, o, c, "thread/start")
<1>1. /\ op \in [Calls -> Operations] /\ Place(worker, op, call, c)
      /\ call[c] \in CallStates /\ idle \subseteq Procs /\ Alone(c, worker, op)
  BY FromGood
<1>2. p \in Procs /\ call[c].kind # "absent"
  BY <1>1 DEF WarmWorkers, Place
<1>3. WithAbort(c, worker, u) /\ down' \in {"no", "pipe"} /\ idle' = idle \ {p}
  BY DEF Warm, WriteTo
<1>4. Becomes(o, op, c, "none", p, "none", FALSE, FALSE)
  BY <1>1, <1>2, Places
<1> HIDE DEF o
<1>5. o \in [Calls -> Operations] /\ o[c].on = p /\ o[c].promise = "none" /\ o[c].heard = FALSE /\ o[c].timer = FALSE
  BY <1>4 DEF Becomes, Keeps
<1>6. Becomes(u, o, c, "thread/start", o[c].on, o[c].promise, o[c].heard, o[c].timer)
  <2>1. "thread/start" \in {"initialize", "thread/start", "turn/start"}
    OBVIOUS
  <2> QED BY <1>5, <2>1, Asked
<1> HIDE DEF u
<1>7. Becomes(u, op, c, "thread/start", p, "none", FALSE, FALSE)
  BY <1>4, <1>5, <1>6 DEF Becomes, Keeps
<1>8. /\ u[c].on = p /\ u[c].rpc = "thread/start" /\ u[c].heard = FALSE /\ u[c].timer = FALSE
      /\ u[c].promise = "none" /\ Keeps(u, op, c)
  BY <1>7 DEF Becomes
<1>9. Beside(c, worker, op, u[c].on)
  BY <1>1, AloneIsBeside
<1>10. idle' \subseteq Procs /\ idle \ {u[c].on} \subseteq idle' /\ u[c].on \in Procs
  BY <1>1, <1>2, <1>3, <1>8
<1>11. Good(worker', op', call', idle')
  BY <1>1, <1>2, <1>3, <1>8, <1>9, <1>10, WithAbortGood
<1> QED BY <1>3, <1>11

LEMMA AcquireGood ==
  ASSUME Good(worker, op, call, idle), NEW c \in Calls, Acquire(c), down = "no",
         call[c].pc \in {"new", "acquiring"}, call[c].kind # "sticky"
  PROVE  Good(worker', op', call', idle') /\ down' \in {"no", "pipe"}
<1>1. CASE Cold(c)
  BY <1>1, StartingGood DEF Cold
<1>2. CASE \E p \in WarmWorkers : Warm(c, p)
  BY <1>2, WarmGood
<1> QED BY <1>1, <1>2 DEF Acquire

\* Only the record of c changes.
LEMMA RecordGood ==
  ASSUME Good(worker, op, call, idle), NEW c \in Calls, worker' = worker, op' = op, idle' = idle,
         NEW r \in CallStates, call' = [call EXCEPT ![c] = r], r.kind = call[c].kind,
         r.abandoned = call[c].abandoned,
         \/ r.pc = call[c].pc /\ r.gone /\ r.pc # "new" /\ op[c].rpc # "thread/start"
         \/ r.pc = "acquiring" /\ call[c].pc = "new" /\ call[c].kind # "sticky"
  PROVE  Good(worker', op', call', idle')
<1>1. /\ op \in [Calls -> Operations] /\ Place(worker, op, call, c) /\ Promised(op, call, c) /\ idle \subseteq Procs
      /\ Beside(c, worker, op, op[c].on) /\ (call[c].pc \notin {"starting", "turning"} => Alone(c, worker, op))
  BY FromGood
<1>2. Others(c, worker, op) /\ call'[c] = r
  BY <1>1 DEF Beside, Others, Typed
<1>3. Promised(op', call', c)
  BY <1>1, <1>2 DEF Promised
<1>4. Place(worker, op', call', c)
  BY <1>1, <1>2 DEF Place
<1>5. Keeps(op', op, c)
  BY <1>1 DEF Keeps
<1>6. LeavesNone(c, worker, op, r)
  BY <1>1, OneProcess DEF Alone, Beside, LeavesNone
<1>7. r.kind = "sticky" <=> call[c].kind = "sticky"
  OBVIOUS
<1>8. idle' \subseteq Procs
  BY <1>1
<1> QED BY <1>2, <1>3, <1>4, <1>5, <1>6, <1>7, <1>8, Replaced

LEMMA BeginGood ==
  ASSUME Good(worker, op, call, idle), NEW c \in Calls, Begin(c)
  PROVE  Good(worker', op', call', idle') /\ down' \in {"no", "pipe"}
<1>1. CASE BeginSticky(c)
  BY <1>1, BeginStickyGood
<1>2. CASE BeginOneshot(c)
  <2>1. down' = "no"
    BY <1>2 DEF BeginOneshot, Idle, Microtasks
  <2> QED BY <1>2, <2>1, StartingGood DEF BeginOneshot
<1>3. CASE BeginPool(c)
  BY <1>3, AcquireGood DEF BeginPool, Idle, Microtasks, Pooled
<1>4. CASE WaitForCapacity(c)
  <2> DEFINE r == [call[c] EXCEPT !.pc = "acquiring"]
  <2>1. call[c] \in CallStates
    BY FromGood
  <2>2. r \in CallStates /\ r.pc = "acquiring" /\ r.kind = call[c].kind /\ r.abandoned = call[c].abandoned
    BY <2>1 DEF CallStates
  <2>3. /\ call[c].pc = "new" /\ call[c].kind # "sticky" /\ down' = "no" /\ worker' = worker /\ op' = op
        /\ idle' = idle /\ call' = [call EXCEPT ![c] = r]
    BY <1>4 DEF WaitForCapacity, Idle, Microtasks, Sets, Pooled
  <2> HIDE DEF r
  <2> QED BY <2>2, <2>3, RecordGood
<1> QED BY <1>1, <1>2, <1>3, <1>4 DEF Begin

LEMMA ThreadStartedGood ==
  ASSUME Good(worker, op, call, idle), NEW c \in Calls, ThreadStarted(c)
  PROVE  Good(worker', op', call', idle') /\ down' \in {"no", "pipe"}
<1>1. /\ op \in [Calls -> Operations] /\ Place(worker, op, call, c) /\ Shape(worker) /\ idle \subseteq Procs
      /\ call[c] \in CallStates /\ Beside(c, worker, op, op[c].on)
      /\ call[c].pc \notin {"starting", "turning"} => Alone(c, worker, op)
  BY FromGood
<1>2. op[c].rpc = "thread/start" /\ down = "no"
  BY DEF ThreadStarted, Resumes, Microtasks
<1>3. CASE worker[On(c)].dead
  <2>1. OpRejects(c, worker, Taken(c)) /\ down' = "no"
    BY <1>2, <1>3 DEF ThreadStarted
  <2> QED BY <1>2, <2>1, ThreadFailsGood
<1>4. CASE ~worker[On(c)].dead
  <2> DEFINE v == TurnWorker(worker, op[c].on, c)
             u == TurnOp(worker, op, c, c)
  <2>1. worker' = v /\ op' = u /\ down' \in {"no", "pipe"} /\ call' = call /\ idle' = idle
    BY <1>4 DEF ThreadStarted, On, WriteTo
  <2>2. Shape(v) /\ SameLife(worker, v)
    BY <1>1, Subscribes
  <2>3. Becomes(u, op, c, "turn/start", op[c].on, "pending", FALSE, TRUE)
    <3>1. c \in Calls \cup {"sticky"}
      OBVIOUS
    <3> QED BY <1>1, <3>1, TurnBegun
  <2> HIDE DEF u, v
  <2>4. Keeps(op', op, c) /\ Promised(op', call', c)
    BY <2>1, <2>3 DEF Becomes, Promised
  <2>5. Place(v, op', call', c)
    BY <1>1, <1>2, <2>1, <2>3 DEF Becomes, Place
  <2>6. Beside(c, v, op, op[c].on) /\ (call[c].pc \notin {"starting", "turning"} => Alone(c, v, op))
    BY <1>1, <2>2, LifeIsAll DEF Alone
  <2>7. Others(c, v, op) /\ LeavesNone(c, v, op, call[c])
    BY <2>1, <2>3, <2>6, OneProcess DEF Alone, Beside, LeavesNone, Becomes
  <2>8. call' = [call EXCEPT ![c] = call[c]]
    BY <2>1, <2>7 DEF Others, Typed
  <2>9. Good(worker', op', call', idle')
    BY <1>1, <2>1, <2>4, <2>5, <2>7, <2>8, Replaced
  <2> QED BY <2>1, <2>9
<1> QED BY <1>3, <1>4

LEMMA TurnRefusedGood ==
  ASSUME Good(worker, op, call, idle), NEW c \in Calls, TurnRefused(c)
  PROVE  Good(worker', op', call', idle')
<1> DEFINE o == CatchOp(Taken(c), c)
           v == CatchWorker(worker, op, c)
           q == op[c].on
<1>1. /\ op \in [Calls -> Operations] /\ Shape(worker) /\ Beside(c, worker, op, q) /\ q \in {0} \cup Procs
  BY FromGood
<1>2. OpRejects(c, v, o)
  BY DEF TurnRefused
<1>3. Keeps(Taken(c), op, c) /\ Taken(c) \in [Calls -> Operations]
  BY <1>1, Takes DEF Becomes, Keeps
<1>4. Keeps(o, Taken(c), c) /\ ~o[c].timer
  BY <1>3, Catches DEF Becomes
<1> DEFINE x == Unsubscribed(worker, q, {c})
<1>5. Shape(x) /\ SameLife(worker, x) /\ v = Kill(x, q)
  BY <1>1, Subscribes DEF CatchWorker
<1> HIDE DEF x, v, o, q
<1>6. Keeps(o, op, c)
  BY <1>3, <1>4 DEF Keeps
<1>7. Beside(c, x, o, q)
  <2>1. Beside(c, worker, o, q)
    BY <1>1, <1>6, OnlyHis
  <2> QED BY <1>5, <2>1, LifeIsAll
<1>8. Alone(c, v, o)
  BY <1>1, <1>5, <1>7, Abandons
<1>9. Alone(c, Discarded(c, v), o)
  BY <1>1, <1>8, DiscardsAgain DEF q
<1> QED BY <1>2, <1>4, <1>9, RejectsGood

\* Only operations change, and the requests of the others do not.
LEMMA OperationGood ==
  ASSUME Good(worker, op, call, idle), NEW c \in Calls, worker' = worker, call' = call, idle' = idle,
         Keeps(op', op, c), op'[c].on = op[c].on, Promised(op', call', c), Place(worker, op', call', c)
  PROVE  Good(worker', op', call', idle')
<1>1. /\ idle \subseteq Procs /\ call[c] \in CallStates /\ Beside(c, worker, op, op[c].on)
      /\ call[c].pc \notin {"starting", "turning"} => Alone(c, worker, op)
  BY FromGood
<1>2. Others(c, worker, op) /\ LeavesNone(c, worker, op, call[c])
  BY <1>1, OneProcess DEF Alone, Beside, LeavesNone
<1>3. call' = [call EXCEPT ![c] = call[c]] /\ idle' \subseteq Procs
  BY <1>1, <1>2 DEF Others, Typed
<1> QED BY <1>1, <1>2, <1>3, Replaced

LEMMA TurnAcceptedGood ==
  ASSUME Good(worker, op, call, idle), NEW c \in Calls, TurnAccepted(c)
  PROVE  Good(worker', op', call', idle')
<1> DEFINE o == Taken(c)
           r == [o[c] EXCEPT !.heard = TRUE]
<1>1. op \in [Calls -> Operations] /\ Promised(op, call, c) /\ Place(worker, op, call, c)
  BY FromGood
<1>2. /\ worker' = worker /\ call' = call /\ idle' = idle /\ op[c].rpc = "turn/start"
      /\ op' = [o EXCEPT ![c] = r]
  BY DEF TurnAccepted, Resumes
<1>3. Becomes(o, op, c, "none", op[c].on, op[c].promise, op[c].heard, op[c].timer) /\ o \in [Calls -> Operations]
  BY <1>1, Takes DEF Becomes, Keeps
<1> HIDE DEF o
<1>4. o[c] \in Operations
  BY <1>3
<1>5. r \in Operations /\ r.rpc = o[c].rpc /\ r.on = o[c].on /\ r.promise = o[c].promise /\ r.heard /\ r.timer = o[c].timer
  BY <1>4 DEF Operations
<1> HIDE DEF r
<1>6. op'[c] = r /\ Keeps(op', op, c)
  BY <1>2, <1>3, <1>5 DEF Becomes, Keeps
<1>7. op'[c].rpc = "none" /\ op'[c].on = op[c].on /\ op'[c].promise = op[c].promise /\ op'[c].heard /\ op'[c].timer = op[c].timer
  BY <1>3, <1>5, <1>6 DEF Becomes
<1>8. Promised(op', call', c)
  BY <1>1, <1>7 DEF Promised
<1>9. Place(worker, op', call', c)
  BY <1>1, <1>2, <1>7 DEF Place
<1> QED BY <1>2, <1>6, <1>7, <1>8, <1>9, OperationGood

\* The worker of a turn that succeeded is killed, given back or the session's.
LEMMA SucceedsGood ==
  ASSUME Good(worker, op, call, idle), NEW c \in Calls, NEW o, Keeps(o, op, c),
         o[c].on = op[c].on, ~o[c].timer, Succeeds(c, o)
  PROVE  Good(worker', op', call', idle')
<1> DEFINE r == [call[c] EXCEPT !.pc = "ended", !.end = "ok"]
<1>1. /\ op[c].on \in {0} \cup Procs /\ Beside(c, worker, op, op[c].on) /\ idle \subseteq Procs
      /\ call[c] \in CallStates /\ Place(worker, op, call, c) /\ Shape(worker)
  BY FromGood
<1>2. call[c].pc = "turning" /\ op' = Over(o, c) /\ call' = [call EXCEPT ![c] = r]
  BY DEF Succeeds, Sets
<1>3. r \in CallStates /\ r.pc = "ended" /\ r.kind = call[c].kind
  BY <1>1 DEF CallStates
<1> HIDE DEF r
<1>4. call'[c] = r
  BY <1>1, <1>2 DEF Beside, Others, Typed
<1>5. Becomes(op', o, c, "none", o[c].on, "none", FALSE, o[c].timer)
  BY <1>2, Overs DEF Keeps
<1>6. Keeps(op', op, c) /\ op'[c].rpc = "none" /\ op'[c].heard = FALSE /\ ~op'[c].timer /\ op'[c].promise = "none"
  BY <1>5 DEF Becomes, Keeps
<1>7. Promised(op', call', c)
  BY <1>6 DEF Promised
<1>8. op[c].on \in Procs
  BY <1>1, <1>2 DEF Place
<1>9. idle' \subseteq Procs /\ idle \subseteq idle'
  BY <1>1, <1>8 DEF Succeeds, On
<1>10. CASE call[c].kind \in {"oneshot", "health"}
  <2> DEFINE v == Kill(worker, op[c].on)
  <2>1. worker' = v
    BY <1>10 DEF Succeeds, On
  <2>2. Alone(c, v, op)
    BY <1>1, Abandons
  <2> HIDE DEF v
  <2>3. LeavesNone(c, v, op, r) /\ Others(c, v, op)
    BY <1>9, <2>2, OneProcess DEF Alone, Beside, LeavesNone
  <2>4. Place(v, op', call', c)
    BY <1>3, <1>4, <1>6 DEF Place
  <2>5. r.kind = "sticky" <=> call[c].kind = "sticky"
    BY <1>3
  <2> QED BY <1>2, <1>3, <1>6, <1>7, <1>9, <2>1, <2>3, <2>4, <2>5, Replaced
<1>11. CASE call[c].kind \notin {"oneshot", "health"}
  <2>1. worker' = worker
    BY <1>11 DEF Succeeds
  <2>2. worker[op[c].on].dead \/ op[c].on \in idle' \/ (op[c].on = 1 /\ \E d \in Calls : call[d].kind = "sticky")
    <3>1. CASE call[c].kind = "sticky"
      BY <1>1, <1>2, <3>1 DEF Place
    <3>2. CASE Pooled(c)
      BY <3>2 DEF Succeeds, On
    <3>3. CASE call[c].kind = "absent"
      BY <1>1, <1>2, <3>3 DEF Place
    <3>4. call[c].kind \in Kinds
      BY <1>1 DEF CallStates
    <3> QED BY <1>11, <3>1, <3>2, <3>3, <3>4 DEF Pooled, Kinds
  <2>3. LeavesNone(c, worker, op, r) /\ Others(c, worker, op)
    BY <1>1, <1>9, <2>2 DEF Beside, LeavesNone
  <2>4. Place(worker, op', call', c)
    BY <1>3, <1>4, <1>6 DEF Place
  <2>5. r.kind = "sticky" <=> call[c].kind = "sticky"
    BY <1>3
  <2> QED BY <1>2, <1>3, <1>6, <1>7, <1>9, <2>1, <2>3, <2>4, <2>5, Replaced
<1> QED BY <1>10, <1>11

LEMMA TurnSettlesGood ==
  ASSUME Good(worker, op, call, idle), NEW c \in Calls, TurnSettles(c)
  PROVE  Good(worker', op', call', idle')
<1> DEFINE r == [op[c] EXCEPT !.temp = FALSE]
           o == [op EXCEPT ![c].temp = FALSE]
<1>1. /\ op \in [Calls -> Operations] /\ Promised(op, call, c) /\ op[c].on \in {0} \cup Procs
      /\ Beside(c, worker, op, op[c].on) /\ Place(worker, op, call, c) /\ call[c] \in CallStates
      /\ call[c].pc \notin {"starting", "turning"} => Alone(c, worker, op)
  BY FromGood
<1>2. op[c].promise \in {"resolved", "rejected"}
  BY DEF TurnSettles, TurnOver
<1>3. ~op[c].timer
  BY <1>1, <1>2 DEF Promised
<1>4. Keeps(o, op, c) /\ o[c].on = op[c].on /\ ~o[c].timer
  <2>1. op[c] \in Operations /\ o = [op EXCEPT ![c] = r]
    BY <1>1
  <2>2. r \in Operations /\ r.on = op[c].on /\ r.timer = op[c].timer
    BY <2>1 DEF Operations
  <2> HIDE DEF r
  <2>3. Becomes([op EXCEPT ![c] = r], op, c, r.rpc, r.on, r.promise, r.heard, r.timer)
    BY <1>1, <2>2, Puts
  <2> QED BY <1>3, <2>1, <2>2, <2>3 DEF Becomes
<1>5. \/ OpRejects(c, worker, o)
      \/ Succeeds(c, o)
      \/ call[c].pc = "ended" /\ op' = Over(o, c) /\ UNCHANGED <<worker, call, idle>>
  BY DEF TurnSettles
<1> HIDE DEF o, r
<1>6. CASE OpRejects(c, worker, o)
  <2>1. Beside(c, worker, o, op[c].on)
    BY <1>1, <1>4, OnlyHis
  <2>2. Alone(c, Discarded(c, worker), o)
    BY <1>1, <2>1, Abandons DEF Discarded, On
  <2> QED BY <1>4, <1>6, <2>2, RejectsGood
<1>7. CASE Succeeds(c, o)
  BY <1>4, <1>7, SucceedsGood
<1>8. CASE call[c].pc = "ended" /\ op' = Over(o, c) /\ UNCHANGED <<worker, call, idle>>
  <2>1. Alone(c, worker, o)
    BY <1>1, <1>4, <1>8, OnlyHis DEF Alone
  <2>2. call' = [call EXCEPT ![c] = call[c]]
    BY <1>8, <2>1 DEF Alone, Beside, Others, Typed
  <2> QED BY <1>1, <1>4, <1>8, <2>1, <2>2, EndsCall
<1> QED BY <1>5, <1>6, <1>7, <1>8

LEMMA ContinueGood ==
  ASSUME Good(worker, op, call, idle), NEW c \in Calls, Continue(c)
  PROVE  Good(worker', op', call', idle') /\ down' \in {"no", "pipe"}
<1>1. CASE Started(c)
  BY <1>1, StartedGood
<1>2. CASE ThreadStarted(c)
  BY <1>2, ThreadStartedGood
<1>3. CASE StartFails(c)
  BY <1>3, StartFailsGood DEF StartFails, Resumes, Microtasks
<1>4. CASE ThreadFails(c)
  BY <1>4, ThreadFailsGood DEF ThreadFails, Resumes, Microtasks
<1>5. CASE TurnRefused(c)
  BY <1>5, TurnRefusedGood DEF TurnRefused, Resumes, Microtasks
<1>6. CASE TurnAccepted(c)
  BY <1>6, TurnAcceptedGood DEF TurnAccepted, Resumes, Microtasks
<1>7. CASE TurnSettles(c)
  BY <1>7, TurnSettlesGood DEF TurnSettles, Microtasks
<1> QED BY <1>1, <1>2, <1>3, <1>4, <1>5, <1>6, <1>7 DEF Continue

LEMMA DisconnectGood ==
  ASSUME Good(worker, op, call, idle), NEW c \in Calls, Disconnect(c)
  PROVE  Good(worker', op', call', idle')
<1>1. /\ op \in [Calls -> Operations] /\ Promised(op, call, c) /\ Place(worker, op, call, c)
      /\ call[c] \in CallStates /\ op[c].on \in {0} \cup Procs /\ Beside(c, worker, op, op[c].on)
      /\ idle \subseteq Procs
  BY FromGood
<1>2. op' = op /\ idle' = idle /\ call[c].pc \in {"acquiring", "starting", "turning"}
  BY DEF Disconnect
<1>3. CASE call[c].pc = "turning"
  <2> DEFINE r == [call[c] EXCEPT !.gone = TRUE, !.pc = "ended", !.end = "closed"]
             v == Kill(worker, op[c].on)
  <2>1. call' = [call EXCEPT ![c] = r] /\ worker' = v
    BY <1>3 DEF Disconnect, Sets, On
  <2>2. r \in CallStates /\ r.pc = "ended" /\ r.kind = call[c].kind /\ r.abandoned = call[c].abandoned
    BY <1>1 DEF CallStates
  <2>3. Alone(c, v, op)
    BY <1>1, Abandons
  <2>4. op[c].on \in Procs /\ v[op[c].on].dead
    <3>1. op[c].on \in Procs /\ Shape(worker)
      BY <1>1, <1>3 DEF Place, Beside, Others, Typed
    <3> QED BY <3>1, Killed
  <2> HIDE DEF r, v
  <2>5. call'[c] = r
    BY <1>1, <2>1 DEF Beside, Others, Typed
  <2>6. Others(c, v, op) /\ LeavesNone(c, v, op, r)
    BY <1>2, <2>3, OneProcess DEF Alone, Beside, LeavesNone
  <2>7. Promised(op', call', c)
    BY <1>1, <1>2, <2>2, <2>5 DEF Promised
  <2>8. Place(v, op', call', c)
    BY <1>1, <1>2, <1>3, <2>2, <2>4, <2>5 DEF Place
  <2>9. (r.kind = "sticky" <=> call[c].kind = "sticky") /\ Keeps(op', op, c) /\ idle' \subseteq Procs
    BY <1>1, <1>2, <2>2 DEF Keeps
  <2> QED BY <2>1, <2>2, <2>6, <2>7, <2>8, <2>9, Replaced
<1>4. CASE call[c].pc # "turning"
  <2> DEFINE r == [call[c] EXCEPT !.gone = TRUE]
  <2>1. call' = [call EXCEPT ![c] = r] /\ worker' = worker
    BY <1>4 DEF Disconnect, Sets
  <2>2. r \in CallStates /\ r.pc = call[c].pc /\ r.kind = call[c].kind /\ r.abandoned = call[c].abandoned /\ r.gone
    BY <1>1 DEF CallStates
  <2>3. op[c].rpc # "thread/start" /\ r.pc # "new"
    BY <1>1, <1>2, <1>4, <2>2 DEF Place
  <2> HIDE DEF r
  <2> QED BY <1>2, <2>1, <2>2, <2>3, RecordGood
<1> QED BY <1>3, <1>4

LEMMA EvictGood ==
  ASSUME Good(worker, op, call, idle), NEW q \in Procs, Evict(q)
  PROVE  Good(worker', op', call', idle')
<1> DEFINE v == Kill(worker, q)
<1>1. worker' = v /\ op' = op /\ call' = call /\ idle' = idle \ {q}
  BY DEF Evict
<1>2. Typed(worker, op, call, idle) /\ Shape(worker)
  BY DEF Good, Typed
<1>3. Shape(v) /\ \A p \in Procs : v[p].os = worker[p].os /\ (v[p].dead <=> (worker[p].dead \/ p = q))
  BY <1>2, Killed
<1> HIDE DEF v
<1>4. Typed(v, op', call', idle')
  BY <1>1, <1>2, <1>3 DEF Typed
<1>5. Owned(v, op', call', idle')
  BY <1>1, <1>3 DEF Good, Owned, OwnedBy
<1>6. \A c \in Calls : Promised(op', call', c) /\ Place(v, op', call', c)
  BY <1>1, <1>3 DEF Good, Promised, Place
<1> QED BY <1>1, <1>4, <1>5, <1>6 DEF Good

(***************************************************************************)
(* The driver's events end processes and settle requests and promises, and *)
(* begin nothing.                                                          *)
(***************************************************************************)
\* No process is revived or started.
Fades(w, v) == \A p \in Procs : (v[p].os = "up" => w[p].os = "up") /\ (w[p].dead => v[p].dead)

\* A promise settles once, and its timer stops.
Settles(a, b) ==
  /\ b \in Operations
  /\ b.rpc = a.rpc /\ b.on = a.on /\ b.heard = a.heard
  /\ \/ b.promise = a.promise /\ (b.timer = a.timer \/ ~b.timer)
     \/ a.promise = "pending" /\ b.promise \in {"resolved", "rejected"} /\ ~b.timer

SameRequests == \A c \in Calls : op'[c].rpc = op[c].rpc

LEMMA EventGood ==
  ASSUME Good(worker, op, call, idle), Shape(worker'), Fades(worker, worker'),
         op' = [c \in Calls |-> op'[c]], \A c \in Calls : Settles(op[c], op'[c]),
         call' = call, idle' = idle
  PROVE  Good(worker', op', call', idle') /\ SameRequests
<1>1. Typed(worker', op', call', idle')
  <2>1. op' \in [Calls -> Operations]
    BY DEF Settles
  <2> QED BY <2>1 DEF Good, Typed
<1>2. Owned(worker', op', call', idle')
  BY DEF Good, Owned, OwnedBy, Fades, Settles
<1>3. ASSUME NEW c \in Calls PROVE Promised(op', call', c)
  <2>1. Promised(op, call, c) /\ Settles(op[c], op'[c])
    BY DEF Good
  <2> QED BY <2>1 DEF Promised, Settles
<1>4. ASSUME NEW c \in Calls PROVE Place(worker', op', call', c)
  <2>1. Place(worker, op, call, c) /\ Settles(op[c], op'[c])
    BY DEF Good
  <2> QED BY <2>1 DEF Place, Settles, Fades
<1>5. SameRequests
  BY DEF Settles, SameRequests
<1> QED BY <1>1, <1>2, <1>3, <1>4, <1>5 DEF Good

LEMMA Stays == \A a \in Operations : Settles(a, a)
BY DEF Settles

\* What the events do to one operation.
LEMMA Answered ==
  ASSUME NEW a \in Operations
  PROVE  /\ \A x \in {"ok", "error"} : Settles(a, [a EXCEPT !.reply = x])
         /\ \A x \in {"none", "running", "over"} : Settles(a, [a EXCEPT !.reply = "error", !.remote = x])
<1>1. \A x \in {"ok", "error"} : Settles(a, [a EXCEPT !.reply = x])
  BY DEF Settles, Operations
<1>2. \A x \in {"none", "running", "over"} : Settles(a, [a EXCEPT !.reply = "error", !.remote = x])
  BY DEF Settles, Operations
<1> QED BY <1>1, <1>2

\* One operation changes at an event.
LEMMA OneSettles ==
  ASSUME NEW o \in [Calls -> Operations], NEW c \in Calls, NEW b, Settles(o[c], b)
  PROVE  LET u == [o EXCEPT ![c] = b] IN u = [d \in Calls |-> u[d]] /\ \A d \in Calls : Settles(o[d], u[d])
BY Stays

LEMMA Reaps ==
  ASSUME Shape(worker), NEW p \in Procs, Reap(p)
  PROVE  Shape(worker') /\ Fades(worker, worker')
<1>1. PICK H : worker \in Lives(H)
  BY DEF Shape
<1>2. worker' \in Lives(H)
  BY <1>1 DEF Lives, Reap
<1>3. Fades(worker, worker')
  BY <1>1 DEF Lives, Reap, Fades
<1> QED BY <1>2, <1>3 DEF Shape

LEMMA AllRejected ==
  ASSUME op \in [Calls -> Operations], NEW p, RejectPending(p)
  PROVE  op' = [c \in Calls |-> op'[c]] /\ \A c \in Calls : Settles(op[c], op'[c])
<1>1. op' = [c \in Calls |-> IF op[c].on = p /\ Pending(c) THEN [op[c] EXCEPT !.reply = "error"] ELSE op[c]]
  BY DEF RejectPending
<1>2. ASSUME NEW c \in Calls PROVE Settles(op[c], op'[c])
  <2>1. op[c] \in Operations
    OBVIOUS
  <2>2. Settles(op[c], op[c]) /\ Settles(op[c], [op[c] EXCEPT !.reply = "error"])
    BY <2>1, Stays, Answered
  <2>3. op'[c] = op[c] \/ op'[c] = [op[c] EXCEPT !.reply = "error"]
    BY <1>1
  <2> QED BY <2>2, <2>3
<1> QED BY <1>1, <1>2

LEMMA TimeoutGood ==
  ASSUME Good(worker, op, call, idle), NEW c \in Calls, TurnTimeout(c), call' = call, idle' = idle
  PROVE  Good(worker', op', call', idle') /\ SameRequests
<1> DEFINE b == [op[c] EXCEPT !.promise = "rejected", !.timer = FALSE]
<1>1. op \in [Calls -> Operations] /\ Promised(op, call, c) /\ op[c].on \in {0} \cup Procs /\ Shape(worker)
  BY FromGood
<1>2. op' = [op EXCEPT ![c] = b] /\ op[c].promise = "pending" /\ worker' = Kill(worker, op[c].on)
  BY <1>1 DEF TurnTimeout, Promised
<1>3. Settles(op[c], b)
  <2>1. op[c] \in Operations
    BY <1>1
  <2> QED BY <1>2, <2>1 DEF Settles, Operations
<1> HIDE DEF b
<1>4. op' = [d \in Calls |-> op'[d]] /\ \A d \in Calls : Settles(op[d], op'[d])
  BY <1>1, <1>2, <1>3, OneSettles
<1>5. Shape(worker') /\ Fades(worker, worker')
  BY <1>1, <1>2, Killed DEF Fades
<1> QED BY <1>4, <1>5, EventGood

LEMMA ResponseGood ==
  ASSUME Good(worker, op, call, idle), NEW c \in Calls,
         Response(c) \/ RequestTimeout(c), call' = call, idle' = idle
  PROVE  Good(worker', op', call', idle') /\ SameRequests
<1>1. op \in [Calls -> Operations] /\ op[c] \in Operations /\ Shape(worker)
  BY FromGood
<1>2. PICK b : op' = [op EXCEPT ![c] = b] /\ Settles(op[c], b)
  <2>1. CASE op' = [op EXCEPT ![c].reply = "ok"]
    BY <1>1, <2>1, Answered
  <2>2. CASE op' = [op EXCEPT ![c].reply = "error"]
    BY <1>1, <2>2, Answered
  <2>3. CASE op' = [op EXCEPT ![c].reply = "error", ![c].remote = IF @ = "running" THEN "over" ELSE @]
    <3> DEFINE x == IF op[c].remote = "running" THEN "over" ELSE op[c].remote
    <3>1. x \in {"none", "running", "over"}
      BY <1>1 DEF Operations
    <3> HIDE DEF x
    <3>2. op' = [op EXCEPT ![c] = [op[c] EXCEPT !.reply = "error", !.remote = x]]
      BY <1>1, <2>3 DEF x, Operations
    <3> QED BY <1>1, <3>1, <3>2, Answered
  <2> QED BY <2>1, <2>2, <2>3 DEF Response, RequestTimeout
<1>3. op' = [d \in Calls |-> op'[d]] /\ \A d \in Calls : Settles(op[d], op'[d])
  BY <1>1, <1>2, OneSettles
<1>4. worker' = worker
  BY DEF Response, RequestTimeout
<1>5. Fades(worker, worker')
  BY <1>4 DEF Fades
<1> QED BY <1>1, <1>3, <1>4, <1>5, EventGood

LEMMA DeltaGood ==
  ASSUME Good(worker, op, call, idle), NEW d \in Calls, Delta(d), call' = call, idle' = idle
  PROVE  Good(worker', op', call', idle') /\ SameRequests
<1> DEFINE hs == Reached(op[d].on, d, FALSE)
<1>1. op \in [Calls -> Operations] /\ Shape(worker)
  BY FromGood
<1>2. /\ worker' = worker
      /\ op' = [c \in Calls |-> IF c \in hs /\ op[c].promise = "pending"
                               THEN [op[c] EXCEPT !.text = @ \cup {d}] ELSE op[c]]
  BY DEF Delta
<1> HIDE DEF hs
<1>3. ASSUME NEW c \in Calls PROVE Settles(op[c], op'[c])
  <2>1. op[c] \in Operations
    BY <1>1
  <2>2. Settles(op[c], [op[c] EXCEPT !.text = @ \cup {d}])
    BY <2>1 DEF Settles, Operations
  <2>3. op'[c] = op[c] \/ op'[c] = [op[c] EXCEPT !.text = @ \cup {d}]
    BY <1>2
  <2> QED BY <2>1, <2>2, <2>3, Stays
<1>4. op' = [c \in Calls |-> op'[c]] /\ Fades(worker, worker')
  BY <1>2 DEF Fades
<1> QED BY <1>1, <1>2, <1>3, <1>4, EventGood

LEMMA TurnEndsGood ==
  ASSUME Good(worker, op, call, idle), NEW d \in Calls, NEW how \in {"resolved", "rejected"},
         TurnEnds(d, how), call' = call, idle' = idle
  PROVE  Good(worker', op', call', idle') /\ SameRequests
<1> DEFINE hs == Reached(op[d].on, d, TRUE)
           Told(o) == [o EXCEPT !.timer = FALSE, !.promise = IF @ = "pending" THEN how ELSE @]
           Left(c) == IF c \in hs THEN Told(op[c]) ELSE op[c]
<1>1. op \in [Calls -> Operations] /\ Shape(worker)
  BY FromGood
<1>2. /\ worker' = Unsubscribed(worker, op[d].on, hs)
      /\ op' = [c \in Calls |-> IF c = d /\ how = "resolved" THEN [Left(c) EXCEPT !.remote = "over"] ELSE Left(c)]
  BY DEF TurnEnds
<1> HIDE DEF hs
<1>3. Shape(worker') /\ Fades(worker, worker')
  <2>1. Shape(worker') /\ SameLife(worker, worker')
    BY <1>1, <1>2, Subscribes
  <2> QED BY <2>1 DEF SameLife, Fades
<1>4. ASSUME NEW c \in Calls PROVE Settles(op[c], op'[c])
  <2>1. op[c] \in Operations
    BY <1>1
  <2>2. Settles(op[c], Told(op[c]))
    <3> DEFINE x == IF op[c].promise = "pending" THEN how ELSE op[c].promise
    <3>1. x \in {"none", "pending", "resolved", "rejected"} /\ (x = op[c].promise \/ (op[c].promise = "pending" /\ x = how))
      BY <2>1 DEF Operations
    <3>2. Told(op[c]) = [op[c] EXCEPT !.timer = FALSE, !.promise = x]
      BY <2>1 DEF Operations
    <3> HIDE DEF x, Told
    <3> QED BY <2>1, <3>1, <3>2 DEF Settles, Operations
  <2>3. Settles(op[c], Left(c))
    BY <2>1, <2>2, Stays
  <2> HIDE DEF Told, Left
  <2>4. Settles(op[c], [Left(c) EXCEPT !.remote = "over"])
    BY <2>3 DEF Settles, Operations
  <2>5. op'[c] = Left(c) \/ op'[c] = [Left(c) EXCEPT !.remote = "over"]
    BY <1>2
  <2> QED BY <2>3, <2>4, <2>5
<1>5. op' = [c \in Calls |-> op'[c]]
  BY <1>2
<1> QED BY <1>3, <1>4, <1>5, EventGood

LEMMA DriverGood ==
  ASSUME Good(worker, op, call, idle), Driver
  PROVE  /\ Good(worker', op', call', idle') /\ SameRequests
         /\ Unhandled \/ (down = "no" /\ down' = "no")
<1>1. call' = call /\ idle' = idle
  BY DEF Driver
<1>2. op \in [Calls -> Operations] /\ Shape(worker)
  BY DEF Good, Typed
<1>3. CASE Unhandled \/ EndChunk
  <2>1. worker' = worker /\ op' = op
    BY <1>3 DEF Unhandled, EndChunk
  <2> QED BY <1>1, <1>3, <2>1 DEF EndChunk, SameRequests
<1>4. ASSUME NEW p \in Procs, Ends(p)
      PROVE  Good(worker', op', call', idle') /\ SameRequests /\ down = "no" /\ down' = "no"
  <2>1. worker' = [worker EXCEPT ![p].os = "ended"] /\ op' = op /\ down = "no" /\ down' = "no"
    BY <1>4 DEF Ends
  <2>2. PICK H : worker \in Lives(H)
    BY <1>2 DEF Shape
  <2>3. worker' \in Lives(H) /\ Fades(worker, worker')
    BY <2>1, <2>2 DEF Lives, Fades
  <2>4. \A c \in Calls : Settles(op[c], op'[c])
    BY <1>2, <2>1, Stays
  <2>5. op' = [c \in Calls |-> op'[c]]
    BY <1>2, <2>1
  <2>6. Shape(worker')
    BY <2>3 DEF Shape
  <2> QED BY <1>1, <2>1, <2>3, <2>4, <2>5, <2>6, EventGood
<1>5. ASSUME NEW p \in Procs, Exit(p) \/ SpawnError(p)
      PROVE  Good(worker', op', call', idle') /\ SameRequests /\ down = "no" /\ down' = "no"
  <2>1. Reap(p) /\ RejectPending(p) /\ down = "no" /\ down' = "no"
    BY <1>5 DEF Exit, SpawnError, Idle, Microtasks
  <2>2. Shape(worker') /\ Fades(worker, worker')
    BY <1>2, <2>1, Reaps
  <2>3. op' = [c \in Calls |-> op'[c]] /\ \A c \in Calls : Settles(op[c], op'[c])
    BY <1>2, <2>1, AllRejected
  <2> QED BY <1>1, <2>1, <2>2, <2>3, EventGood
<1>6. ASSUME NEW c \in Calls, Response(c) \/ RequestTimeout(c)
      PROVE  Good(worker', op', call', idle') /\ SameRequests /\ down = "no" /\ down' = "no"
  <2>1. down = "no" /\ down' = "no"
    BY <1>6 DEF Response, Reads, RequestTimeout, Idle, Microtasks
  <2> QED BY <1>1, <1>6, <2>1, ResponseGood
<1>7. ASSUME NEW c \in Calls, TurnTimeout(c)
      PROVE  Good(worker', op', call', idle') /\ SameRequests /\ down = "no" /\ down' = "no"
  <2>1. down = "no" /\ down' = "no"
    BY <1>7 DEF TurnTimeout, Idle, Microtasks
  <2> QED BY <1>1, <1>7, <2>1, TimeoutGood
<1>8. ASSUME NEW c \in Calls, Delta(c)
      PROVE  Good(worker', op', call', idle') /\ SameRequests /\ down = "no" /\ down' = "no"
  <2>1. down = "no" /\ down' = "no"
    BY <1>8 DEF Delta, TurnRuns, Reads
  <2> QED BY <1>1, <1>8, <2>1, DeltaGood
<1>9. ASSUME NEW c \in Calls, Completed(c) \/ ErrorNotice(c)
      PROVE  Good(worker', op', call', idle') /\ SameRequests /\ down = "no" /\ down' = "no"
  <2>1. PICK how \in {"resolved", "rejected"} : TurnEnds(c, how)
    BY <1>9 DEF Completed, ErrorNotice
  <2>2. down = "no" /\ down' = "no"
    BY <2>1 DEF TurnEnds, TurnRuns, Reads
  <2> QED BY <1>1, <2>1, <2>2, TurnEndsGood
<1>10. ProcessEvent
  BY DEF Driver
<1> QED BY <1>3, <1>4, <1>5, <1>6, <1>7, <1>8, <1>9, <1>10 DEF ProcessEvent

-----------------------------------------------------------------------------
(***************************************************************************)
(* The theorems.                                                           *)
(***************************************************************************)
LEMMA InitGood == Init => RInv
<1> SUFFICES ASSUME Init PROVE RInv
  OBVIOUS
<1>1. worker \in Lives({EmptyList})
  BY DEF Init, Lives
<1>2. Shape(worker)
  BY <1>1 DEF Shape
<1>3. op = [c \in Calls |-> NoOp] /\ op \in [Calls -> Operations] /\ idle = {} /\ down = "no"
  BY NoOpTyped DEF Init
<1>4. PICK kind \in Scenarios :
        call = [c \in Calls |-> [kind |-> kind[c], pc |-> IF kind[c] = "absent" THEN "ended" ELSE "new",
                                gone |-> FALSE, abandoned |-> FALSE, end |-> "none"]]
  BY DEF Init
<1>5. \A c \in Calls : kind[c] \in Kinds
  BY ScenariosAssumption
<1>6. call \in [Calls -> CallStates]
  BY <1>4, <1>5 DEF CallStates
<1>7. Owned(worker, op, call, idle)
  BY DEF Init, Owned, OwnedBy, Sticky
<1>8. ASSUME NEW c \in Calls PROVE Promised(op, call, c) /\ Place(worker, op, call, c)
  <2>1. /\ call[c].pc \in {"new", "ended"} /\ call[c].gone = FALSE
        /\ call[c].kind = "absent" => call[c].pc = "ended"
    BY <1>4
  <2>2. op[c].rpc = "none" /\ op[c].promise = "none" /\ op[c].heard = FALSE /\ op[c].timer = FALSE
    BY <1>3 DEF NoOp
  <2> QED BY <2>1, <2>2 DEF Promised, Place
<1> QED BY <1>2, <1>3, <1>6, <1>7, <1>8 DEF RInv, Good, Typed, SurvivesOtherwise

LEMMA NextGood == RInv /\ [Next]_vars => RInv'
<1> SUFFICES ASSUME RInv, [Next]_vars PROVE RInv'
  OBVIOUS
<1>1. Good(worker, op, call, idle)
  BY DEF RInv
<1>2. CASE Driver
  <2>1. Good(worker', op', call', idle') /\ (Unhandled \/ down' = "no")
    BY <1>1, <1>2, DriverGood
  <2>2. SurvivesOtherwise'
    <3>1. CASE Unhandled
      <4>1. op' = op /\ call' = call /\ \E c \in Calls : Unheard(c)
        BY <1>2, <3>1 DEF Unhandled, Driver
      <4>2. PICK c \in Calls : Unheard(c)
        BY <4>1
      <4>3. op[c].forsaken \/ op[c].rpc = "turn/start" \/ call[c].abandoned
        BY <1>1, <4>2 DEF Good, Promised, Unheard
      <4>4. call[c].abandoned \/ LostRejection(c)
        BY <4>2, <4>3 DEF LostRejection
      <4>5. call'[c].abandoned \/ LostRejection(c)'
        BY <4>1, <4>4 DEF LostRejection, Unheard
      <4> QED BY <4>5 DEF SurvivesOtherwise
    <3>2. CASE down' = "no"
      BY <3>2 DEF SurvivesOtherwise
    <3> QED BY <2>1, <3>1, <3>2
  <2> QED BY <2>1, <2>2 DEF RInv
<1>3. ASSUME NEW c \in Calls, Begin(c) \/ Woken(c) \/ Continue(c) \/ Disconnect(c)
      PROVE  RInv'
  <2>1. Good(worker', op', call', idle') /\ down' \in {"no", "pipe"}
    <3>1. CASE Begin(c)
      BY <1>1, <3>1, BeginGood
    <3>2. CASE Woken(c)
      BY <1>1, <3>2, AcquireGood DEF Woken, Microtasks, Place, Good
    <3>3. CASE Continue(c)
      BY <1>1, <3>3, ContinueGood
    <3>4. CASE Disconnect(c)
      BY <1>1, <3>4, DisconnectGood DEF Disconnect, Idle, Microtasks
    <3> QED BY <1>3, <3>1, <3>2, <3>3, <3>4
  <2> QED BY <2>1 DEF RInv, SurvivesOtherwise
<1>4. ASSUME NEW p \in Procs, Evict(p) PROVE RInv'
  <2>1. Good(worker', op', call', idle') /\ down' = "no"
    BY <1>1, <1>4, EvictGood DEF Evict, Idle, Microtasks
  <2> QED BY <2>1 DEF RInv, SurvivesOtherwise
<1>5. CASE UNCHANGED vars
  BY <1>5 DEF vars, RInv, SurvivesOtherwise, LostRejection, Unheard
<1> QED BY <1>2, <1>3, <1>4, <1>5 DEF Next

THEOREM RunnerInvariant == Spec => []RInv
BY InitGood, NextGood, PTL DEF Spec

\* No process is left behind by a call that has ended, whatever way it ended.
THEOREM RunnerNoOrphans == Spec => []NoOrphans
<1>1. RInv => NoOrphans
  BY DEF RInv, Good, Owned, OwnedBy, NoOrphans, Sticky, On
<1> QED BY <1>1, RunnerInvariant, PTL

\* The rejections within runTurn that can end the gateway are of two kinds: of an operation
\* that withAbort has abandoned, and of a turn whose promise was rejected before turn/start
\* was answered, be it accepted or, in the same chunk, refused.
THEOREM RunnerSurvives == Spec => []SurvivesOtherwise
<1>1. RInv => SurvivesOtherwise
  BY DEF RInv
<1> QED BY <1>1, RunnerInvariant, PTL

-----------------------------------------------------------------------------
(***************************************************************************)
(* Who begins a turn.                                                      *)
(***************************************************************************)
LEMMA LaunchKeeps ==
  ASSUME NEW c \in Calls, NEW w, NEW o \in [Calls -> Operations], Launch(c, w, o)
  PROVE  Keeps(op', o, c) /\ op'[c].rpc = "initialize"
<1> DEFINE n == PutOn(o, c, Fresh)
           v == Spawned(w, Fresh)
<1>1. Fresh \in Procs /\ op' = Ask(v, n, c, "initialize")
  BY FreshIsUnused DEF Launch
<1>2. Becomes(n, o, c, "none", Fresh, "none", FALSE, FALSE) /\ n \in [Calls -> Operations]
  <2>1. Becomes(n, o, c, "none", Fresh, "none", FALSE, FALSE)
    BY <1>1, Places
  <2> QED BY <2>1 DEF Becomes, Keeps
<1> HIDE DEF n, v
<1>3. Becomes(op', n, c, "initialize", n[c].on, n[c].promise, n[c].heard, n[c].timer)
  <2>1. "initialize" \in {"initialize", "thread/start", "turn/start"}
    OBVIOUS
  <2> QED BY <1>1, <1>2, <2>1, Asked
<1> QED BY <1>2, <1>3 DEF Becomes, Keeps

LEMMA FailsKeeps ==
  ASSUME NEW c \in Calls, NEW w, NEW o \in [Calls -> Operations], Fails(c, w, o) \/ OpRejects(c, w, o)
  PROVE  Keeps(op', o, c) /\ op'[c].rpc # "turn/start"
<1>1. \/ Launch(c, Discarded(c, w), o)
      \/ op' = Over(o, c)
      \/ op' = Rejected(o, c)
  BY DEF Fails, OpRejects, Rejected
<1>2. CASE Launch(c, Discarded(c, w), o)
  BY <1>2, LaunchKeeps
<1>3. Becomes(Over(o, c), o, c, "none", o[c].on, "none", FALSE, o[c].timer)
  BY Overs
<1>4. Becomes(Rejected(o, c), o, c, "none", o[c].on, "rejected", FALSE, o[c].timer)
  BY Overs
<1> QED BY <1>1, <1>2, <1>3, <1>4 DEF Becomes

LEMMA AskedThread ==
  ASSUME NEW c \in Calls, NEW o \in [Calls -> Operations], op' = Ask(worker, o, c, "thread/start")
  PROVE  Keeps(op', o, c) /\ op'[c].rpc # "turn/start"
<1>1. "thread/start" \in {"initialize", "thread/start", "turn/start"}
  OBVIOUS
<1>2. Becomes(op', o, c, "thread/start", o[c].on, o[c].promise, o[c].heard, o[c].timer)
  BY <1>1, Asked
<1> QED BY <1>2 DEF Becomes

\* A step of c changes no request but c's, and asks for no turn if c has left.
Decent(c) ==
  /\ Keeps(op', op, c)
  /\ op'[c].rpc = "turn/start" => op[c].rpc = "turn/start" \/ ~call[c].gone

LEMMA KeepsOn ==
  ASSUME NEW c \in Calls, NEW o, Keeps(o, op, c), Keeps(op', o, c), op'[c].rpc # "turn/start"
  PROVE  Decent(c)
BY DEF Keeps, Decent

LEMMA AcquireDecent ==
  ASSUME op \in [Calls -> Operations], idle \subseteq Procs, NEW c \in Calls, Acquire(c) PROVE Decent(c)
<1>1. CASE Cold(c)
  BY <1>1, LaunchKeeps DEF Cold, Decent
<1>2. ASSUME NEW p \in WarmWorkers, Warm(c, p) PROVE Decent(c)
  <2> DEFINE o == PutOn(op, c, p)
  <2>1. op' = Ask(worker, o, c, "thread/start")
    BY <1>2 DEF Warm, WithAbort
  <2>2. p \in Procs
    BY DEF WarmWorkers
  <2>3. Keeps(o, op, c) /\ o \in [Calls -> Operations]
    <3>1. Becomes(o, op, c, "none", p, "none", FALSE, FALSE)
      BY <2>2, Places
    <3> QED BY <3>1 DEF Becomes, Keeps
  <2> HIDE DEF o
  <2>4. Keeps(op', o, c) /\ op'[c].rpc # "turn/start"
    BY <2>1, <2>3, AskedThread
  <2> QED BY <2>3, <2>4, KeepsOn
<1> QED BY <1>1, <1>2 DEF Acquire

LEMMA BeginDecent ==
  ASSUME Good(worker, op, call, idle), NEW c \in Calls, Begin(c) PROVE Decent(c)
<1>1. op \in [Calls -> Operations] /\ Place(worker, op, call, c) /\ idle \subseteq Procs
  BY FromGood
<1>2. CASE BeginSticky(c)
  <2> DEFINE o == PutOn(op, c, 1)
  <2>1. Keeps(o, op, c) /\ o \in [Calls -> Operations]
    <3>1. Becomes(o, op, c, "none", 1, "none", FALSE, FALSE)
      BY <1>1, OneProcess, Places
    <3> QED BY <3>1 DEF Becomes, Keeps
  <2>2. Fails(c, worker, o) \/ op' = TurnOp(worker, o, c, "sticky")
    BY <1>2 DEF BeginSticky, WithAbort
  <2> HIDE DEF o
  <2>3. CASE Fails(c, worker, o)
    <3>1. Keeps(op', o, c) /\ op'[c].rpc # "turn/start"
      BY <2>1, <2>3, FailsKeeps
    <3> QED BY <2>1, <3>1, KeepsOn
  <2>4. CASE op' = TurnOp(worker, o, c, "sticky")
    <3>1. "sticky" \in Calls \cup {"sticky"}
      OBVIOUS
    <3>2. Becomes(op', o, c, "turn/start", o[c].on, "pending", FALSE, TRUE)
      BY <2>1, <2>4, <3>1, TurnBegun
    <3>3. ~call[c].gone
      BY <1>1, <1>2 DEF BeginSticky, Place
    <3> QED BY <2>1, <3>2, <3>3 DEF Becomes, Keeps, Decent
  <2> QED BY <2>2, <2>3, <2>4
<1>3. CASE BeginOneshot(c)
  BY <1>1, <1>3, LaunchKeeps DEF BeginOneshot, Decent
<1>4. CASE BeginPool(c)
  BY <1>1, <1>4, AcquireDecent DEF BeginPool
<1>5. CASE WaitForCapacity(c)
  BY <1>1, <1>5 DEF WaitForCapacity, Keeps, Decent
<1> QED BY <1>2, <1>3, <1>4, <1>5 DEF Begin

LEMMA ContinueDecent ==
  ASSUME Good(worker, op, call, idle), NEW c \in Calls, Continue(c) PROVE Decent(c)
<1> DEFINE o == Taken(c)
<1>1. op \in [Calls -> Operations] /\ Place(worker, op, call, c)
  BY FromGood
<1>2. Keeps(o, op, c) /\ o \in [Calls -> Operations] /\ o[c].rpc = "none" /\ o[c].on = op[c].on
  BY <1>1, Takes DEF Becomes, Keeps
<1>3. ASSUME NEW w, Fails(c, w, o) \/ OpRejects(c, w, o) PROVE Decent(c)
  <2>1. Keeps(op', o, c) /\ op'[c].rpc # "turn/start"
    BY <1>2, <1>3, FailsKeeps
  <2> QED BY <1>2, <2>1, KeepsOn
<1>4. CASE StartFails(c) \/ ThreadFails(c)
  BY <1>3, <1>4 DEF StartFails, ThreadFails
<1>5. CASE Started(c)
  <2>1. Operate(c, o)
    BY <1>5 DEF Started
  <2>2. Fails(c, worker, o) \/ op' = Rejected(o, c) \/ op' = Ask(worker, o, c, "thread/start")
    BY <2>1 DEF Operate, WithAbort, Rejected
  <2>3. CASE op' = Rejected(o, c)
    <3>1. Becomes(op', o, c, "none", o[c].on, "rejected", FALSE, o[c].timer)
      BY <1>2, <2>3, Overs
    <3>2. Keeps(op', o, c) /\ op'[c].rpc # "turn/start"
      BY <3>1 DEF Becomes
    <3> QED BY <1>2, <3>2, KeepsOn
  <2>4. CASE op' = Ask(worker, o, c, "thread/start")
    <3>1. Keeps(op', o, c) /\ op'[c].rpc # "turn/start"
      BY <1>2, <2>4, AskedThread
    <3> QED BY <1>2, <3>1, KeepsOn
  <2> QED BY <1>3, <2>2, <2>3, <2>4
<1>6. CASE ThreadStarted(c)
  <2>1. CASE worker[On(c)].dead
    BY <1>3, <1>6, <2>1 DEF ThreadStarted
  <2>2. CASE ~worker[On(c)].dead
    <3>1. op' = TurnOp(worker, op, c, c) /\ op[c].rpc = "thread/start"
      BY <1>6, <2>2 DEF ThreadStarted, Resumes
    <3>2. Becomes(op', op, c, "turn/start", op[c].on, "pending", FALSE, TRUE)
      BY <1>1, <3>1, TurnBegun
    <3>3. ~call[c].gone
      BY <1>1, <2>2, <3>1 DEF Place, On
    <3> QED BY <3>2, <3>3 DEF Becomes, Decent
  <2> QED BY <2>1, <2>2
<1>7. CASE TurnRefused(c)
  <2> DEFINE v == CatchWorker(worker, op, c)
             u == CatchOp(o, c)
  <2>1. OpRejects(c, v, u)
    BY <1>7 DEF TurnRefused
  <2>2. Keeps(u, o, c) /\ u \in [Calls -> Operations]
    BY <1>2, Catches DEF Becomes, Keeps
  <2> HIDE DEF u, v, o
  <2>3. Keeps(op', u, c) /\ op'[c].rpc # "turn/start"
    BY <2>1, <2>2, FailsKeeps
  <2>4. Keeps(u, op, c)
    BY <1>2, <2>2 DEF Keeps
  <2> QED BY <2>3, <2>4, KeepsOn
<1>8. CASE TurnAccepted(c)
  <2>1. op[c].rpc = "turn/start" /\ op' = [o EXCEPT ![c].heard = TRUE]
    BY <1>8 DEF TurnAccepted, Resumes
  <2> DEFINE r == [o[c] EXCEPT !.heard = TRUE]
  <2> HIDE DEF o
  <2>2. r \in Operations
    <3>1. o[c] \in Operations
      BY <1>2
    <3> QED BY <3>1 DEF Operations
  <2>3. op' = [o EXCEPT ![c] = r]
    BY <2>1
  <2> HIDE DEF r
  <2>4. Keeps(op', o, c)
    BY <1>2, <2>2, <2>3 DEF Keeps
  <2> QED BY <1>2, <2>1, <2>4 DEF Keeps, Decent
<1>9. CASE TurnSettles(c)
  <2> DEFINE r == [op[c] EXCEPT !.temp = FALSE]
             u == [op EXCEPT ![c] = r]
  <2>1. OpRejects(c, worker, u) \/ op' = Over(u, c)
    BY <1>9 DEF TurnSettles, Succeeds
  <2>2. r \in Operations
    <3>1. op[c] \in Operations
      BY <1>1
    <3> QED BY <3>1 DEF Operations
  <2>3. r.rpc = op[c].rpc /\ r.on = op[c].on
    BY <1>1 DEF Operations
  <2> HIDE DEF r
  <2>4. Keeps(u, op, c) /\ u \in [Calls -> Operations]
    BY <1>1, <2>2 DEF Keeps
  <2> HIDE DEF u
  <2>5. Keeps(op', u, c) /\ op'[c].rpc # "turn/start"
    <3>1. CASE OpRejects(c, worker, u)
      BY <2>4, <3>1, FailsKeeps
    <3>2. CASE op' = Over(u, c)
      BY <2>4, <3>2, Overs DEF Becomes
    <3> QED BY <2>1, <3>1, <3>2
  <2> QED BY <2>4, <2>5, KeepsOn
<1> QED BY <1>4, <1>5, <1>6, <1>7, <1>8, <1>9 DEF Continue

\* No turn is begun for a caller that had left before.
THEOREM RunnerNoTurnForNobody == Spec => NoTurnForNobody
<1> DEFINE Nobody == \A c \in Calls : (call[c].gone /\ op'[c].rpc = "turn/start") => op[c].rpc = "turn/start"
<1>1. RInv /\ [Next]_vars => [Nobody]_vars
  <2> SUFFICES ASSUME RInv, Next PROVE Nobody
    OBVIOUS
  <2>1. Good(worker, op, call, idle)
    BY DEF RInv
  <2>2. op \in [Calls -> Operations] /\ idle \subseteq Procs
    BY <2>1 DEF Good, Typed
  <2>3. CASE Driver
    BY <2>1, <2>3, DriverGood DEF SameRequests
  <2>4. ASSUME NEW c \in Calls, Begin(c) \/ Woken(c) \/ Continue(c) \/ Disconnect(c)
        PROVE  Nobody
    <3>1. Decent(c)
      <4>1. CASE Begin(c)
        BY <2>1, <4>1, BeginDecent
      <4>2. CASE Woken(c)
        BY <2>2, <4>2, AcquireDecent DEF Woken
      <4>3. CASE Continue(c)
        BY <2>1, <4>3, ContinueDecent
      <4>4. CASE Disconnect(c)
        BY <2>2, <4>4 DEF Disconnect, Decent, Keeps
      <4> QED BY <2>4, <4>1, <4>2, <4>3, <4>4
    <3> QED BY <3>1 DEF Decent, Keeps
  <2>5. ASSUME NEW p \in Procs, Evict(p) PROVE Nobody
    BY <2>5 DEF Evict
  <2> QED BY <2>3, <2>4, <2>5 DEF Next
<1>2. []RInv /\ [][Next]_vars => [][Nobody]_vars
  BY <1>1, PTL
<1> QED BY <1>2, RunnerInvariant, PTL DEF Spec, NoTurnForNobody

=============================================================================
