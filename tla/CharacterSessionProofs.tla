----------------------- MODULE CharacterSessionProofs -----------------------
(* Proofs about CharacterSession, in two parts.                              *)
(*                                                                           *)
(* For any characters, any number of operations at once, any mix of them and *)
(* any writes refused: the types, and that no promise is awaited in vain.    *)
(*                                                                           *)
(* For one character, any number of operations at once, of any kind that     *)
(* leaves the character in the library and in the engine: that a save        *)
(* neither loses the last edit nor writes over it (from "The order of a      *)
(* queue" on).                                                               *)
EXTENDS CharacterSession, EngineQueueProofs

USE SessionAssumption

Docs(v) == NoDoc..v

Points ==
  {"free", "wait", "export", "summary", "put", "detail", "mutate", "mutateOnly", "before",
   "ignore", "get", "create", "import", "loaded", "restore", "restored", "delete", "erase",
   "records", "content"}

\* A request names a character, unless it is about the library.
Requests(v) ==
  {r \in [op : Ops, method : Methods, id : Ids \cup {None}, doc : Docs(v)] :
     r.method = "ingestUploaded" \/ r.id \in Ids}

Responses(v) == [op : Ops, method : Methods, ok : BOOLEAN, doc : Docs(v), was : Docs(v)]

Entries(v) == [xml : Docs(v), was : Docs(v)]

\* The points at which an operation has no character: a flush and a content
\* update between two characters, and an operation that has ended.
Unnamed(p) ==
  \/ p.pc \in {"free", "ignore", "records", "content"}
  \/ p.pc = "wait" /\ p.kind \in {"flush", "reload"}

\* An operation waits at one point only, and before its first character.
Operations(v) ==
  {p \in [kind : Kinds \cup {None}, id : Ids \cup {None}, pc : Points, gen : Nat,
          xml : Docs(v), before : Docs(v), was : Docs(v), bare : BOOLEAN,
          ids : SUBSET Ids, on : SUBSET Tokens, next : Ids \cup {None}] :
     /\ p.id = None => Unnamed(p)
     /\ p.on # {} => p.pc = "wait"}

WorkerType(w, v) ==
  /\ w \in [active : Requests(v) \cup {None}, line : Seq(Requests(v))]
  /\ w.active = None => w.line = <<>>

EngineTypes ==
  /\ version \in Nat
  /\ engine \in [Ids -> Docs(version)]
  /\ latest \in [Ids -> Docs(version)]
  /\ WorkerType(worker, version)
  /\ inbox \in Seq(Responses(version))

StoreTypes ==
  /\ store \in [Ids -> Docs(version)]
  /\ disk \in Seq(Ops)

PageTypes ==
  /\ loadedId \in Ids \cup {None} /\ loading \in Ops \cup {None}
  /\ shown \in Ids \cup {None} /\ autosave \in BOOLEAN
  /\ sequence \in Nat /\ dirty \in [Ids -> 0..sequence]
  /\ timers \in [Ids -> {"off", "bare", "detail"}]
  /\ inflight \in [Ids -> Ops \cup {None}]
  /\ undo \in [Ids -> Seq(Entries(version))]
  /\ \A id \in Ids : Len(undo[id]) <= UndoLimit
  /\ started \in 0..MaxStarts

OpTypes == op \in [Ops -> Operations(version)]

Types == EngineTypes /\ StoreTypes /\ PageTypes /\ OpTypes

\* NobodyWaitsInVain, of any operations, load and saves, so that the steps inside
\* one task can be taken one after the other.
Awaited(ops, load, saves) ==
  /\ load # None => Owes(ops[load], "load")
  /\ \A id \in Ids : saves[id] # None => Owes(ops[saves[id]], id)
  /\ \A o \in Ops : \A t \in ops[o].on : Owes(ops[t[1]], t[2])

IInv == Types /\ Awaited(op, loading, inflight)

----------------------------------------------------------------------------
\* Requests posted.

LEMMA Posted ==
  ASSUME NEW v \in Nat, NEW r \in Requests(v), NEW w, WorkerType(w, v)
  PROVE  WorkerType(Sent(w, r), v)
<1> USE DEF WorkerType
<1>1. CASE w.active = None
  BY <1>1 DEF Sent
<1>2. CASE w.active # None
  <2> DEFINE T == Requests(v)
             q == w.line
             u == [k \in DOMAIN q |-> Urgency(q[k])]
             e == Enqueue(q, r, u, Urgency(r))
  <2>1. q \in Seq(T) /\ DOMAIN u = 1..Len(q) /\ Len(u) = Len(q)
    OBVIOUS
  <2>2. Sent(w, r) = [w EXCEPT !.line = e]
    BY <1>2 DEF Sent
  <2> HIDE DEF T, q, u
  <2>3. r \in T
    BY DEF T
  <2>4. e \in Seq(T)
    BY <2>1, <2>3, EnqueuedLine DEF PutIn
  <2> HIDE DEF e
  <2> QED BY <1>2, <2>2, <2>4 DEF T
<1> QED BY <1>1, <1>2

\* Documents made later leave the types of the earlier ones.
LEMMA Grown ==
  ASSUME NEW v \in Nat
  PROVE  /\ Docs(v) \subseteq Docs(v + 1)
         /\ Requests(v) \subseteq Requests(v + 1)
         /\ Responses(v) \subseteq Responses(v + 1)
         /\ Entries(v) \subseteq Entries(v + 1)
         /\ Operations(v) \subseteq Operations(v + 1)
<1>1. Docs(v) \subseteq Docs(v + 1)
  BY DEF Docs, NoDoc
<1> QED BY <1>1 DEF Requests, Responses, Entries, Operations

----------------------------------------------------------------------------
\* What an operation's step does to those that wait for it.

\* It still owes what it owed, and may owe more.
LEMMA StillOwed ==
  ASSUME NEW v \in Nat, NEW ops \in [Ops -> Operations(v)], NEW o \in Ops,
         NEW q \in Operations(v),
         NEW load \in Ops \cup {None}, NEW saves \in [Ids -> Ops \cup {None}],
         NEW load2, NEW saves2,
         Awaited(ops, load, saves),
         \A x \in Ids \cup {"load"} : Owes(ops[o], x) => Owes(q, x),
         \A t \in q.on : t \in ops[o].on \/ (t[1] \in Ops \ {o} /\ Owes(ops[t[1]], t[2])),
         load2 \in {None, load} \/ (load2 = o /\ Owes(q, "load")),
         \A id \in Ids : saves2[id] \in {None, saves[id]} \/ (saves2[id] = o /\ Owes(q, id))
  PROVE  Awaited([ops EXCEPT ![o] = q], load2, saves2)
<1> DEFINE new == [ops EXCEPT ![o] = q]
<1>1. new \in [Ops -> Operations(v)] /\ new[o] = q /\ \A p \in Ops \ {o} : new[p] = ops[p]
  OBVIOUS
<1> HIDE DEF new
<1>2. \A p \in Ops, x \in Ids \cup {"load"} : Owes(ops[p], x) => Owes(new[p], x)
  BY <1>1
<1>3. \A p \in Ops : \A t \in ops[p].on : t[1] \in Ops /\ t[2] \in Ids \cup {"load"}
  BY DEF Operations, Tokens
<1>4. \A t \in q.on : t[1] \in Ops /\ t[2] \in Ids \cup {"load"}
  BY DEF Operations, Tokens
<1>5. \A p \in Ops : \A t \in new[p].on : Owes(new[t[1]], t[2])
  <2> TAKE p \in Ops
  <2> TAKE t \in new[p].on
  <2>1. CASE p = o
    BY <1>1, <1>2, <1>3, <1>4, <2>1 DEF Awaited
  <2>2. CASE p # o
    BY <1>1, <1>2, <1>3, <2>2 DEF Awaited
  <2> QED BY <2>1, <2>2
<1>6. load2 # None => Owes(new[load2], "load")
  BY <1>1, <1>2 DEF Awaited
<1>7. \A id \in Ids : saves2[id] # None => Owes(new[saves2[id]], id)
  BY <1>1, <1>2 DEF Awaited
<1> QED BY <1>5, <1>6, <1>7 DEF Awaited, new

LEMMA FreeType ==
  ASSUME NEW v \in Nat
  PROVE  Free \in Operations(v) /\ Free.on = {}
<1>1. NoDoc \in Docs(v)
  BY DEF Docs, NoDoc
<1>2. Free \in [kind : Kinds \cup {None}, id : Ids \cup {None}, pc : Points, gen : Nat,
                xml : Docs(v), before : Docs(v), was : Docs(v), bare : BOOLEAN,
                ids : SUBSET Ids, on : SUBSET Tokens, next : Ids \cup {None}]
  BY <1>1 DEF Free, Points
<1>3. Free.pc = "free" /\ Free.on = {}
  BY DEF Free
<1> QED BY <1>2, <1>3 DEF Operations, Unnamed

\* What is settled, and by whom, once operation o no longer owes y.
Settles(ops, o, q, y, load, saves, load2, saves2) ==
  /\ q.on = {}
  /\ \A x \in Ids \cup {"load"} : Owes(ops[o], x) => Owes(q, x) \/ x = y
  /\ load2 # None => load2 = load /\ (load # o \/ y # "load")
  /\ \A id \in Ids : saves2[id] # None => saves2[id] = saves[id] /\ (saves[id] # o \/ id # y)

\* It owes y no more, and those that waited for y go on.
LEMMA ResolvedFine ==
  ASSUME NEW v \in Nat, NEW ops \in [Ops -> Operations(v)], NEW o \in Ops,
         NEW q \in Operations(v), NEW y \in Ids \cup {"load"},
         NEW load \in Ops \cup {None}, NEW saves \in [Ids -> Ops \cup {None}],
         NEW load2, NEW saves2,
         Awaited(ops, load, saves), Settles(ops, o, q, y, load, saves, load2, saves2)
  PROVE  LET new == Resolved([ops EXCEPT ![o] = q], <<o, y>>)
         IN  new \in [Ops -> Operations(v)] /\ Awaited(new, load2, saves2)
<1> DEFINE new == Resolved([ops EXCEPT ![o] = q], <<o, y>>)
<1>1. /\ \A p \in Ops \ {o} : new[p] = [ops[p] EXCEPT !.on = @ \ {<<o, y>>}]
      /\ new[o] = [q EXCEPT !.on = @ \ {<<o, y>>}]
      /\ new = [p \in Ops |-> new[p]]
  BY DEF Resolved
<1> HIDE DEF new
<1>2. \A p \in Operations(v) : LET n == [p EXCEPT !.on = @ \ {<<o, y>>}]
                              IN  /\ n \in Operations(v) /\ n.pc = p.pc /\ n.id = p.id
                                  /\ n.on = p.on \ {<<o, y>>}
  BY DEF Operations, Unnamed
<1>3. /\ \A p \in Ops : new[p] \in Operations(v)
      /\ \A p \in Ops \ {o} : /\ new[p].pc = ops[p].pc /\ new[p].id = ops[p].id
                             /\ new[p].on = ops[p].on \ {<<o, y>>}
      /\ new[o].pc = q.pc /\ new[o].id = q.id /\ new[o].on = {}
  <2>2. /\ new[o] \in Operations(v)
        /\ new[o].pc = q.pc /\ new[o].id = q.id /\ new[o].on = {}
    BY <1>1, <1>2 DEF Settles
  <2>3. ASSUME NEW p \in Ops \ {o}
        PROVE  /\ new[p] \in Operations(v)
               /\ new[p].pc = ops[p].pc /\ new[p].id = ops[p].id
               /\ new[p].on = ops[p].on \ {<<o, y>>}
    <3>1. ops[p] \in Operations(v)
      OBVIOUS
    <3>2. new[p] = [ops[p] EXCEPT !.on = @ \ {<<o, y>>}]
      BY <1>1
    <3> HIDE DEF new
    <3> QED BY <1>2, <3>1, <3>2
  <2> QED BY <2>2, <2>3
<1>0. new \in [Ops -> Operations(v)]
  BY <1>1, <1>3
<1>4. \A p \in Ops, x \in Ids \cup {"load"} :
        Owes(ops[p], x) => Owes(new[p], x) \/ (p = o /\ x = y)
  BY <1>3 DEF Owes, Settles
<1>5. \A p \in Ops : \A t \in ops[p].on : t = <<t[1], t[2]>> /\ t[1] \in Ops /\ t[2] \in Ids \cup {"load"}
  BY DEF Operations, Tokens
<1>6. \A p \in Ops : \A t \in new[p].on : Owes(new[t[1]], t[2])
  <2> TAKE p \in Ops
  <2> TAKE t \in new[p].on
  <2>1. t \in ops[p].on /\ t # <<o, y>>
    BY <1>3
  <2>2. Owes(ops[t[1]], t[2])
    BY <2>1 DEF Awaited
  <2> QED BY <1>4, <1>5, <2>1, <2>2
<1>7. load2 # None => Owes(new[load2], "load")
  BY <1>4 DEF Awaited, Settles
<1>8. \A id \in Ids : saves2[id] # None => Owes(new[saves2[id]], id)
  BY <1>4 DEF Awaited, Settles
<1> QED BY <1>0, <1>6, <1>7, <1>8 DEF Awaited, new

\* It owes y no more, and those that waited for y end with its error.
LEMMA RejectedFine ==
  ASSUME NEW v \in Nat, NEW ops \in [Ops -> Operations(v)], NEW o \in Ops,
         NEW q \in Operations(v), NEW y \in Ids \cup {"load"},
         NEW load \in Ops \cup {None}, NEW saves \in [Ids -> Ops \cup {None}],
         NEW load2, NEW saves2,
         Awaited(ops, load, saves), Settles(ops, o, q, y, load, saves, load2, saves2)
  PROVE  LET new == Rejected([ops EXCEPT ![o] = q], <<o, y>>)
         IN  new \in [Ops -> Operations(v)] /\ Awaited(new, load2, saves2)
<1> DEFINE mid == [ops EXCEPT ![o] = q]
           new == Rejected(mid, <<o, y>>)
<1>1. mid \in [Ops -> Operations(v)] /\ mid[o] = q /\ \A p \in Ops \ {o} : mid[p] = ops[p]
  OBVIOUS
<1> HIDE DEF mid
<1>2. \A p \in Ops : new[p] = IF <<o, y>> \in mid[p].on THEN Free ELSE mid[p]
  BY DEF Rejected
<1>3. new \in [Ops -> Operations(v)]
  BY <1>1, FreeType DEF Rejected
<1> HIDE DEF new
<1>4. \A p \in Ops :
        \/ <<o, y>> \in mid[p].on /\ mid[p].pc = "wait" /\ new[p].on = {}
        \/ <<o, y>> \notin mid[p].on /\ new[p] = mid[p]
  <2> TAKE p \in Ops
  <2>1. CASE <<o, y>> \in mid[p].on
    <3>1. mid[p] \in Operations(v)
      BY <1>1
    <3>2. mid[p].pc = "wait"
      BY <2>1, <3>1 DEF Operations
    <3>3. new[p] = Free
      BY <1>2, <2>1
    <3> QED BY <2>1, <3>2, <3>3, FreeType
  <2>2. CASE <<o, y>> \notin mid[p].on
    BY <1>2, <2>2
  <2> QED BY <2>1, <2>2
<1>5. \A p \in Ops, x \in Ids \cup {"load"} :
        Owes(ops[p], x) => Owes(new[p], x) \/ (p = o /\ x = y)
  <2> TAKE p \in Ops, x \in Ids \cup {"load"}
  <2>1. Owes(ops[p], x) => Owes(mid[p], x) \/ (p = o /\ x = y)
    BY <1>1 DEF Settles
  <2>2. Owes(mid[p], x) => Owes(new[p], x)
    <3>1. mid[p].pc = "wait" => ~Owes(mid[p], x)
      BY DEF Owes
    <3> QED BY <1>4, <3>1
  <2> QED BY <2>1, <2>2
<1>6. \A p \in Ops : \A t \in ops[p].on : t = <<t[1], t[2]>> /\ t[1] \in Ops /\ t[2] \in Ids \cup {"load"}
  BY DEF Operations, Tokens
<1>7. \A p \in Ops : \A t \in new[p].on : Owes(new[t[1]], t[2])
  <2> TAKE p \in Ops
  <2> TAKE t \in new[p].on
  <2>1. new[p] = mid[p] /\ <<o, y>> \notin mid[p].on
    BY <1>4
  <2>2. p # o /\ t \in ops[p].on /\ t # <<o, y>>
    BY <1>1, <2>1 DEF Settles
  <2>3. Owes(ops[t[1]], t[2])
    BY <2>2 DEF Awaited
  <2> QED BY <1>5, <1>6, <2>2, <2>3
<1>8. load2 # None => Owes(new[load2], "load")
  BY <1>5 DEF Awaited, Settles
<1>9. \A id \in Ids : saves2[id] # None => Owes(new[saves2[id]], id)
  BY <1>5 DEF Awaited, Settles
<1> QED BY <1>3, <1>7, <1>8, <1>9 DEF Awaited, new, mid

----------------------------------------------------------------------------
\* Operation o goes on as q, which settles nothing.
LEMMA Goes ==
  ASSUME IInv, NEW o \in Ops, NEW q \in Operations(version),
         version' = version, op' = [op EXCEPT ![o] = q],
         \A x \in Ids \cup {"load"} : Owes(op[o], x) => Owes(q, x),
         \A t \in q.on : t \in op[o].on \/ (t[1] \in Ops \ {o} /\ Owes(op[t[1]], t[2])),
         loading' \in {None, loading} \/ (loading' = o /\ Owes(q, "load")),
         \A id \in Ids : inflight'[id] \in {None, inflight[id]} \/ (inflight'[id] = o /\ Owes(q, id))
  PROVE  OpTypes' /\ Awaited(op', loading', inflight')
<1>1. /\ op \in [Ops -> Operations(version)] /\ version \in Nat
      /\ loading \in Ops \cup {None} /\ inflight \in [Ids -> Ops \cup {None}]
      /\ Awaited(op, loading, inflight)
  BY DEF IInv, Types, OpTypes, EngineTypes, PageTypes
<1>2. OpTypes'
  BY <1>1 DEF OpTypes
<1>3. Awaited([op EXCEPT ![o] = q], loading', inflight')
  BY <1>1, StillOwed
<1> QED BY <1>2, <1>3

\* Operation o, which owes nothing, is over.
LEMMA Ends ==
  ASSUME IInv, NEW o \in Ops, version' = version, op' = [op EXCEPT ![o] = Free],
         \A x \in Ids \cup {"load"} : ~Owes(op[o], x),
         loading' = loading, inflight' = inflight
  PROVE  OpTypes' /\ Awaited(op', loading', inflight')
<1>1. Free \in Operations(version) /\ Free.on = {}
  BY FreeType DEF IInv, Types, EngineTypes
<1> HIDE DEF Free
<1> QED BY <1>1, Goes

----------------------------------------------------------------------------
\* The worker serves a request.
LEMMA Served ==
  ASSUME NEW v \in Nat, NEW w, WorkerType(w, v), w.active # None
  PROVE  LET n == IF w.line = <<>> THEN [active |-> None, line |-> <<>>]
                  ELSE [active |-> Head(w.line), line |-> Tail(w.line)]
         IN  WorkerType(n, v) /\ w.active \in Requests(v)
<1> DEFINE T == Requests(v)
<1>1. w \in [active : T \cup {None}, line : Seq(T)]
  BY DEF WorkerType
<1> HIDE DEF T
<1>2. w.active \in T /\ w.line \in Seq(T)
  BY <1>1
<1>3. CASE w.line = <<>>
  BY <1>2, <1>3 DEF WorkerType, T
<1>4. CASE w.line # <<>>
  <2> DEFINE h == Head(w.line)
             t == Tail(w.line)
             n == [active |-> h, line |-> t]
  <2>1. h \in T /\ t \in Seq(T)
    BY <1>2, <1>4
  <2> HIDE DEF h, t
  <2>2. n \in [active : T \cup {None}, line : Seq(T)] /\ n.active = h
    BY <2>1
  <2>3. h # None
    BY <2>1 DEF T, Requests, Docs, NoDoc
  <2>4. WorkerType(n, v)
    BY <2>2, <2>3 DEF WorkerType, T
  <2> QED BY <1>2, <1>4, <2>4 DEF T, h, t
<1> QED BY <1>3, <1>4

\* The page has handled the oldest response.
LEMMA Handled ==
  ASSUME IInv, NEW o \in Ops, NEW method, NEW pc, Answer(o, method, pc)
  PROVE  /\ Answered \in Responses(version) /\ op[o].pc = pc /\ op[o] \in Operations(version)
         /\ version' = version
         /\ disk' \in Seq(Ops) => StoreTypes'
         /\ WorkerType(worker', version) => EngineTypes'
  BY DEF Answer, Answered, IInv, Types, EngineTypes, StoreTypes, OpTypes

\* The oldest transaction has completed.
LEMMA Completed ==
  ASSUME IInv, NEW o \in Ops, NEW pc, Completes(o, pc)
  PROVE  /\ op[o].pc = pc /\ op[o] \in Operations(version)
         /\ version' = version
         /\ disk' \in Seq(Ops)
         /\ WorkerType(worker', version) => EngineTypes'
  BY DEF Completes, IInv, Types, EngineTypes, StoreTypes, OpTypes, workerVars

\* The worker's state is one of its type after request r.
LEMMA Asked ==
  ASSUME IInv, NEW r \in Requests(version)
  PROVE  WorkerType(Sent(worker, r), version)
  BY Posted DEF IInv, Types, EngineTypes

LEMMA Versions ==
  ASSUME IInv
  PROVE  version \in Nat /\ NoDoc \in Docs(version)
  BY DEF IInv, Types, EngineTypes, Docs, NoDoc

\* A request about a character.
LEMMA Requested ==
  ASSUME NEW v, NEW o \in Ops, NEW id \in Ids, NEW d \in Docs(v), NEW m \in Methods
  PROVE  [op |-> o, method |-> m, id |-> id, doc |-> d] \in Requests(v)
  BY DEF Requests

----------------------------------------------------------------------------
\* persist.

\* A save that ends settles what waited for it.
LEMMA PersistEnded ==
  ASSUME IInv, NEW o \in Ops, NEW ok \in BOOLEAN, op[o].pc \in {"export", "summary", "put"},
         version' = version, loading' = loading, PersistEnds(o, ok)
  PROVE  /\ OpTypes' /\ Awaited(op', loading', inflight')
         /\ inflight' \in [Ids -> Ops \cup {None}]
<1> DEFINE id == op[o].id
           q == IF op[o].kind \in {"flush", "reload"} THEN [op[o] EXCEPT !.pc = "wait"] ELSE Free
<1>1. /\ op \in [Ops -> Operations(version)] /\ version \in Nat /\ op[o] \in Operations(version)
      /\ loading \in Ops \cup {None} /\ inflight \in [Ids -> Ops \cup {None}]
      /\ Awaited(op, loading, inflight)
  BY DEF IInv, Types, OpTypes, EngineTypes, PageTypes
<1>2. id \in Ids /\ op[o].on = {}
  BY <1>1 DEF Operations, Unnamed
<1>3. q \in Operations(version) /\ q.on = {}
  <2>1. CASE op[o].kind \in {"flush", "reload"}
    <3>1. [op[o] EXCEPT !.pc = "wait"] \in Operations(version)
      BY <1>1, <2>1 DEF Operations, Unnamed, Points
    <3>2. [op[o] EXCEPT !.pc = "wait"].on = op[o].on
      BY <1>1 DEF Operations
    <3> QED BY <1>2, <2>1, <3>1, <3>2
  <2>2. CASE op[o].kind \notin {"flush", "reload"}
    BY <1>1, <2>2, FreeType
  <2> QED BY <2>1, <2>2
<1>4. /\ inflight' \in [Ids -> Ops \cup {None}]
      /\ \A i \in Ids : inflight'[i] = IF i = id /\ inflight[i] = o THEN None ELSE inflight[i]
  <2>1. inflight' = [inflight EXCEPT ![id] = IF @ = o THEN None ELSE @]
    BY DEF PersistEnds
  <2> HIDE DEF id
  <2> QED BY <1>1, <1>2, <2>1
<1>5. Settles(op, o, q, id, loading, inflight, loading', inflight')
  <2>1. \A x \in Ids \cup {"load"} : Owes(op[o], x) => x = id
    BY DEF Owes
  <2>2. id # "load"
    BY <1>2
  <2> HIDE DEF q, id
  <2>3. \A i \in Ids : inflight'[i] # None => inflight'[i] = inflight[i] /\ (inflight[i] # o \/ i # id)
    BY <1>2, <1>4
  <2> QED BY <1>3, <2>1, <2>2, <2>3 DEF Settles
<1>6. CASE ok \/ op[o].kind # "save"
  <2>1. op' = Resolved([op EXCEPT ![o] = q], <<o, id>>)
    BY <1>6 DEF PersistEnds
  <2> HIDE DEF q, id
  <2> QED BY <1>1, <1>2, <1>3, <1>4, <1>5, <2>1, ResolvedFine DEF OpTypes
<1>7. CASE ~(ok \/ op[o].kind # "save")
  <2>1. op' = Rejected([op EXCEPT ![o] = q], <<o, id>>)
    BY <1>7 DEF PersistEnds
  <2> HIDE DEF q, id
  <2> QED BY <1>1, <1>2, <1>3, <1>4, <1>5, <2>1, RejectedFine DEF OpTypes
<1> QED BY <1>4, <1>6, <1>7

LEMMA ExportedKeeps ==
  ASSUME IInv, NEW o \in Ops, Exported(o)
  PROVE  IInv'
<1>1. /\ Answered \in Responses(version) /\ op[o].pc = "export" /\ op[o] \in Operations(version)
      /\ version' = version /\ (disk' \in Seq(Ops) => StoreTypes')
      /\ WorkerType(worker', version) => EngineTypes'
  BY Handled DEF Exported
<1>2. /\ loading' = loading /\ UNCHANGED <<loadedId, shown, autosave, saveVars, undo, started>>
      /\ WorkerType(worker, version) /\ disk \in Seq(Ops) /\ Append(disk, o) \in Seq(Ops)
  BY DEF Exported, Answer, IInv, Types, EngineTypes, StoreTypes
<1>3. inflight' \in [Ids -> Ops \cup {None}] => PageTypes'
  BY <1>1, <1>2 DEF saveVars, IInv, Types, PageTypes
<1>4. CASE ~Answered.ok
  <2>1. PersistEnds(o, FALSE) /\ UNCHANGED <<worker, disk>>
    BY <1>4 DEF Exported
  <2>2. /\ OpTypes' /\ Awaited(op', loading', inflight')
        /\ inflight' \in [Ids -> Ops \cup {None}]
    BY <1>1, <1>2, <2>1, PersistEnded
  <2> QED BY <1>1, <1>2, <1>3, <2>1, <2>2 DEF IInv, Types
<1>5. CASE Answered.ok
  <2> DEFINE q(pc) == [op[o] EXCEPT !.pc = pc, !.xml = Answered.doc]
             r == Request(o, "getCharacter", NoDoc)
  <2>1. PICK pc \in {"summary", "put"} :
          /\ op' = [op EXCEPT ![o] = q(pc)]
          /\ inflight' = inflight
          /\ disk' \in Seq(Ops)
          /\ worker' = worker \/ worker' = Sent(worker, r)
    BY <1>2, <1>5 DEF Exported, Post
  <2>2. /\ q(pc) \in Operations(version) /\ q(pc).pc = pc /\ q(pc).id = op[o].id
        /\ q(pc).on = op[o].on
    BY <1>1 DEF Operations, Unnamed, Points, Responses
  <2>3. r \in Requests(version)
    BY <1>1 DEF Operations, Unnamed, Request, Requests, Methods, Docs, NoDoc, IInv, Types, EngineTypes
  <2>4. EngineTypes' /\ StoreTypes'
    BY <1>1, <1>2, <2>1, <2>3, Asked
  <2>5. PageTypes'
    BY <1>3, <2>1 DEF IInv, Types, PageTypes
  <2>6. \A x \in Ids \cup {"load"} : Owes(op[o], x) => Owes(q(pc), x)
    BY <1>1, <2>2 DEF Owes
  <2> HIDE DEF q
  <2>7. OpTypes' /\ Awaited(op', loading', inflight')
    BY <1>1, <1>2, <2>1, <2>2, <2>6, Goes
  <2> QED BY <2>4, <2>5, <2>7 DEF IInv, Types
<1> QED BY <1>4, <1>5

LEMMA SummarisedKeeps ==
  ASSUME IInv, NEW o \in Ops, Summarised(o)
  PROVE  IInv'
<1>1. /\ Answered \in Responses(version) /\ op[o].pc = "summary" /\ op[o] \in Operations(version)
      /\ version' = version /\ (disk' \in Seq(Ops) => StoreTypes')
      /\ WorkerType(worker', version) => EngineTypes'
  BY Handled DEF Summarised
<1>2. /\ loading' = loading /\ UNCHANGED <<loadedId, shown, autosave, saveVars, undo, started>>
      /\ WorkerType(worker', version) /\ disk \in Seq(Ops) /\ Append(disk, o) \in Seq(Ops)
  BY <1>1 DEF Summarised, Answer, IInv, Types, EngineTypes, StoreTypes
<1>3. inflight' \in [Ids -> Ops \cup {None}] => PageTypes'
  BY <1>1, <1>2 DEF saveVars, IInv, Types, PageTypes
<1>4. CASE ~Answered.ok
  <2>1. PersistEnds(o, FALSE) /\ UNCHANGED disk
    BY <1>4 DEF Summarised
  <2>2. /\ OpTypes' /\ Awaited(op', loading', inflight')
        /\ inflight' \in [Ids -> Ops \cup {None}]
    BY <1>1, <1>2, <2>1, PersistEnded
  <2> QED BY <1>1, <1>2, <1>3, <2>1, <2>2 DEF IInv, Types
<1>5. CASE Answered.ok
  <2> DEFINE q == [op[o] EXCEPT !.pc = "put"]
  <2>1. op' = [op EXCEPT ![o] = q] /\ inflight' = inflight /\ disk' \in Seq(Ops)
    BY <1>2, <1>5 DEF Summarised
  <2>2. q \in Operations(version) /\ q.pc = "put" /\ q.id = op[o].id /\ q.on = op[o].on
    BY <1>1 DEF Operations, Unnamed, Points
  <2>3. PageTypes'
    BY <1>3, <2>1 DEF IInv, Types, PageTypes
  <2>4. \A x \in Ids \cup {"load"} : Owes(op[o], x) => Owes(q, x)
    BY <1>1, <2>2 DEF Owes
  <2> HIDE DEF q
  <2>5. OpTypes' /\ Awaited(op', loading', inflight')
    BY <1>1, <1>2, <2>1, <2>2, <2>4, Goes
  <2> QED BY <1>1, <1>2, <2>1, <2>3, <2>5 DEF IInv, Types
<1> QED BY <1>4, <1>5

LEMMA PutKeeps ==
  ASSUME IInv, NEW o \in Ops, PutDone(o) \/ PutFails(o)
  PROVE  IInv'
<1>1. /\ op[o].pc = "put" /\ op[o] \in Operations(version) /\ version' = version
      /\ disk' \in Seq(Ops)
      /\ WorkerType(worker', version) => EngineTypes'
  BY Completed DEF PutDone, PutFails
<1>2. /\ UNCHANGED <<worker, loadedId, loading, sequence, timers, undo, shown, autosave, started>>
      /\ \E ok \in BOOLEAN : PersistEnds(o, ok)
  BY DEF PutDone, PutFails, Completes, saveVars
<1>3. /\ OpTypes' /\ Awaited(op', loading', inflight')
      /\ inflight' \in [Ids -> Ops \cup {None}]
  BY <1>1, <1>2, PersistEnded
<1>4. EngineTypes'
  BY <1>1, <1>2 DEF IInv, Types, EngineTypes
<1>5. store' \in [Ids -> Docs(version)]
  BY <1>1 DEF PutDone, PutFails, IInv, Types, StoreTypes, Operations
<1>6. StoreTypes'
  BY <1>1, <1>5 DEF StoreTypes
<1>7. dirty' \in [Ids -> 0..sequence]
  <2>1. dirty \in [Ids -> 0..sequence] /\ sequence \in Nat
    BY DEF IInv, Types, PageTypes
  <2>2. dirty' = dirty \/ dirty' = [dirty EXCEPT ![op[o].id] = 0]
    BY DEF PutDone, PutFails, MarkCleanIfCurrent, saveVars
  <2> QED BY <2>1, <2>2
<1>8. PageTypes'
  BY <1>1, <1>2, <1>3, <1>7 DEF IInv, Types, PageTypes
<1> QED BY <1>3, <1>4, <1>6, <1>8 DEF IInv, Types

LEMMA TimerKeeps ==
  ASSUME IInv, NEW o \in Ops, NEW id \in Ids, TimerFires(o, id)
  PROVE  IInv'
<1> DEFINE p == [Free EXCEPT !.kind = "timer", !.id = id]
           q == Persisting(p, timers[id] = "bare")
           r == [op |-> o, method |-> "exportCharacterXml", id |-> id, doc |-> NoDoc]
<1>1. version \in Nat /\ NoDoc \in Docs(version) /\ dirty[id] \in Nat /\ version' = version
  BY DEF IInv, Types, EngineTypes, PageTypes, Docs, NoDoc, TimerFires, workerVars
<1>2. q \in Operations(version) /\ q.pc = "export" /\ q.id = id /\ q.on = {}
  BY <1>1 DEF Operations, Unnamed, Points, Persisting, Free, Kinds
<1>3. op' = [op EXCEPT ![o] = q] /\ op[o] = Free
  BY DEF TimerFires
<1>4. r \in Requests(version)
  BY <1>1, Requested DEF Methods
<1>5. EngineTypes'
  BY <1>4, Asked DEF TimerFires, Post, workerVars, IInv, Types, EngineTypes
<1>6. StoreTypes' /\ PageTypes'
  BY <1>1 DEF TimerFires, IInv, Types, StoreTypes, PageTypes
<1>7. OpTypes' /\ Awaited(op', loading', inflight')
  <2>1. \A x \in Ids \cup {"load"} : ~Owes(op[o], x)
    BY <1>3 DEF Owes, Free
  <2>2. Owes(q, id)
    BY <1>2 DEF Owes
  <2>3. /\ loading' = loading
        /\ \A i \in Ids : inflight'[i] \in {None, inflight[i]} \/ (inflight'[i] = o /\ Owes(q, i))
    BY <2>2 DEF TimerFires, IInv, Types, PageTypes
  <2>4. \A t \in q.on : t \in op[o].on
    BY <1>2
  <2> HIDE DEF q
  <2> QED BY <1>1, <1>2, <1>3, <2>1, <2>3, <2>4, Goes
<1> QED BY <1>5, <1>6, <1>7 DEF IInv, Types

----------------------------------------------------------------------------
\* ensureLoaded and open.

LEMMA ResumeLoadKeeps ==
  ASSUME IInv, NEW o \in Ops, ResumeLoad(o)
  PROVE  IInv'
<1>1. /\ op[o].pc = "wait" /\ op[o].on = {} /\ op[o] \in Operations(version) /\ version' = version
      /\ op[o].id \in Ids /\ NoDoc \in Docs(version)
      /\ disk \in Seq(Ops) /\ Append(disk, o) \in Seq(Ops)
  BY DEF ResumeLoad, Resumable, workerVars, IInv, Types, OpTypes, EngineTypes, StoreTypes,
         Operations, Unnamed, Docs, NoDoc, Showing
<1>2. /\ UNCHANGED <<workerVars, store, loadedId, saveVars, inflight, undo, autosave, shown, started>>
      /\ \A x \in Ids \cup {"load"} : ~Owes(op[o], x)
  BY <1>1 DEF ResumeLoad, Owes
<1>3. CASE loadedId = op[o].id
  <2> DEFINE q(pc) == [op[o] EXCEPT !.pc = pc]
  <2>1. Proceed(o) /\ UNCHANGED <<disk, loading>>
    BY <1>3 DEF ResumeLoad
  <2>2. PICK pc \in {"detail", "mutate"} : op' = [op EXCEPT ![o] = q(pc)]
    BY <2>1 DEF Proceed
  <2>3. q(pc) \in Operations(version) /\ q(pc).on = {}
    BY <1>1 DEF Operations, Unnamed, Points
  <2>4. WorkerType(worker', version)
    <3> DEFINE r(m) == Request(o, m, NoDoc)
    <3>1. \A m \in Methods : r(m) \in Requests(version)
      BY <1>1, Requested, Versions DEF Request
    <3>2. /\ r("getCharacter") \in Requests(version) /\ r("exportCharacterXml") \in Requests(version)
          /\ r("mutation") \in Requests(version)
      BY <3>1 DEF Methods
    <3>3. \/ worker' = Sent(worker, r("getCharacter")) \/ worker' = Sent(worker, r("mutation"))
          \/ worker' = Sent(Sent(worker, r("exportCharacterXml")), r("mutation"))
      BY <2>1 DEF Proceed
    <3> HIDE DEF r
    <3>4. version \in Nat
      BY DEF IInv, Types, EngineTypes
    <3>5. WorkerType(Sent(worker, r("exportCharacterXml")), version)
      BY <3>2, Asked
    <3>6. WorkerType(Sent(Sent(worker, r("exportCharacterXml")), r("mutation")), version)
      BY <3>2, <3>4, <3>5, Posted
    <3> QED BY <3>2, <3>3, <3>6, Asked
  <2>5. EngineTypes' /\ StoreTypes' /\ PageTypes'
    BY <1>2, <2>1, <2>4 DEF workerVars, saveVars, IInv, Types, EngineTypes, StoreTypes, PageTypes
  <2> HIDE DEF q
  <2>6. OpTypes' /\ Awaited(op', loading', inflight')
    <3>1. loading' = loading /\ inflight' = inflight
      BY <1>2, <2>1
    <3> QED BY <1>1, <1>2, <2>2, <2>3, <3>1, Goes
  <2> QED BY <2>5, <2>6 DEF IInv, Types
<1>4. CASE loadedId # op[o].id
  <2> DEFINE q == [op[o] EXCEPT !.pc = "get"]
  <2>1. /\ loading' = o /\ disk' = Append(disk, o) /\ op' = [op EXCEPT ![o] = q]
        /\ UNCHANGED worker
    BY <1>4 DEF ResumeLoad
  <2>2. q \in Operations(version) /\ q.on = {} /\ q.pc = "get"
    BY <1>1 DEF Operations, Unnamed, Points
  <2>3. EngineTypes' /\ StoreTypes' /\ PageTypes'
    BY <1>1, <1>2, <2>1 DEF workerVars, saveVars, IInv, Types, EngineTypes, StoreTypes, PageTypes
  <2>4. OpTypes' /\ Awaited(op', loading', inflight')
    <3>1. Owes(q, "load")
      BY <2>2 DEF Owes
    <3>2. inflight' = inflight
      BY <1>2
    <3> HIDE DEF q
    <3> QED BY <1>1, <1>2, <2>1, <2>2, <3>1, <3>2, Goes
  <2> QED BY <2>3, <2>4 DEF IInv, Types
<1> QED BY <1>3, <1>4

\* A load that ends settles what waited for it.
LEMMA LoadEnded ==
  ASSUME IInv, NEW o \in Ops, op[o].pc \in {"get", "create", "import", "loaded"},
         NEW q \in Operations(version), q.on = {}, LoadEnds(o), version' = version, inflight' = inflight,
         \/ op' = Resolved([op EXCEPT ![o] = q], <<o, "load">>)
         \/ op' = Rejected([op EXCEPT ![o] = q], <<o, "load">>)
  PROVE  OpTypes' /\ Awaited(op', loading', inflight') /\ loading' \in Ops \cup {None}
<1>1. /\ op \in [Ops -> Operations(version)] /\ version \in Nat /\ op[o] \in Operations(version)
      /\ loading \in Ops \cup {None} /\ inflight \in [Ids -> Ops \cup {None}]
      /\ Awaited(op, loading, inflight)
  BY DEF IInv, Types, OpTypes, EngineTypes, PageTypes
<1>2. \A x \in Ids \cup {"load"} : Owes(op[o], x) => x = "load"
  BY DEF Owes
<1>3. \A id \in Ids : inflight'[id] # None => inflight'[id] = inflight[id] /\ (inflight[id] # o \/ id # "load")
  OBVIOUS
<1>4. Settles(op, o, q, "load", loading, inflight, loading', inflight')
  BY <1>2, <1>3 DEF Settles, LoadEnds
<1>5. CASE op' = Resolved([op EXCEPT ![o] = q], <<o, "load">>)
  BY <1>1, <1>4, <1>5, ResolvedFine DEF LoadEnds, OpTypes
<1>6. CASE op' = Rejected([op EXCEPT ![o] = q], <<o, "load">>)
  BY <1>1, <1>4, <1>6, RejectedFine DEF LoadEnds, OpTypes
<1> QED BY <1>5, <1>6

LEMMA GotKeeps ==
  ASSUME IInv, NEW o \in Ops, Got(o)
  PROVE  IInv'
<1>1. /\ op[o].pc = "get" /\ op[o] \in Operations(version) /\ version' = version
      /\ disk' \in Seq(Ops) /\ op[o].id \in Ids
      /\ WorkerType(worker', version) => EngineTypes'
  BY Completed DEF Got, Operations, Unnamed
<1>2. /\ StoreTypes' /\ UNCHANGED <<loadedId, saveVars, inflight, undo, shown, autosave, started>>
      /\ WorkerType(worker, version)
  BY <1>1 DEF Got, Completes, IInv, Types, StoreTypes, EngineTypes
<1>3. loading' \in Ops \cup {None} => PageTypes'
  BY <1>1, <1>2 DEF saveVars, IInv, Types, PageTypes
<1>4. CASE store[op[o].id] = NoDoc
  <2>1. /\ op' = Rejected([op EXCEPT ![o] = Free], <<o, "load">>)
        /\ LoadEnds(o) /\ UNCHANGED worker
    BY <1>4 DEF Got
  <2>2. Free \in Operations(version) /\ Free.on = {}
    BY FreeType DEF IInv, Types, EngineTypes
  <2> HIDE DEF Free
  <2>3. OpTypes' /\ Awaited(op', loading', inflight') /\ loading' \in Ops \cup {None}
    BY <1>1, <1>2, <2>1, <2>2, LoadEnded
  <2> QED BY <1>1, <1>2, <1>3, <2>1, <2>3 DEF IInv, Types
<1>5. CASE store[op[o].id] # NoDoc
  <2> DEFINE d == store[op[o].id]
             q == [op[o] EXCEPT !.pc = "create", !.xml = d]
             r == Request(o, "createCharacter", NoDoc)
  <2>1. /\ op' = [op EXCEPT ![o] = q] /\ loading' = loading /\ worker' = Sent(worker, r)
        /\ inflight' = inflight
    BY <1>2, <1>5 DEF Got, Post
  <2>2. d \in Docs(version)
    BY <1>1 DEF IInv, Types, StoreTypes
  <2>3. q \in Operations(version) /\ q.on = op[o].on /\ q.pc = "create" /\ q.id = op[o].id
    BY <1>1, <2>2 DEF Operations, Unnamed, Points
  <2>4. r \in Requests(version)
    BY <1>1, Requested, Versions DEF Request, Methods
  <2>5. EngineTypes' /\ PageTypes'
    BY <1>1, <1>3, <2>1, <2>4, Asked DEF IInv, Types, PageTypes
  <2>6. \A x \in Ids \cup {"load"} : Owes(op[o], x) => Owes(q, x)
    BY <1>1, <2>3 DEF Owes
  <2> HIDE DEF q
  <2>7. OpTypes' /\ Awaited(op', loading', inflight')
    BY <1>1, <2>1, <2>3, <2>6, Goes
  <2> QED BY <1>2, <2>5, <2>7 DEF IInv, Types
<1> QED BY <1>4, <1>5

LEMMA CreatedKeeps ==
  ASSUME IInv, NEW o \in Ops, Created(o)
  PROVE  IInv'
<1> DEFINE q == [op[o] EXCEPT !.pc = "import"]
           r == Request(o, "importCharacterXml", op[o].xml)
<1>1. /\ op[o].pc = "create" /\ op[o] \in Operations(version) /\ version' = version
      /\ disk' \in Seq(Ops) => StoreTypes'
      /\ WorkerType(worker', version) => EngineTypes'
  BY Handled DEF Created
<1>2. /\ q \in Operations(version) /\ q.pc = "import" /\ q.id = op[o].id /\ q.on = op[o].on
      /\ op' = [op EXCEPT ![o] = q]
  BY <1>1 DEF Operations, Unnamed, Created, Points, IInv, Types, OpTypes
<1>3. r \in Requests(version)
  BY <1>1 DEF Operations, Unnamed, Request, Requests, Methods
<1>4. EngineTypes'
  BY <1>1, <1>3, Asked DEF Created, Post
<1>5. StoreTypes' /\ PageTypes'
  BY <1>1 DEF Created, Answer, saveVars, IInv, Types, StoreTypes, PageTypes
<1>6. OpTypes' /\ Awaited(op', loading', inflight')
  <2>1. \A x \in Ids \cup {"load"} : Owes(op[o], x) => Owes(q, x)
    BY <1>1, <1>2 DEF Owes
  <2> HIDE DEF q
  <2>2. loading' = loading /\ inflight' = inflight
    BY DEF Created
  <2> QED BY <1>1, <1>2, <2>1, <2>2, Goes
<1> QED BY <1>4, <1>5, <1>6 DEF IInv, Types
LEMMA ImportedKeeps ==
  ASSUME IInv, NEW o \in Ops, Imported(o)
  PROVE  IInv'
<1> DEFINE q == [op[o] EXCEPT !.pc = "loaded"]
           r == Request(o, "getCharacter", NoDoc)
<1>1. /\ op[o].pc = "import" /\ op[o] \in Operations(version) /\ version' = version
      /\ disk' \in Seq(Ops) => StoreTypes'
      /\ WorkerType(worker', version) => EngineTypes'
  BY Handled DEF Imported
<1>2. /\ q \in Operations(version) /\ q.pc = "loaded" /\ q.id = op[o].id /\ q.on = op[o].on
      /\ op' = [op EXCEPT ![o] = q] /\ op[o].id \in Ids
  BY <1>1 DEF Operations, Unnamed, Imported, Points, IInv, Types, OpTypes
<1>3. r \in Requests(version)
  BY <1>2, Requested, Versions DEF Request, Methods
<1>4. EngineTypes'
  BY <1>1, <1>3, Asked DEF Imported, Post
<1>5. StoreTypes'
  BY <1>1 DEF Imported, IInv, Types, StoreTypes
<1>6. PageTypes'
  <2>1. /\ undo' = [undo EXCEPT ![op[o].id] = <<>>] /\ loadedId' = op[o].id
        /\ UNCHANGED <<loading, saveVars, inflight, shown, autosave, started>>
    BY DEF Imported, Answer
  <2>2. undo' \in [Ids -> Seq(Entries(version))] /\ \A id \in Ids : Len(undo'[id]) <= UndoLimit
    BY <1>2, <2>1 DEF IInv, Types, PageTypes
  <2> QED BY <1>1, <1>2, <2>1, <2>2 DEF saveVars, IInv, Types, PageTypes
<1>7. OpTypes' /\ Awaited(op', loading', inflight')
  <2>1. \A x \in Ids \cup {"load"} : Owes(op[o], x) => Owes(q, x)
    BY <1>1, <1>2 DEF Owes
  <2> HIDE DEF q
  <2>2. loading' = loading /\ inflight' = inflight
    BY DEF Imported
  <2> QED BY <1>1, <1>2, <2>1, <2>2, Goes
<1> QED BY <1>4, <1>5, <1>6, <1>7 DEF IInv, Types

LEMMA LoadedKeeps ==
  ASSUME IInv, NEW o \in Ops, Loaded(o)
  PROVE  IInv'
<1>1. /\ op[o].pc = "loaded" /\ op[o] \in Operations(version) /\ version' = version
      /\ disk' \in Seq(Ops) => StoreTypes'
      /\ WorkerType(worker', version) => EngineTypes'
  BY Handled DEF Loaded
<1>2. /\ UNCHANGED <<worker, disk, saveVars, inflight, undo, shown, autosave, started>>
      /\ LoadEnds(o) /\ loadedId' \in {loadedId, None}
  BY DEF Loaded, Answer
<1>3. EngineTypes' /\ StoreTypes'
  BY <1>1, <1>2 DEF IInv, Types, EngineTypes, StoreTypes
<1>4. PICK q \in Operations(version) :
        /\ q.on = {}
        /\ \/ op' = Resolved([op EXCEPT ![o] = q], <<o, "load">>)
           \/ op' = Rejected([op EXCEPT ![o] = q], <<o, "load">>)
  <2> DEFINE w == [op[o] EXCEPT !.pc = "wait", !.xml = NoDoc]
  <2>1. Free \in Operations(version) /\ Free.on = {}
    BY FreeType DEF IInv, Types, EngineTypes
  <2>2. /\ NoDoc \in Docs(version) /\ op[o].id \in Ids /\ op[o].on = {}
    BY <1>1 DEF IInv, Types, EngineTypes, Docs, NoDoc, Operations, Unnamed
  <2>3. w \in Operations(version) /\ w.on = {}
    BY <1>1, <2>2 DEF Operations, Unnamed, Points
  <2>4. \/ op' = Resolved([op EXCEPT ![o] = Free], <<o, "load">>)
        \/ op' = Resolved([op EXCEPT ![o] = w], <<o, "load">>)
        \/ op' = Rejected([op EXCEPT ![o] = Free], <<o, "load">>)
    BY DEF Loaded
  <2> HIDE DEF Free, w
  <2> QED BY <2>1, <2>3, <2>4
<1>5. OpTypes' /\ Awaited(op', loading', inflight') /\ loading' \in Ops \cup {None}
  BY <1>1, <1>2, <1>4, LoadEnded
<1>6. PageTypes'
  BY <1>1, <1>2, <1>5 DEF saveVars, IInv, Types, PageTypes
<1> QED BY <1>3, <1>5, <1>6 DEF IInv, Types

LEMMA DetailedKeeps ==
  ASSUME IInv, NEW o \in Ops, Detailed(o)
  PROVE  IInv'
<1>1. /\ op[o].pc = "detail" /\ version' = version
      /\ disk' \in Seq(Ops) => StoreTypes'
      /\ WorkerType(worker', version) => EngineTypes'
  BY Handled DEF Detailed
<1>2. EngineTypes' /\ StoreTypes' /\ PageTypes'
  BY <1>1 DEF Detailed, Answer, saveVars, IInv, Types, EngineTypes, StoreTypes, PageTypes
<1>3. OpTypes' /\ Awaited(op', loading', inflight')
  BY <1>1, Ends DEF Detailed, Owes
<1> QED BY <1>2, <1>3 DEF IInv, Types

----------------------------------------------------------------------------
\* Mutations.

\* PushUndo, Schedule: the page's marks after an edit.
LEMMA Marked ==
  ASSUME IInv, NEW id \in Ids, version' = version,
         \/ undo' = undo
         \/ \E before \in Docs(version), was \in Docs(version) :
              PushUndo(id, [xml |-> before, was |-> was]),
         \E bare \in BOOLEAN : Schedule(id, bare),
         loadedId' \in Ids \cup {None},
         UNCHANGED <<loading, inflight, shown, autosave, started>>
  PROVE  PageTypes'
<1>1. /\ undo \in [Ids -> Seq(Entries(version))] /\ \A i \in Ids : Len(undo[i]) <= UndoLimit
      /\ sequence \in Nat /\ dirty \in [Ids -> 0..sequence]
      /\ timers \in [Ids -> {"off", "bare", "detail"}]
  BY DEF IInv, Types, PageTypes
<1>2. undo' \in [Ids -> Seq(Entries(version))] /\ \A i \in Ids : Len(undo'[i]) <= UndoLimit
  <2>1. CASE undo' = undo
    BY <1>1, <2>1
  <2>2. CASE undo' # undo
    <3>1. PICK e \in Entries(version) : PushUndo(id, e)
      BY <2>2 DEF Entries
    <3> DEFINE stack == Append(undo[id], e)
               top == IF Len(stack) > UndoLimit THEN Tail(stack) ELSE stack
    <3>2. stack \in Seq(Entries(version)) /\ Len(stack) = Len(undo[id]) + 1
      BY <1>1
    <3>3. undo' = [undo EXCEPT ![id] = top]
      BY <3>1 DEF PushUndo
    <3>4. top \in Seq(Entries(version)) /\ Len(top) <= UndoLimit
      <4> HIDE DEF stack
      <4>1. Len(undo[id]) \in Nat /\ Len(undo[id]) <= UndoLimit
        BY <1>1
      <4>2. CASE Len(stack) > UndoLimit
        <5>1. stack # <<>>
          BY <3>2, <4>1
        <5>2. Tail(stack) \in Seq(Entries(version)) /\ Len(Tail(stack)) = Len(stack) - 1
          BY <3>2, <5>1
        <5> QED BY <3>2, <4>1, <4>2, <5>2
      <4>3. CASE ~(Len(stack) > UndoLimit)
        BY <3>2, <4>1, <4>3
      <4> QED BY <4>2, <4>3
    <3> HIDE DEF top
    <3> QED BY <1>1, <3>3, <3>4
  <2> QED BY <2>1, <2>2
<1>3. /\ sequence' \in Nat /\ dirty' \in [Ids -> 0..sequence']
      /\ timers' \in [Ids -> {"off", "bare", "detail"}]
  <2>1. sequence' = sequence + 1 /\ dirty' = [dirty EXCEPT ![id] = sequence + 1]
    BY DEF Schedule
  <2>2. \/ timers' = timers \/ timers' = [timers EXCEPT ![id] = "bare"]
        \/ timers' = [timers EXCEPT ![id] = "detail"]
    BY DEF Schedule
  <2>3. sequence' \in Nat /\ 0..sequence \subseteq 0..sequence' /\ sequence + 1 \in 0..sequence'
    BY <1>1, <2>1
  <2>4. dirty' \in [Ids -> 0..sequence']
    BY <1>1, <2>1, <2>3
  <2>5. timers' \in [Ids -> {"off", "bare", "detail"}]
    BY <1>1, <2>2
  <2> QED BY <2>3, <2>4, <2>5
<1> QED BY <1>2, <1>3 DEF IInv, Types, PageTypes

\* mutateDetail ends in slot o.
LEMMA EditedKeeps ==
  ASSUME IInv, NEW o \in Ops, version' = version, op[o] \in Operations(version),
         op[o].pc \in {"mutateOnly", "before"},
         NEW before \in Docs(version), NEW was \in Docs(version), Edited(o, before, was),
         EngineTypes', StoreTypes', loadedId' \in Ids \cup {None},
         UNCHANGED <<loading, inflight, shown, autosave, started>>
  PROVE  IInv'
<1>1. op[o].id \in Ids
  BY DEF Operations, Unnamed
<1>2. PageTypes'
  <2>1. undo' = undo \/ PushUndo(op[o].id, [xml |-> before, was |-> was])
    BY DEF Edited
  <2>2. \E bare \in BOOLEAN : Schedule(op[o].id, bare)
    BY DEF Edited
  <2> QED BY <1>1, <2>1, <2>2, Marked
<1>3. OpTypes' /\ Awaited(op', loading', inflight')
  BY Ends DEF Edited, Owes
<1> QED BY <1>2, <1>3 DEF IInv, Types

LEMMA MutatedKeeps ==
  ASSUME IInv, NEW o \in Ops, NEW pc \in {"mutate", "mutateOnly"}, Mutated(o, pc)
  PROVE  IInv'
<1>1. /\ Answered \in Responses(version) /\ op[o].pc = pc /\ op[o] \in Operations(version)
      /\ version' = version
      /\ disk' \in Seq(Ops) => StoreTypes'
      /\ WorkerType(worker', version) => EngineTypes'
  BY Handled DEF Mutated
<1>2. UNCHANGED <<worker, disk, loading, inflight, shown, autosave, started>>
  BY DEF Mutated, Answer
<1>3. EngineTypes' /\ StoreTypes' /\ op[o].id \in Ids /\ Answered.was \in Docs(version)
  BY <1>1, <1>2 DEF IInv, Types, EngineTypes, StoreTypes, Operations, Unnamed, Responses
<1>4. CASE Answered.ok /\ pc = "mutateOnly"
  <2>1. op[o].before \in Docs(version)
    BY <1>1 DEF Operations
  <2>2. loadedId' = op[o].id /\ Edited(o, op[o].before, Answered.was)
    BY <1>4 DEF Mutated
  <2> QED BY <1>1, <1>2, <1>3, <1>4, <2>1, <2>2, EditedKeeps
<1>5. CASE Answered.ok /\ pc = "mutate"
  <2> DEFINE q == [op[o] EXCEPT !.pc = "before", !.was = Answered.was]
  <2>1. loadedId' = op[o].id /\ op' = [op EXCEPT ![o] = q] /\ UNCHANGED <<saveVars, undo>>
    BY <1>5 DEF Mutated
  <2>2. q \in Operations(version) /\ q.on = op[o].on /\ q.pc = "before" /\ q.id = op[o].id
    BY <1>1, <1>3 DEF Operations, Unnamed, Points
  <2>3. PageTypes'
    BY <1>1, <1>2, <1>3, <2>1 DEF saveVars, IInv, Types, PageTypes
  <2>4. \A x \in Ids \cup {"load"} : Owes(op[o], x) => Owes(q, x)
    BY <1>1 DEF Owes
  <2> HIDE DEF q
  <2>5. OpTypes' /\ Awaited(op', loading', inflight')
    BY <1>1, <1>2, <2>1, <2>2, <2>4, Goes
  <2> QED BY <1>3, <2>3, <2>5 DEF IInv, Types
<1>6. CASE ~Answered.ok
  <2> DEFINE i == [Free EXCEPT !.pc = "ignore"]
  <2>1. UNCHANGED <<loadedId, saveVars, undo>>
    BY <1>6 DEF Mutated
  <2>2. PageTypes'
    BY <1>1, <1>2, <2>1 DEF saveVars, IInv, Types, PageTypes
  <2>3. i \in Operations(version) /\ i.on = {}
    BY Versions DEF Operations, Unnamed, Points, Free
  <2>4. Free \in Operations(version) /\ Free.on = {}
    BY FreeType, Versions
  <2>5. op' = [op EXCEPT ![o] = Free] \/ op' = [op EXCEPT ![o] = i]
    BY <1>6 DEF Mutated
  <2>6. \A x \in Ids \cup {"load"} : ~Owes(op[o], x)
    BY <1>1 DEF Owes
  <2> HIDE DEF i, Free
  <2>7. OpTypes' /\ Awaited(op', loading', inflight')
    BY <1>1, <1>2, <2>3, <2>4, <2>5, <2>6, Goes
  <2> QED BY <1>3, <2>2, <2>7 DEF IInv, Types
<1> QED BY <1>4, <1>5, <1>6 DEF Mutated

LEMMA BeforeKeeps ==
  ASSUME IInv, NEW o \in Ops, BeforeArrives(o)
  PROVE  IInv'
<1> DEFINE before == IF Answered.ok THEN Answered.doc ELSE NoDoc
<1>1. PICK pc \in {"mutate", "before", "ignore"} : Answer(o, "exportCharacterXml", pc)
  BY DEF BeforeArrives
<1>2. /\ Answered \in Responses(version) /\ op[o].pc = pc /\ op[o] \in Operations(version)
      /\ version' = version
      /\ disk' \in Seq(Ops) => StoreTypes'
      /\ WorkerType(worker', version) => EngineTypes'
  BY <1>1, Handled
<1>3. UNCHANGED <<worker, disk, loadedId, loading, inflight, shown, autosave, started>>
  BY <1>1 DEF BeforeArrives, Answer
<1>4. EngineTypes' /\ StoreTypes' /\ before \in Docs(version) /\ loadedId \in Ids \cup {None}
  BY <1>2, <1>3, Versions DEF IInv, Types, EngineTypes, StoreTypes, PageTypes, Responses
<1>5. UNCHANGED <<saveVars, undo>> => PageTypes'
  BY <1>2, <1>3 DEF saveVars, IInv, Types, PageTypes
<1>6. CASE pc = "mutate"
  <2> DEFINE q == [op[o] EXCEPT !.before = before, !.pc = "mutateOnly"]
  <2>1. op' = [op EXCEPT ![o] = q] /\ UNCHANGED <<saveVars, undo>>
    BY <1>2, <1>6 DEF BeforeArrives, Answer
  <2> HIDE DEF before
  <2>2. q \in Operations(version) /\ q.on = op[o].on
    BY <1>2, <1>4, <1>6 DEF Operations, Unnamed, Points
  <2>3. \A x \in Ids \cup {"load"} : ~Owes(op[o], x)
    BY <1>2, <1>6 DEF Owes
  <2> HIDE DEF q
  <2>4. OpTypes' /\ Awaited(op', loading', inflight')
    BY <1>2, <1>3, <2>1, <2>2, <2>3, Goes
  <2> QED BY <1>4, <1>5, <2>1, <2>4 DEF IInv, Types
<1>7. CASE pc = "before"
  <2>1. Edited(o, before, op[o].was)
    BY <1>2, <1>7 DEF BeforeArrives, Answer
  <2>2. op[o].was \in Docs(version)
    BY <1>2 DEF Operations
  <2> HIDE DEF before
  <2> QED BY <1>2, <1>3, <1>4, <1>7, <2>1, <2>2, EditedKeeps
<1>8. CASE pc = "ignore"
  <2>1. op' = [op EXCEPT ![o] = Free] /\ UNCHANGED <<saveVars, undo>>
    BY <1>2, <1>8 DEF BeforeArrives, Answer
  <2>2. OpTypes' /\ Awaited(op', loading', inflight')
    BY <1>2, <1>3, <1>8, <2>1, Ends DEF Owes
  <2> QED BY <1>4, <1>5, <2>1, <2>2 DEF IInv, Types
<1> QED BY <1>6, <1>7, <1>8

LEMMA DurableKeeps ==
  ASSUME IInv, NEW o \in Ops, DurablyMutated(o)
  PROVE  IInv'
<1>1. /\ op[o].pc = "mutate" /\ op[o] \in Operations(version) /\ version' = version
      /\ disk' \in Seq(Ops) => StoreTypes'
      /\ WorkerType(worker', version) => EngineTypes'
  BY Handled DEF DurablyMutated
<1>2. /\ UNCHANGED <<disk, loading, saveVars, inflight, undo, shown, autosave, started>>
      /\ op[o].id \in Ids /\ WorkerType(worker, version) /\ disk \in Seq(Ops)
  BY <1>1 DEF DurablyMutated, Answer, Operations, Unnamed, IInv, Types, EngineTypes, StoreTypes
<1>3. \A x \in Ids \cup {"load"} : ~Owes(op[o], x)
  BY <1>1 DEF Owes
<1>4. CASE Answered.ok
  <2> DEFINE q(bare) == Persisting(op[o], bare)
             r == Request(o, "exportCharacterXml", NoDoc)
  <2>1. /\ loadedId' = op[o].id /\ worker' = Sent(worker, r)
    BY <1>4 DEF DurablyMutated, Post
  <2>2. PICK bare \in BOOLEAN : op' = [op EXCEPT ![o] = q(bare)]
    BY <1>4 DEF DurablyMutated
  <2>3. q(bare) \in Operations(version) /\ q(bare).on = op[o].on
    <3>1. dirty[op[o].id] \in Nat
      BY <1>2 DEF IInv, Types, PageTypes
    <3> QED BY <1>1, <1>2, <3>1 DEF Persisting, Operations, Unnamed, Points
  <2>4. r \in Requests(version)
    BY <1>2, Requested, Versions DEF Request, Methods
  <2>5. EngineTypes' /\ StoreTypes'
    BY <1>1, <1>2, <2>1, <2>4, Asked
  <2>6. PageTypes'
    BY <1>1, <1>2, <2>1 DEF saveVars, IInv, Types, PageTypes
  <2> HIDE DEF q
  <2>7. OpTypes' /\ Awaited(op', loading', inflight')
    BY <1>1, <1>2, <1>3, <2>2, <2>3, Goes
  <2> QED BY <2>5, <2>6, <2>7 DEF IInv, Types
<1>5. CASE ~Answered.ok
  <2>1. op' = [op EXCEPT ![o] = Free] /\ UNCHANGED <<worker, loadedId>>
    BY <1>5 DEF DurablyMutated
  <2>2. EngineTypes' /\ StoreTypes'
    BY <1>1, <1>2, <2>1
  <2>3. PageTypes'
    BY <1>1, <1>2, <2>1 DEF saveVars, IInv, Types, PageTypes
  <2>4. OpTypes' /\ Awaited(op', loading', inflight')
    BY <1>1, <1>2, <1>3, <2>1, Ends
  <2> QED BY <2>2, <2>3, <2>4 DEF IInv, Types
<1> QED BY <1>4, <1>5

----------------------------------------------------------------------------
\* Save, flush, undo, remove, content update.

\* Operation o, which owed nothing, begins a save as q.
LEMMA SaveBegins ==
  ASSUME IInv, NEW o \in Ops, version' = version, loading' = loading,
         \A x \in Ids \cup {"load"} : ~Owes(op[o], x),
         NEW q \in Operations(version), q.on = {}, q.pc = "export",
         op' = [op EXCEPT ![o] = q], inflight' = [inflight EXCEPT ![q.id] = o],
         UNCHANGED <<workerVars, store, disk, loadedId, loading, saveVars, undo, autosave, shown, started>>,
         worker' = Sent(worker, [op |-> o, method |-> "exportCharacterXml", id |-> q.id, doc |-> NoDoc])
  PROVE  IInv'
<1>1. q.id \in Ids
  BY DEF Operations, Unnamed
<1>2. [op |-> o, method |-> "exportCharacterXml", id |-> q.id, doc |-> NoDoc] \in Requests(version)
  BY <1>1, Requested, Versions DEF Methods
<1>3. EngineTypes'
  BY <1>2, Asked DEF workerVars, IInv, Types, EngineTypes
<1>4. StoreTypes' /\ PageTypes'
  BY DEF saveVars, IInv, Types, StoreTypes, PageTypes
<1>5. OpTypes' /\ Awaited(op', loading', inflight')
  <2>1. \A i \in Ids : inflight'[i] \in {None, inflight[i]} \/ (inflight'[i] = o /\ Owes(q, i))
    BY <1>1 DEF Owes, IInv, Types, PageTypes
  <2> QED BY <2>1, Goes
<1> QED BY <1>3, <1>4, <1>5 DEF IInv, Types

LEMMA ResumeSaveKeeps ==
  ASSUME IInv, NEW o \in Ops, ResumeSave(o)
  PROVE  IInv'
<1> DEFINE q == Persisting(op[o], TRUE)
<1>1. /\ op[o].pc = "wait" /\ op[o].on = {} /\ op[o].kind = "save" /\ op[o] \in Operations(version)
      /\ version' = version
  BY DEF ResumeSave, Resumable, workerVars, IInv, Types, OpTypes
<1>2. op[o].id \in Ids /\ dirty[op[o].id] \in Nat
  BY <1>1 DEF Operations, Unnamed, IInv, Types, PageTypes
<1>3. q \in Operations(version) /\ q.on = {} /\ q.pc = "export" /\ q.id = op[o].id
  BY <1>1, <1>2 DEF Persisting, Operations, Unnamed, Points
<1>4. /\ op' = [op EXCEPT ![o] = q] /\ inflight' = [inflight EXCEPT ![q.id] = o]
      /\ UNCHANGED <<workerVars, store, disk, loadedId, loading, saveVars, undo, autosave, shown, started>>
      /\ worker' = Sent(worker, [op |-> o, method |-> "exportCharacterXml", id |-> q.id, doc |-> NoDoc])
  BY <1>3 DEF ResumeSave, Post, Request
<1>5. \A x \in Ids \cup {"load"} : ~Owes(op[o], x)
  BY <1>1 DEF Owes
<1> HIDE DEF q
<1> QED BY <1>1, <1>3, <1>4, <1>5, SaveBegins

LEMMA ResumeFlushKeeps ==
  ASSUME IInv, NEW o \in Ops, ResumeFlush(o)
  PROVE  IInv'
<1>1. /\ op[o].pc = "wait" /\ op[o].on = {} /\ op[o].kind \in {"flush", "reload"}
      /\ op[o] \in Operations(version) /\ op[o].ids \subseteq Ids /\ version' = version
  BY DEF ResumeFlush, Resumable, workerVars, IInv, Types, OpTypes, Operations
<1>2. UNCHANGED <<workerVars, store, disk, loadedId, loading, saveVars, undo, autosave, shown, started>>
  BY DEF ResumeFlush
<1>3. \A x \in Ids \cup {"load"} : ~Owes(op[o], x)
  BY <1>1 DEF Owes
<1>4. CASE op[o].ids = {}
  <2> DEFINE q == [op[o] EXCEPT !.pc = "records", !.id = None]
  <2>1. /\ UNCHANGED <<worker, inflight>>
        /\ op' = [op EXCEPT ![o] = q] \/ op' = [op EXCEPT ![o] = Free]
    <3>1. \/ UNCHANGED <<worker, inflight>> /\ op' = [op EXCEPT ![o] = Free]
          \/ UNCHANGED <<worker, inflight>> /\ op' = [op EXCEPT ![o].pc = "records", ![o].id = None]
      BY <1>4 DEF ResumeFlush
    <3>2. op \in [Ops -> Operations(version)]
      BY DEF IInv, Types, OpTypes
    <3> QED BY <3>1, <3>2
  <2>2. q \in Operations(version) /\ q.on = {}
    BY <1>1 DEF Operations, Unnamed, Points
  <2>3. Free \in Operations(version) /\ Free.on = {}
    BY FreeType, Versions
  <2>4. EngineTypes' /\ StoreTypes' /\ PageTypes'
    BY <1>2, <2>1 DEF workerVars, saveVars, IInv, Types, EngineTypes, StoreTypes, PageTypes
  <2> HIDE DEF q, Free
  <2>5. OpTypes' /\ Awaited(op', loading', inflight')
    BY <1>1, <1>2, <1>3, <2>1, <2>2, <2>3, Goes
  <2> QED BY <2>4, <2>5 DEF IInv, Types
<1>5. CASE op[o].ids # {}
  <2>1. PICK id \in op[o].ids :
          /\ op' = [op EXCEPT ![o] = Persisting([@ EXCEPT !.id = id, !.ids = op[o].ids \ {id}], TRUE)]
          /\ Post([op |-> o, method |-> "exportCharacterXml", id |-> id, doc |-> NoDoc])
          /\ inflight' = [inflight EXCEPT ![id] = o]
    BY <1>5 DEF ResumeFlush
  <2> DEFINE p == [op[o] EXCEPT !.id = id, !.ids = @ \ {id}]
             q == Persisting(p, TRUE)
  <2>2. op' = [op EXCEPT ![o] = q]
    BY <2>1
  <2>3. id \in Ids /\ dirty[id] \in Nat
    BY <1>1 DEF IInv, Types, PageTypes
  <2>4. p \in Operations(version) /\ p.on = {} /\ p.id = id /\ p.kind = op[o].kind
    BY <1>1, <2>3 DEF Operations, Unnamed, Points
  <2> HIDE DEF p
  <2>5. q \in Operations(version) /\ q.on = {} /\ q.pc = "export" /\ q.id = id
    BY <2>3, <2>4 DEF Persisting, Operations, Unnamed, Points
  <2> HIDE DEF q
  <2>6. loading' = loading
    BY <1>2
  <2>7. worker' = Sent(worker, [op |-> o, method |-> "exportCharacterXml", id |-> q.id, doc |-> NoDoc])
    BY <2>1, <2>5 DEF Post
  <2> QED BY <1>1, <1>2, <1>3, <2>1, <2>2, <2>5, <2>6, <2>7, SaveBegins
<1> QED BY <1>4, <1>5

LEMMA RestoredKeeps ==
  ASSUME IInv, NEW o \in Ops, Restored(o)
  PROVE  IInv'
<1> DEFINE q == [op[o] EXCEPT !.pc = "restored"]
           r == Request(o, "getCharacter", NoDoc)
<1>1. /\ op[o].pc = "restore" /\ op[o] \in Operations(version) /\ version' = version
      /\ disk' \in Seq(Ops) => StoreTypes'
      /\ WorkerType(worker', version) => EngineTypes'
  BY Handled DEF Restored
<1>2. /\ q \in Operations(version) /\ q.on = op[o].on /\ op' = [op EXCEPT ![o] = q]
      /\ op[o].id \in Ids
  BY <1>1 DEF Operations, Unnamed, Restored, Points
<1>3. r \in Requests(version)
  BY <1>2, Requested, Versions DEF Request, Methods
<1>4. EngineTypes'
  BY <1>1, <1>3, Asked DEF Restored, Post
<1>5. StoreTypes' /\ PageTypes'
  BY <1>1, <1>2 DEF Restored, Answer, saveVars, IInv, Types, StoreTypes, PageTypes
<1>6. OpTypes' /\ Awaited(op', loading', inflight')
  <2>1. \A x \in Ids \cup {"load"} : ~Owes(op[o], x)
    BY <1>1 DEF Owes
  <2>2. loading' = loading /\ inflight' = inflight
    BY DEF Restored
  <2> HIDE DEF q
  <2> QED BY <1>1, <1>2, <2>1, <2>2, Goes
<1> QED BY <1>4, <1>5, <1>6 DEF IInv, Types

LEMMA UndoneKeeps ==
  ASSUME IInv, NEW o \in Ops, Undone(o)
  PROVE  IInv'
<1>1. /\ op[o].pc = "restored" /\ op[o] \in Operations(version) /\ version' = version
      /\ disk' \in Seq(Ops) => StoreTypes'
      /\ WorkerType(worker', version) => EngineTypes'
  BY Handled DEF Undone
<1>2. /\ UNCHANGED <<worker, disk, loadedId, loading, inflight, undo, shown, autosave, started>>
      /\ loadedId \in Ids \cup {None} /\ op[o].id \in Ids
  BY <1>1 DEF Undone, Answer, Operations, Unnamed, IInv, Types, PageTypes
<1>3. EngineTypes' /\ StoreTypes'
  BY <1>1, <1>2 DEF IInv, Types, EngineTypes, StoreTypes
<1>4. PageTypes'
  <2>1. CASE Answered.ok
    BY <1>1, <1>2, <2>1, Marked DEF Undone
  <2>2. CASE ~Answered.ok
    BY <1>1, <1>2, <2>2 DEF Undone, saveVars, IInv, Types, PageTypes
  <2> QED BY <2>1, <2>2
<1>5. OpTypes' /\ Awaited(op', loading', inflight')
  BY <1>1, <1>2, Ends DEF Undone, Owes
<1> QED BY <1>3, <1>4, <1>5 DEF IInv, Types

LEMMA DeletedKeeps ==
  ASSUME IInv, NEW o \in Ops, Deleted(o)
  PROVE  IInv'
<1> DEFINE q == [op[o] EXCEPT !.pc = "erase"]
<1>1. /\ op[o].pc = "delete" /\ op[o] \in Operations(version) /\ version' = version
      /\ disk' \in Seq(Ops) => StoreTypes'
      /\ WorkerType(worker', version) => EngineTypes'
  BY Handled DEF Deleted
<1>2. q \in Operations(version) /\ q.on = op[o].on /\ op' = [op EXCEPT ![o] = q]
  BY <1>1 DEF Operations, Unnamed, Deleted, Points
<1>3. EngineTypes' /\ StoreTypes' /\ PageTypes'
  BY <1>1 DEF Deleted, Answer, saveVars, IInv, Types, EngineTypes, StoreTypes, PageTypes
<1>4. OpTypes' /\ Awaited(op', loading', inflight')
  <2>1. \A x \in Ids \cup {"load"} : ~Owes(op[o], x)
    BY <1>1 DEF Owes
  <2>2. loading' = loading /\ inflight' = inflight
    BY DEF Deleted
  <2> HIDE DEF q
  <2> QED BY <1>1, <1>2, <2>1, <2>2, Goes
<1> QED BY <1>3, <1>4 DEF IInv, Types

LEMMA ErasedKeeps ==
  ASSUME IInv, NEW o \in Ops, Erased(o)
  PROVE  IInv'
<1>1. /\ op[o].pc = "erase" /\ op[o] \in Operations(version) /\ version' = version
      /\ disk' \in Seq(Ops) /\ op[o].id \in Ids
      /\ WorkerType(worker', version) => EngineTypes'
  BY Completed DEF Erased, Operations, Unnamed
<1>2. /\ UNCHANGED <<worker, loading, sequence, timers, inflight, autosave, started>>
      /\ op' = [op EXCEPT ![o] = Free]
      /\ store' = [store EXCEPT ![op[o].id] = NoDoc]
      /\ undo' = [undo EXCEPT ![op[o].id] = <<>>]
      /\ dirty' = [dirty EXCEPT ![op[o].id] = 0]
      /\ loadedId' \in {loadedId, None} /\ shown' \in {shown, None}
  BY DEF Erased, Completes
<1>3. EngineTypes'
  BY <1>1, <1>2 DEF IInv, Types, EngineTypes
<1>4. StoreTypes'
  BY <1>1, <1>2, Versions DEF IInv, Types, StoreTypes
<1>5. undo' \in [Ids -> Seq(Entries(version))] /\ \A id \in Ids : Len(undo'[id]) <= UndoLimit
  BY <1>1, <1>2 DEF IInv, Types, PageTypes
<1>6. dirty' \in [Ids -> 0..sequence]
  BY <1>1, <1>2 DEF IInv, Types, PageTypes
<1>7. PageTypes'
  BY <1>1, <1>2, <1>5, <1>6 DEF IInv, Types, PageTypes
<1>8. OpTypes' /\ Awaited(op', loading', inflight')
  BY <1>1, <1>2, Ends DEF Owes
<1> QED BY <1>3, <1>4, <1>7, <1>8 DEF IInv, Types

LEMMA RecordsKeep ==
  ASSUME IInv, NEW o \in Ops, RecordsRead(o)
  PROVE  IInv'
<1> DEFINE q == [op[o] EXCEPT !.pc = "content"]
           r == Request(o, "ingestUploaded", NoDoc)
<1>1. /\ op[o].pc = "records" /\ op[o] \in Operations(version) /\ version' = version
      /\ UNCHANGED <<workerVars, store, disk, loadedId, loading, saveVars, inflight, undo, autosave, shown, started>>
  BY DEF RecordsRead, workerVars, IInv, Types, OpTypes
<1>2. q \in Operations(version) /\ q.on = op[o].on /\ op' = [op EXCEPT ![o] = q]
  BY <1>1 DEF Operations, Unnamed, RecordsRead, Points
<1>3. r \in Requests(version)
  BY <1>1, Versions DEF Request, Requests, Methods, Operations
<1>4. EngineTypes'
  BY <1>1, <1>3, Asked DEF RecordsRead, Post, workerVars, IInv, Types, EngineTypes
<1>5. StoreTypes' /\ PageTypes'
  BY <1>1 DEF saveVars, IInv, Types, StoreTypes, PageTypes
<1>6. OpTypes' /\ Awaited(op', loading', inflight')
  <2>1. \A x \in Ids \cup {"load"} : ~Owes(op[o], x)
    BY <1>1 DEF Owes
  <2>2. loading' = loading /\ inflight' = inflight
    BY <1>1
  <2> HIDE DEF q
  <2> QED BY <1>1, <1>2, <2>1, <2>2, Goes
<1> QED BY <1>4, <1>5, <1>6 DEF IInv, Types

\* An operation that needs a character loaded, begun in slot o, awaits only the load
\* in progress.
LEMMA AwaitingType ==
  ASSUME IInv, NEW o \in Ops, ~Owes(op[o], "load"), NEW kind \in Kinds, NEW id \in Ids, NEW loaded
  PROVE  LET q == Awaiting(kind, id, loaded)
         IN  /\ q \in Operations(version)
             /\ \A t \in q.on : t[1] \in Ops \ {o} /\ Owes(op[t[1]], t[2])
<1> DEFINE q == Awaiting(kind, id, loaded)
           on == IF loaded # id /\ loading # None THEN {<<loading, "load">>} ELSE {}
<1>1. loading \in Ops \cup {None} /\ (loading # None => Owes(op[loading], "load"))
  BY DEF IInv, Types, PageTypes, Awaited
<1>2. on \subseteq Tokens /\ \A t \in on : t = <<loading, "load">> /\ loading # None
  BY <1>1 DEF Tokens
<1>3. q = [Free EXCEPT !.kind = kind, !.id = id, !.pc = "wait", !.on = on]
  BY DEF Awaiting
<1> HIDE DEF on, q
<1>4. q \in Operations(version) /\ q.on = on
  BY <1>2, <1>3, Versions DEF Operations, Unnamed, Points, Free
<1>5. \A t \in on : t[1] \in Ops \ {o} /\ Owes(op[t[1]], t[2])
  BY <1>1, <1>2
<1> QED BY <1>4, <1>5 DEF q

LEMMA ContentKeeps ==
  ASSUME IInv, NEW o \in Ops, ContentChanged(o)
  PROVE  IInv'
<1>1. /\ op[o].pc = "content" /\ op[o] \in Operations(version) /\ version' = version
      /\ disk' \in Seq(Ops) => StoreTypes'
      /\ WorkerType(worker', version) => EngineTypes'
  BY Handled DEF ContentChanged
<1>2. UNCHANGED <<worker, disk, loading, sequence, timers, inflight, shown, autosave, started>>
  BY DEF ContentChanged, Answer
<1>3. EngineTypes' /\ StoreTypes'
  BY <1>1, <1>2 DEF IInv, Types, EngineTypes, StoreTypes
<1>4. /\ loadedId' \in {loadedId, None}
      /\ dirty' = dirty \/ dirty' = [id \in Ids |-> 0]
      /\ undo' = undo \/ undo' = [id \in Ids |-> <<>>]
  BY DEF ContentChanged
<1>5. PageTypes'
  <2>1. dirty' \in [Ids -> 0..sequence]
    BY <1>4 DEF IInv, Types, PageTypes
  <2>2. undo' \in [Ids -> Seq(Entries(version))] /\ \A id \in Ids : Len(undo'[id]) <= UndoLimit
    <3>1. <<>> \in Seq(Entries(version)) /\ Len(<<>>) <= UndoLimit
      OBVIOUS
    <3>2. undo \in [Ids -> Seq(Entries(version))] /\ \A id \in Ids : Len(undo[id]) <= UndoLimit
      BY DEF IInv, Types, PageTypes
    <3> QED BY <1>4, <3>1, <3>2
  <2> QED BY <1>1, <1>2, <1>4, <2>1, <2>2 DEF IInv, Types, PageTypes
<1>6. \A x \in Ids \cup {"load"} : ~Owes(op[o], x)
  BY <1>1 DEF Owes
<1>7. PICK q \in Operations(version) :
        /\ op' = [op EXCEPT ![o] = q]
        /\ \A t \in q.on : t[1] \in Ops \ {o} /\ Owes(op[t[1]], t[2])
  <2>1. Free \in Operations(version) /\ Free.on = {}
    BY FreeType, Versions
  <2>2. op[o].next \in Ids \cup {None} /\ "refresh" \in Kinds
    BY <1>1 DEF Operations, Kinds
  <2>3. \/ op' = [op EXCEPT ![o] = Free]
        \/ op[o].next # None /\ op' = [op EXCEPT ![o] = Awaiting("refresh", op[o].next, None)]
    BY DEF ContentChanged
  <2> HIDE DEF Free
  <2> QED BY <1>6, <2>1, <2>2, <2>3, AwaitingType
<1>8. OpTypes' /\ Awaited(op', loading', inflight')
  BY <1>1, <1>2, <1>6, <1>7, Goes
<1> QED BY <1>3, <1>5, <1>8 DEF IInv, Types

----------------------------------------------------------------------------
\* The user.

\* An operation begins as q in a slot that was free; what its start changes
\* besides is typed.
LEMMA Begins ==
  ASSUME IInv, NEW o \in Ops, NEW kind, Start(o, kind),
         NEW q \in Operations(version), op' = [op EXCEPT ![o] = q],
         \A t \in q.on : t[1] \in Ops \ {o} /\ Owes(op[t[1]], t[2]),
         WorkerType(worker', version), disk' \in Seq(Ops),
         loadedId' = loadedId, loading' = loading, inflight' = inflight,
         dirty' = dirty, sequence' = sequence,
         timers' \in [Ids -> {"off", "bare", "detail"}],
         undo' \in [Ids -> Seq(Entries(version))], \A id \in Ids : Len(undo'[id]) <= UndoLimit,
         autosave' \in BOOLEAN, shown' \in Ids \cup {None}
  PROVE  IInv'
<1>1. /\ version' = version /\ engine' = engine /\ latest' = latest /\ inbox' = inbox /\ store' = store
      /\ op[o] = Free /\ kind \in UserKinds /\ started < MaxStarts /\ started' = started + 1
  BY DEF Start, workerVars
<1>2. EngineTypes'
  BY <1>1 DEF IInv, Types, EngineTypes
<1>3. StoreTypes'
  BY <1>1 DEF IInv, Types, StoreTypes
<1>4. PageTypes'
  BY <1>1 DEF IInv, Types, PageTypes
<1>5. \A x \in Ids \cup {"load"} : ~Owes(op[o], x)
  BY <1>1 DEF Owes, Free
<1>6. OpTypes' /\ Awaited(op', loading', inflight')
  BY <1>1, <1>5, Goes
<1> QED BY <1>2, <1>3, <1>4, <1>6 DEF IInv, Types

\* What the start of an operation may leave alone.
LEMMA Still ==
  ASSUME IInv
  PROVE  /\ WorkerType(worker, version) /\ disk \in Seq(Ops)
         /\ timers \in [Ids -> {"off", "bare", "detail"}]
         /\ undo \in [Ids -> Seq(Entries(version))] /\ \A id \in Ids : Len(undo[id]) <= UndoLimit
         /\ autosave \in BOOLEAN /\ shown \in Ids \cup {None}
         /\ UserKinds \subseteq Kinds /\ {"mutate", "flush"} \subseteq Kinds
  BY DEF IInv, Types, EngineTypes, StoreTypes, PageTypes, Kinds

LEMMA OpenKeeps ==
  ASSUME IInv, NEW o \in Ops, NEW id \in Ids, Open(o, id)
  PROVE  IInv'
<1> DEFINE q == Awaiting("open", id, loadedId)
<1>1. Start(o, "open") /\ op[o] = Free /\ "open" \in Kinds
  BY Still DEF Open, Start
<1>2. ~Owes(op[o], "load")
  BY <1>1 DEF Owes, Free
<1>3. q \in Operations(version) /\ \A t \in q.on : t[1] \in Ops \ {o} /\ Owes(op[t[1]], t[2])
  BY <1>1, <1>2, AwaitingType
<1>4. /\ op' = [op EXCEPT ![o] = q] /\ shown' = id
      /\ UNCHANGED <<worker, disk, loadedId, loading, saveVars, inflight, undo, autosave>>
  BY DEF Open, Called
<1> HIDE DEF q
<1> QED BY <1>1, <1>3, <1>4, Still, Begins DEF saveVars

LEMMA EditKeeps ==
  ASSUME IInv, NEW o \in Ops, NEW kind \in {"mutate", "durable"}, Edit(o, kind)
  PROVE  IInv'
<1> DEFINE k == IF autosave THEN kind ELSE "mutate"
           q == Awaiting(k, shown, loadedId)
<1>1. Start(o, kind) /\ op[o] = Free /\ k \in Kinds /\ shown \in Ids
  BY Still DEF Edit, Start
<1>2. ~Owes(op[o], "load")
  BY <1>1 DEF Owes, Free
<1>3. q \in Operations(version) /\ \A t \in q.on : t[1] \in Ops \ {o} /\ Owes(op[t[1]], t[2])
  BY <1>1, <1>2, AwaitingType
<1>4. /\ op' = [op EXCEPT ![o] = q]
      /\ UNCHANGED <<worker, disk, loadedId, loading, saveVars, inflight, undo, autosave, shown>>
  BY DEF Edit, Called
<1> HIDE DEF q
<1> QED BY <1>1, <1>3, <1>4, Still, Begins DEF saveVars

LEMMA SaveKeeps ==
  ASSUME IInv, NEW o \in Ops, Save(o)
  PROVE  IInv'
<1> DEFINE on == IF inflight[shown] # None THEN {<<inflight[shown], shown>>} ELSE {}
           q == [Free EXCEPT !.kind = "save", !.id = shown, !.pc = "wait", !.on = on]
<1>1. Start(o, "save") /\ op[o] = Free /\ "save" \in Kinds /\ shown \in Ids
  BY Still DEF Save, Start
<1>2. \A id \in Ids : inflight[id] # None => inflight[id] \in Ops \ {o} /\ Owes(op[inflight[id]], id)
  <2>1. \A id \in Ids : ~Owes(op[o], id)
    BY <1>1 DEF Owes, Free
  <2> QED BY <2>1 DEF IInv, Types, PageTypes, Awaited
<1>3. on \subseteq Tokens /\ \A t \in on : t[1] \in Ops \ {o} /\ Owes(op[t[1]], t[2])
  BY <1>1, <1>2 DEF Tokens
<1>4. /\ op' = [op EXCEPT ![o] = q] /\ timers' = [timers EXCEPT ![shown] = "off"]
      /\ UNCHANGED <<worker, disk, loadedId, loading, dirty, sequence, inflight, undo, autosave, shown>>
  BY DEF Save
<1> HIDE DEF on
<1>5. q \in Operations(version) /\ q.on = on
  BY <1>1, <1>3, Versions DEF Operations, Unnamed, Points, Free
<1> HIDE DEF q
<1>6. timers' \in [Ids -> {"off", "bare", "detail"}]
  BY <1>4, Still
<1> QED BY <1>1, <1>3, <1>4, <1>5, <1>6, Still, Begins

\* A flush, on its own or ahead of a content update, awaits the saves in flight.
LEMMA FlushingKeeps ==
  ASSUME IInv, NEW o \in Ops, NEW start, Start(o, start), NEW kind \in Kinds,
         kind \in {"flush", "reload"}, Flushing(o, kind), autosave' \in BOOLEAN,
         UNCHANGED <<worker, disk, loadedId, loading, dirty, sequence, inflight, undo, shown>>
  PROVE  IInv'
<1> DEFINE busy == {i \in Ids : inflight[i] # None}
           on == {<<inflight[id], id>> : id \in busy}
           due == {id \in Ids : timers[id] # "off" \/ dirty[id] # 0}
           next == IF kind = "reload" THEN shown ELSE None
           q == [Free EXCEPT !.kind = kind, !.pc = "wait", !.next = next, !.ids = due, !.on = on]
<1>1. op[o] = Free /\ next \in Ids \cup {None}
  BY Still DEF Start
<1>2. \A id \in busy : inflight[id] \in Ops \ {o} /\ Owes(op[inflight[id]], id)
  <2>1. \A id \in Ids : ~Owes(op[o], id)
    BY <1>1 DEF Owes, Free
  <2> QED BY <2>1 DEF IInv, Types, PageTypes, Awaited
<1>3. on \subseteq Tokens /\ \A t \in on : t[1] \in Ops \ {o} /\ Owes(op[t[1]], t[2])
  BY <1>2 DEF Tokens
<1>4. op' = [op EXCEPT ![o] = q] /\ timers' = [id \in Ids |-> "off"]
  BY DEF Flushing
<1>5. due \subseteq Ids
  OBVIOUS
<1> HIDE DEF busy, on, due, next
<1>6. q \in Operations(version) /\ q.on = on
  BY <1>1, <1>3, <1>5, Versions DEF Operations, Unnamed, Points, Free
<1> HIDE DEF q
<1>7. timers' \in [Ids -> {"off", "bare", "detail"}]
  BY <1>4
<1> QED BY <1>3, <1>4, <1>6, <1>7, Still, Begins

LEMMA ToggleKeeps ==
  ASSUME IInv, NEW o \in Ops, ToggleAutosave(o)
  PROVE  IInv'
<1>1. /\ Start(o, "toggle") /\ autosave' \in BOOLEAN /\ op[o] = Free
      /\ UNCHANGED <<worker, disk, loadedId, loading, dirty, sequence, inflight, undo, shown>>
  BY Still DEF ToggleAutosave, Start
<1>2. CASE autosave'
  <2>1. Flushing(o, "flush")
    BY <1>2 DEF ToggleAutosave
  <2> QED BY <1>1, <2>1, Still, FlushingKeeps
<1>3. CASE ~autosave'
  <2>1. UNCHANGED <<timers, op>>
    BY <1>3 DEF ToggleAutosave
  <2>2. Free \in Operations(version) /\ Free.on = {}
    BY FreeType, Versions
  <2>3. op' = [op EXCEPT ![o] = Free]
    BY <1>1, <2>1 DEF IInv, Types, OpTypes
  <2> HIDE DEF Free
  <2> QED BY <1>1, <2>1, <2>2, <2>3, Still, Begins
<1> QED BY <1>2, <1>3

LEMMA UndoKeeps ==
  ASSUME IInv, NEW o \in Ops, UndoLast(o)
  PROVE  IInv'
<1> DEFINE stack == undo[shown]
           q == [Free EXCEPT !.kind = "undo", !.id = shown, !.pc = "restore"]
           r == [op |-> o, method |-> "importCharacterXml", id |-> shown, doc |-> stack[Len(stack)].xml]
<1>1. Start(o, "undo") /\ op[o] = Free /\ "undo" \in Kinds /\ shown \in Ids /\ stack # <<>>
  BY Still DEF UndoLast, Start
<1>2. /\ op' = [op EXCEPT ![o] = q] /\ worker' = Sent(worker, r)
      /\ undo' = [undo EXCEPT ![shown] = SubSeq(stack, 1, Len(stack) - 1)]
      /\ UNCHANGED <<disk, loadedId, loading, saveVars, inflight, autosave, shown>>
  BY DEF UndoLast, Post
<1>3. stack \in Seq(Entries(version)) /\ Len(stack) <= UndoLimit
  BY <1>1, Still
<1> HIDE DEF stack
<1>4. /\ stack[Len(stack)] \in Entries(version)
      /\ SubSeq(stack, 1, Len(stack) - 1) \in Seq(Entries(version))
      /\ Len(SubSeq(stack, 1, Len(stack) - 1)) <= UndoLimit
  <2>1. Len(stack) \in Nat /\ Len(stack) > 0
    BY <1>1, <1>3
  <2> QED BY <1>3, <2>1
<1>5. r \in Requests(version)
  BY <1>1, <1>4, Requested DEF Entries, Methods
<1>6. undo' \in [Ids -> Seq(Entries(version))] /\ \A id \in Ids : Len(undo'[id]) <= UndoLimit
  BY <1>1, <1>2, <1>4, Still
<1>7. q \in Operations(version) /\ q.on = {}
  BY <1>1, Versions DEF Operations, Unnamed, Points, Free
<1> HIDE DEF q
<1>8. WorkerType(worker', version)
  BY <1>2, <1>5, Asked
<1> QED BY <1>1, <1>2, <1>6, <1>7, <1>8, Still, Begins DEF saveVars

LEMMA RemoveKeeps ==
  ASSUME IInv, NEW o \in Ops, NEW id \in Ids, RemoveCharacter(o, id)
  PROVE  IInv'
<1> DEFINE q(pc) == [Free EXCEPT !.kind = "remove", !.id = id, !.pc = pc]
           r == [op |-> o, method |-> "deleteCharacter", id |-> id, doc |-> NoDoc]
<1>1. Start(o, "remove") /\ op[o] = Free /\ "remove" \in Kinds
  BY Still DEF RemoveCharacter, Start
<1>2. UNCHANGED <<loadedId, loading, saveVars, inflight, undo, autosave, shown>>
  BY DEF RemoveCharacter
<1>3. PICK pc \in {"delete", "erase"} :
        /\ op' = [op EXCEPT ![o] = q(pc)]
        /\ worker' \in {worker, Sent(worker, r)} /\ disk' \in {disk, Append(disk, o)}
  BY DEF RemoveCharacter, Post
<1>4. q(pc) \in Operations(version) /\ q(pc).on = {}
  BY <1>1, Versions DEF Operations, Unnamed, Points, Free
<1> HIDE DEF q
<1>5. r \in Requests(version)
  BY Requested, Versions DEF Methods
<1> HIDE DEF r
<1>6. WorkerType(worker', version) /\ disk' \in Seq(Ops)
  <2>1. WorkerType(worker, version) /\ WorkerType(Sent(worker, r), version)
    BY <1>5, Asked, Still
  <2>2. disk \in Seq(Ops) /\ Append(disk, o) \in Seq(Ops)
    BY Still
  <2> QED BY <1>3, <2>1, <2>2
<1> QED BY <1>1, <1>2, <1>3, <1>4, <1>6, Still, Begins DEF saveVars

LEMMA DiscardKeeps ==
  ASSUME IInv, Discard
  PROVE  IInv'
<1>1. /\ shown \in Ids /\ started < MaxStarts /\ started' = started + 1
      /\ UNCHANGED <<workerVars, worker, store, disk, loading, sequence, timers, inflight, autosave, shown, op>>
      /\ undo' = [undo EXCEPT ![shown] = <<>>] /\ dirty' = [dirty EXCEPT ![shown] = 0]
      /\ loadedId' \in {loadedId, None}
  BY Still DEF Discard
<1>2. EngineTypes' /\ StoreTypes' /\ OpTypes' /\ Awaited(op', loading', inflight')
  BY <1>1 DEF workerVars, IInv, Types, EngineTypes, StoreTypes, OpTypes
<1>3. undo' \in [Ids -> Seq(Entries(version))] /\ \A id \in Ids : Len(undo'[id]) <= UndoLimit
  <2>1. <<>> \in Seq(Entries(version)) /\ Len(<<>>) <= UndoLimit
    OBVIOUS
  <2> QED BY <1>1, <2>1, Still
<1>4. dirty' \in [Ids -> 0..sequence]
  BY <1>1 DEF IInv, Types, PageTypes
<1>5. PageTypes'
  BY <1>1, <1>2, <1>3, <1>4 DEF workerVars, IInv, Types, PageTypes
<1> QED BY <1>2, <1>5 DEF IInv, Types

----------------------------------------------------------------------------
\* The worker. It alone makes documents.
LEMMA WorkKeeps ==
  ASSUME IInv, Work
  PROVE  IInv'
<1> DEFINE r == worker.active
<1>1. /\ version \in Nat /\ WorkerType(worker, version) /\ r # None /\ Serve(r)
      /\ engine \in [Ids -> Docs(version)] /\ latest \in [Ids -> Docs(version)]
      /\ inbox \in Seq(Responses(version))
      /\ UNCHANGED <<store, disk, loadedId, loading, saveVars, inflight, undo, autosave, shown, op, started>>
  BY DEF Work, IInv, Types, EngineTypes
<1>2. r \in Requests(version) /\ WorkerType(worker', version)
  BY <1>1, Served DEF Work
<1>3. /\ version' \in {version, version + 1}
      /\ engine' \in [Ids -> Docs(version')] /\ latest' \in [Ids -> Docs(version')]
      /\ inbox' \in Seq(Responses(version'))
  <2> DEFINE answer(ok, d, was) == [op |-> r.op, method |-> r.method, ok |-> ok, doc |-> d, was |-> was]
  <2>1. /\ NoDoc \in Docs(version) /\ Blank \in Docs(version) /\ version + 1 \in Docs(version + 1)
        /\ Docs(version) \subseteq Docs(version + 1)
        /\ Responses(version) \subseteq Responses(version + 1)
    BY <1>1, Grown DEF Docs, NoDoc, Blank
  <2>2. ASSUME NEW v \in {version, version + 1}, NEW d \in Docs(v), NEW ok \in BOOLEAN,
               r.id \in Ids, Becomes(r, d, ok)
        PROVE  engine' \in [Ids -> Docs(v)] /\ inbox' \in Seq(Responses(v))
    <3>1. engine \in [Ids -> Docs(v)] /\ inbox \in Seq(Responses(v))
      BY <1>1, <2>1
    <3>2. answer(ok, d, engine[r.id]) \in Responses(v)
      BY <1>2, <2>2, <3>1 DEF Responses, Requests
    <3> HIDE DEF r
    <3>3. engine' = [engine EXCEPT ![r.id] = d] /\ inbox' = Append(inbox, answer(ok, d, engine[r.id]))
      BY <2>2 DEF Becomes
    <3> HIDE DEF answer
    <3>4. engine' \in [Ids -> Docs(v)]
      BY <2>2, <3>1, <3>3
    <3>5. inbox' \in Seq(Responses(v))
      BY <3>1, <3>2, <3>3
    <3> QED BY <3>4, <3>5
  <2>3. CASE ServeContent(r)
    <3>1. PICK ok \in BOOLEAN : inbox' = Append(inbox, answer(ok, NoDoc, NoDoc))
      BY <2>3 DEF ServeContent
    <3>2. answer(ok, NoDoc, NoDoc) \in Responses(version)
      BY <1>2, <2>1 DEF Responses, Requests
    <3> HIDE DEF answer
    <3>3. inbox' \in Seq(Responses(version))
      BY <1>1, <3>1, <3>2
    <3> QED BY <1>1, <2>3, <3>3 DEF ServeContent
  <2>4. CASE ~ServeContent(r)
    <3>0. r.id \in Ids /\ r.doc \in Docs(version) /\ engine[r.id] \in Docs(version)
      BY <1>1, <1>2, <2>4 DEF Serve, ServeRead, ServeCreate, ServeImport, ServeDelete, ServeMutation,
                              Reads, Requests
    <3>1. CASE ServeRead(r)
      BY <1>1, <2>2, <3>0, <3>1 DEF ServeRead
    <3>2. CASE ServeCreate(r)
      BY <1>1, <2>1, <2>2, <3>0, <3>2 DEF ServeCreate
    <3>3. CASE ServeImport(r)
      <4>1. latest' \in [Ids -> Docs(version)]
        BY <1>1, <3>0, <3>3 DEF ServeImport
      <4> QED BY <1>1, <2>2, <3>0, <3>3, <4>1 DEF ServeImport
    <3>4. CASE ServeDelete(r)
      <4>1. latest' \in [Ids -> Docs(version)]
        BY <1>1, <2>1, <3>0, <3>4 DEF ServeDelete
      <4> QED BY <1>1, <2>1, <2>2, <3>0, <3>4, <4>1 DEF ServeDelete
    <3>5. CASE ServeMutation(r)
      <4>1. CASE /\ Becomes(r, version + 1, TRUE) /\ version' = version + 1
                 /\ latest' = [latest EXCEPT ![r.id] = version + 1]
        <5>1. latest' \in [Ids -> Docs(version + 1)]
          BY <1>1, <2>1, <3>0, <4>1
        <5>2. engine' \in [Ids -> Docs(version + 1)] /\ inbox' \in Seq(Responses(version + 1))
          BY <2>1, <2>2, <3>0, <4>1
        <5> QED BY <4>1, <5>1, <5>2
      <4>2. CASE Becomes(r, engine[r.id], FALSE) /\ UNCHANGED <<version, latest>>
        BY <1>1, <2>2, <3>0, <4>2
      <4> QED BY <3>5, <4>1, <4>2 DEF ServeMutation
    <3> QED BY <1>1, <2>4, <3>1, <3>2, <3>3, <3>4, <3>5 DEF Serve
  <2> QED BY <2>3, <2>4
<1>4. /\ Docs(version) \subseteq Docs(version') /\ Requests(version) \subseteq Requests(version')
      /\ Entries(version) \subseteq Entries(version') /\ Operations(version) \subseteq Operations(version')
  BY <1>1, <1>3, Grown
<1>5. EngineTypes'
  <2>1. WorkerType(worker', version')
    BY <1>2, <1>4 DEF WorkerType
  <2> QED BY <1>1, <1>3, <2>1 DEF EngineTypes
<1>6. StoreTypes'
  BY <1>1, <1>4 DEF IInv, Types, StoreTypes
<1>7. PageTypes'
  <2>1. undo' \in [Ids -> Seq(Entries(version'))]
    BY <1>1, <1>4 DEF IInv, Types, PageTypes
  <2> QED BY <1>1, <2>1 DEF saveVars, IInv, Types, PageTypes
<1>8. OpTypes' /\ Awaited(op', loading', inflight')
  BY <1>1, <1>4 DEF IInv, Types, OpTypes
<1> QED BY <1>5, <1>6, <1>7, <1>8 DEF IInv, Types

----------------------------------------------------------------------------
LEMMA InitTypes == Init => IInv
<1> SUFFICES ASSUME Init PROVE IInv
  OBVIOUS
<1>1. /\ version = 1 /\ engine = [id \in Ids |-> NoDoc] /\ store = [id \in Ids |-> 1]
      /\ latest = [id \in Ids |-> NoDoc]
      /\ worker = [active |-> None, line |-> <<>>] /\ inbox = <<>> /\ disk = <<>>
      /\ loadedId = None /\ loading = None /\ shown = None
      /\ dirty = [id \in Ids |-> 0] /\ sequence = 0
      /\ timers = [id \in Ids |-> "off"] /\ inflight = [id \in Ids |-> None]
      /\ undo = [id \in Ids |-> <<>>] /\ autosave \in BOOLEAN /\ started = 0
      /\ op = [o \in Ops |-> Free]
  BY DEF Init
<1>2. version \in Nat /\ NoDoc \in Docs(version) /\ 1 \in Docs(version)
  BY <1>1 DEF Docs, NoDoc
<1>3. EngineTypes
  BY <1>1, <1>2 DEF EngineTypes, WorkerType
<1>4. StoreTypes
  BY <1>1, <1>2 DEF StoreTypes
<1>5. PageTypes
  <2>1. <<>> \in Seq(Entries(version)) /\ Len(<<>>) = 0
    OBVIOUS
  <2>2. undo \in [Ids -> Seq(Entries(version))] /\ \A id \in Ids : Len(undo[id]) <= UndoLimit
    BY <1>1, <2>1
  <2> QED BY <1>1, <2>2 DEF PageTypes
<1>6. Free \in Operations(version) /\ Free.on = {}
  BY <1>2, FreeType
<1> HIDE DEF Free
<1>7. OpTypes /\ Awaited(op, loading, inflight)
  BY <1>1, <1>6 DEF OpTypes, Awaited
<1> QED BY <1>3, <1>4, <1>5, <1>7 DEF IInv, Types

LEMMA Inductive == IInv /\ [Next]_vars => IInv'
<1> SUFFICES ASSUME IInv, [Next]_vars PROVE IInv'
  OBVIOUS
<1>1. ASSUME NEW o \in Ops, Continue(o)
      PROVE  IInv'
  BY <1>1, ResumeLoadKeeps, ResumeSaveKeeps, ResumeFlushKeeps DEF Continue
<1>2. ASSUME NEW o \in Ops, HandleAnswer(o)
      PROVE  IInv'
  BY <1>2, ExportedKeeps, SummarisedKeeps, CreatedKeeps, ImportedKeeps, LoadedKeeps, DetailedKeeps,
     MutatedKeeps, BeforeKeeps, DurableKeeps, RestoredKeeps, UndoneKeeps, DeletedKeeps, ContentKeeps
     DEF HandleAnswer
<1>3. ASSUME NEW o \in Ops, Transact(o)
      PROVE  IInv'
  BY <1>3, PutKeeps, GotKeeps, ErasedKeeps, RecordsKeep DEF Transact
<1>4. ASSUME NEW o \in Ops, User(o)
      PROVE  IInv'
  <2>1. CASE Flush(o) \/ Reload(o)
    <3>1. PICK kind \in {"flush", "reload"} : Start(o, kind) /\ Flushing(o, kind)
      BY <2>1 DEF Flush, Reload
    <3>2. /\ kind \in Kinds /\ autosave' \in BOOLEAN
          /\ UNCHANGED <<worker, disk, loadedId, loading, dirty, sequence, inflight, undo, shown>>
      BY <2>1, <3>1, Still DEF Flush, Reload, Start
    <3> QED BY <3>1, <3>2, FlushingKeeps
  <2> QED
    BY <1>4, <2>1, OpenKeeps, RemoveKeeps, EditKeeps, SaveKeeps, UndoKeeps, ToggleKeeps DEF User
<1>5. CASE UNCHANGED vars
  BY <1>5 DEF vars, workerVars, saveVars, IInv, Types, EngineTypes, StoreTypes, PageTypes, OpTypes
<1> QED BY <1>1, <1>2, <1>3, <1>4, <1>5, TimerKeeps, WorkKeeps, DiscardKeeps DEF Next

LEMMA Always == Spec => []IInv
  BY InitTypes, Inductive, PTL DEF Spec

\* Every variable keeps its type: an undo stack stays within its limit
\* (pushUndo), a mark is at most the newest edit's, a document is never newer
\* than the newest, an operation that needs its character has one.
THEOREM SessionTypeCorrect == Spec => []TypeOK
<1>1. IInv => TypeOK
  <2> SUFFICES ASSUME IInv PROVE TypeOK
    OBVIOUS
  <2>1. /\ engine \in [Ids -> NoDoc..version] /\ store \in [Ids -> NoDoc..version]
        /\ version \in Nat /\ latest \in [Ids -> NoDoc..version]
        /\ worker.active = None => worker.line = <<>>
    BY DEF IInv, Types, EngineTypes, StoreTypes, WorkerType, Docs
  <2>2. \A o \in Ops : /\ op[o].kind \in Kinds \cup {None} /\ op[o].id \in Ids \cup {None}
                       /\ op[o].next \in Ids \cup {None}
                       /\ op[o].on \subseteq Tokens /\ op[o].ids \subseteq Ids
    BY DEF IInv, Types, OpTypes, Operations
  <2>3. \A k \in DOMAIN disk : disk[k] \in Ops
    BY DEF IInv, Types, StoreTypes
  <2> QED BY <2>1, <2>2, <2>3 DEF IInv, Types, PageTypes, TypeOK
<1> QED BY <1>1, Always, PTL

\* No promise is awaited that nobody will settle: characterLoadPromise and every
\* entry of persistInFlight belong to a load or a save that is under way, and so
\* does whatever an operation waits for, for any operations that overlap and
\* any writes that are refused.
THEOREM NobodyWaits == Spec => []NobodyWaitsInVain
<1>1. IInv => NobodyWaitsInVain
  BY DEF IInv, Awaited, NobodyWaitsInVain
<1> QED BY <1>1, Always, PTL

----------------------------------------------------------------------------
\* The order of a queue.

In(s, x) == \E i \in DOMAIN s : s[i] = x
Precedes(s, x, y) == \E i, j \in DOMAIN s : i < j /\ s[i] = x /\ s[j] = y
Distinct(s) == \A i, j \in DOMAIN s : s[i] = s[j] => i = j

\* What is put in leaves the others in their order.
LEMMA OrderPutIn ==
  ASSUME NEW T, NEW q \in Seq(T), NEW e \in T, NEW i \in 1..(Len(q) + 1), NEW r,
         PutIn(T, q, e, i, r), Distinct(q), ~In(q, e)
  PROVE  /\ Distinct(r)
         /\ \A x : In(r, x) <=> In(q, x) \/ x = e
         /\ \A x, y : Precedes(q, x, y) => Precedes(r, x, y)
         /\ i = Len(q) + 1 => \A x : In(q, x) => Precedes(r, x, e)
<1> DEFINE to(k) == IF k < i THEN k ELSE k + 1
<1>1. /\ r \in Seq(T) /\ Len(r) = Len(q) + 1 /\ r[i] = e /\ Len(q) \in Nat
      /\ DOMAIN q = 1..Len(q) /\ DOMAIN r = 1..(Len(q) + 1)
  BY DEF PutIn
<1>2. \A k \in 1..Len(q) : to(k) \in 1..(Len(q) + 1) /\ r[to(k)] = q[k] /\ to(k) # i
  BY <1>1 DEF PutIn
<1>3. \A k \in 1..(Len(q) + 1) : k = i \/ \E j \in 1..Len(q) : to(j) = k
  <2> TAKE k \in 1..(Len(q) + 1)
  <2>1. CASE k < i
    <3>1. k \in 1..Len(q) /\ to(k) = k
      BY <1>1, <2>1
    <3> QED BY <3>1
  <2>2. CASE k > i
    <3>1. k - 1 \in 1..Len(q) /\ to(k - 1) = k
      BY <1>1, <2>2
    <3> QED BY <3>1
  <2> QED BY <1>1, <2>1, <2>2
<1>4. \A j, k \in 1..Len(q) : j < k => to(j) < to(k)
  BY <1>1
<1>5. i = Len(q) + 1 => \A k \in 1..Len(q) : to(k) < i
  BY <1>1
<1> HIDE DEF to
<1>6. \A x : In(r, x) <=> In(q, x) \/ x = e
  BY <1>1, <1>2, <1>3 DEF In
<1>7. \A x, y : Precedes(q, x, y) => Precedes(r, x, y)
  BY <1>1, <1>2, <1>4 DEF Precedes
<1>8. i = Len(q) + 1 => \A x : In(q, x) => Precedes(r, x, e)
  BY <1>1, <1>2, <1>5 DEF Precedes, In
<1>9. Distinct(r)
  <2> SUFFICES ASSUME NEW j \in 1..(Len(q) + 1), NEW k \in 1..(Len(q) + 1), r[j] = r[k] PROVE j = k
    BY <1>1 DEF Distinct
  <2>1. CASE j = i \/ k = i
    BY <1>1, <1>2, <1>3, <2>1 DEF In
  <2>2. CASE j # i /\ k # i
    <3>1. PICK m \in 1..Len(q), n \in 1..Len(q) : to(m) = j /\ to(n) = k
      BY <1>3, <2>2
    <3>2. q[m] = q[n]
      BY <1>2, <3>1
    <3> QED BY <1>1, <3>1, <3>2 DEF Distinct
  <2> QED BY <2>1, <2>2
<1> QED BY <1>6, <1>7, <1>8, <1>9

\* What is put in at the end.
LEMMA OrderAppend ==
  ASSUME NEW T, NEW q \in Seq(T), NEW e \in T, Distinct(q), ~In(q, e)
  PROVE  /\ Distinct(Append(q, e))
         /\ \A x : In(Append(q, e), x) <=> In(q, x) \/ x = e
         /\ \A x, y : Precedes(q, x, y) => Precedes(Append(q, e), x, y)
         /\ \A x : In(q, x) => Precedes(Append(q, e), x, e)
<1>1. PutIn(T, q, e, Len(q) + 1, Append(q, e))
  BY DEF PutIn
<1>2. Len(q) + 1 \in 1..(Len(q) + 1)
  OBVIOUS
<1> QED BY <1>1, <1>2, OrderPutIn

\* Nothing precedes the head, which may be taken off.
LEMMA OrderTail ==
  ASSUME NEW T, NEW q \in Seq(T), q # <<>>, Distinct(q)
  PROVE  /\ Distinct(Tail(q)) /\ In(q, Head(q))
         /\ \A x : In(Tail(q), x) <=> In(q, x) /\ x # Head(q)
         /\ \A x, y : Precedes(q, x, y) /\ x # Head(q) => Precedes(Tail(q), x, y)
         /\ \A x : ~Precedes(q, x, Head(q))
<1>1. /\ Len(q) \in Nat \ {0} /\ DOMAIN q = 1..Len(q) /\ DOMAIN Tail(q) = 1..(Len(q) - 1)
      /\ Head(q) = q[1] /\ \A k \in 1..(Len(q) - 1) : Tail(q)[k] = q[k + 1]
  OBVIOUS
<1>2. \A k \in 2..Len(q) : k - 1 \in 1..(Len(q) - 1) /\ Tail(q)[k - 1] = q[k]
  BY <1>1
<1>3. \A k \in 1..(Len(q) - 1) : k + 1 \in 2..Len(q)
  BY <1>1
<1>4. \A k \in 1..Len(q) : q[k] # Head(q) => k \in 2..Len(q)
  BY <1>1
<1>5. Distinct(Tail(q))
  BY <1>1, <1>3 DEF Distinct
<1>6. \A x : In(Tail(q), x) <=> In(q, x) /\ x # Head(q)
  <2> TAKE x
  <2>1. ASSUME In(Tail(q), x) PROVE In(q, x) /\ x # Head(q)
    <3>1. PICK k \in 1..(Len(q) - 1) : Tail(q)[k] = x
      BY <1>1, <2>1 DEF In
    <3>2. q[k + 1] = x /\ k + 1 \in 2..Len(q) /\ k + 1 \in 1..Len(q) /\ 1 \in 1..Len(q) /\ k + 1 # 1
      BY <1>1, <1>3, <3>1
    <3> QED BY <1>1, <3>2 DEF In, Distinct
  <2>2. ASSUME In(q, x), x # Head(q) PROVE In(Tail(q), x)
    BY <1>1, <1>2, <1>4, <2>2 DEF In
  <2> QED BY <2>1, <2>2
<1>7. \A x, y : Precedes(q, x, y) /\ x # Head(q) => Precedes(Tail(q), x, y)
  <2> TAKE x, y
  <2> SUFFICES ASSUME Precedes(q, x, y), x # Head(q) PROVE Precedes(Tail(q), x, y)
    OBVIOUS
  <2>1. PICK j \in 1..Len(q), k \in 1..Len(q) : j < k /\ q[j] = x /\ q[k] = y
    BY <1>1 DEF Precedes
  <2>2. j \in 2..Len(q) /\ k \in 2..Len(q) /\ j - 1 < k - 1
    BY <1>1, <1>4, <2>1
  <2> QED BY <1>1, <1>2, <2>1, <2>2 DEF Precedes
<1>8. \A x : ~Precedes(q, x, Head(q))
  <2> TAKE x
  <2> SUFFICES ASSUME NEW j \in 1..Len(q), NEW k \in 1..Len(q), j < k, q[j] = x, q[k] = Head(q) PROVE FALSE
    BY <1>1 DEF Precedes
  <2>1. k = 1
    BY <1>1 DEF Distinct
  <2> QED BY <1>1, <2>1
<1>9. In(q, Head(q))
  BY <1>1 DEF In
<1> QED BY <1>5, <1>6, <1>7, <1>8, <1>9

----------------------------------------------------------------------------
\* The pipeline: the answers on their way to the page and, behind them, what the
\* worker has been asked, each as the operation and the method it is of.

Tag(r) == <<r.op, r.method>>
Tags(s) == [k \in DOMAIN s |-> Tag(s[k])]
Posts(w) == IF w.active = None THEN <<>> ELSE <<w.active>> \o w.line
Pipe(b, w) == Tags(b) \o Tags(Posts(w))
Pipeline == Pipe(inbox, worker)

\* Two queues, one behind the other.
LEMMA Joined ==
  ASSUME NEW T, NEW a \in Seq(T), NEW b \in Seq(T)
  PROVE  /\ a \o b \in Seq(T) /\ Len(a \o b) = Len(a) + Len(b)
         /\ Len(a) \in Nat /\ Len(b) \in Nat
         /\ \A k \in 1..Len(a) : (a \o b)[k] = a[k]
         /\ \A k \in 1..Len(b) : (a \o b)[Len(a) + k] = b[k]
<1>1. /\ a \o b \in Seq(T) /\ Len(a \o b) = Len(a) + Len(b)
      /\ Len(a) \in Nat /\ Len(b) \in Nat
      /\ \A k \in 1..Len(a) : (a \o b)[k] = a[k]
      /\ \A k \in (Len(a) + 1)..(Len(a) + Len(b)) : (a \o b)[k] = b[k - Len(a)]
  OBVIOUS
<1>2. \A k \in 1..Len(b) : (a \o b)[Len(a) + k] = b[k]
  <2> TAKE k \in 1..Len(b)
  <2>1. Len(a) + k \in (Len(a) + 1)..(Len(a) + Len(b)) /\ (Len(a) + k) - Len(a) = k
    BY <1>1
  <2> QED BY <1>1, <2>1
<1> QED BY <1>1, <1>2

LEMMA PostsType ==
  ASSUME NEW v \in Nat, NEW w, WorkerType(w, v)
  PROVE  /\ Posts(w) \in Seq(Requests(v))
         /\ w.active = None => Posts(w) = <<>>
         /\ w.active # None => /\ Len(Posts(w)) = Len(w.line) + 1 /\ Posts(w)[1] = w.active
                              /\ \A k \in 1..Len(w.line) : Posts(w)[k + 1] = w.line[k]
<1> DEFINE T == Requests(v)
<1>1. w.active \in T \cup {None} /\ w.line \in Seq(T)
  BY DEF WorkerType
<1>2. w.active # None => w.active \in T
  BY <1>1
<1> HIDE DEF T
<1>3. CASE w.active = None
  BY <1>3 DEF Posts
<1>4. CASE w.active # None
  <2> DEFINE a == <<w.active>>
             b == w.line
  <2>1. a \in Seq(T) /\ Len(a) = 1 /\ a[1] = w.active /\ b \in Seq(T)
    BY <1>1, <1>2, <1>4
  <2>2. Posts(w) = a \o b
    BY <1>4 DEF Posts
  <2> HIDE DEF a, b
  <2>3. /\ a \o b \in Seq(T) /\ Len(a \o b) = Len(a) + Len(b) /\ Len(b) \in Nat
        /\ \A k \in 1..Len(a) : (a \o b)[k] = a[k]
        /\ \A k \in 1..Len(b) : (a \o b)[Len(a) + k] = b[k]
    <3>1. a \in Seq(T) /\ b \in Seq(T)
      BY <2>1
    <3> QED BY ONLY <3>1, Joined
  <2>4. 1 \in 1..Len(a) /\ 1 + Len(b) = Len(b) + 1 /\ \A k \in 1..Len(b) : Len(a) + k = k + 1
    BY <2>1, <2>3
  <2>5. Len(a \o b) = Len(b) + 1 /\ (a \o b)[1] = a[1] /\ \A k \in 1..Len(b) : (a \o b)[k + 1] = b[k]
    BY <2>1, <2>3, <2>4
  <2> QED BY <1>4, <2>1, <2>2, <2>3, <2>5 DEF T, b
<1> QED BY <1>3, <1>4

LEMMA TagsType ==
  ASSUME NEW T, NEW s \in Seq(T), \A x \in T : Tag(x) \in Ops \X Methods
  PROVE  /\ Tags(s) \in Seq(Ops \X Methods) /\ Len(Tags(s)) = Len(s)
         /\ \A k \in 1..Len(s) : Tags(s)[k] = Tag(s[k])
<1>1. DOMAIN s = 1..Len(s) /\ Len(s) \in Nat /\ \A k \in 1..Len(s) : s[k] \in T
  OBVIOUS
<1>2. Tags(s) = [k \in 1..Len(s) |-> Tag(s[k])]
  BY <1>1 DEF Tags
<1> QED BY <1>1, <1>2

\* The members of a pipeline.
LEMMA PipeParts ==
  ASSUME NEW v \in Nat, NEW w, WorkerType(w, v), NEW b \in Seq(Responses(v))
  PROVE  /\ Pipe(b, w) \in Seq(Ops \X Methods) /\ Len(Pipe(b, w)) = Len(b) + Len(Posts(w))
         /\ Len(b) \in Nat /\ Len(Posts(w)) \in Nat
         /\ \A k \in 1..Len(b) : Pipe(b, w)[k] = Tag(b[k])
         /\ \A k \in 1..Len(Posts(w)) : Pipe(b, w)[Len(b) + k] = Tag(Posts(w)[k])
<1> DEFINE P == Posts(w)
           x == Tags(b)
           y == Tags(P)
<1>1. P \in Seq(Requests(v))
  BY PostsType
<1>2. /\ \A r \in Requests(v) : Tag(r) \in Ops \X Methods
      /\ \A r \in Responses(v) : Tag(r) \in Ops \X Methods
  BY DEF Requests, Responses, Tag
<1> HIDE DEF P
<1>3. /\ x \in Seq(Ops \X Methods) /\ Len(x) = Len(b) /\ \A k \in 1..Len(b) : x[k] = Tag(b[k])
      /\ y \in Seq(Ops \X Methods) /\ Len(y) = Len(P) /\ \A k \in 1..Len(P) : y[k] = Tag(P[k])
  BY <1>1, <1>2, TagsType
<1>4. Pipe(b, w) = x \o y
  BY DEF Pipe, P
<1> HIDE DEF x, y
<1> QED BY <1>3, <1>4, Joined DEF P

LEMMA SameSeq ==
  ASSUME NEW T, NEW a \in Seq(T), NEW b \in Seq(T), Len(a) = Len(b),
         \A k \in 1..Len(a) : a[k] = b[k]
  PROVE  a = b
  OBVIOUS

\* A read goes to the end of the line, any other request to a place in it.
LEMMA SentLine ==
  ASSUME NEW v \in Nat, NEW w, WorkerType(w, v), NEW r \in Requests(v)
  PROVE  \E i \in 1..(Len(Posts(w)) + 1) :
            /\ PutIn(Requests(v), Posts(w), r, i, Posts(Sent(w, r)))
            /\ r.method \in Reads => i = Len(Posts(w)) + 1
<1> DEFINE T == Requests(v)
           P == Posts(w)
           Q == Posts(Sent(w, r))
<1>1. WorkerType(Sent(w, r), v)
  BY Posted
<1>2. P \in Seq(T) /\ Q \in Seq(T) /\ r # None
  <2>1. r # None
    BY DEF Requests, Docs, NoDoc
  <2> QED BY <1>1, <2>1, PostsType
<1>3. CASE w.active = None
  <2>1. w \in [active : T \cup {None}, line : Seq(T)] /\ w.line = <<>>
    BY <1>3 DEF WorkerType
  <2> HIDE DEF T
  <2>2. Sent(w, r).active = r /\ Sent(w, r).line = <<>>
    BY <1>3, <2>1 DEF Sent
  <2>3. P = <<>> /\ Q \in Seq(T) /\ Len(Q) = 1 /\ Q[1] = r
    <3>1. P = <<>>
      BY <1>3, PostsType
    <3>2. Posts(Sent(w, r)) = <<r>>
      BY <1>2, <2>2 DEF Posts
    <3>3. <<r>> \in Seq(T) /\ Len(<<r>>) = 1 /\ <<r>>[1] = r
      BY DEF T
    <3> QED BY <3>1, <3>2, <3>3
  <2> HIDE DEF P, Q
  <2>4. PutIn(T, P, r, 1, Q)
    BY <2>3 DEF PutIn
  <2> QED BY <2>3, <2>4 DEF P, Q, T
<1>4. CASE w.active # None
  <2> DEFINE q == w.line
             u == [k \in DOMAIN q |-> Urgency(q[k])]
             j == Insertion(u, Urgency(r))
             e == Enqueue(q, r, u, Urgency(r))
  <2>1. /\ q \in Seq(T) /\ DOMAIN q = 1..Len(q) /\ DOMAIN u = 1..Len(q) /\ Len(u) = Len(q) /\ Len(q) \in Nat
        /\ w \in [active : T \cup {None}, line : Seq(T)]
    BY DEF WorkerType
  <2>2. \A x \in T : Urgency(x) \in 0..2 /\ (x.method \in Reads => Urgency(x) = 2)
    BY DEF Urgency, priority, Reads, Requests, Methods
  <2>3. Sent(w, r) = [w EXCEPT !.line = e]
    BY <1>4 DEF Sent
  <2> HIDE DEF T
  <2>4. Sent(w, r).active = w.active /\ Sent(w, r).line = e
    BY <2>1, <2>3
  <2>5. r \in T /\ \A k \in 1..Len(q) : u[k] \in 0..2
    BY <2>1, <2>2 DEF T
  <2> HIDE DEF q, u
  <2>6. PutIn(T, q, r, j, e) /\ j \in 1..(Len(q) + 1) /\ (j <= Len(q) => u[j] > Urgency(r))
    BY <2>1, <2>5, EnqueuedLine, InsertionPlace
  <2>7. r.method \in Reads => j = Len(q) + 1
    <3> SUFFICES ASSUME r.method \in Reads, j # Len(q) + 1 PROVE FALSE
      OBVIOUS
    <3>1. j \in 1..Len(q) /\ u[j] > 2
      BY <2>1, <2>2, <2>5, <2>6
    <3> QED BY <2>5, <3>1
  <2> HIDE DEF j, e
  <2>8. /\ P \in Seq(T) /\ Len(P) = Len(q) + 1 /\ P[1] = w.active
        /\ \A k \in 1..Len(q) : P[k + 1] = q[k]
    BY <1>2, <1>4, PostsType DEF q
  <2>9. /\ Q \in Seq(T) /\ Len(Q) = Len(e) + 1 /\ Q[1] = w.active
        /\ \A k \in 1..Len(e) : Q[k + 1] = e[k]
    BY <1>1, <1>2, <1>4, <2>4, PostsType
  <2> HIDE DEF P, Q
  <2>10. Len(e) = Len(q) + 1 /\ \A k \in 1..(j - 1) : e[k] = q[k]
    BY <2>6 DEF PutIn
  <2>11. e[j] = r /\ \A k \in j..Len(q) : e[k + 1] = q[k]
    BY <2>6 DEF PutIn
  <2>12. \A k \in 2..(Len(q) + 1) : k - 1 \in 1..Len(q) /\ (k - 1) + 1 = k /\ P[k] = q[k - 1]
    <3> TAKE k \in 2..(Len(q) + 1)
    <3>1. k - 1 \in 1..Len(q) /\ (k - 1) + 1 = k
      BY <2>1
    <3> QED BY <2>8, <3>1
  <2>13. \A k \in 2..(Len(q) + 2) : Q[k] = e[k - 1]
    <3> TAKE k \in 2..(Len(q) + 2)
    <3>1. k - 1 \in 1..Len(e) /\ (k - 1) + 1 = k
      BY <2>1, <2>10
    <3> QED BY <2>9, <3>1
  <2>14. \A k \in 1..j : Q[k] = P[k]
    <3> TAKE k \in 1..j
    <3>1. CASE k = 1
      BY <2>8, <2>9, <3>1
    <3>2. CASE k # 1
      <4>1. k \in 2..(Len(q) + 1) /\ k \in 2..(Len(q) + 2) /\ k - 1 \in 1..(j - 1)
        BY <2>1, <2>6, <3>2
      <4> QED BY <2>10, <2>12, <2>13, <4>1
    <3> QED BY <3>1, <3>2
  <2>15. \A k \in (j + 1)..(Len(q) + 1) : Q[k + 1] = P[k]
    <3> TAKE k \in (j + 1)..(Len(q) + 1)
    <3>1. /\ k \in 2..(Len(q) + 1) /\ k + 1 \in 2..(Len(q) + 2) /\ (k + 1) - 1 = k
          /\ k - 1 \in j..Len(q) /\ (k - 1) + 1 = k
      BY <2>1, <2>6
    <3>2. e[k] = q[k - 1]
      BY <2>11, <3>1
    <3> QED BY <2>12, <2>13, <3>1, <3>2
  <2>16. Q[j + 1] = r
    <3>1. j + 1 \in 2..(Len(q) + 2) /\ (j + 1) - 1 = j
      BY <2>1, <2>6
    <3> QED BY <2>11, <2>13, <3>1
  <2>17. Len(Q) = Len(P) + 1 /\ (j + 1) - 1 = j /\ j + 1 \in 1..(Len(P) + 1)
    BY <2>1, <2>6, <2>8, <2>9, <2>10
  <2>18. PutIn(T, P, r, j + 1, Q)
    BY <2>8, <2>9, <2>14, <2>15, <2>16, <2>17 DEF PutIn
  <2>19. r.method \in Reads => j + 1 = Len(P) + 1
    BY <2>7, <2>8
  <2> QED BY <2>17, <2>18, <2>19 DEF P, Q, T
<1> QED BY <1>3, <1>4

\* The pipeline after a request: the answers come before what the worker does.
LEMMA PipeSent ==
  ASSUME NEW v \in Nat, NEW w, WorkerType(w, v), NEW b \in Seq(Responses(v)), NEW r \in Requests(v)
  PROVE  \E i \in 1..(Len(Pipe(b, w)) + 1) :
            /\ PutIn(Ops \X Methods, Pipe(b, w), Tag(r), i, Pipe(b, Sent(w, r)))
            /\ r.method \in Reads => i = Len(Pipe(b, w)) + 1
<1>1. PICK i \in 1..(Len(Posts(w)) + 1) :
         /\ PutIn(Requests(v), Posts(w), r, i, Posts(Sent(w, r)))
         /\ r.method \in Reads => i = Len(Posts(w)) + 1
  BY SentLine
<1>2. WorkerType(Sent(w, r), v)
  BY Posted
<1>3. /\ Pipe(b, w) \in Seq(Ops \X Methods) /\ Len(Pipe(b, w)) = Len(b) + Len(Posts(w))
      /\ Len(b) \in Nat /\ Len(Posts(w)) \in Nat
      /\ \A k \in 1..Len(b) : Pipe(b, w)[k] = Tag(b[k])
      /\ \A k \in 1..Len(Posts(w)) : Pipe(b, w)[Len(b) + k] = Tag(Posts(w)[k])
  BY PipeParts
<1>4. /\ Pipe(b, Sent(w, r)) \in Seq(Ops \X Methods)
      /\ Len(Pipe(b, Sent(w, r))) = Len(b) + Len(Posts(Sent(w, r)))
      /\ \A k \in 1..Len(b) : Pipe(b, Sent(w, r))[k] = Tag(b[k])
      /\ \A k \in 1..Len(Posts(Sent(w, r))) : Pipe(b, Sent(w, r))[Len(b) + k] = Tag(Posts(Sent(w, r))[k])
  BY <1>2, PipeParts
<1>5. PICK j : j = Len(b) + i
  OBVIOUS
<1>6. PICK l \in Nat : l = Len(Posts(w))
  BY <1>3
<1>7. PICK n \in Nat : n = Len(b)
  BY <1>3
<1>8. /\ PutIn(Requests(v), Posts(w), r, i, Posts(Sent(w, r)))
      /\ i \in 1..(Len(Posts(w)) + 1) /\ j = n + i
  BY <1>1, <1>5, <1>7
<1>10. PICK P : P = Posts(w)
  OBVIOUS
<1>11. PICK Q : Q = Posts(Sent(w, r))
  OBVIOUS
<1>12. PICK S : S = Pipe(b, w)
  OBVIOUS
<1>13. PICK R : R = Pipe(b, Sent(w, r))
  OBVIOUS
<1>14. /\ l = Len(P) /\ n = Len(b) /\ PutIn(Requests(v), P, r, i, Q) /\ i \in 1..(Len(P) + 1) /\ j = n + i
       /\ S \in Seq(Ops \X Methods) /\ R \in Seq(Ops \X Methods) /\ Len(S) = n + Len(P) /\ Len(R) = n + Len(Q)
       /\ \A k \in 1..n : S[k] = Tag(b[k])
       /\ \A k \in 1..Len(P) : S[n + k] = Tag(P[k])
       /\ \A k \in 1..n : R[k] = Tag(b[k])
       /\ \A k \in 1..Len(Q) : R[n + k] = Tag(Q[k])
  BY <1>3, <1>4, <1>6, <1>7, <1>8, <1>10, <1>11, <1>12, <1>13
<1>15. /\ j \in 1..(Len(S) + 1) /\ PutIn(Ops \X Methods, S, Tag(r), j, R)
       /\ i = Len(P) + 1 => j = Len(S) + 1
  <2>5. /\ Len(Q) = Len(P) + 1 /\ Q[i] = r /\ \A k \in 1..(i - 1) : Q[k] = P[k]
        /\ \A k \in i..Len(P) : Q[k + 1] = P[k]
    BY <1>14 DEF PutIn
  <2>6. \A k \in 1..n : R[k] = S[k]
    BY <1>14
  <2>7. \A k \in 1..(i - 1) : R[n + k] = S[n + k]
    <3> TAKE k \in 1..(i - 1)
    <3>1. k \in 1..Len(P) /\ k \in 1..Len(Q)
      BY <1>14, <2>5
    <3> QED BY <1>14, <2>5, <3>1
  <2>8. \A k \in i..Len(P) : R[n + (k + 1)] = S[n + k]
    <3> TAKE k \in i..Len(P)
    <3>1. k \in 1..Len(P) /\ k + 1 \in 1..Len(Q)
      BY <1>14, <2>5
    <3> QED BY <1>14, <2>5, <3>1
  <2>9. R[n + i] = Tag(r) /\ Len(R) = n + (Len(P) + 1)
    <3>1. i \in 1..Len(Q)
      BY <1>14, <2>5
    <3> QED BY <1>14, <2>5, <3>1
  <2>1. \A k \in 1..(j - 1) : R[k] = S[k]
    <3> TAKE k \in 1..(j - 1)
    <3>1. CASE k <= n
      BY <1>14, <2>6, <3>1
    <3>2. CASE k > n
      <4>1. k - n \in 1..(i - 1) /\ n + (k - n) = k
        BY <1>14, <3>2
      <4>2. R[n + (k - n)] = S[n + (k - n)]
        BY <1>14, <2>7, <4>1
      <4> QED BY <1>14, <4>1, <4>2
    <3> QED BY <1>14, <3>1, <3>2
  <2>2. \A k \in j..Len(S) : R[k + 1] = S[k]
    <3> TAKE k \in j..Len(S)
    <3>1. k - n \in i..Len(P) /\ n + (k - n) = k /\ n + ((k - n) + 1) = k + 1
      BY <1>14
    <3>2. R[n + ((k - n) + 1)] = S[n + (k - n)]
      BY <1>14, <2>8, <3>1
    <3> QED BY <1>14, <3>1, <3>2
  <2> QED BY <1>14, <2>1, <2>2, <2>9 DEF PutIn
<1>9. /\ j \in 1..(Len(Pipe(b, w)) + 1)
      /\ PutIn(Ops \X Methods, Pipe(b, w), Tag(r), j, Pipe(b, Sent(w, r)))
      /\ i = Len(Posts(w)) + 1 => j = Len(Pipe(b, w)) + 1
  BY <1>10, <1>11, <1>12, <1>13, <1>15
<1> QED BY <1>1, <1>9

\* The head of the pipeline is the oldest answer.
LEMMA TailOf ==
  ASSUME NEW T, NEW b \in Seq(T), b # <<>>
  PROVE  /\ Tail(b) \in Seq(T) /\ Len(b) \in Nat /\ Len(b) # 0 /\ Len(Tail(b)) = Len(b) - 1
         /\ Head(b) = b[1] /\ Head(b) \in T /\ \A k \in 1..(Len(b) - 1) : Tail(b)[k] = b[k + 1]
  OBVIOUS

LEMMA PipeHandled ==
  ASSUME NEW v \in Nat, NEW w, WorkerType(w, v), NEW b \in Seq(Responses(v)), b # <<>>
  PROVE  /\ Pipe(b, w) # <<>> /\ Head(Pipe(b, w)) = Tag(Head(b))
         /\ Pipe(Tail(b), w) = Tail(Pipe(b, w))
<1>1. /\ Pipe(b, w) \in Seq(Ops \X Methods) /\ Len(Pipe(b, w)) = Len(b) + Len(Posts(w))
      /\ Len(b) \in Nat /\ Len(Posts(w)) \in Nat
      /\ \A k \in 1..Len(b) : Pipe(b, w)[k] = Tag(b[k])
      /\ \A k \in 1..Len(Posts(w)) : Pipe(b, w)[Len(b) + k] = Tag(Posts(w)[k])
  BY PipeParts
<1>2. /\ Tail(b) \in Seq(Responses(v)) /\ Len(b) # 0 /\ Len(Tail(b)) = Len(b) - 1 /\ Head(b) = b[1]
      /\ \A k \in 1..(Len(b) - 1) : Tail(b)[k] = b[k + 1]
  BY ONLY b \in Seq(Responses(v)), b # <<>>, TailOf
<1>3. \A t \in Seq(Responses(v)) :
         /\ Pipe(t, w) \in Seq(Ops \X Methods) /\ Len(Pipe(t, w)) = Len(t) + Len(Posts(w))
         /\ \A k \in 1..Len(t) : Pipe(t, w)[k] = Tag(t[k])
         /\ \A k \in 1..Len(Posts(w)) : Pipe(t, w)[Len(t) + k] = Tag(Posts(w)[k])
  BY PipeParts
<1>4. /\ Pipe(Tail(b), w) \in Seq(Ops \X Methods) /\ Len(Pipe(Tail(b), w)) = Len(Tail(b)) + Len(Posts(w))
      /\ \A k \in 1..Len(Tail(b)) : Pipe(Tail(b), w)[k] = Tag(Tail(b)[k])
      /\ \A k \in 1..Len(Posts(w)) : Pipe(Tail(b), w)[Len(Tail(b)) + k] = Tag(Posts(w)[k])
  BY ONLY <1>2, <1>3
<1>6. PICK P : P = Posts(w)
  OBVIOUS
<1>7. PICK S : S = Pipe(b, w)
  OBVIOUS
<1>8. PICK R : R = Pipe(Tail(b), w)
  OBVIOUS
<1>9. PICK t : t = Tail(b)
  OBVIOUS
<1>10. /\ S \in Seq(Ops \X Methods) /\ R \in Seq(Ops \X Methods)
       /\ Len(b) \in Nat /\ Len(b) # 0 /\ Len(P) \in Nat /\ Len(t) = Len(b) - 1
       /\ \A k \in 1..(Len(b) - 1) : t[k] = b[k + 1]
       /\ Len(S) = Len(b) + Len(P) /\ Len(R) = Len(t) + Len(P)
       /\ \A k \in 1..Len(b) : S[k] = Tag(b[k])
       /\ \A k \in 1..Len(P) : S[Len(b) + k] = Tag(P[k])
       /\ \A k \in 1..Len(t) : R[k] = Tag(t[k])
       /\ \A k \in 1..Len(P) : R[Len(t) + k] = Tag(P[k])
  BY <1>1, <1>2, <1>4, <1>6, <1>7, <1>8, <1>9
<1>5. S # <<>> /\ Head(S) = Tag(b[1]) /\ R = Tail(S)
  <2>1. S # <<>> /\ Head(S) = Tag(b[1])
    <3>1. 1 \in 1..Len(b) /\ Len(S) > 0
      BY ONLY <1>10
    <3>2. S # <<>> /\ S[1] = Tag(b[1])
      BY ONLY <1>10, <3>1
    <3> QED BY ONLY <1>10, <3>2
  <2>2. Tail(S) \in Seq(Ops \X Methods) /\ Len(Tail(S)) = Len(S) - 1 /\ \A k \in 1..(Len(S) - 1) : Tail(S)[k] = S[k + 1]
    BY <1>10, <2>1
  <2>3. \A k \in 1..Len(R) : R[k] = Tail(S)[k]
    <3> TAKE k \in 1..Len(R)
    <3>1. k \in 1..(Len(S) - 1) /\ Tail(S)[k] = S[k + 1]
      BY <1>10, <2>2
    <3>2. CASE k < Len(b)
      <4>1. k \in 1..(Len(b) - 1) /\ k + 1 \in 1..Len(b) /\ k \in 1..Len(t)
        BY <1>10, <3>2
      <4>2. R[k] = Tag(t[k]) /\ S[k + 1] = Tag(b[k + 1]) /\ t[k] = b[k + 1]
        BY <1>10, <4>1
      <4> QED BY <1>10, <3>1, <4>2
    <3>3. CASE k >= Len(b)
      <4>1. PICK m \in 1..Len(P) : k + 1 = Len(b) + m
        <5>1. k + 1 - Len(b) \in 1..Len(P) /\ k + 1 = Len(b) + (k + 1 - Len(b))
          BY <1>10, <3>3
        <5> QED BY <1>10, <5>1
      <4>2. k = Len(t) + m
        BY ONLY <1>10, <4>1, k \in Int, m \in Int
      <4>3. S[Len(b) + m] = Tag(P[m]) /\ R[Len(t) + m] = Tag(P[m])
        BY <1>10, <4>1
      <4> QED BY <1>10, <3>1, <4>1, <4>2, <4>3
    <3> QED BY <1>10, <3>2, <3>3
  <2>4. Len(R) = Len(Tail(S))
    BY <1>10, <2>2
  <2> QED BY <1>10, <2>1, <2>2, <2>3, <2>4, SameSeq
<1> QED BY <1>2, <1>5, <1>7, <1>8

\* The worker's answer takes the place of the request in the pipeline.
LEMMA PipeServed ==
  ASSUME NEW v \in Nat, NEW w, WorkerType(w, v), w.active # None, NEW b \in Seq(Responses(v)),
         NEW a \in Responses(v), Tag(a) = Tag(w.active), NEW n,
         n = IF w.line = <<>> THEN [active |-> None, line |-> <<>>]
             ELSE [active |-> Head(w.line), line |-> Tail(w.line)]
  PROVE  Pipe(Append(b, a), n) = Pipe(b, w) /\ \A r : In(Posts(n), r) => In(Posts(w), r)
<1> DEFINE T == Requests(v)
           U == Responses(v)
           P == Posts(w)
           Q == Posts(n)
           c == Append(b, a)
           q == w.line
<1>1. q \in Seq(T) /\ w.active \in T
  BY DEF WorkerType
<1>2. WorkerType(n, v)
  BY Served
<1>3. P \in Seq(T) /\ Len(P) = Len(q) + 1 /\ P[1] = w.active /\ \A k \in 1..Len(q) : P[k + 1] = q[k]
  BY PostsType
<1>4. c \in Seq(U) /\ Len(c) = Len(b) + 1 /\ c[Len(b) + 1] = a /\ \A k \in 1..Len(b) : c[k] = b[k]
  OBVIOUS
<1>5. Q \in Seq(T) /\ Len(Q) = Len(q) /\ \A k \in 1..Len(q) : Q[k] = q[k]
  <2>1. CASE q = <<>>
    <3>1. Q = <<>>
      BY <1>2, <2>1, PostsType
    <3> HIDE DEF Q, q
    <3> QED BY <2>1, <3>1
  <2>2. CASE q # <<>>
    <3>1. n.active = Head(q) /\ n.line = Tail(q)
      BY <2>2
    <3> HIDE DEF T, q
    <3>2. Head(q) \in T /\ Head(q) = q[1] /\ Tail(q) \in Seq(T) /\ Len(Tail(q)) = Len(q) - 1 /\ Len(q) \in Nat \ {0}
          /\ \A k \in 1..(Len(q) - 1) : Tail(q)[k] = q[k + 1]
      BY <1>1, <2>2
    <3>3. Head(q) # None
      BY <3>2 DEF T, Requests, Docs, NoDoc
    <3>4. /\ Q \in Seq(T) /\ Len(Q) = Len(Tail(q)) + 1 /\ Q[1] = Head(q)
          /\ \A k \in 1..Len(Tail(q)) : Q[k + 1] = Tail(q)[k]
      BY <1>2, <3>1, <3>3, PostsType DEF T
    <3> HIDE DEF Q
    <3>5. \A k \in 1..Len(q) : Q[k] = q[k]
      <4> TAKE k \in 1..Len(q)
      <4>1. CASE k = 1
        BY <3>2, <3>4, <4>1
      <4>2. CASE k # 1
        <5>1. k - 1 \in 1..(Len(q) - 1) /\ (k - 1) + 1 = k
          BY <3>2, <4>2
        <5> QED BY <3>2, <3>4, <5>1
      <4> QED BY <4>1, <4>2
    <3> QED BY <3>2, <3>4, <3>5
  <2> QED BY <2>1, <2>2
<1>6. \A r : In(Q, r) => In(P, r)
  <2> HIDE DEF T, P, Q, q
  <2> SUFFICES ASSUME NEW k \in 1..Len(q) PROVE \E j \in DOMAIN P : P[j] = Q[k]
    BY <1>5 DEF In
  <2>1. k + 1 \in DOMAIN P /\ P[k + 1] = Q[k]
    BY <1>1, <1>3, <1>5
  <2> QED BY <2>1
<1>7. Pipe(c, n) = Pipe(b, w)
  <2> DEFINE S == Pipe(b, w)
             R == Pipe(c, n)
  <2>1. /\ S \in Seq(Ops \X Methods) /\ Len(S) = Len(b) + Len(P) /\ Len(b) \in Nat /\ Len(P) \in Nat
        /\ \A k \in 1..Len(b) : S[k] = Tag(b[k])
        /\ \A k \in 1..Len(P) : S[Len(b) + k] = Tag(P[k])
    BY PipeParts
  <2>2. /\ R \in Seq(Ops \X Methods) /\ Len(R) = Len(c) + Len(Q)
        /\ \A k \in 1..Len(c) : R[k] = Tag(c[k])
        /\ \A k \in 1..Len(Q) : R[Len(c) + k] = Tag(Q[k])
    <3> HIDE DEF c
    <3>1. c \in Seq(Responses(v))
      BY <1>4
    <3>2. /\ Pipe(c, n) \in Seq(Ops \X Methods) /\ Len(Pipe(c, n)) = Len(c) + Len(Posts(n))
          /\ \A k \in 1..Len(c) : Pipe(c, n)[k] = Tag(c[k])
          /\ \A k \in 1..Len(Posts(n)) : Pipe(c, n)[Len(c) + k] = Tag(Posts(n)[k])
      <4> HIDE DEF Q, P
      <4> QED BY ONLY <1>2, <3>1, v \in Nat, PipeParts
    <3> QED BY <3>2
  <2>3. Tag(a) = Tag(P[1])
    BY <1>3
  <2> HIDE DEF S, R, P, Q, c, q, T, U
  <2>4. Len(S) = Len(R)
    BY <1>1, <1>3, <1>4, <1>5, <2>1, <2>2
  <2>5. \A k \in 1..Len(S) : S[k] = R[k]
    <3> TAKE k \in 1..Len(S)
    <3>1. CASE k <= Len(b)
      <4>1. k \in 1..Len(b) /\ k \in 1..Len(c)
        BY <1>4, <2>1, <3>1
      <4> QED BY <1>4, <2>1, <2>2, <4>1
    <3>2. CASE k = Len(b) + 1
      <4>1. 1 \in 1..Len(P) /\ k \in 1..Len(c)
        BY <1>1, <1>3, <1>4, <2>1, <3>2
      <4> QED BY <1>4, <2>1, <2>2, <2>3, <3>2, <4>1
    <3>3. CASE k > Len(b) + 1
      <4>1. /\ Len(S) = Len(b) + (Len(q) + 1) /\ Len(c) = Len(b) + 1 /\ Len(Q) = Len(q)
            /\ Len(P) = Len(q) + 1 /\ Len(b) \in Nat /\ Len(P) \in Nat
        BY <1>3, <1>4, <1>5, <2>1
      <4>2. k \in 1..(Len(b) + (Len(q) + 1))
        BY <4>1
      <4>3. Len(q) \in Nat
        BY <1>1
      <4>4. PICK m \in 1..Len(q) : k = Len(b) + 1 + m
        <5>1. k - (Len(b) + 1) \in 1..Len(q) /\ k = Len(b) + 1 + (k - (Len(b) + 1))
          BY <3>3, <4>1, <4>2, <4>3
        <5> QED BY <5>1
      <4>5. m \in 1..Len(Q) /\ m + 1 \in 1..Len(P) /\ Len(c) + m = k /\ Len(b) + (m + 1) = k
        BY <4>1, <4>3, <4>4
      <4>6. P[m + 1] = q[m] /\ Q[m] = q[m]
        BY <1>3, <1>5, <4>4
      <4>7. S[Len(b) + (m + 1)] = Tag(P[m + 1]) /\ R[Len(c) + m] = Tag(Q[m])
        BY <2>1, <2>2, <4>5
      <4> QED BY <4>5, <4>6, <4>7
    <3> QED BY <2>1, <3>1, <3>2, <3>3
  <2>6. S = R
    BY <2>1, <2>2, <2>4, <2>5, SameSeq
  <2> QED BY <2>6 DEF S, R
<1> QED BY <1>6, <1>7

----------------------------------------------------------------------------
(* One character, of which no save may be lost: what the safety properties    *)
(* rest on.                                                                   *)

\* The instances the theorems below are about: one character is used, nobody
\* removes it, discards its edits or updates the content it is loaded with, and
\* IndexedDB takes the write of a durable mutation (it may refuse any other).
\* With two characters, a removal, a content update, a discarded edit or a refused
\* durable write the properties do not hold of every interleaving.
OneCharacter == \E a : Ids = {a}
Undisturbed == UserKinds \cap {"remove", "reload", "discard"} = {} /\ "durable" \notin Refused

SavePoints == {"export", "summary", "put"}
LoadPoints == {"get", "create", "import"}
Loads == {"open", "mutate", "durable"}
Changers == {"mutate", "durable", "undo"}

\* Operation p, of state p, is to be answered by the engine, or by the store.
Awaits(p, m) ==
  \/ m = "exportCharacterXml" /\ (p.pc \in {"export", "before", "ignore"} \/ (p.pc = "mutate" /\ p.kind = "mutate"))
  \/ m = "getCharacter" /\ p.pc \in {"summary", "detail", "loaded", "restored"}
  \/ m = "createCharacter" /\ p.pc = "create"
  \/ m = "importCharacterXml" /\ p.pc \in {"import", "restore"}
  \/ m = "mutation" /\ p.pc \in {"mutate", "mutateOnly"}
OnDisk(p) == p.pc \in {"get", "put"}

Answerable ==
  /\ Distinct(Pipeline) /\ Distinct(disk)
  /\ \A o \in Ops, m \in Methods : In(Pipeline, <<o, m>>) <=> Awaits(op[o], m)
  /\ \A o \in Ops : In(disk, o) <=> OnDisk(op[o])

\* The points an operation of each kind comes to, and the character it is of.
OnItsWay(p) ==
  /\ p.kind \in {"open", "mutate", "durable", "save", "flush", "timer", "undo", None}
  /\ p.kind = "open" => p.pc \in LoadPoints \cup {"wait", "loaded", "detail"}
  /\ p.kind = "mutate" => p.pc \in LoadPoints \cup {"wait", "loaded", "mutate", "mutateOnly", "before"}
  /\ p.kind = "durable" => p.pc \in LoadPoints \cup SavePoints \cup {"wait", "loaded", "mutate"}
  /\ p.kind \in {"save", "flush"} => p.pc \in SavePoints \cup {"wait"}
  /\ p.kind = "timer" => p.pc \in SavePoints
  /\ p.kind = "undo" => p.pc \in {"restore", "restored"}
  /\ p.kind = None => p.pc \in {"free", "ignore"}
  /\ p.kind = None \/ (p.kind = "flush" /\ p.pc = "wait") \/ p.id \in Ids

\* One change of the character at a time.
Ways ==
  /\ \A o \in Ops : OnItsWay(op[o]) /\ op[o].gen <= sequence
  /\ \A o, p \in Ops : op[o].kind \in Changers /\ op[p].kind \in Changers => o = p

\* Until the character is loaded there is nothing to save, and one operation
\* loads it.
Unopened(a) ==
  loadedId = None =>
    /\ dirty[a] = 0 /\ timers[a] = "off" /\ undo[a] = <<>> /\ latest[a] = NoDoc
    /\ \A o \in Ops :
         /\ op[o].kind \in Loads \cup {"flush", None}
         /\ op[o].pc \in LoadPoints \cup {"free", "wait"}
         /\ op[o].kind = "flush" => op[o].ids = {}
         /\ op[o].before # Blank
         /\ op[o].pc \in LoadPoints => loading = o
         /\ op[o].pc \in {"create", "import"} => op[o].xml = store[a]
         /\ op[o].kind \in Loads /\ op[o].pc = "wait" /\ op[o].on = {} =>
              \A p \in Ops \ {o} : op[p].kind \notin Loads
    /\ \A r : In(Posts(worker), r) /\ r.method = "importCharacterXml" => r.doc = store[a]
    /\ \A k \in DOMAIN inbox : inbox[k].method = "importCharacterXml" => engine[a] = store[a]

\* An edit or an undo has changed the engine's copy and has not come to its
\* bookkeeping: its answer is on its way, or the operation awaits the rest.
Change(r) == r.method = "importCharacterXml" \/ (r.method = "mutation" /\ r.ok)
ChangeIn(b) == \E k \in DOMAIN b : Change(b[k])
Keeping(p) == p.pc \in {"before", "restored"} \/ (p.kind = "durable" /\ p.pc \in SavePoints)
Underway == ChangeIn(inbox) \/ \E o \in Ops : Keeping(op[o])

\* Once it is loaded every document about it is whole, and the newest is the
\* engine's.
Opened(a) ==
  loadedId = a =>
    /\ engine[a] >= 1 /\ latest[a] \in {NoDoc, engine[a]}
    /\ dirty[a] # 0 \/ Underway => latest[a] # NoDoc
    /\ \A o \in Ops : /\ op[o].pc \notin LoadPoints
                      /\ op[o].before # Blank
                      /\ op[o].pc \in {"summary", "put"} => op[o].xml >= 1
    /\ \A r : In(Posts(worker), r) /\ r.method = "importCharacterXml" => r.doc >= 1
    /\ \A k \in DOMAIN inbox : inbox[k].method \in Reads => inbox[k].ok /\ inbox[k].doc >= 1
    /\ \A k \in DOMAIN undo[a] : undo[a][k].xml >= 1

\* Save o is about to write an old document.
Stale(a, o) == op[o].pc \in {"summary", "put"} /\ op[o].xml # engine[a]

\* Save s writes before save t does.
Ahead(s, t) ==
  \/ op[t].pc = "put" /\ op[s].pc = "put" /\ Precedes(disk, s, t)
  \/ op[t].pc \in {"summary", "export"} /\ op[s].pc = "put"
  \/ op[t].pc = "summary" /\ Precedes(Pipeline, <<s, "getCharacter">>, <<t, "getCharacter">>)
  \/ op[t].pc = "export" /\ Precedes(Pipeline, <<s, "getCharacter">>, <<t, "exportCharacterXml">>)

\* Save t will mark the last edit stored.
Decisive(a, t) ==
  /\ op[t].pc \in SavePoints
  /\ op[t].kind = "durable" \/ (~Underway /\ dirty[a] # 0 /\ op[t].gen = dirty[a])

\* Marked clean, the character is stored, and will stay so.
CleanStored(a) ==
  loadedId = a /\ ~Underway /\ dirty[a] = 0 => store[a] = engine[a] /\ \A s \in Ops : ~Stale(a, s)
\* The save that will mark it writes the last edit, and writes last.
LastWritten(a) ==
  loadedId = a => \A t \in Ops : Decisive(a, t) =>
    ~Stale(a, t) /\ \A s \in Ops : Stale(a, s) => Ahead(s, t)
\* A document exported before a change arrives before the change's answer.
InOrder(a) ==
  loadedId = a => \A i \in DOMAIN inbox :
    inbox[i].method = "exportCharacterXml" /\ inbox[i].doc # engine[a] =>
      \E j \in DOMAIN inbox : i < j /\ Change(inbox[j])

Safe ==
  /\ IInv /\ Answerable /\ Ways
  /\ \A a \in Ids : /\ store[a] >= 1 /\ Unopened(a) /\ Opened(a)
                    /\ CleanStored(a) /\ LastWritten(a) /\ InOrder(a)

----------------------------------------------------------------------------
\* The pipeline's steps.

LEMMA PutInMembers ==
  ASSUME NEW T, NEW q \in Seq(T), NEW e \in T, NEW i \in 1..(Len(q) + 1), NEW r, PutIn(T, q, e, i, r)
  PROVE  \A x : In(r, x) <=> In(q, x) \/ x = e
<1> DEFINE to(k) == IF k < i THEN k ELSE k + 1
<1>1. /\ r \in Seq(T) /\ Len(r) = Len(q) + 1 /\ r[i] = e /\ Len(q) \in Nat
      /\ DOMAIN q = 1..Len(q) /\ DOMAIN r = 1..(Len(q) + 1)
  BY DEF PutIn
<1>2. \A k \in 1..Len(q) : to(k) \in 1..(Len(q) + 1) /\ r[to(k)] = q[k]
  BY <1>1 DEF PutIn
<1>3. \A k \in 1..(Len(q) + 1) : k = i \/ \E j \in 1..Len(q) : to(j) = k
  <2> TAKE k \in 1..(Len(q) + 1)
  <2>1. CASE k < i
    <3>1. k \in 1..Len(q) /\ to(k) = k
      BY <1>1, <2>1
    <3> QED BY <3>1
  <2>2. CASE k > i
    <3>1. k - 1 \in 1..Len(q) /\ to(k - 1) = k
      BY <1>1, <2>2
    <3> QED BY <3>1
  <2> QED BY <1>1, <2>1, <2>2
<1> HIDE DEF to
<1> QED BY <1>1, <1>2, <1>3 DEF In

\* What is answered or asked is in the pipeline.
LEMMA Members ==
  ASSUME NEW v \in Nat, NEW w, WorkerType(w, v), NEW b \in Seq(Responses(v))
  PROVE  /\ \A k \in DOMAIN b : In(Pipe(b, w), Tag(b[k])) /\ b[k] \in Responses(v)
         /\ \A r : In(Posts(w), r) => In(Pipe(b, w), Tag(r)) /\ r \in Requests(v)
<1>1. /\ Pipe(b, w) \in Seq(Ops \X Methods) /\ Len(Pipe(b, w)) = Len(b) + Len(Posts(w))
      /\ Len(b) \in Nat /\ Len(Posts(w)) \in Nat
      /\ \A k \in 1..Len(b) : Pipe(b, w)[k] = Tag(b[k])
      /\ \A k \in 1..Len(Posts(w)) : Pipe(b, w)[Len(b) + k] = Tag(Posts(w)[k])
  BY PipeParts
<1>2. Posts(w) \in Seq(Requests(v))
  BY PostsType
<1>3. PICK P \in Seq(Requests(v)) : P = Posts(w)
  BY <1>2
<1>4. PICK S \in Seq(Ops \X Methods) : S = Pipe(b, w)
  BY <1>1
<1>5. /\ Len(S) = Len(b) + Len(P) /\ Len(b) \in Nat /\ Len(P) \in Nat
      /\ \A k \in 1..Len(b) : S[k] = Tag(b[k])
      /\ \A k \in 1..Len(P) : S[Len(b) + k] = Tag(P[k])
      /\ DOMAIN S = 1..Len(S) /\ DOMAIN P = 1..Len(P) /\ DOMAIN b = 1..Len(b)
  BY <1>1, <1>3, <1>4
<1>6. \A k \in DOMAIN b : In(S, Tag(b[k])) /\ b[k] \in Responses(v)
  <2> TAKE k \in DOMAIN b
  <2>1. k \in DOMAIN S /\ S[k] = Tag(b[k])
    BY <1>5
  <2>2. b[k] \in Responses(v)
    <3> DEFINE T == Responses(v)
    <3>1. b \in Seq(T)
      OBVIOUS
    <3> HIDE DEF T
    <3>2. b[k] \in T
      BY <3>1
    <3> QED BY <3>2 DEF T
  <2> QED BY <2>1, <2>2 DEF In
<1>7. ASSUME NEW r, In(P, r) PROVE In(S, Tag(r)) /\ r \in Requests(v)
  <2>1. PICK k \in 1..Len(P) : P[k] = r
    BY <1>5, <1>7 DEF In
  <2>2. Len(b) + k \in DOMAIN S /\ S[Len(b) + k] = Tag(r)
    BY <1>5, <2>1
  <2>3. P[k] \in Requests(v)
    <3> DEFINE T == Requests(v)
    <3>1. P \in Seq(T)
      OBVIOUS
    <3> HIDE DEF T
    <3>2. P[k] \in T
      BY <3>1, <2>1
    <3> QED BY <3>2 DEF T
  <2> QED BY <2>1, <2>2, <2>3 DEF In
<1> QED BY <1>3, <1>4, <1>6, <1>7

\* A request joins the pipeline; a read joins it behind all that is in it.
Joins(P, Q, x) ==
  /\ Distinct(Q) /\ \A y : In(Q, y) <=> In(P, y) \/ y = x
  /\ \A y, z : Precedes(P, y, z) => Precedes(Q, y, z)

LEMMA Posting ==
  ASSUME NEW v \in Nat, NEW w, WorkerType(w, v), NEW b \in Seq(Responses(v)), NEW r \in Requests(v),
         Distinct(Pipe(b, w)), ~In(Pipe(b, w), Tag(r))
  PROVE  /\ WorkerType(Sent(w, r), v)
         /\ Joins(Pipe(b, w), Pipe(b, Sent(w, r)), Tag(r))
         /\ r.method \in Reads => \A x : In(Pipe(b, w), x) => Precedes(Pipe(b, Sent(w, r)), x, Tag(r))
         /\ \A x : In(Posts(Sent(w, r)), x) <=> In(Posts(w), x) \/ x = r
<1>1. WorkerType(Sent(w, r), v)
  BY Posted
<1>2. PICK i \in 1..(Len(Pipe(b, w)) + 1) :
        /\ PutIn(Ops \X Methods, Pipe(b, w), Tag(r), i, Pipe(b, Sent(w, r)))
        /\ r.method \in Reads => i = Len(Pipe(b, w)) + 1
  BY PipeSent
<1>3. Pipe(b, w) \in Seq(Ops \X Methods) /\ Tag(r) \in Ops \X Methods
  <2>1. Tag(r) \in Ops \X Methods
    BY DEF Tag, Requests
  <2> QED BY <2>1, PipeParts
<1>4. PICK T : T = Ops \X Methods
  OBVIOUS
<1>5. PICK q \in Seq(T) : q = Pipe(b, w)
  BY <1>3, <1>4
<1>6. PICK e \in T : e = Tag(r)
  BY <1>3, <1>4
<1>7. PICK n : n = Pipe(b, Sent(w, r))
  OBVIOUS
<1>8. /\ i \in 1..(Len(q) + 1) /\ PutIn(T, q, e, i, n) /\ Distinct(q) /\ ~In(q, e)
      /\ r.method \in Reads => i = Len(q) + 1
  BY <1>2, <1>4, <1>5, <1>6, <1>7
<1>9. /\ Distinct(n) /\ \A x : In(n, x) <=> In(q, x) \/ x = e
      /\ \A x, y : Precedes(q, x, y) => Precedes(n, x, y)
      /\ i = Len(q) + 1 => \A x : In(q, x) => Precedes(n, x, e)
  BY ONLY <1>5, <1>6, <1>8, OrderPutIn
<1>10. \A x : In(Posts(Sent(w, r)), x) <=> In(Posts(w), x) \/ x = r
  <2>1. PICK j \in 1..(Len(Posts(w)) + 1) : PutIn(Requests(v), Posts(w), r, j, Posts(Sent(w, r)))
    BY SentLine
  <2>2. PICK R : R = Requests(v)
    OBVIOUS
  <2>3. PICK p \in Seq(R) : p = Posts(w)
    BY <2>2, PostsType
  <2>4. PICK s : s = Posts(Sent(w, r))
    OBVIOUS
  <2>5. r \in R /\ j \in 1..(Len(p) + 1) /\ PutIn(R, p, r, j, s)
    BY <2>1, <2>2, <2>3, <2>4
  <2>6. \A x : In(s, x) <=> In(p, x) \/ x = r
    BY ONLY <2>3, <2>5, PutInMembers
  <2> QED BY <2>3, <2>4, <2>6
<1>11. Joins(Pipe(b, w), Pipe(b, Sent(w, r)), Tag(r))
  BY <1>5, <1>6, <1>7, <1>9 DEF Joins
<1>12. r.method \in Reads => \A x : In(Pipe(b, w), x) => Precedes(Pipe(b, Sent(w, r)), x, Tag(r))
  BY <1>5, <1>6, <1>7, <1>8, <1>9
<1> QED BY <1>1, <1>10, <1>11, <1>12

\* The first of the pipeline leaves it.
Leaves(P, Q, x) ==
  /\ Distinct(Q) /\ In(P, x) /\ \A y : In(Q, y) <=> In(P, y) /\ y # x
  /\ \A y, z : Precedes(P, y, z) /\ y # x => Precedes(Q, y, z)
  /\ \A y : ~Precedes(P, y, x)

LEMMA Handling ==
  ASSUME NEW v \in Nat, NEW w, WorkerType(w, v), NEW b \in Seq(Responses(v)), b # <<>>, Distinct(Pipe(b, w))
  PROVE  /\ Leaves(Pipe(b, w), Pipe(Tail(b), w), Tag(Head(b)))
         /\ Tail(b) \in Seq(Responses(v)) /\ Head(b) \in Responses(v) /\ 1 \in DOMAIN b /\ Head(b) = b[1]
         /\ \A k \in DOMAIN Tail(b) : k + 1 \in DOMAIN b /\ Tail(b)[k] = b[k + 1]
         /\ \A k \in DOMAIN b : k # 1 => k - 1 \in DOMAIN Tail(b) /\ Tail(b)[k - 1] = b[k]
<1>1. Pipe(b, w) # <<>> /\ Head(Pipe(b, w)) = Tag(Head(b)) /\ Pipe(Tail(b), w) = Tail(Pipe(b, w))
  BY PipeHandled
<1>2. Pipe(b, w) \in Seq(Ops \X Methods)
  BY PipeParts
<1>3. PICK T : T = Ops \X Methods
  OBVIOUS
<1>4. PICK q \in Seq(T) : q = Pipe(b, w)
  BY <1>2, <1>3
<1>5. q # <<>> /\ Distinct(q)
  BY <1>1, <1>4
<1>6. /\ Distinct(Tail(q)) /\ In(q, Head(q))
      /\ \A x : In(Tail(q), x) <=> In(q, x) /\ x # Head(q)
      /\ \A x, y : Precedes(q, x, y) /\ x # Head(q) => Precedes(Tail(q), x, y)
      /\ \A x : ~Precedes(q, x, Head(q))
  BY ONLY <1>4, <1>5, OrderTail
<1>7. Leaves(Pipe(b, w), Pipe(Tail(b), w), Tag(Head(b)))
  <2>1. Leaves(q, Tail(q), Head(q))
    BY <1>6 DEF Leaves
  <2> QED BY ONLY <1>1, <1>4, <2>1
<1>8. /\ Tail(b) \in Seq(Responses(v)) /\ Len(b) \in Nat /\ Len(b) # 0 /\ Len(Tail(b)) = Len(b) - 1
      /\ Head(b) = b[1] /\ Head(b) \in Responses(v) /\ \A k \in 1..(Len(b) - 1) : Tail(b)[k] = b[k + 1]
  BY ONLY b \in Seq(Responses(v)), b # <<>>, TailOf
<1>9. DOMAIN b = 1..Len(b) /\ DOMAIN Tail(b) = 1..(Len(b) - 1)
  BY <1>8
<1>10. \A k \in DOMAIN b : k # 1 => k - 1 \in DOMAIN Tail(b) /\ Tail(b)[k - 1] = b[k]
  <2> TAKE k \in DOMAIN b
  <2> SUFFICES ASSUME k # 1 PROVE k - 1 \in DOMAIN Tail(b) /\ Tail(b)[k - 1] = b[k]
    OBVIOUS
  <2>1. k - 1 \in 1..(Len(b) - 1) /\ (k - 1) + 1 = k
    BY ONLY <1>8, <1>9, k \in DOMAIN b, k # 1
  <2> QED BY <1>8, <1>9, <2>1
<1>11. \A k \in DOMAIN Tail(b) : k + 1 \in DOMAIN b /\ Tail(b)[k] = b[k + 1]
  BY ONLY <1>8, <1>9
<1>12. 1 \in DOMAIN b
  BY ONLY <1>8, <1>9
<1> QED BY <1>7, <1>8, <1>10, <1>11, <1>12

\* A transaction joins the disk's queue, or is the first and leaves it.
LEMMA Queueing ==
  ASSUME NEW d \in Seq(Ops), NEW o \in Ops, Distinct(d), ~In(d, o)
  PROVE  Joins(d, Append(d, o), o) /\ \A x : In(d, x) => Precedes(Append(d, o), x, o)
  BY OrderAppend DEF Joins

LEMMA Completing ==
  ASSUME NEW d \in Seq(Ops), d # <<>>, Distinct(d)
  PROVE  Leaves(d, Tail(d), Head(d))
  BY OrderTail DEF Leaves

----------------------------------------------------------------------------
\* What a step leaves of the operations it is not of: all but what they wait
\* for, unless it ends one that waits.

Alike(p, q) ==
  /\ q.kind = p.kind /\ q.id = p.id /\ q.pc = p.pc /\ q.gen = p.gen
  /\ q.xml = p.xml /\ q.before = p.before /\ q.ids = p.ids
Elsewhere(o) ==
  \A p \in Ops \ {o} : Alike(op[p], op'[p]) \/ (op[p].pc = "wait" /\ op'[p] = Free)

LEMMA OtherOps ==
  ASSUME NEW o \in Ops, Elsewhere(o), NEW p \in Ops \ {o}
  PROVE  /\ \A m : Awaits(op'[p], m) <=> Awaits(op[p], m)
         /\ OnDisk(op'[p]) <=> OnDisk(op[p])
         /\ Keeping(op'[p]) <=> Keeping(op[p])
         /\ op'[p].pc \in SavePoints \cup LoadPoints \/ op[p].pc \in SavePoints \cup LoadPoints => Alike(op[p], op'[p])
         /\ OnItsWay(op[p]) => OnItsWay(op'[p])
         /\ op'[p].kind \in {op[p].kind, None} /\ op'[p].gen \in {op[p].gen, 0}
         /\ op'[p].before \in {op[p].before, NoDoc}
<1>1. CASE Alike(op[p], op'[p])
  BY <1>1 DEF Alike, Awaits, OnDisk, Keeping, OnItsWay
<1>2. CASE op[p].pc = "wait" /\ op'[p] = Free
  <2>1. /\ op'[p].kind = None /\ op'[p].pc = "free" /\ op'[p].gen = 0 /\ op'[p].before = NoDoc
    BY <1>2 DEF Free
  <2>2. "free" \notin SavePoints \cup LoadPoints /\ "wait" \notin SavePoints \cup LoadPoints
    BY DEF SavePoints, LoadPoints
  <2>3. \A m : ~Awaits(op'[p], m) /\ ~Awaits(op[p], m)
    BY <1>2, <2>1 DEF Awaits
  <2>4. ~OnDisk(op'[p]) /\ ~OnDisk(op[p]) /\ ~Keeping(op'[p]) /\ ~Keeping(op[p])
    BY <1>2, <2>1, <2>2 DEF OnDisk, Keeping
  <2>5. OnItsWay(op'[p])
    BY <2>1, NoneIsNoKind DEF OnItsWay
  <2> QED BY <1>2, <2>1, <2>2, <2>3, <2>4, <2>5
<1> QED BY <1>1, <1>2 DEF Elsewhere

\* Operation o goes from one state to the next, alone or settling what others
\* wait for.
LEMMA Alone ==
  ASSUME IInv, NEW o \in Ops, NEW q, op' = [op EXCEPT ![o] = q]
  PROVE  Elsewhere(o) /\ op'[o] = q
  BY DEF IInv, Types, OpTypes, Elsewhere, Alike

LEMMA Settling ==
  ASSUME IInv, NEW o \in Ops, NEW q \in Operations(version), q.on = {}, NEW t,
         op' \in {Resolved([op EXCEPT ![o] = q], t), Rejected([op EXCEPT ![o] = q], t)}
  PROVE  Elsewhere(o) /\ op'[o] = q
<1> DEFINE ops == [op EXCEPT ![o] = q]
<1>1. op \in [Ops -> Operations(version)] /\ ops \in [Ops -> Operations(version)] /\ ops[o] = q
      /\ \A p \in Ops \ {o} : ops[p] = op[p]
  BY DEF IInv, Types, OpTypes
<1>2. \A p \in Ops : op[p].on # {} => op[p].pc = "wait"
  BY <1>1 DEF Operations
<1> HIDE DEF ops
<1>3. CASE op' = Resolved(ops, t)
  <2>1. \A p \in Ops : op'[p] = [ops[p] EXCEPT !.on = @ \ {t}]
    BY <1>3 DEF Resolved
  <2>2. op'[o] = q
    <3>1. q = [q EXCEPT !.on = {}] /\ {} \ {t} = {}
      BY DEF Operations
    <3>2. op'[o] = [q EXCEPT !.on = q.on \ {t}]
      BY <1>1, <2>1
    <3> QED BY <3>1, <3>2
  <2>3. \A p \in Ops \ {o} : Alike(op[p], op'[p])
    <3> TAKE p \in Ops \ {o}
    <3>1. ops[p] = op[p] /\ op'[p] = [ops[p] EXCEPT !.on = @ \ {t}] /\ op[p] \in Operations(version)
      BY <1>1, <2>1
    <3> QED BY <3>1 DEF Alike, Operations
  <2> QED BY <2>2, <2>3 DEF Elsewhere
<1>4. CASE op' = Rejected(ops, t)
  <2>1. \A p \in Ops : op'[p] = IF t \in ops[p].on THEN Free ELSE ops[p]
    BY <1>4 DEF Rejected
  <2>2. op'[o] = q
    BY <1>1, <2>1
  <2>3. \A p \in Ops \ {o} : Alike(op[p], op'[p]) \/ (op[p].pc = "wait" /\ op'[p] = Free)
    BY <1>1, <1>2, <2>1 DEF Alike
  <2> QED BY <2>2, <2>3 DEF Elsewhere
<1> QED BY <1>3, <1>4 DEF ops

----------------------------------------------------------------------------
\* What a step does to the pipeline and to what is awaited of it.

Pending ==
  /\ Distinct(Pipeline)
  /\ \A o \in Ops, m \in Methods : In(Pipeline, <<o, m>>) <=> Awaits(op[o], m)
Writing ==
  /\ Distinct(disk)
  /\ \A o \in Ops : In(disk, o) <=> OnDisk(op[o])

LEMMA TwoQueues == Answerable <=> Pending /\ Writing
  BY DEF Answerable, Pending, Writing

\* The engine's part of the types.
LEMMA EngineSide ==
  ASSUME IInv
  PROVE  version \in Nat /\ WorkerType(worker, version) /\ inbox \in Seq(Responses(version))
         /\ disk \in Seq(Ops)
  BY DEF IInv, Types, EngineTypes, StoreTypes

\* Nothing is asked or answered.
LEMMA QuietStep ==
  ASSUME Pending, inbox' = inbox, worker' = worker, NEW o \in Ops, Elsewhere(o),
         \A m \in Methods : Awaits(op'[o], m) <=> Awaits(op[o], m)
  PROVE  Pending' /\ Pipeline' = Pipeline
<1>1. Pipeline' = Pipeline
  BY DEF Pipeline
<1>2. \A p \in Ops, m \in Methods : Awaits(op'[p], m) <=> Awaits(op[p], m)
  BY OtherOps
<1> QED BY <1>1, <1>2 DEF Pending

\* Operation o asks one thing more.
LEMMA AskStep ==
  ASSUME IInv, Pending, NEW r \in Requests(version), inbox' = inbox, worker' = Sent(worker, r),
         NEW o \in Ops, r.op = o, Elsewhere(o), ~Awaits(op[o], r.method),
         \A m \in Methods : Awaits(op'[o], m) <=> Awaits(op[o], m) \/ m = r.method
  PROVE  /\ Pending' /\ Joins(Pipeline, Pipeline', <<o, r.method>>)
         /\ r.method \in Reads => \A x : In(Pipeline, x) => Precedes(Pipeline', x, <<o, r.method>>)
         /\ \A x : In(Posts(worker'), x) <=> In(Posts(worker), x) \/ x = r
<1>1. r.method \in Methods /\ Tag(r) = <<o, r.method>>
  BY DEF Requests, Tag
<1>2. Distinct(Pipe(inbox, worker)) /\ ~In(Pipe(inbox, worker), Tag(r))
  BY <1>1 DEF Pending, Pipeline
<1>3. /\ Joins(Pipe(inbox, worker), Pipe(inbox, Sent(worker, r)), Tag(r))
      /\ r.method \in Reads => \A x : In(Pipe(inbox, worker), x) => Precedes(Pipe(inbox, Sent(worker, r)), x, Tag(r))
      /\ \A x : In(Posts(Sent(worker, r)), x) <=> In(Posts(worker), x) \/ x = r
  BY <1>2, Posting, EngineSide
<1>4. Pipeline' = Pipe(inbox, Sent(worker, r))
  BY DEF Pipeline
<1>5. Joins(Pipeline, Pipeline', <<o, r.method>>)
  BY <1>1, <1>3, <1>4 DEF Pipeline
<1>6. \A p \in Ops, m \in Methods : In(Pipeline', <<p, m>>) <=> Awaits(op'[p], m)
  <2> TAKE p \in Ops, m \in Methods
  <2>1. In(Pipeline', <<p, m>>) <=> Awaits(op[p], m) \/ (p = o /\ m = r.method)
    BY <1>5 DEF Joins, Pending
  <2>2. CASE p = o
    BY <2>1, <2>2
  <2>3. CASE p # o
    BY <2>1, <2>3, OtherOps
  <2> QED BY <2>2, <2>3
<1>7. Pending'
  BY <1>5, <1>6 DEF Joins, Pending
<1>8. r.method \in Reads => \A x : In(Pipeline, x) => Precedes(Pipeline', x, <<o, r.method>>)
  BY <1>1, <1>3, <1>4 DEF Pipeline
<1>9. \A x : In(Posts(worker'), x) <=> In(Posts(worker), x) \/ x = r
  BY <1>3
<1> QED BY <1>5, <1>7, <1>8, <1>9

\* The oldest answer, of operation o, is handled.
LEMMA HandleStep ==
  ASSUME IInv, Pending, inbox # <<>>, inbox' = Tail(inbox), worker' = worker,
         NEW o \in Ops, NEW m \in Methods, Head(inbox).op = o, Head(inbox).method = m, Elsewhere(o),
         \A k \in Methods : Awaits(op'[o], k) <=> Awaits(op[o], k) /\ k # m
  PROVE  Pending' /\ Leaves(Pipeline, Pipeline', <<o, m>>)
<1>1. Leaves(Pipe(inbox, worker), Pipe(Tail(inbox), worker), Tag(Head(inbox)))
  BY Handling, EngineSide DEF Pending, Pipeline
<1>2. Leaves(Pipeline, Pipeline', <<o, m>>)
  BY <1>1 DEF Pipeline, Tag
<1>3. \A p \in Ops, k \in Methods : In(Pipeline', <<p, k>>) <=> Awaits(op'[p], k)
  <2> TAKE p \in Ops, k \in Methods
  <2>1. In(Pipeline', <<p, k>>) <=> Awaits(op[p], k) /\ ~(p = o /\ k = m)
    BY <1>2 DEF Leaves, Pending
  <2>2. CASE p = o
    BY <2>1, <2>2
  <2>3. CASE p # o
    BY <2>1, <2>3, OtherOps
  <2> QED BY <2>2, <2>3
<1> QED BY <1>2, <1>3 DEF Leaves, Pending

\* It is handled, and operation o asks again.
LEMMA HandleAskStep ==
  ASSUME IInv, Pending, inbox # <<>>, inbox' = Tail(inbox), NEW r \in Requests(version), worker' = Sent(worker, r),
         NEW o \in Ops, NEW m \in Methods, Head(inbox).op = o, Head(inbox).method = m, r.op = o, Elsewhere(o),
         ~Awaits(op[o], r.method),
         \A k \in Methods : Awaits(op'[o], k) <=> (Awaits(op[o], k) /\ k # m) \/ k = r.method
  PROVE  /\ Pending'
         /\ \A x, y : Precedes(Pipeline, x, y) /\ x # <<o, m>> => Precedes(Pipeline', x, y)
         /\ \A y : ~Precedes(Pipeline, y, <<o, m>>)
         /\ r.method \in Reads =>
              \A x : In(Pipeline, x) /\ x # <<o, m>> => Precedes(Pipeline', x, <<o, r.method>>)
         /\ \A x : In(Posts(worker'), x) <=> In(Posts(worker), x) \/ x = r
<1> DEFINE M == Pipe(Tail(inbox), worker)
<1>1. Leaves(Pipeline, M, <<o, m>>) /\ Tail(inbox) \in Seq(Responses(version))
  BY Handling, EngineSide DEF Pending, Pipeline, Tag
<1>2. r.method \in Methods /\ Tag(r) = <<o, r.method>>
  BY DEF Requests, Tag
<1>3. Distinct(M) /\ ~In(M, Tag(r))
  BY <1>1, <1>2 DEF Leaves, Pending
<1>4. /\ Joins(M, Pipe(Tail(inbox), Sent(worker, r)), Tag(r))
      /\ r.method \in Reads => \A x : In(M, x) => Precedes(Pipe(Tail(inbox), Sent(worker, r)), x, Tag(r))
      /\ \A x : In(Posts(Sent(worker, r)), x) <=> In(Posts(worker), x) \/ x = r
  <2>1. version \in Nat /\ WorkerType(worker, version) /\ Tail(inbox) \in Seq(Responses(version))
    BY <1>1, EngineSide
  <2>2. \A b \in Seq(Responses(version)) :
           Distinct(Pipe(b, worker)) /\ ~In(Pipe(b, worker), Tag(r)) =>
             /\ Joins(Pipe(b, worker), Pipe(b, Sent(worker, r)), Tag(r))
             /\ r.method \in Reads => \A x : In(Pipe(b, worker), x) => Precedes(Pipe(b, Sent(worker, r)), x, Tag(r))
             /\ \A x : In(Posts(Sent(worker, r)), x) <=> In(Posts(worker), x) \/ x = r
    <3> TAKE b \in Seq(Responses(version))
    <3> SUFFICES ASSUME Distinct(Pipe(b, worker)), ~In(Pipe(b, worker), Tag(r))
                 PROVE  /\ Joins(Pipe(b, worker), Pipe(b, Sent(worker, r)), Tag(r))
                        /\ r.method \in Reads => \A x : In(Pipe(b, worker), x) =>
                                                   Precedes(Pipe(b, Sent(worker, r)), x, Tag(r))
                        /\ \A x : In(Posts(Sent(worker, r)), x) <=> In(Posts(worker), x) \/ x = r
      OBVIOUS
    <3> QED BY <2>1, Posting
  <2> QED BY <1>3, <2>1, <2>2 DEF M
<1>5. Pipeline' = Pipe(Tail(inbox), Sent(worker, r))
  BY DEF Pipeline
<1> HIDE DEF M
<1>6. Joins(M, Pipeline', <<o, r.method>>)
  BY <1>2, <1>4, <1>5
<1>7. \A p \in Ops, k \in Methods : In(Pipeline', <<p, k>>) <=> Awaits(op'[p], k)
  <2> TAKE p \in Ops, k \in Methods
  <2>1. In(Pipeline', <<p, k>>) <=> (Awaits(op[p], k) /\ ~(p = o /\ k = m)) \/ (p = o /\ k = r.method)
    BY <1>1, <1>6 DEF Leaves, Joins, Pending
  <2>2. CASE p = o
    BY <2>1, <2>2
  <2>3. CASE p # o
    BY <2>1, <2>3, OtherOps
  <2> QED BY <2>2, <2>3
<1>8. Pending'
  BY <1>6, <1>7 DEF Joins, Pending
<1>9. \A x, y : Precedes(Pipeline, x, y) /\ x # <<o, m>> => Precedes(Pipeline', x, y)
  BY <1>1, <1>6 DEF Leaves, Joins
<1>10. r.method \in Reads => \A x : In(Pipeline, x) /\ x # <<o, m>> => Precedes(Pipeline', x, <<o, r.method>>)
  BY <1>1, <1>2, <1>4, <1>5 DEF Leaves
<1>11. \A y : ~Precedes(Pipeline, y, <<o, m>>)
  BY <1>1 DEF Leaves
<1> QED BY <1>4, <1>8, <1>9, <1>10, <1>11

\* The worker answers the request it serves.
LEMMA WorkStep ==
  ASSUME IInv, Pending, worker.active # None, NEW ans \in Responses(version'), version' \in Nat,
         Responses(version) \subseteq Responses(version'), Requests(version) \subseteq Requests(version'),
         ans.op = worker.active.op, ans.method = worker.active.method, inbox' = Append(inbox, ans),
         worker' = IF worker.line = <<>> THEN [active |-> None, line |-> <<>>]
                   ELSE [active |-> Head(worker.line), line |-> Tail(worker.line)],
         op' = op
  PROVE  /\ Pending' /\ Pipeline' = Pipeline /\ \A r : In(Posts(worker'), r) => In(Posts(worker), r)
         /\ In(Posts(worker), worker.active)
<1>1. version \in Nat /\ WorkerType(worker, version) /\ inbox \in Seq(Responses(version))
  BY EngineSide
<1>2. WorkerType(worker, version') /\ inbox \in Seq(Responses(version'))
  <2>1. worker.active \in Requests(version') \cup {None} /\ worker.line \in Seq(Requests(version'))
    BY <1>1 DEF WorkerType
  <2>2. worker \in [active : Requests(version') \cup {None}, line : Seq(Requests(version'))]
    BY <1>1, <2>1 DEF WorkerType
  <2>3. WorkerType(worker, version')
    BY <1>1, <2>2 DEF WorkerType
  <2> QED BY <1>1, <2>3
<1>3. PICK n : n = worker'
  OBVIOUS
<1>4. PICK b : b = inbox
  OBVIOUS
<1>5. PICK w : w = worker
  OBVIOUS
<1>6. PICK v \in Nat : v = version'
  OBVIOUS
<1>7. /\ WorkerType(w, v) /\ w.active # None /\ b \in Seq(Responses(v)) /\ ans \in Responses(v)
      /\ Tag(ans) = Tag(w.active)
      /\ n = IF w.line = <<>> THEN [active |-> None, line |-> <<>>]
             ELSE [active |-> Head(w.line), line |-> Tail(w.line)]
  BY <1>2, <1>3, <1>4, <1>5, <1>6 DEF Tag
<1>8. Pipe(Append(b, ans), n) = Pipe(b, w) /\ \A r : In(Posts(n), r) => In(Posts(w), r)
  BY ONLY <1>6, <1>7, PipeServed
<1>9. Pipeline' = Pipeline /\ \A r : In(Posts(worker'), r) => In(Posts(worker), r)
  BY <1>3, <1>4, <1>5, <1>8 DEF Pipeline
<1>10. In(Posts(worker), worker.active)
  <2>1. Posts(worker) \in Seq(Requests(version')) /\ Len(Posts(worker)) = Len(worker.line) + 1
        /\ Posts(worker)[1] = worker.active /\ Len(worker.line) \in Nat
    BY <1>2, PostsType DEF WorkerType
  <2>2. 1 \in DOMAIN Posts(worker)
    BY <2>1
  <2> QED BY <2>1, <2>2 DEF In
<1> QED BY <1>9, <1>10 DEF Pending

----------------------------------------------------------------------------
\* What a step leaves of the safety invariant.

LEMMA WaysStep ==
  ASSUME IInv, Ways, sequence' \in Nat, sequence' >= sequence, NEW o \in Ops, Elsewhere(o),
         OnItsWay(op'[o]), op'[o].gen <= sequence',
         op'[o].kind \in Changers => op[o].kind \in Changers \/ \A p \in Ops : op[p].kind \notin Changers
  PROVE  Ways'
<1>1. \A p \in Ops : op[p].gen \in Nat /\ op[p].gen <= sequence
  BY DEF IInv, Types, OpTypes, Operations, Ways
<1>2. sequence \in Nat /\ None \notin Changers
  BY NoneIsNoKind DEF IInv, Types, PageTypes, Changers
<1>3. \A p \in Ops \ {o} : /\ OnItsWay(op'[p]) /\ op'[p].gen \in {op[p].gen, 0}
                           /\ op'[p].kind \in {op[p].kind, None}
  BY OtherOps DEF Ways
<1>4. \A p \in Ops : OnItsWay(op'[p]) /\ op'[p].gen <= sequence'
  <2> TAKE p \in Ops
  <2>1. CASE p = o
    BY <2>1
  <2>2. CASE p # o
    BY <1>1, <1>2, <1>3, <2>2
  <2> QED BY <2>1, <2>2
<1>5. \A p, q \in Ops : op'[p].kind \in Changers /\ op'[q].kind \in Changers => p = q
  BY <1>2, <1>3 DEF Ways
<1> QED BY <1>4, <1>5 DEF Ways

\* Without its first answer, the inbox.
LEMMA Rest ==
  ASSUME IInv, Pending, inbox # <<>>, inbox' = Tail(inbox)
  PROVE  /\ 1 \in DOMAIN inbox /\ Head(inbox) = inbox[1]
         /\ \A k \in DOMAIN inbox' : k + 1 \in DOMAIN inbox /\ inbox'[k] = inbox[k + 1] /\ k \in Nat
         /\ \A k \in DOMAIN inbox : k # 1 => k - 1 \in DOMAIN inbox' /\ inbox'[k - 1] = inbox[k]
         /\ \A k \in DOMAIN inbox : k \in Nat \ {0}
<1>1. Distinct(Pipe(inbox, worker))
  BY DEF Pending, Pipeline
<1>2. /\ 1 \in DOMAIN inbox /\ Head(inbox) = inbox[1]
      /\ \A k \in DOMAIN Tail(inbox) : k + 1 \in DOMAIN inbox /\ Tail(inbox)[k] = inbox[k + 1]
      /\ \A k \in DOMAIN inbox : k # 1 => k - 1 \in DOMAIN Tail(inbox) /\ Tail(inbox)[k - 1] = inbox[k]
      /\ Tail(inbox) \in Seq(Responses(version))
  BY <1>1, Handling, EngineSide
<1>3. (\A k \in DOMAIN inbox : k \in Nat \ {0}) /\ \A k \in DOMAIN Tail(inbox) : k \in Nat
  BY <1>2, EngineSide
<1> QED BY <1>2, <1>3

LEMMA ChangeTail ==
  ASSUME IInv, Pending, inbox # <<>>, inbox' = Tail(inbox)
  PROVE  ChangeIn(inbox) <=> Change(Head(inbox)) \/ ChangeIn(inbox')
<1>1. ASSUME ChangeIn(inbox) PROVE Change(Head(inbox)) \/ ChangeIn(inbox')
  BY <1>1, Rest DEF ChangeIn
<1>2. ASSUME Change(Head(inbox)) \/ ChangeIn(inbox') PROVE ChangeIn(inbox)
  BY <1>2, Rest DEF ChangeIn
<1> QED BY <1>1, <1>2

LEMMA KeepingElsewhere ==
  ASSUME NEW o \in Ops, Elsewhere(o)
  PROVE  (\E p \in Ops : Keeping(op'[p])) <=> Keeping(op'[o]) \/ \E p \in Ops \ {o} : Keeping(op[p])
  BY OtherOps

\* Of the answers on their way the first is handled, or none is.
Heard == inbox' = inbox \/ (inbox # <<>> /\ inbox' = Tail(inbox))

\* A change goes on, in its answer or in its operation.
GoesOn(o) ==
  \/ inbox' = inbox /\ (Keeping(op'[o]) <=> Keeping(op[o]))
  \/ inbox # <<>> /\ inbox' = Tail(inbox) /\ (Keeping(op'[o]) <=> Keeping(op[o]) \/ Change(Head(inbox)))

LEMMA StillUnderway ==
  ASSUME IInv, Pending, NEW o \in Ops, Elsewhere(o), GoesOn(o)
  PROVE  Underway' <=> Underway
<1>1. (\E p \in Ops : Keeping(op'[p])) <=> Keeping(op'[o]) \/ \E p \in Ops \ {o} : Keeping(op[p])
  BY KeepingElsewhere
<1>2. Underway' <=> ChangeIn(inbox') \/ \E p \in Ops : Keeping(op'[p])
  BY DEF Underway, ChangeIn, Keeping, Change
<1>3. CASE inbox' = inbox /\ (Keeping(op'[o]) <=> Keeping(op[o]))
  BY <1>1, <1>2, <1>3 DEF Underway
<1>4. CASE inbox # <<>> /\ inbox' = Tail(inbox) /\ (Keeping(op'[o]) <=> Keeping(op[o]) \/ Change(Head(inbox)))
  BY <1>1, <1>2, <1>4, ChangeTail DEF Underway
<1> QED BY <1>3, <1>4 DEF GoesOn

LEMMA OpenedStep ==
  ASSUME IInv, Pending, NEW a, Opened(a), loadedId = a, loadedId' = a, NEW o \in Ops, Elsewhere(o), Heard,
         engine'[a] = engine[a], latest'[a] = latest[a],
         dirty'[a] # 0 \/ Underway' => dirty[a] # 0 \/ Underway,
         op'[o].pc \notin LoadPoints, op'[o].before # Blank,
         op'[o].pc \in {"summary", "put"} => op'[o].xml >= 1,
         \A r : In(Posts(worker'), r) => In(Posts(worker), r) \/ (r.method = "importCharacterXml" => r.doc >= 1),
         \A k \in DOMAIN undo'[a] : undo'[a][k].xml >= 1
  PROVE  Opened(a)'
<1>1. \A p \in Ops : /\ op'[p].pc \notin LoadPoints
                     /\ op'[p].before # Blank
                     /\ op'[p].pc \in {"summary", "put"} => op'[p].xml >= 1
  <2> TAKE p \in Ops
  <2>1. CASE p = o
    BY <2>1
  <2>2. CASE p # o
    <3>1. /\ op'[p].pc \in SavePoints \cup LoadPoints => Alike(op[p], op'[p])
          /\ op'[p].before \in {op[p].before, NoDoc}
      BY <2>2, OtherOps
    <3>2. op[p].pc \notin LoadPoints /\ op[p].before # Blank /\ (op[p].pc \in {"summary", "put"} => op[p].xml >= 1)
      BY DEF Opened
    <3> QED BY <3>1, <3>2 DEF Alike, SavePoints, NoDoc, Blank
  <2> QED BY <2>1, <2>2
<1>2. \A k \in DOMAIN inbox' : inbox'[k].method \in Reads => inbox'[k].ok /\ inbox'[k].doc >= 1
  <2>1. \A k \in DOMAIN inbox : inbox[k].method \in Reads => inbox[k].ok /\ inbox[k].doc >= 1
    BY DEF Opened
  <2>2. CASE inbox' = inbox
    BY <2>1, <2>2
  <2>3. CASE inbox # <<>> /\ inbox' = Tail(inbox)
    BY <2>1, <2>3, Rest
  <2> QED BY <2>2, <2>3 DEF Heard
<1>3. /\ engine[a] >= 1 /\ latest[a] \in {NoDoc, engine[a]}
      /\ dirty[a] # 0 \/ Underway => latest[a] # NoDoc
      /\ \A r : In(Posts(worker), r) /\ r.method = "importCharacterXml" => r.doc >= 1
  BY DEF Opened
<1>4. /\ engine'[a] >= 1 /\ latest'[a] \in {NoDoc, engine'[a]}
      /\ dirty'[a] # 0 \/ Underway' => latest'[a] # NoDoc
      /\ \A r : In(Posts(worker'), r) /\ r.method = "importCharacterXml" => r.doc >= 1
  BY <1>3
<1> QED BY <1>1, <1>2, <1>4 DEF Opened, NoDoc

LEMMA InOrderStep ==
  ASSUME IInv, Pending, NEW a, InOrder(a), loadedId = a, Heard, engine'[a] = engine[a]
  PROVE  InOrder(a)'
<1>1. \A i \in DOMAIN inbox : inbox[i].method = "exportCharacterXml" /\ inbox[i].doc # engine[a] =>
         \E j \in DOMAIN inbox : i < j /\ Change(inbox[j])
  BY DEF InOrder
<1>2. CASE inbox' = inbox
  BY <1>1, <1>2 DEF InOrder, Change
<1>3. CASE inbox # <<>> /\ inbox' = Tail(inbox)
  <2> SUFFICES ASSUME NEW i \in DOMAIN inbox', inbox'[i].method = "exportCharacterXml", inbox'[i].doc # engine[a]
               PROVE  \E j \in DOMAIN inbox' : i < j /\ Change(inbox'[j])
    BY DEF InOrder, Change
  <2>1. i + 1 \in DOMAIN inbox /\ inbox'[i] = inbox[i + 1] /\ i \in Nat
    BY <1>3, Rest
  <2>2. PICK j \in DOMAIN inbox : i + 1 < j /\ Change(inbox[j])
    BY <1>1, <2>1
  <2>3. j \in Nat \ {0} /\ j # 1
    BY <1>3, <2>1, <2>2, Rest
  <2>4. j - 1 \in DOMAIN inbox' /\ inbox'[j - 1] = inbox[j] /\ i < j - 1
    BY <1>3, <2>1, <2>2, <2>3, Rest
  <2> QED BY <2>2, <2>4
<1> QED BY <1>2, <1>3 DEF Heard

\* The others' requests and answers keep their places.
OrderKept(o) ==
  \A p \in Ops \ {o}, m \in Methods : \A y :
    Precedes(Pipeline, <<p, m>>, y) => Precedes(Pipeline', <<p, m>>, y)

\* A step that is not of a save leaves the saves as they are.
LEMMA SavesStep ==
  ASSUME NEW a, CleanStored(a), LastWritten(a), loadedId = a, NEW o \in Ops, Elsewhere(o),
         op[o].pc \notin SavePoints, op'[o].pc \notin SavePoints,
         engine'[a] = engine[a], store'[a] = store[a], dirty'[a] = dirty[a], disk' = disk, Underway' <=> Underway,
         OrderKept(o)
  PROVE  CleanStored(a)' /\ LastWritten(a)'
<1>1. \A p \in Ops : op'[p].pc \in SavePoints <=> op[p].pc \in SavePoints
  BY OtherOps DEF Alike
<1>2. \A p \in Ops : op[p].pc \in SavePoints =>
        /\ p # o /\ op'[p].pc = op[p].pc /\ op'[p].kind = op[p].kind
        /\ op'[p].gen = op[p].gen /\ op'[p].xml = op[p].xml
  BY OtherOps DEF Alike
<1>3. {"summary", "put", "export"} = SavePoints
  BY DEF SavePoints
<1>4. \A p \in Ops : Stale(a, p)' <=> Stale(a, p)
  BY <1>1, <1>2, <1>3 DEF Stale
<1>5. \A p \in Ops : Decisive(a, p)' <=> Decisive(a, p)
  BY <1>1, <1>2 DEF Decisive
<1>6. \A s, t \in Ops : op[s].pc \in SavePoints /\ op[t].pc \in SavePoints /\ Ahead(s, t) => Ahead(s, t)'
  <2> TAKE s, t \in Ops
  <2> SUFFICES ASSUME op[s].pc \in SavePoints, op[t].pc \in SavePoints, Ahead(s, t) PROVE Ahead(s, t)'
    OBVIOUS
  <2>1. op'[s].pc = op[s].pc /\ op'[t].pc = op[t].pc /\ s # o
    BY <1>2
  <2>2. "getCharacter" \in Methods /\ "exportCharacterXml" \in Methods
    BY DEF Methods
  <2>3. \A y : Precedes(Pipeline, <<s, "getCharacter">>, y) => Precedes(Pipeline', <<s, "getCharacter">>, y)
    BY <2>1, <2>2 DEF OrderKept
  <2> QED BY <2>1, <2>3 DEF Ahead
<1>7. \A p \in Ops : Stale(a, p) \/ Decisive(a, p) => op[p].pc \in SavePoints
  BY <1>3 DEF Stale, Decisive
<1>8. CleanStored(a)'
  BY <1>4 DEF CleanStored
<1>9. LastWritten(a)'
  BY <1>4, <1>5, <1>6, <1>7 DEF LastWritten
<1> QED BY <1>8, <1>9

\* A step of the loaded character's page that is not of a save, an edit or an
\* undo, or not of their end.
Calm(a, o) ==
  /\ engine' = engine /\ latest' = latest /\ store' = store /\ disk' = disk
  /\ dirty' = dirty /\ sequence' = sequence
  /\ OnItsWay(op'[o]) /\ op'[o].gen <= sequence
  /\ op'[o].kind \in Changers => op[o].kind \in Changers \/ \A p \in Ops : op[p].kind \notin Changers
  /\ op[o].pc \notin SavePoints /\ op'[o].pc \notin SavePoints \cup LoadPoints /\ op'[o].before # Blank
  /\ \A r : In(Posts(worker'), r) => In(Posts(worker), r) \/ (r.method = "importCharacterXml" => r.doc >= 1)
  /\ \A k \in DOMAIN undo'[a] : undo'[a][k].xml >= 1

LEMMA CalmStep ==
  ASSUME NEW a, Ids = {a}, Safe, IInv', loadedId = a, loadedId' = a, NEW o \in Ops, Elsewhere(o), Calm(a, o),
         GoesOn(o), Pending', OrderKept(o)
  PROVE  Safe'
<1>1. /\ IInv /\ Pending /\ Writing /\ Ways /\ store[a] >= 1 /\ Opened(a) /\ CleanStored(a) /\ LastWritten(a)
      /\ InOrder(a) /\ a \in Ids /\ a # None
  BY TwoQueues DEF Safe
<1>2. Heard
  BY DEF GoesOn, Heard
<1>3. Underway' <=> Underway
  BY <1>1, StillUnderway
<1>4. Ways'
  <2>1. sequence \in Nat
    BY <1>1 DEF IInv, Types, PageTypes
  <2> QED BY <1>1, <2>1, WaysStep DEF Calm
<1>5. Opened(a)'
  <2>1. op'[o].pc \in {"summary", "put"} => op'[o].xml >= 1
    BY DEF Calm, SavePoints
  <2>2. op'[o].pc \notin LoadPoints
    BY DEF Calm
  <2> QED BY <1>1, <1>2, <1>3, <2>1, <2>2, OpenedStep DEF Calm
<1>6. InOrder(a)'
  BY <1>1, <1>2, InOrderStep DEF Calm
<1>7. CleanStored(a)' /\ LastWritten(a)'
  BY <1>1, <1>3, SavesStep DEF Calm
<1>8. Writing'
  <2>1. OnDisk(op[o]) <=> OnDisk(op'[o])
    <3>1. op[o].pc \notin LoadPoints
      BY <1>1 DEF Opened
    <3> QED BY <3>1 DEF Calm, OnDisk, SavePoints, LoadPoints
  <2>2. \A p \in Ops : OnDisk(op'[p]) <=> OnDisk(op[p])
    BY <2>1, OtherOps
  <2>3. disk' = disk
    BY DEF Calm
  <2> QED BY <1>1, <2>2, <2>3 DEF Writing
<1>9. Unopened(a)'
  BY <1>1 DEF Unopened
<1>10. Answerable'
  BY <1>8, TwoQueues DEF Answerable, Pending, Writing
<1>11. store'[a] >= 1
  BY <1>1 DEF Calm
<1> QED BY <1>4, <1>5, <1>6, <1>7, <1>9, <1>10, <1>11 DEF Safe

\* The order is kept whatever operation o asks or is answered.
LEMMA OrderAsked ==
  ASSUME NEW o, NEW m, Joins(Pipeline, Pipeline', <<o, m>>)
  PROVE  OrderKept(o)
  BY DEF Joins, OrderKept

LEMMA OrderHandled ==
  ASSUME NEW o, NEW m, Leaves(Pipeline, Pipeline', <<o, m>>)
  PROVE  OrderKept(o)
  BY DEF Leaves, OrderKept

\* The answer handled.
LEMMA Heading ==
  ASSUME NEW a, Ids = {a}, Safe, NEW o \in Ops, NEW m \in Methods, NEW pc, Answer(o, m, pc)
  PROVE  /\ inbox # <<>> /\ inbox' = Tail(inbox) /\ Head(inbox).op = o /\ Head(inbox).method = m
         /\ Head(inbox) \in Responses(version) /\ Head(inbox) = Answered
         /\ op[o].pc = pc /\ op[o] \in Operations(version) /\ Awaits(op[o], m)
         /\ engine' = engine /\ latest' = latest /\ store' = store /\ version' = version
         /\ loadedId = a /\ m \in Reads => Head(inbox).ok /\ Head(inbox).doc >= 1
         /\ pc \in LoadPoints => loadedId # a
<1>1. IInv /\ Pending /\ Opened(a)
  BY TwoQueues DEF Safe
<1>2. inbox # <<>> /\ inbox' = Tail(inbox) /\ Head(inbox).op = o /\ Head(inbox).method = m
  BY DEF Answer
<1>3. Head(inbox) = inbox[1] /\ 1 \in DOMAIN inbox
  BY <1>1, <1>2, Rest
<1>4. In(Pipeline, Tag(inbox[1])) /\ inbox[1] \in Responses(version)
  BY <1>1, <1>3, Members, EngineSide DEF Pipeline
<1>5. Awaits(op[o], m)
  BY <1>1, <1>2, <1>3, <1>4 DEF Pending, Tag
<1>6. op[o].pc = pc /\ op[o] \in Operations(version)
  BY <1>1 DEF Answer, IInv, Types, OpTypes
<1>7. loadedId = a /\ m \in Reads => Head(inbox).ok /\ Head(inbox).doc >= 1
  BY <1>1, <1>2, <1>3 DEF Opened
<1>8. pc \in LoadPoints => loadedId # a
  BY <1>1, <1>6 DEF Opened
<1> QED BY <1>2, <1>3, <1>4, <1>5, <1>6, <1>7, <1>8 DEF Answer, Answered

----------------------------------------------------------------------------
\* The loaded character: steps that are not of a save, an edit or an undo.

LEMMA Parts ==
  ASSUME NEW a, Ids = {a}, Safe
  PROVE  /\ IInv /\ Pending /\ Writing /\ Ways /\ a \in Ids /\ a # None /\ loadedId \in {a, None}
         /\ store[a] >= 1 /\ Unopened(a) /\ Opened(a) /\ CleanStored(a) /\ LastWritten(a) /\ InOrder(a)
         /\ version \in Nat /\ sequence \in Nat /\ op \in [Ops -> Operations(version)]
<1>1. IInv
  BY DEF Safe
<1>2. loadedId \in {a, None} /\ version \in Nat /\ sequence \in Nat /\ op \in [Ops -> Operations(version)]
  BY <1>1 DEF IInv, Types, EngineTypes, PageTypes, OpTypes
<1> QED BY <1>1, <1>2, TwoQueues DEF Safe

\* The points at which an operation is of a loaded character.
LEMMA WhenLoaded ==
  ASSUME NEW a, Ids = {a}, Safe, NEW o \in Ops,
         op[o].pc \in Points \ (LoadPoints \cup {"free", "wait"})
  PROVE  loadedId = a
  BY Parts DEF Unopened

LEMMA UndoWhole ==
  ASSUME NEW a, Ids = {a}, Safe, loadedId = a
  PROVE  \A k \in DOMAIN undo[a] : undo[a][k].xml >= 1
  BY Parts DEF Opened

LEMMA PostsKept ==
  ASSUME worker' = worker
  PROVE  \A r : In(Posts(worker'), r) => In(Posts(worker), r)
  OBVIOUS

\* An answer is handled and no more is asked.
LEMMA CalmAnswer ==
  ASSUME NEW a, Ids = {a}, Safe, IInv', NEW o \in Ops, NEW m \in Methods, NEW pc, Answer(o, m, pc),
         loadedId = a, loadedId' = a, worker' = worker, disk' = disk, dirty' = dirty, sequence' = sequence,
         undo' = undo, Elsewhere(o),
         \A k \in Methods : Awaits(op'[o], k) <=> Awaits(op[o], k) /\ k # m,
         Keeping(op'[o]) <=> Keeping(op[o]) \/ Change(Head(inbox)),
         OnItsWay(op'[o]), op'[o].gen <= sequence, op'[o].kind \in Changers => op[o].kind \in Changers,
         pc \notin SavePoints, op'[o].pc \notin SavePoints \cup LoadPoints, op'[o].before # Blank
  PROVE  Safe'
<1>1. /\ inbox # <<>> /\ inbox' = Tail(inbox) /\ Head(inbox).op = o /\ Head(inbox).method = m
      /\ op[o].pc = pc /\ engine' = engine /\ latest' = latest /\ store' = store
  BY Heading
<1>2. IInv /\ Pending
  BY Parts
<1>3. Pending' /\ Leaves(Pipeline, Pipeline', <<o, m>>)
  BY <1>1, <1>2, HandleStep
<1>4. OrderKept(o)
  BY <1>3, OrderHandled
<1>5. GoesOn(o)
  BY <1>1 DEF GoesOn
<1>6. Calm(a, o)
  <2>1. \A k \in DOMAIN undo'[a] : undo'[a][k].xml >= 1
    BY UndoWhole
  <2> QED BY <1>1, <2>1, PostsKept DEF Calm
<1> QED BY <1>3, <1>4, <1>5, <1>6, CalmStep

LEMMA DetailedSafe ==
  ASSUME NEW a, Ids = {a}, Safe, IInv', NEW o \in Ops, Detailed(o)
  PROVE  Safe'
<1>1. Answer(o, "getCharacter", "detail") /\ op' = [op EXCEPT ![o] = Free]
      /\ UNCHANGED <<worker, disk, loadedId, saveVars, undo>>
  BY DEF Detailed
<1>2. "getCharacter" \in Methods /\ "detail" \in Points \ (LoadPoints \cup {"free", "wait"})
  BY DEF Methods, Points, LoadPoints
<1>3. op[o].pc = "detail" /\ Head(inbox).method = "getCharacter"
  BY <1>1, <1>2, Heading
<1>4. loadedId = a /\ loadedId' = a
  BY <1>1, <1>2, <1>3, WhenLoaded
<1>5. Elsewhere(o) /\ op'[o] = Free
  BY <1>1, Alone, Parts
<1>6. \A k \in Methods : Awaits(op'[o], k) <=> Awaits(op[o], k) /\ k # "getCharacter"
  BY <1>3, <1>5 DEF Awaits, Free
<1>7. Keeping(op'[o]) <=> Keeping(op[o]) \/ Change(Head(inbox))
  BY <1>3, <1>5 DEF Keeping, Free, SavePoints, Change
<1>8. /\ OnItsWay(op'[o]) /\ op'[o].gen <= sequence /\ op'[o].kind \notin Changers
      /\ "detail" \notin SavePoints /\ op'[o].pc \notin SavePoints \cup LoadPoints /\ op'[o].before # Blank
  BY <1>5, NoneIsNoKind, Parts DEF OnItsWay, Free, Changers, SavePoints, LoadPoints, Blank, NoDoc
<1> QED BY <1>1, <1>2, <1>4, <1>5, <1>6, <1>7, <1>8, CalmAnswer DEF saveVars

LEMMA LoadedSafe ==
  ASSUME NEW a, Ids = {a}, Safe, IInv', NEW o \in Ops, Loaded(o)
  PROVE  Safe'
<1> DEFINE w == [op[o] EXCEPT !.pc = "wait", !.xml = NoDoc]
<1>1. Answer(o, "getCharacter", "loaded") /\ UNCHANGED <<worker, disk, saveVars, undo>>
  BY DEF Loaded
<1>2. "getCharacter" \in Methods /\ "loaded" \in Points \ (LoadPoints \cup {"free", "wait"})
  BY DEF Methods, Points, LoadPoints
<1>3. op[o].pc = "loaded" /\ Head(inbox).method = "getCharacter" /\ op[o] \in Operations(version)
      /\ Head(inbox) = Answered
  BY <1>1, <1>2, Heading
<1>4. loadedId = a
  BY <1>2, <1>3, WhenLoaded
<1>5. Answered.ok
  BY <1>1, <1>2, <1>3, <1>4, Heading DEF Reads
<1>6. OnItsWay(op[o]) /\ op[o].gen <= sequence /\ op[o].before # Blank
  BY <1>4, Parts DEF Ways, Opened
<1>7. op[o].kind \in {"open", "mutate", "durable"}
  BY <1>3, <1>6, NoneIsNoKind DEF OnItsWay, SavePoints, LoadPoints
<1>8. /\ w \in Operations(version) /\ w.on = {} /\ w.pc = "wait" /\ w.kind = op[o].kind
      /\ w.id = op[o].id /\ w.gen = op[o].gen /\ w.before = op[o].before
  <2>1. op[o].on = {} /\ op[o].id \in Ids
    BY <1>3 DEF Operations, Unnamed
  <2>2. NoDoc \in Docs(version) /\ "wait" \in Points
    BY Parts, Versions DEF Points
  <2> QED BY <1>3, <2>1, <2>2 DEF Operations, Unnamed
<1>9. OnItsWay(w)
  <2>1. w.id \in Ids
    BY <1>3, <1>8 DEF Operations, Unnamed
  <2>2. w.kind \in {"open", "mutate", "durable"} /\ w.pc = "wait"
    BY <1>7, <1>8
  <2> QED BY <2>1, <2>2, NoneIsNoKind DEF OnItsWay
<1> HIDE DEF w
<1>10. PICK q \in Operations(version) :
         /\ op' = Resolved([op EXCEPT ![o] = q], <<o, "load">>) /\ q.on = {} /\ q \in {Free, w}
  <2>1. Free \in Operations(version) /\ Free.on = {}
    BY FreeType, Parts
  <2>2. \/ op' = Resolved([op EXCEPT ![o] = Free], <<o, "load">>)
        \/ op' = Resolved([op EXCEPT ![o] = w], <<o, "load">>)
    BY <1>5 DEF Loaded, w
  <2> HIDE DEF Free
  <2> QED BY <1>8, <2>1, <2>2
<1>11. loadedId' = a
  BY <1>4, <1>5 DEF Loaded
<1>12. Elsewhere(o) /\ op'[o] = q
  <2>1. IInv
    BY Parts
  <2>2. op' \in {Resolved([op EXCEPT ![o] = q], <<o, "load">>), Rejected([op EXCEPT ![o] = q], <<o, "load">>)}
    BY <1>10
  <2>3. q.on = {}
    BY <1>10
  <2> QED BY <2>1, <2>2, <2>3, Settling
<1>13. q.pc \in {"free", "wait"} /\ q.kind \in {op[o].kind, None} /\ OnItsWay(q) /\ q.gen <= sequence
       /\ q.before # Blank
  <2>1. CASE q = Free
    BY <2>1, NoneIsNoKind, Parts DEF OnItsWay, Free, Blank, NoDoc
  <2>2. CASE q = w
    BY <1>6, <1>8, <1>9, <2>2
  <2> QED BY <1>10, <2>1, <2>2
<1>14. \A k \in Methods : Awaits(op'[o], k) <=> Awaits(op[o], k) /\ k # "getCharacter"
  BY <1>3, <1>12, <1>13 DEF Awaits
<1>15. Keeping(op'[o]) <=> Keeping(op[o]) \/ Change(Head(inbox))
  BY <1>3, <1>12, <1>13 DEF Keeping, SavePoints, Change
<1>16. OnItsWay(op'[o]) /\ op'[o].gen <= sequence /\ (op'[o].kind \in Changers => op[o].kind \in Changers)
       /\ op'[o].before # Blank
  BY <1>12, <1>13, NoneIsNoKind DEF Changers
<1>17. "loaded" \notin SavePoints /\ op'[o].pc \notin SavePoints \cup LoadPoints
  BY <1>12, <1>13 DEF SavePoints, LoadPoints
<1> QED BY <1>1, <1>2, <1>4, <1>11, <1>12, <1>14, <1>15, <1>16, <1>17, CalmAnswer DEF saveVars

LEMMA MutatedSafe ==
  ASSUME NEW a, Ids = {a}, Safe, IInv', NEW o \in Ops, NEW pc \in {"mutate", "mutateOnly"}, Mutated(o, pc),
         ~Answered.ok \/ pc = "mutate"
  PROVE  Safe'
<1>1. Answer(o, "mutation", pc) /\ op[o].kind = "mutate" /\ UNCHANGED <<worker, disk>>
  BY DEF Mutated
<1>2. "mutation" \in Methods /\ pc \in Points \ (LoadPoints \cup {"free", "wait"})
  BY DEF Methods, Points, LoadPoints
<1>3. op[o].pc = pc /\ Head(inbox).method = "mutation" /\ op[o] \in Operations(version) /\ Head(inbox) = Answered
  BY <1>1, <1>2, Heading
<1>4. loadedId = a
  BY <1>2, <1>3, WhenLoaded
<1>5. OnItsWay(op[o]) /\ op[o].gen <= sequence /\ op[o].before # Blank
  BY <1>4, Parts DEF Ways, Opened
<1>6. op[o].id = a
  BY <1>1, <1>5, NoneIsNoKind DEF OnItsWay
<1>7. /\ loadedId' = a /\ UNCHANGED <<saveVars, undo>>
      /\ \/ op' = [op EXCEPT ![o].pc = "before", ![o].was = Answered.was] /\ Answered.ok /\ pc = "mutate"
         \/ op' = [op EXCEPT ![o] = Free] /\ ~Answered.ok /\ pc = "mutateOnly"
         \/ op' = [op EXCEPT ![o] = [Free EXCEPT !.pc = "ignore"]] /\ ~Answered.ok /\ pc = "mutate"
  BY <1>4, <1>6 DEF Mutated
<1>8. PICK q : /\ op' = [op EXCEPT ![o] = q]
               /\ \/ q = [op[o] EXCEPT !.pc = "before", !.was = Answered.was] /\ Answered.ok /\ pc = "mutate"
                  \/ q = Free /\ ~Answered.ok /\ pc = "mutateOnly"
                  \/ q = [Free EXCEPT !.pc = "ignore"] /\ ~Answered.ok /\ pc = "mutate"
  <2>1. op \in [Ops -> Operations(version)]
    BY Parts
  <2> QED BY <1>7, <2>1
<1>9. Elsewhere(o) /\ op'[o] = q
  BY <1>8, Alone, Parts
<1>10. /\ \/ q.pc = "before" /\ q.kind = "mutate" /\ Answered.ok /\ pc = "mutate"
          \/ q.pc = "free" /\ q.kind = None /\ ~Answered.ok /\ pc = "mutateOnly"
          \/ q.pc = "ignore" /\ q.kind = None /\ ~Answered.ok /\ pc = "mutate"
       /\ q.kind = "mutate" => q.id \in Ids
       /\ q.gen <= sequence /\ q.before # Blank
  <2>1. 0 <= sequence
    BY Parts
  <2>2. CASE q = [op[o] EXCEPT !.pc = "before", !.was = Answered.was] /\ Answered.ok /\ pc = "mutate"
    <3>1. /\ q.pc = "before" /\ q.kind = op[o].kind /\ q.id = op[o].id /\ q.gen = op[o].gen
          /\ q.before = op[o].before
      BY <1>3, <2>2 DEF Operations
    <3> QED BY <1>1, <1>5, <1>6, <2>2, <3>1
  <2>3. CASE q = Free /\ ~Answered.ok /\ pc = "mutateOnly"
    BY <2>1, <2>3, NoneIsNoKind DEF Free, Blank, NoDoc
  <2>4. CASE q = [Free EXCEPT !.pc = "ignore"] /\ ~Answered.ok /\ pc = "mutate"
    BY <2>1, <2>4, NoneIsNoKind DEF Free, Blank, NoDoc
  <2> QED BY <1>8, <2>2, <2>3, <2>4
<1>11. \A k \in Methods : Awaits(op'[o], k) <=> Awaits(op[o], k) /\ k # "mutation"
  BY <1>1, <1>3, <1>9, <1>10, NoneIsNoKind DEF Awaits
<1>12. Keeping(op'[o]) <=> Keeping(op[o]) \/ Change(Head(inbox))
  BY <1>1, <1>3, <1>9, <1>10 DEF Keeping, SavePoints, Change
<1>13. OnItsWay(op'[o]) /\ (op'[o].kind \in Changers => op[o].kind \in Changers)
  BY <1>1, <1>9, <1>10, NoneIsNoKind DEF Changers, OnItsWay
<1>14. pc \notin SavePoints /\ op'[o].pc \notin SavePoints \cup LoadPoints
  BY <1>9, <1>10 DEF SavePoints, LoadPoints
<1> QED BY <1>1, <1>2, <1>4, <1>7, <1>9, <1>10, <1>11, <1>12, <1>13, <1>14, CalmAnswer DEF saveVars

LEMMA BeforeSafe ==
  ASSUME NEW a, Ids = {a}, Safe, IInv', NEW o \in Ops, BeforeArrives(o), op[o].pc # "before"
  PROVE  Safe'
<1>1. PICK pc \in {"mutate", "ignore"} :
         /\ Answer(o, "exportCharacterXml", pc)
         /\ \/ op' = [op EXCEPT ![o].before = IF Answered.ok THEN Answered.doc ELSE NoDoc, ![o].pc = "mutateOnly"]
               /\ pc = "mutate"
            \/ op' = [op EXCEPT ![o] = Free] /\ pc = "ignore"
         /\ UNCHANGED <<saveVars, undo, worker, disk, loadedId>>
  BY DEF BeforeArrives, Answer
<1>2. "exportCharacterXml" \in Methods /\ pc \in Points \ (LoadPoints \cup {"free", "wait"})
  BY DEF Methods, Points, LoadPoints
<1>3. op[o].pc = pc /\ Head(inbox).method = "exportCharacterXml" /\ op[o] \in Operations(version)
      /\ Head(inbox) = Answered /\ Awaits(op[o], "exportCharacterXml")
  BY <1>1, <1>2, Heading
<1>4. loadedId = a /\ loadedId' = a
  BY <1>1, <1>2, <1>3, WhenLoaded
<1>5. Answered.ok /\ Answered.doc >= 1
  BY <1>1, <1>2, <1>3, <1>4, Heading DEF Reads
<1>6. OnItsWay(op[o]) /\ op[o].gen <= sequence /\ op[o].before # Blank
  BY <1>4, Parts DEF Ways, Opened
<1>7. pc = "mutate" => op[o].kind = "mutate" /\ op[o].id \in Ids
  BY <1>3, <1>6, NoneIsNoKind DEF OnItsWay, Awaits
<1>8. PICK q : /\ op' = [op EXCEPT ![o] = q]
               /\ \/ q = [op[o] EXCEPT !.before = Answered.doc, !.pc = "mutateOnly"] /\ pc = "mutate"
                  \/ q = Free /\ pc = "ignore"
  <2>1. op \in [Ops -> Operations(version)]
    BY Parts
  <2> QED BY <1>1, <1>5, <2>1
<1>9. Elsewhere(o) /\ op'[o] = q
  BY <1>8, Alone, Parts
<1>10. /\ \/ q.pc = "mutateOnly" /\ q.kind = "mutate" /\ q.id \in Ids /\ pc = "mutate"
          \/ q.pc = "free" /\ q.kind = None /\ pc = "ignore"
       /\ q.gen <= sequence /\ q.before # Blank
  <2>1. 0 <= sequence
    BY Parts
  <2>2. CASE q = [op[o] EXCEPT !.before = Answered.doc, !.pc = "mutateOnly"] /\ pc = "mutate"
    <3>1. /\ q.pc = "mutateOnly" /\ q.kind = op[o].kind /\ q.id = op[o].id /\ q.gen = op[o].gen
          /\ q.before = Answered.doc
      BY <1>3, <2>2 DEF Operations
    <3> QED BY <1>5, <1>6, <1>7, <2>2, <3>1 DEF Blank
  <2>3. CASE q = Free /\ pc = "ignore"
    BY <2>1, <2>3, NoneIsNoKind DEF Free, Blank, NoDoc
  <2> QED BY <1>8, <2>2, <2>3
<1>11. \A k \in Methods : Awaits(op'[o], k) <=> Awaits(op[o], k) /\ k # "exportCharacterXml"
  BY <1>3, <1>7, <1>9, <1>10 DEF Awaits
<1>12. Keeping(op'[o]) <=> Keeping(op[o]) \/ Change(Head(inbox))
  BY <1>3, <1>7, <1>9, <1>10 DEF Keeping, SavePoints, Change
<1>13. OnItsWay(op'[o]) /\ (op'[o].kind \in Changers => op[o].kind \in Changers)
  BY <1>7, <1>9, <1>10, NoneIsNoKind DEF Changers, OnItsWay
<1>14. pc \notin SavePoints /\ op'[o].pc \notin SavePoints \cup LoadPoints
  BY <1>9, <1>10 DEF SavePoints, LoadPoints
<1> QED BY <1>1, <1>2, <1>4, <1>9, <1>10, <1>11, <1>12, <1>13, <1>14, CalmAnswer DEF saveVars

LEMMA DurableRefusedSafe ==
  ASSUME NEW a, Ids = {a}, Safe, IInv', NEW o \in Ops, DurablyMutated(o), ~Answered.ok
  PROVE  Safe'
<1>1. Answer(o, "mutation", "mutate") /\ op[o].kind = "durable" /\ op' = [op EXCEPT ![o] = Free]
      /\ UNCHANGED <<worker, disk, loadedId, saveVars, undo>>
  BY DEF DurablyMutated
<1>2. "mutation" \in Methods /\ "mutate" \in Points \ (LoadPoints \cup {"free", "wait"})
  BY DEF Methods, Points, LoadPoints
<1>3. op[o].pc = "mutate" /\ Head(inbox).method = "mutation" /\ Head(inbox) = Answered
  BY <1>1, <1>2, Heading
<1>4. loadedId = a /\ loadedId' = a
  BY <1>1, <1>2, <1>3, WhenLoaded
<1>5. Elsewhere(o) /\ op'[o] = Free
  BY <1>1, Alone, Parts
<1>6. \A k \in Methods : Awaits(op'[o], k) <=> Awaits(op[o], k) /\ k # "mutation"
  BY <1>1, <1>3, <1>5 DEF Awaits, Free
<1>7. Keeping(op'[o]) <=> Keeping(op[o]) \/ Change(Head(inbox))
  BY <1>3, <1>5 DEF Keeping, Free, SavePoints, Change
<1>8. /\ OnItsWay(op'[o]) /\ op'[o].gen <= sequence /\ op'[o].kind \notin Changers
      /\ "mutate" \notin SavePoints /\ op'[o].pc \notin SavePoints \cup LoadPoints /\ op'[o].before # Blank
  BY <1>5, NoneIsNoKind, Parts DEF OnItsWay, Free, Changers, SavePoints, LoadPoints, Blank, NoDoc
<1> QED BY <1>1, <1>2, <1>4, <1>5, <1>6, <1>7, <1>8, CalmAnswer DEF saveVars

\* Nothing is asked or answered.
LEMMA CalmQuiet ==
  ASSUME NEW a, Ids = {a}, Safe, IInv', loadedId = a, loadedId' = a, NEW o \in Ops,
         UNCHANGED <<workerVars, worker, store, disk, dirty, sequence, undo>>,
         Elsewhere(o), \A m \in Methods : ~Awaits(op[o], m) /\ ~Awaits(op'[o], m),
         op[o].pc \in {"free", "wait"}, op'[o].pc \in {"free", "wait"},
         OnItsWay(op'[o]), op'[o].gen <= sequence, op'[o].before # Blank,
         op'[o].kind \in Changers => op[o].kind \in Changers \/ \A p \in Ops : op[p].kind \notin Changers
  PROVE  Safe'
<1>1. IInv /\ Pending
  BY Parts
<1>2. /\ inbox' = inbox /\ worker' = worker /\ engine' = engine /\ latest' = latest /\ store' = store
      /\ disk' = disk /\ dirty' = dirty /\ sequence' = sequence /\ undo' = undo
  BY DEF workerVars
<1>3. Pending' /\ Pipeline' = Pipeline
  BY <1>1, <1>2, QuietStep
<1>4. OrderKept(o)
  BY <1>3 DEF OrderKept
<1>5. GoesOn(o)
  BY <1>2 DEF GoesOn, Keeping, SavePoints
<1>6. Calm(a, o)
  <2>1. \A k \in DOMAIN undo'[a] : undo'[a][k].xml >= 1
    BY <1>2, UndoWhole
  <2>2. op[o].pc \notin SavePoints /\ op'[o].pc \notin SavePoints \cup LoadPoints
    BY DEF SavePoints, LoadPoints
  <2> QED BY <1>2, <2>1, <2>2, PostsKept DEF Calm
<1> QED BY <1>3, <1>4, <1>5, <1>6, CalmStep

\* One thing is asked.
LEMMA CalmAsk ==
  ASSUME NEW a, Ids = {a}, Safe, IInv', loadedId = a, loadedId' = a, NEW o \in Ops,
         UNCHANGED <<workerVars, store, disk, dirty, sequence>>,
         NEW r \in Requests(version), r.op = o, worker' = Sent(worker, r),
         r.method = "importCharacterXml" => r.doc >= 1, \A k \in DOMAIN undo'[a] : undo'[a][k].xml >= 1,
         Elsewhere(o), \A m \in Methods : ~Awaits(op[o], m) /\ (Awaits(op'[o], m) <=> m = r.method),
         op[o].pc \in {"free", "wait"}, op'[o].pc \in {"detail", "mutate", "restore"},
         OnItsWay(op'[o]), op'[o].gen <= sequence, op'[o].before # Blank,
         op'[o].kind \in Changers => op[o].kind \in Changers \/ \A p \in Ops : op[p].kind \notin Changers
  PROVE  Safe'
<1>1. IInv /\ Pending
  BY Parts
<1>2. /\ inbox' = inbox /\ engine' = engine /\ latest' = latest /\ store' = store
      /\ disk' = disk /\ dirty' = dirty /\ sequence' = sequence
  BY DEF workerVars
<1>3. r.method \in Methods
  BY DEF Requests
<1>4. /\ Pending' /\ Joins(Pipeline, Pipeline', <<o, r.method>>)
      /\ \A x : In(Posts(worker'), x) <=> In(Posts(worker), x) \/ x = r
  BY <1>1, <1>2, <1>3, AskStep
<1>5. OrderKept(o)
  BY <1>4, OrderAsked
<1>6. GoesOn(o)
  BY <1>2 DEF GoesOn, Keeping, SavePoints
<1>7. Calm(a, o)
  <2>2. op[o].pc \notin SavePoints /\ op'[o].pc \notin SavePoints \cup LoadPoints
    BY DEF SavePoints, LoadPoints
  <2> QED BY <1>2, <1>4, <2>2 DEF Calm
<1> QED BY <1>4, <1>5, <1>6, <1>7, CalmStep

LEMMA RestoredSafe ==
  ASSUME NEW a, Ids = {a}, Safe, IInv', NEW o \in Ops, Restored(o)
  PROVE  Safe'
<1> DEFINE r == Request(o, "getCharacter", NoDoc)
<1>1. Answer(o, "importCharacterXml", "restore") /\ op' = [op EXCEPT ![o].pc = "restored"]
      /\ worker' = Sent(worker, r) /\ loadedId' = op[o].id /\ UNCHANGED <<disk, saveVars, undo>>
  BY DEF Restored, Post
<1>2. "importCharacterXml" \in Methods /\ "getCharacter" \in Methods
      /\ "restore" \in Points \ (LoadPoints \cup {"free", "wait"})
  BY DEF Methods, Points, LoadPoints
<1>3. /\ op[o].pc = "restore" /\ op[o] \in Operations(version)
      /\ inbox # <<>> /\ inbox' = Tail(inbox) /\ Head(inbox).op = o /\ Head(inbox).method = "importCharacterXml"
      /\ engine' = engine /\ latest' = latest /\ store' = store
  BY ONLY <1>1, <1>2, Ids = {a}, Safe, o \in Ops, Heading
<1>4. loadedId = a
  BY <1>2, <1>3, WhenLoaded
<1>5. OnItsWay(op[o]) /\ op[o].gen <= sequence /\ op[o].before # Blank
  BY <1>4, Parts DEF Ways, Opened
<1>6. op[o].kind = "undo" /\ op[o].id = a
  BY <1>3, <1>5, NoneIsNoKind DEF OnItsWay, SavePoints, LoadPoints
<1>7. r \in Requests(version) /\ r.op = o /\ r.method = "getCharacter"
  BY <1>2, <1>6, Parts, Versions, Requested DEF Request
<1> HIDE DEF r
<1>8. PICK q : op' = [op EXCEPT ![o] = q] /\ q = [op[o] EXCEPT !.pc = "restored"]
  <2>1. op \in [Ops -> Operations(version)]
    BY Parts
  <2> QED BY <1>1, <2>1
<1>9. Elsewhere(o) /\ op'[o] = q
  BY <1>8, Alone, Parts
<1>10. q.pc = "restored" /\ q.kind = "undo" /\ q.id = a /\ q.gen <= sequence /\ q.before # Blank
  <2>1. q.pc = "restored" /\ q.kind = op[o].kind /\ q.id = op[o].id /\ q.gen = op[o].gen /\ q.before = op[o].before
    BY <1>3, <1>8 DEF Operations
  <2> QED BY <1>5, <1>6, <2>1
<1>11. /\ ~Awaits(op[o], r.method)
       /\ \A k \in Methods : Awaits(op'[o], k) <=> (Awaits(op[o], k) /\ k # "importCharacterXml") \/ k = r.method
  BY <1>3, <1>7, <1>9, <1>10 DEF Awaits
<1>12. /\ Pending'
       /\ \A x, y : Precedes(Pipeline, x, y) /\ x # <<o, "importCharacterXml">> => Precedes(Pipeline', x, y)
       /\ \A x : In(Posts(worker'), x) <=> In(Posts(worker), x) \/ x = r
  <2>1. IInv /\ Pending
    BY Parts
  <2> QED BY <1>1, <1>2, <1>3, <1>7, <1>9, <1>11, <2>1, HandleAskStep
<1>13. OrderKept(o)
  BY <1>12 DEF OrderKept
<1>14. GoesOn(o)
  BY <1>3, <1>9, <1>10 DEF GoesOn, Keeping, Change
<1>15. Calm(a, o)
  <2>1. \A k \in DOMAIN undo'[a] : undo'[a][k].xml >= 1
    BY <1>1, <1>4, UndoWhole
  <2>2. /\ op[o].pc \notin SavePoints /\ op'[o].pc \notin SavePoints \cup LoadPoints
        /\ OnItsWay(op'[o]) /\ op'[o].gen <= sequence /\ op'[o].before # Blank /\ op[o].kind \in Changers
    BY <1>3, <1>6, <1>9, <1>10, NoneIsNoKind DEF SavePoints, LoadPoints, OnItsWay, Changers
  <2>3. \A x : In(Posts(worker'), x) => In(Posts(worker), x) \/ (x.method = "importCharacterXml" => x.doc >= 1)
    BY <1>7, <1>12
  <2> QED BY <1>1, <1>3, <2>1, <2>2, <2>3 DEF Calm, saveVars
<1>16. loadedId' = a
  BY <1>1, <1>6
<1> QED BY <1>4, <1>9, <1>12, <1>13, <1>14, <1>15, <1>16, CalmStep

----------------------------------------------------------------------------
\* Until the character is loaded.

LEMMA AsleepStep ==
  ASSUME NEW a, Ids = {a}, Safe, IInv', loadedId' = None, Pending', Writing', Ways', store'[a] >= 1, Unopened(a)'
  PROVE  Safe'
<1>1. a # None
  BY Parts
<1>2. Opened(a)' /\ CleanStored(a)' /\ LastWritten(a)' /\ InOrder(a)'
  BY <1>1 DEF Opened, CleanStored, LastWritten, InOrder
<1>3. Answerable'
  BY TwoQueues DEF Answerable, Pending, Writing
<1> QED BY <1>2, <1>3 DEF Safe

\* With no load in progress nobody needs one, when a task begins.
LEMMA NobodyLoads ==
  ASSUME NEW a, Ids = {a}, Safe, loadedId = None, loading = None, TaskDone, NEW p \in Ops
  PROVE  op[p].kind \notin Loads
<1>1. Unopened(a) /\ IInv /\ Ways /\ op[p] \in Operations(version)
  BY Parts
<1>2. \A q \in Ops : op[q].pc \in {"free", "wait"}
  BY <1>1, SessionAssumption DEF Unopened
<1>3. op[p].on = {}
  <2> SUFFICES ASSUME NEW t \in op[p].on PROVE FALSE
    OBVIOUS
  <2>1. t[1] \in Ops /\ Owes(op[t[1]], t[2])
    BY <1>1 DEF IInv, Awaited, Operations, Tokens
  <2> QED BY <1>2, <2>1 DEF Owes
<1>4. op[p].pc = "free"
  BY <1>2, <1>3 DEF TaskDone, Resumable
<1>5. OnItsWay(op[p])
  BY <1>1 DEF Ways
<1> QED BY <1>4, <1>5, NoneIsNoKind DEF OnItsWay, Loads, LoadPoints, SavePoints

\* Operation o begins, or ends, and nothing is asked or answered.
LEMMA QuietSafe ==
  ASSUME NEW a, Ids = {a}, Safe, IInv', NEW o \in Ops, NEW q, op' = [op EXCEPT ![o] = q],
         UNCHANGED <<workerVars, worker, store, disk, loadedId, loading, dirty, sequence, undo>>,
         op[o].pc \in {"free", "wait"}, q.pc \in {"free", "wait"},
         OnItsWay(q), q.gen <= sequence, q.before # Blank,
         q.kind \in Changers => \A p \in Ops : op[p].kind \notin Changers,
         loadedId = None =>
           /\ timers'[a] = "off" /\ q.kind \in Loads \cup {"flush", None}
           /\ q.kind = "flush" => q.ids = {}
           /\ q.kind \in Loads => TaskDone /\ (q.on = {} => loading = None)
  PROVE  Safe'
<1>1. IInv /\ Pending /\ Writing /\ Ways /\ Unopened(a) /\ a # None /\ loadedId \in {a, None}
      /\ op \in [Ops -> Operations(version)] /\ sequence \in Nat /\ store[a] >= 1
  BY Parts
<1>2. Elsewhere(o) /\ op'[o] = q
  BY <1>1, Alone
<1>3. \A m \in Methods : ~Awaits(op[o], m) /\ ~Awaits(op'[o], m)
  BY <1>2 DEF Awaits
<1>4. CASE loadedId = a
  <2>1. op'[o].kind \in Changers => op[o].kind \in Changers \/ \A p \in Ops : op[p].kind \notin Changers
    BY <1>2
  <2> QED BY <1>2, <1>3, <1>4, <2>1, CalmQuiet
<1>5. CASE loadedId = None
  <2>1. Pending'
    BY <1>1, <1>2, <1>3, QuietStep DEF workerVars
  <2>2. Writing'
    <3>1. \A p \in Ops : OnDisk(op'[p]) <=> OnDisk(op[p])
      BY <1>2, OtherOps DEF OnDisk
    <3> QED BY <1>1, <3>1 DEF Writing
  <2>3. Ways'
    BY <1>1, <1>2, WaysStep
  <2>4. /\ q.kind \in Loads \cup {"flush", None} /\ (q.kind = "flush" => q.ids = {})
        /\ q.kind \in Loads => TaskDone /\ (q.on = {} => loading = None)
        /\ timers'[a] = "off"
    BY <1>5
  <2>5. q.kind \in Loads /\ q.on = {} => \A p \in Ops : op[p].kind \notin Loads
    BY <1>5, <2>4, NobodyLoads
  <2>6. \A p \in Ops :
         /\ op'[p].kind \in Loads \cup {"flush", None}
         /\ op'[p].pc \in LoadPoints \cup {"free", "wait"}
         /\ op'[p].kind = "flush" => op'[p].ids = {}
         /\ op'[p].before # Blank
         /\ op'[p].pc \in LoadPoints => loading = p
         /\ op'[p].pc \in {"create", "import"} => op'[p].xml = store[a]
         /\ op'[p].kind \in Loads /\ op'[p].pc = "wait" /\ op'[p].on = {} =>
              \A r \in Ops \ {p} : op'[r].kind \notin Loads
    <3> TAKE p \in Ops
    <3>1. CASE p = o
      BY <1>1, <1>2, <2>4, <2>5, <3>1 DEF LoadPoints
    <3>2. CASE p # o
      <4>1. op'[p] = op[p]
        BY <1>1, <3>2
      <4>2. op[p].kind \in Loads /\ op[p].pc = "wait" /\ op[p].on = {} =>
              q.kind \notin Loads /\ \A r \in Ops \ {p} : op[r].kind \notin Loads
        BY <1>1, <1>5, <2>4 DEF Unopened, TaskDone, Resumable
      <4>3. op'[p].kind \in Loads /\ op'[p].pc = "wait" /\ op'[p].on = {} =>
              \A r \in Ops \ {p} : op'[r].kind \notin Loads
        BY <1>1, <4>1, <4>2
      <4> QED BY <1>1, <1>5, <4>1, <4>3 DEF Unopened
    <3> QED BY <3>1, <3>2
  <2>7. Unopened(a)'
    <3>1. dirty'[a] = 0 /\ undo'[a] = <<>> /\ latest'[a] = NoDoc
      BY <1>1, <1>5 DEF Unopened, workerVars
    <3>2. \A r : In(Posts(worker'), r) /\ r.method = "importCharacterXml" => r.doc = store'[a]
      BY <1>1, <1>5 DEF Unopened
    <3>3. \A k \in DOMAIN inbox' : inbox'[k].method = "importCharacterXml" => engine'[a] = store'[a]
      BY <1>1, <1>5 DEF Unopened, workerVars
    <3>4. loading' = loading /\ store' = store
      OBVIOUS
    <3> QED BY <2>4, <2>6, <3>1, <3>2, <3>3, <3>4 DEF Unopened
  <2>8. loadedId' = None /\ store'[a] >= 1
    BY <1>1, <1>5
  <2> QED BY <2>1, <2>2, <2>3, <2>7, <2>8, AsleepStep
<1> QED BY <1>1, <1>4, <1>5

LEMMA AwaitingFacts ==
  ASSUME NEW kind \in Loads, NEW id \in Ids, NEW loaded
  PROVE  LET q == Awaiting(kind, id, loaded)
         IN  /\ OnItsWay(q) /\ q.kind = kind /\ q.pc = "wait" /\ q.gen = 0 /\ q.before # Blank
             /\ q.on = {} => loaded = id \/ loading = None
<1> DEFINE q == Awaiting(kind, id, loaded)
<1>1. /\ q.kind = kind /\ q.pc = "wait" /\ q.gen = 0 /\ q.before = NoDoc /\ q.id = id
      /\ q.on = IF loaded # id /\ loading # None THEN {<<loading, "load">>} ELSE {}
  BY DEF Awaiting, Free
<1> HIDE DEF q
<1>2. OnItsWay(q)
  BY <1>1, NoneIsNoKind DEF OnItsWay, Loads
<1>3. q.before # Blank
  BY <1>1 DEF Blank, NoDoc
<1>4. q.on = {} => loaded = id \/ loading = None
  BY <1>1
<1> QED BY <1>1, <1>2, <1>3, <1>4 DEF q

\* The user opens the character, or edits it.
LEMMA CallSafe ==
  ASSUME NEW a, Ids = {a}, Safe, IInv', NEW o \in Ops, NEW k, Start(o, k), NEW kind \in Loads, NEW id \in Ids,
         Called(o, kind, id), kind \in Changers => \A p \in Ops : op[p].kind \notin Changers,
         UNCHANGED <<worker, disk, loadedId, loading, saveVars, undo>>
  PROVE  Safe'
<1>1. UNCHANGED <<workerVars, worker, store, disk, loadedId, loading, dirty, sequence, undo>> /\ timers' = timers
      /\ TaskDone /\ op[o] = Free
  BY DEF Start, saveVars, workerVars
<1>2. PICK q : /\ op' = [op EXCEPT ![o] = q] /\ OnItsWay(q) /\ q.kind = kind /\ q.pc = "wait" /\ q.gen = 0
               /\ q.before # Blank /\ (q.on = {} => loadedId = id \/ loading = None)
  <2>1. PICK q : q = Awaiting(kind, id, loadedId)
    OBVIOUS
  <2>2. op' = [op EXCEPT ![o] = q]
    BY <2>1 DEF Called
  <2>3. /\ OnItsWay(q) /\ q.kind = kind /\ q.pc = "wait" /\ q.gen = 0 /\ q.before # Blank
        /\ q.on = {} => loadedId = id \/ loading = None
    BY <2>1, AwaitingFacts
  <2> QED BY <2>2, <2>3
<1>3. op[o].pc \in {"free", "wait"} /\ q.pc \in {"free", "wait"} /\ q.gen <= sequence
  BY <1>1, <1>2, Parts DEF Free
<1>4. loadedId = None =>
           /\ timers'[a] = "off" /\ q.kind \in Loads \cup {"flush", None}
           /\ q.kind = "flush" => q.ids = {}
           /\ q.kind \in Loads => TaskDone /\ (q.on = {} => loading = None)
  <2>1. timers'[a] = "off" \/ loadedId # None
    BY <1>1, Parts DEF Unopened
  <2>2. q.kind # "flush" /\ None # id
    BY <1>2, SessionAssumption DEF Loads
  <2> QED BY <1>1, <1>2, <2>1, <2>2
<1> QED BY <1>1, <1>2, <1>3, <1>4, QuietSafe

LEMMA OpenSafe ==
  ASSUME NEW a, Ids = {a}, Safe, IInv', NEW o \in Ops, NEW id \in Ids, Open(o, id)
  PROVE  Safe'
<1>1. "open" \in Loads /\ "open" \notin Changers
  BY DEF Loads, Changers
<1>2. /\ Start(o, "open") /\ Called(o, "open", id)
      /\ UNCHANGED <<worker, disk, loadedId, loading, saveVars, undo>>
  BY DEF Open
<1> QED BY <1>1, <1>2, CallSafe

\* With no edit of the character under way nothing changes it.
LEMMA NobodyChanges ==
  ASSUME NEW a, Ids = {a}, Safe, NEW id \in Ids, ~Editing(id)
  PROVE  \A p \in Ops : op[p].kind \notin Changers
<1> SUFFICES ASSUME NEW p \in Ops, op[p].kind \in Changers PROVE FALSE
  OBVIOUS
<1>1. OnItsWay(op[p])
  BY Parts DEF Ways
<1>2. op[p].id = id
  BY <1>1, NoneIsNoKind DEF OnItsWay, Changers
<1> QED BY <1>2 DEF Editing, Changers

LEMMA EditSafe ==
  ASSUME NEW a, Ids = {a}, Safe, IInv', NEW o \in Ops, NEW kind \in {"mutate", "durable"}, Edit(o, kind)
  PROVE  Safe'
<1>1. PICK k : k = IF autosave THEN kind ELSE "mutate"
  OBVIOUS
<1>2. /\ Start(o, kind) /\ Called(o, k, shown) /\ ~Editing(shown) /\ shown \in Ids
      /\ UNCHANGED <<worker, disk, loadedId, loading, saveVars, undo>>
  BY <1>1, Parts DEF Edit, IInv, Types, PageTypes
<1>3. k \in Loads
  BY <1>1 DEF Loads
<1>4. \A p \in Ops : op[p].kind \notin Changers
  BY <1>2, NobodyChanges
<1> QED BY <1>2, <1>3, <1>4, CallSafe

LEMMA SaveSafe ==
  ASSUME NEW a, Ids = {a}, Safe, IInv', NEW o \in Ops, Save(o)
  PROVE  Safe'
<1>1. /\ Start(o, "save") /\ shown \in Ids /\ dirty[shown] # 0
      /\ UNCHANGED <<worker, disk, loadedId, loading, dirty, sequence, undo>>
  BY Parts DEF Save, IInv, Types, PageTypes
<1>2. PICK q : /\ op' = [op EXCEPT ![o] = q] /\ q.kind = "save" /\ q.pc = "wait" /\ q.gen = 0
               /\ q.before = NoDoc /\ q.id = shown
  <2>1. PICK t : op' = [op EXCEPT ![o] = [Free EXCEPT !.kind = "save", !.id = shown, !.pc = "wait", !.on = t]]
    BY DEF Save
  <2>2. PICK q : q = [Free EXCEPT !.kind = "save", !.id = shown, !.pc = "wait", !.on = t]
    OBVIOUS
  <2>3. q.kind = "save" /\ q.pc = "wait" /\ q.gen = 0 /\ q.before = NoDoc /\ q.id = shown
    BY <2>2 DEF Free
  <2> QED BY <2>1, <2>2, <2>3
<1>3. loadedId # None
  BY <1>1, Parts DEF Unopened
<1>4. UNCHANGED <<workerVars, worker, store, disk, loadedId, loading, dirty, sequence, undo>> /\ op[o] = Free
  BY <1>1 DEF Start, workerVars
<1>5. OnItsWay(q) /\ q.kind \notin Changers /\ q.before # Blank
  BY <1>1, <1>2, NoneIsNoKind DEF OnItsWay, Changers, Blank, NoDoc
<1>6. op[o].pc \in {"free", "wait"} /\ q.pc \in {"free", "wait"} /\ q.gen <= sequence
  BY <1>2, <1>4, Parts DEF Free
<1> QED BY <1>2, <1>3, <1>4, <1>5, <1>6, QuietSafe

\* A flush begins: with nothing loaded it has nothing to write.
LEMMA FlushingSafe ==
  ASSUME NEW a, Ids = {a}, Safe, IInv', NEW o \in Ops, NEW k, Start(o, k), Flushing(o, "flush"),
         UNCHANGED <<worker, disk, loadedId, loading, dirty, sequence, undo>>
  PROVE  Safe'
<1>1. UNCHANGED <<workerVars, worker, store, disk, loadedId, loading, dirty, sequence, undo>> /\ op[o] = Free
  BY DEF Start, workerVars
<1>2. PICK q : /\ op' = [op EXCEPT ![o] = q] /\ q.kind = "flush" /\ q.pc = "wait" /\ q.gen = 0
               /\ q.before = NoDoc /\ q.ids = {id \in Ids : timers[id] # "off" \/ dirty[id] # 0}
  <2> DEFINE left == {id \in Ids : timers[id] # "off" \/ dirty[id] # 0}
  <2>1. PICK t, n : op' = [op EXCEPT ![o] = [Free EXCEPT !.kind = "flush", !.pc = "wait", !.next = n,
                                                      !.ids = left, !.on = t]]
    BY DEF Flushing
  <2> HIDE DEF left
  <2>2. PICK q : q = [Free EXCEPT !.kind = "flush", !.pc = "wait", !.next = n, !.ids = left, !.on = t]
    OBVIOUS
  <2>3. q.kind = "flush" /\ q.pc = "wait" /\ q.gen = 0 /\ q.before = NoDoc /\ q.ids = left
    BY <2>2 DEF Free
  <2> QED BY <2>1, <2>2, <2>3 DEF left
<1>3. timers'[a] = "off"
  BY Parts DEF Flushing
<1>4. OnItsWay(q) /\ q.kind \notin Changers /\ q.kind \notin Loads /\ q.before # Blank
  BY <1>2, NoneIsNoKind DEF OnItsWay, Changers, Loads, Blank, NoDoc
<1>5. op[o].pc \in {"free", "wait"} /\ q.pc \in {"free", "wait"} /\ q.gen <= sequence
  BY <1>1, <1>2, Parts DEF Free
<1>6. loadedId = None => q.ids = {}
  BY <1>2, Parts DEF Unopened
<1>7. loadedId = None =>
           /\ timers'[a] = "off" /\ q.kind \in Loads \cup {"flush", None}
           /\ q.kind = "flush" => q.ids = {}
           /\ q.kind \in Loads => TaskDone /\ (q.on = {} => loading = None)
  BY <1>2, <1>3, <1>4, <1>6
<1> QED BY <1>1, <1>2, <1>4, <1>5, <1>7, QuietSafe

LEMMA FlushSafe ==
  ASSUME NEW a, Ids = {a}, Safe, IInv', NEW o \in Ops, Flush(o)
  PROVE  Safe'
<1>1. /\ Start(o, "flush") /\ Flushing(o, "flush")
      /\ UNCHANGED <<worker, disk, loadedId, loading, dirty, sequence, undo>>
  BY DEF Flush
<1> QED BY <1>1, FlushingSafe

LEMMA ToggleSafe ==
  ASSUME NEW a, Ids = {a}, Safe, IInv', NEW o \in Ops, ToggleAutosave(o)
  PROVE  Safe'
<1>1. /\ Start(o, "toggle") /\ UNCHANGED <<worker, disk, loadedId, loading, dirty, sequence, undo>>
      /\ Flushing(o, "flush") \/ UNCHANGED <<timers, op>>
  BY DEF ToggleAutosave
<1>2. CASE Flushing(o, "flush")
  BY <1>1, <1>2, FlushingSafe
<1>3. CASE UNCHANGED <<timers, op>>
  <2>1. UNCHANGED <<workerVars, worker, store, disk, loadedId, loading, dirty, sequence, undo>> /\ op[o] = Free
    BY <1>1 DEF Start, workerVars
  <2>2. PICK q : q = Free
    OBVIOUS
  <2>3. op' = [op EXCEPT ![o] = q]
    BY <1>3, <2>1, <2>2, Parts
  <2>4. /\ OnItsWay(q) /\ q.kind = None /\ q.kind \notin Changers /\ q.kind \notin Loads /\ q.kind # "flush"
        /\ q.before # Blank /\ q.pc = "free" /\ op[o].pc = "free" /\ q.gen = 0
    BY <2>1, <2>2, NoneIsNoKind DEF OnItsWay, Changers, Loads, Blank, NoDoc, Free
  <2>5. q.gen <= sequence
    BY <2>4, Parts
  <2>6. loadedId = None =>
           /\ timers'[a] = "off" /\ q.kind \in Loads \cup {"flush", None}
           /\ q.kind = "flush" => q.ids = {}
           /\ q.kind \in Loads => TaskDone /\ (q.on = {} => loading = None)
    BY <1>3, <2>4, Parts DEF Unopened
  <2> QED BY <2>1, <2>3, <2>4, <2>5, <2>6, QuietSafe
<1> QED BY <1>1, <1>2, <1>3

\* A flush that has no character left ends.
LEMMA FlushedSafe ==
  ASSUME NEW a, Ids = {a}, Safe, IInv', NEW o \in Ops, Resumable(o), op' = [op EXCEPT ![o] = Free],
         UNCHANGED <<workerVars, worker, store, disk, loadedId, loading, saveVars, undo>>
  PROVE  Safe'
<1>1. UNCHANGED <<workerVars, worker, store, disk, loadedId, loading, dirty, sequence, undo>> /\ timers' = timers
  BY DEF saveVars
<1>2. PICK q : q = Free
  OBVIOUS
<1>3. op' = [op EXCEPT ![o] = q]
  BY <1>2
<1>4. /\ OnItsWay(q) /\ q.kind = None /\ q.kind \notin Changers /\ q.kind \notin Loads /\ q.kind # "flush"
      /\ q.before # Blank /\ q.pc = "free" /\ op[o].pc = "wait" /\ q.gen = 0
  BY <1>2, NoneIsNoKind DEF OnItsWay, Changers, Loads, Blank, NoDoc, Free, Resumable
<1>5. q.gen <= sequence
  BY <1>4, Parts
<1>6. loadedId = None =>
         /\ timers'[a] = "off" /\ q.kind \in Loads \cup {"flush", None}
         /\ q.kind = "flush" => q.ids = {}
         /\ q.kind \in Loads => TaskDone /\ (q.on = {} => loading = None)
  BY <1>1, <1>4, Parts DEF Unopened
<1> QED BY <1>1, <1>3, <1>4, <1>5, <1>6, QuietSafe

\* The loaded character: what is asked of the engine next.

LEMMA UndoSafe ==
  ASSUME NEW a, Ids = {a}, Safe, IInv', NEW o \in Ops, UndoLast(o)
  PROVE  Safe'
<1> DEFINE n == Len(undo[a])
           r == [op |-> o, method |-> "importCharacterXml", id |-> a, doc |-> undo[a][n].xml]
<1>1. /\ shown = a /\ Start(o, "undo") /\ undo[a] # <<>> /\ ~Editing(a)
      /\ undo' = [undo EXCEPT ![a] = SubSeq(@, 1, Len(@) - 1)]
      /\ worker' = Sent(worker, r) /\ UNCHANGED <<disk, loadedId, saveVars>>
      /\ op' = [op EXCEPT ![o] = [Free EXCEPT !.kind = "undo", !.id = shown, !.pc = "restore"]]
  <2>1. shown = a
    BY Parts DEF UndoLast, IInv, Types, PageTypes
  <2> QED BY <2>1 DEF UndoLast, Post
<1>2. loadedId = a /\ loadedId' = a /\ a \in Ids
  BY <1>1, Parts DEF Unopened
<1>3. undo[a] \in Seq(Entries(version)) /\ undo \in [Ids -> Seq(Entries(version))]
  BY <1>2, Parts DEF IInv, Types, PageTypes
<1>4. n \in DOMAIN undo[a] /\ undo[a][n] \in Entries(version) /\ n \in Nat
  <2>1. PICK T : T = Entries(version)
    OBVIOUS
  <2>2. PICK s \in Seq(T) : s = undo[a]
    BY <1>3, <2>1
  <2>3. s # <<>>
    BY <1>1, <2>2
  <2>4. Len(s) \in DOMAIN s /\ s[Len(s)] \in T /\ Len(s) \in Nat
    BY <2>3
  <2> QED BY <2>1, <2>2, <2>4
<1>5. undo[a][n].xml \in Docs(version) /\ undo[a][n].xml >= 1
  BY <1>2, <1>4, Parts, UndoWhole DEF Entries
<1>6. \A k \in DOMAIN undo'[a] : undo'[a][k].xml >= 1
  <2>1. PICK T : T = Entries(version)
    OBVIOUS
  <2>2. PICK s \in Seq(T) : s = undo[a]
    BY <1>3, <2>1
  <2>3. undo'[a] = SubSeq(s, 1, Len(s) - 1)
    BY <1>1, <1>2, <1>3, <2>2
  <2>4. \A k \in DOMAIN SubSeq(s, 1, Len(s) - 1) : k \in DOMAIN s /\ SubSeq(s, 1, Len(s) - 1)[k] = s[k]
    BY <2>2
  <2>5. \A k \in DOMAIN s : s[k].xml >= 1
    BY <1>2, <2>2, UndoWhole
  <2> QED BY <2>3, <2>4, <2>5
<1>7. r \in Requests(version) /\ r.op = o /\ r.method = "importCharacterXml" /\ r.doc >= 1
  <2>1. "importCharacterXml" \in Methods
    BY DEF Methods
  <2> HIDE DEF n
  <2> QED BY <1>2, <1>5, <2>1, Requested
<1> HIDE DEF r, n
<1>8. PICK q : op' = [op EXCEPT ![o] = q] /\ q.kind = "undo" /\ q.id = a /\ q.pc = "restore"
               /\ q.gen = 0 /\ q.before = NoDoc
  <2>1. PICK q : q = [Free EXCEPT !.kind = "undo", !.id = shown, !.pc = "restore"]
    OBVIOUS
  <2>2. q.kind = "undo" /\ q.id = a /\ q.pc = "restore" /\ q.gen = 0 /\ q.before = NoDoc
    BY <1>1, <2>1 DEF Free
  <2> QED BY <1>1, <2>1, <2>2
<1>9. Elsewhere(o) /\ op'[o] = q
  BY <1>8, Alone, Parts
<1>10. op[o].pc = "free" /\ \A m \in Methods : ~Awaits(op[o], m) /\ (Awaits(op'[o], m) <=> m = r.method)
  BY <1>1, <1>7, <1>8, <1>9 DEF Start, Free, Awaits
<1>11. \A p \in Ops : op[p].kind \notin Changers
  BY <1>1, <1>2, NobodyChanges
<1>12. OnItsWay(op'[o]) /\ op'[o].gen <= sequence /\ op'[o].before # Blank
  BY <1>2, <1>8, <1>9, Parts, NoneIsNoKind DEF OnItsWay, Blank, NoDoc
<1>13. UNCHANGED <<workerVars, store, disk, dirty, sequence>>
  BY <1>1 DEF Start, saveVars
<1>14. op[o].pc \in {"free", "wait"} /\ op'[o].pc \in {"detail", "mutate", "restore"}
  BY <1>8, <1>9, <1>10
<1>15. worker' = Sent(worker, r) /\ (r.method = "importCharacterXml" => r.doc >= 1)
  BY <1>1, <1>7 DEF r, n
<1> QED BY <1>2, <1>6, <1>7, <1>9, <1>10, <1>11, <1>12, <1>13, <1>14, <1>15, CalmAsk

\* Operation o asks two things more.
LEMMA AskTwiceStep ==
  ASSUME IInv, Pending, NEW r \in Requests(version), NEW s \in Requests(version), r.method # s.method,
         inbox' = inbox, worker' = Sent(Sent(worker, r), s),
         NEW o \in Ops, r.op = o, s.op = o, Elsewhere(o), ~Awaits(op[o], r.method), ~Awaits(op[o], s.method),
         \A m \in Methods : Awaits(op'[o], m) <=> Awaits(op[o], m) \/ m \in {r.method, s.method}
  PROVE  /\ Pending' /\ OrderKept(o)
         /\ \A x : In(Posts(worker'), x) <=> In(Posts(worker), x) \/ x \in {r, s}
<1> DEFINE w == Sent(worker, r)
           M == Pipe(inbox, w)
<1>1. /\ r.method \in Methods /\ Tag(r) = <<o, r.method>>
      /\ s.method \in Methods /\ Tag(s) = <<o, s.method>>
  BY DEF Requests, Tag
<1>2. Distinct(Pipe(inbox, worker)) /\ ~In(Pipe(inbox, worker), Tag(r)) /\ ~In(Pipe(inbox, worker), Tag(s))
  BY <1>1 DEF Pending, Pipeline
<1>3. /\ WorkerType(w, version) /\ Joins(Pipeline, M, <<o, r.method>>)
      /\ \A x : In(Posts(w), x) <=> In(Posts(worker), x) \/ x = r
  <2>1. version \in Nat /\ WorkerType(worker, version) /\ inbox \in Seq(Responses(version))
    BY EngineSide
  <2>2. /\ WorkerType(Sent(worker, r), version)
        /\ Joins(Pipe(inbox, worker), Pipe(inbox, Sent(worker, r)), Tag(r))
        /\ \A x : In(Posts(Sent(worker, r)), x) <=> In(Posts(worker), x) \/ x = r
    BY <1>2, <2>1, Posting
  <2> QED BY <1>1, <2>2 DEF Pipeline
<1>4. Distinct(M) /\ ~In(M, Tag(s))
  BY <1>1, <1>2, <1>3 DEF Joins, Pipeline
<1> HIDE DEF w
<1>5. /\ Joins(M, Pipe(inbox, Sent(w, s)), Tag(s))
      /\ \A x : In(Posts(Sent(w, s)), x) <=> In(Posts(w), x) \/ x = s
  <2>1. version \in Nat /\ inbox \in Seq(Responses(version))
    BY EngineSide
  <2> QED BY <1>3, <1>4, <2>1, Posting DEF M
<1>6. Pipeline' = Pipe(inbox, Sent(w, s)) /\ worker' = Sent(w, s)
  BY DEF Pipeline, w
<1> HIDE DEF M
<1>7. \A p \in Ops, m \in Methods : In(Pipeline', <<p, m>>) <=> Awaits(op'[p], m)
  <2> TAKE p \in Ops, m \in Methods
  <2>1. In(Pipeline', <<p, m>>) <=> Awaits(op[p], m) \/ (p = o /\ m \in {r.method, s.method})
    BY <1>1, <1>3, <1>5, <1>6 DEF Joins, Pending
  <2>2. CASE p = o
    BY <2>1, <2>2
  <2>3. CASE p # o
    BY <2>1, <2>3, OtherOps
  <2> QED BY <2>2, <2>3
<1>8. Pending'
  BY <1>5, <1>6, <1>7 DEF Joins, Pending
<1>9. OrderKept(o)
  BY <1>3, <1>5, <1>6 DEF Joins, OrderKept
<1>10. \A x : In(Posts(worker'), x) <=> In(Posts(worker), x) \/ x \in {r, s}
  BY <1>3, <1>5, <1>6
<1> QED BY <1>8, <1>9, <1>10

\* An operation that needs the loaded character goes on.
LEMMA ProceedSafe ==
  ASSUME NEW a, Ids = {a}, Safe, IInv', NEW o \in Ops, ResumeLoad(o), loadedId = a
  PROVE  Safe'
<1>1. /\ op[o].pc = "wait" /\ op[o].kind \in Showing \cup {"mutate", "durable"}
      /\ UNCHANGED <<workerVars, store, disk, loadedId, saveVars, undo>>
  <2>1. op[o].id = loadedId => UNCHANGED disk
    BY DEF ResumeLoad
  <2>2. OnItsWay(op[o]) /\ op[o].kind \in Showing \cup {"mutate", "durable"} /\ op[o].pc = "wait"
    BY Parts DEF Ways, ResumeLoad, Resumable
  <2>3. op[o].id = a
    BY <2>2, NoneIsNoKind DEF OnItsWay, Showing
  <2> QED BY <2>1, <2>2, <2>3 DEF ResumeLoad, Resumable
<1>2. OnItsWay(op[o]) /\ op[o] \in Operations(version) /\ op[o].gen <= sequence /\ op[o].before # Blank
      /\ a \in Ids
  BY Parts DEF Ways, Opened
<1>3. op[o].kind \in {"open", "mutate", "durable"} /\ op[o].id = a
  BY <1>1, <1>2, NoneIsNoKind DEF OnItsWay, Showing
<1>4. Proceed(o)
  BY <1>3 DEF ResumeLoad
<1>5. PICK q : /\ op' = [op EXCEPT ![o] = q]
               /\ q = [op[o] EXCEPT !.pc = IF op[o].kind \in Showing THEN "detail" ELSE "mutate"]
  BY <1>4, Parts DEF Proceed
<1>6. Elsewhere(o) /\ op'[o] = q
  BY <1>5, Alone, Parts
<1>7. /\ q.kind = op[o].kind /\ q.id = a /\ q.gen = op[o].gen /\ q.before = op[o].before
      /\ q.pc = IF op[o].kind = "open" THEN "detail" ELSE "mutate"
  BY <1>2, <1>3, <1>5 DEF Operations, Showing
<1>8. OnItsWay(op'[o]) /\ op'[o].gen <= sequence /\ op'[o].before # Blank
      /\ (op'[o].kind \in Changers => op[o].kind \in Changers) /\ op'[o].pc \in {"detail", "mutate"}
  BY <1>2, <1>3, <1>6, <1>7, NoneIsNoKind DEF OnItsWay
<1>9. \A m \in Methods : ~Awaits(op[o], m)
  BY <1>1 DEF Awaits
<1>10. \A m \in {"getCharacter", "exportCharacterXml", "mutation"} :
         /\ m # "importCharacterXml" /\ Request(o, m, NoDoc) \in Requests(version)
         /\ Request(o, m, NoDoc).op = o /\ Request(o, m, NoDoc).method = m
  BY <1>2, <1>3, Parts, Versions, Requested DEF Request, Methods
<1>11. /\ loadedId' = a /\ UNCHANGED <<workerVars, store, disk, dirty, sequence>> /\ undo' = undo
       /\ op[o].pc \in {"free", "wait"}
  BY <1>1 DEF saveVars
<1>12. CASE op[o].kind # "mutate"
  <2>1. PICK m \in {"getCharacter", "mutation"} :
          /\ worker' = Sent(worker, Request(o, m, NoDoc))
          /\ m = IF op[o].kind = "open" THEN "getCharacter" ELSE "mutation"
    BY <1>3, <1>4, <1>12 DEF Proceed, Showing
  <2>2. \A k \in Methods : Awaits(op'[o], k) <=> k = m
    BY <1>3, <1>6, <1>7, <1>12, <2>1 DEF Awaits
  <2>3. PICK r \in Requests(version) : r = Request(o, m, NoDoc)
    BY <1>10
  <2>4. r.op = o /\ r.method = m /\ m # "importCharacterXml" /\ worker' = Sent(worker, r)
    BY <1>10, <2>1, <2>3
  <2>5. \A k \in DOMAIN undo'[a] : undo'[a][k].xml >= 1
    BY <1>11, UndoWhole
  <2> QED BY <1>6, <1>8, <1>9, <1>11, <2>2, <2>4, <2>5, CalmAsk
<1>13. CASE op[o].kind = "mutate"
  <2>1. PICK r \in Requests(version), s \in Requests(version) :
          r = Request(o, "exportCharacterXml", NoDoc) /\ s = Request(o, "mutation", NoDoc)
    BY <1>10
  <2>2. /\ r.op = o /\ s.op = o /\ r.method = "exportCharacterXml" /\ s.method = "mutation"
        /\ worker' = Sent(Sent(worker, r), s)
    BY <1>4, <1>10, <1>13, <2>1 DEF Proceed, Showing
  <2>3. \A m \in Methods : Awaits(op'[o], m) <=> m \in {r.method, s.method}
    BY <1>6, <1>7, <1>13, <2>2 DEF Awaits
  <2>4. r.method # s.method /\ r.method \in Methods /\ s.method \in Methods
    BY <2>2 DEF Methods
  <2>5. inbox' = inbox /\ IInv /\ Pending
    BY <1>11, Parts DEF workerVars
  <2>6. /\ Pending' /\ OrderKept(o)
        /\ \A x : In(Posts(worker'), x) <=> In(Posts(worker), x) \/ x \in {r, s}
    BY <1>6, <1>9, <2>2, <2>3, <2>4, <2>5, AskTwiceStep
  <2>7. Calm(a, o)
    <3>1. \A k \in DOMAIN undo'[a] : undo'[a][k].xml >= 1
      BY <1>11, UndoWhole
    <3>2. op[o].pc \notin SavePoints /\ op'[o].pc \notin SavePoints \cup LoadPoints
      BY <1>8, <1>11 DEF SavePoints, LoadPoints
    <3>3. \A x : In(Posts(worker'), x) => In(Posts(worker), x) \/ (x.method = "importCharacterXml" => x.doc >= 1)
      BY <2>2, <2>6
    <3> QED BY <1>8, <1>11, <3>1, <3>2, <3>3 DEF Calm, workerVars
  <2>8. GoesOn(o)
    BY <1>8, <1>11, <2>5 DEF GoesOn, Keeping, SavePoints
  <2>9. loadedId' = a
    BY <1>11
  <2> QED BY <1>6, <2>6, <2>7, <2>8, <2>9, CalmStep
<1> QED BY <1>12, <1>13

----------------------------------------------------------------------------
\* The loaded character: saves.

LEMMA LoadedStep ==
  ASSUME NEW a, Ids = {a}, Safe, IInv', loadedId' = a, Pending', Writing', Ways', store'[a] >= 1, Opened(a)',
         CleanStored(a)', LastWritten(a)', InOrder(a)'
  PROVE  Safe'
<1>1. Unopened(a)'
  BY Parts DEF Unopened
<1>2. Answerable'
  BY TwoQueues DEF Answerable, Pending, Writing
<1> QED BY <1>1, <1>2 DEF Safe

\* A change on its way is of an edit or an undo that awaits it.
LEMMA ChangeOf ==
  ASSUME NEW a, Ids = {a}, Safe, loadedId = a, NEW r, NEW m \in {"importCharacterXml", "mutation"},
         r \in Ops, In(Pipeline, <<r, m>>)
  PROVE  op[r].kind \in Changers /\ op[r].pc \in {"restore", "mutate", "mutateOnly"}
         /\ (m = "importCharacterXml" => op[r].kind = "undo")
<1>1. m \in Methods
  BY DEF Methods
<1>2. Awaits(op[r], m) /\ OnItsWay(op[r]) /\ op[r].pc \notin LoadPoints
  BY <1>1, Parts DEF Pending, Ways, Opened
<1>3. op[r].pc \in {"restore", "mutate", "mutateOnly"} /\ (m = "importCharacterXml" => op[r].pc = "restore")
  BY <1>2 DEF Awaits, LoadPoints
<1> QED BY <1>2, <1>3, NoneIsNoKind DEF OnItsWay, Changers, LoadPoints, SavePoints

\* While a durable edit is being saved no other change is on its way.
LEMMA DurableAlone ==
  ASSUME NEW a, Ids = {a}, Safe, loadedId = a, NEW o \in Ops, op[o].kind = "durable", op[o].pc \in SavePoints
  PROVE  ~ChangeIn(inbox)
<1> SUFFICES ASSUME NEW k \in DOMAIN inbox, Change(inbox[k]) PROVE FALSE
  BY DEF ChangeIn
<1>1. In(Pipeline, Tag(inbox[k])) /\ inbox[k] \in Responses(version)
  BY Members, EngineSide, Parts DEF Pipeline
<1>2. inbox[k].op \in Ops /\ inbox[k].method \in {"importCharacterXml", "mutation"}
  BY <1>1 DEF Change, Responses
<1>3. In(Pipeline, <<inbox[k].op, inbox[k].method>>)
  BY <1>1 DEF Tag
<1>4. op[inbox[k].op].kind \in Changers /\ op[inbox[k].op].pc \in {"restore", "mutate", "mutateOnly"}
  BY <1>2, <1>3, ChangeOf
<1>5. inbox[k].op = o
  BY <1>2, <1>4, Parts DEF Ways, Changers
<1> QED BY <1>4, <1>5 DEF SavePoints

\* Save o goes on: it has exported its document, or projected its summary.
LEMMA SavingStep ==
  ASSUME NEW a, Ids = {a}, Safe, loadedId = a, loadedId' = a, NEW o \in Ops, Elsewhere(o),
         engine'[a] = engine[a], store'[a] = store[a], dirty'[a] = dirty[a],
         op[o].pc \in SavePoints, op'[o].pc \in {"summary", "put"}, op'[o].kind = op[o].kind, op'[o].gen = op[o].gen,
         Underway' <=> Underway, OrderKept(o), \A p \in Ops : op[p].pc = "summary" /\ op[o].pc = "export" =>
           ~Precedes(Pipeline, <<p, "getCharacter">>, <<o, "exportCharacterXml">>),
         op[o].pc = "summary" => \A p \in Ops : ~Precedes(Pipeline, <<p, "getCharacter">>, <<o, "getCharacter">>),
         op[o].pc \in {"export", "summary"}, op[o].pc = "summary" => op'[o].pc = "put",
         op'[o].pc = "put" => \A p \in Ops : In(disk, p) => Precedes(disk', p, o),
         \A p, r \in Ops : Precedes(disk, p, r) => Precedes(disk', p, r),
         op[o].pc = "export" => (op'[o].xml # engine[a] => ChangeIn(inbox)),
         op[o].pc = "summary" => op'[o].xml = op[o].xml
  PROVE  CleanStored(a)' /\ LastWritten(a)'
<1>1. CleanStored(a) /\ LastWritten(a) /\ Writing /\ Ways
  BY Parts
<1>2. \A p \in Ops \ {o} : op'[p].pc \in SavePoints \/ op[p].pc \in SavePoints => Alike(op[p], op'[p])
  BY OtherOps
<1>3. {"summary", "put", "export"} = SavePoints
  BY DEF SavePoints
<1>4. \A p \in Ops \ {o} : Stale(a, p)' <=> Stale(a, p)
  BY <1>2, <1>3 DEF Stale, Alike
<1>5. \A p \in Ops : Decisive(a, p)' <=> Decisive(a, p)
  BY <1>2, <1>3 DEF Decisive, Alike
<1>6. Stale(a, o)' => Stale(a, o) \/ (op[o].pc = "export" /\ ChangeIn(inbox))
  BY DEF Stale
<1>7. ChangeIn(inbox) => Underway
  BY DEF Underway
<1>8. CleanStored(a)'
  BY <1>1, <1>4, <1>6, <1>7 DEF CleanStored
<1>9. ASSUME NEW t \in Ops, Decisive(a, t) PROVE ~Stale(a, t)' /\ \A s \in Ops : Stale(a, s)' => Ahead(s, t)'
  <2>1. ~Stale(a, t) /\ \A s \in Ops : Stale(a, s) => Ahead(s, t)
    BY <1>1, <1>9 DEF LastWritten
  <2>2. ~ChangeIn(inbox)
    <3>1. op[t].kind = "durable" /\ op[t].pc \in SavePoints => ~ChangeIn(inbox)
      BY DurableAlone
    <3> QED BY <1>7, <1>9, <3>1 DEF Decisive
  <2>3. \A s \in Ops : Stale(a, s)' => Stale(a, s)
    BY <1>4, <1>6, <2>2
  <2>4. ASSUME NEW s \in Ops, Stale(a, s) PROVE Ahead(s, t)'
    <3>1. Ahead(s, t) /\ s # t /\ op[s].pc \in {"summary", "put"} /\ op[t].pc \in SavePoints
      BY <1>9, <2>1, <2>4 DEF Stale, Decisive
    <3>2. CASE s # o /\ t # o
      <4>1. op'[s].pc = op[s].pc /\ op'[t].pc = op[t].pc
        BY <1>2, <1>3, <3>1, <3>2 DEF Alike
      <4>2. \A y : Precedes(Pipeline, <<s, "getCharacter">>, y) => Precedes(Pipeline', <<s, "getCharacter">>, y)
        BY <3>2 DEF OrderKept, Methods
      <4> QED BY <3>1, <4>1, <4>2 DEF Ahead
    <3>3. CASE t = o
      <4>1. op'[s].pc = op[s].pc
        BY <1>2, <1>3, <3>1, <3>3 DEF Alike
      <4>2. op[s].pc = "put"
        BY <3>1, <3>3 DEF Ahead
      <4>3. In(disk, s)
        BY <1>1, <4>2 DEF Writing, OnDisk
      <4> QED BY <3>3, <4>1, <4>2, <4>3 DEF Ahead
    <3>4. CASE s = o /\ t # o
      <4>1. op'[t].pc = op[t].pc /\ op[o].pc = "summary"
        BY <1>2, <1>3, <3>1, <3>4 DEF Alike
      <4>2. op[t].pc \in {"summary", "export"}
        BY <3>1, <3>4, <4>1 DEF Ahead, SavePoints
      <4> QED BY <3>4, <4>1, <4>2 DEF Ahead
    <3> QED BY <3>2, <3>3, <3>4
  <2>5. ~Stale(a, t)'
    BY <2>1, <2>3
  <2> QED BY <2>3, <2>4, <2>5
<1>10. LastWritten(a)'
  BY <1>5, <1>9 DEF LastWritten
<1> QED BY <1>8, <1>10

\* What a save is of.
LEMMA SaveOf ==
  ASSUME NEW a, Ids = {a}, Safe, NEW o \in Ops, op[o].pc \in SavePoints
  PROVE  /\ loadedId = a /\ op[o].id = a /\ op[o].kind \in {"durable", "save", "flush", "timer"}
         /\ op[o] \in Operations(version) /\ op[o].gen <= sequence /\ op[o].before # Blank
         /\ Keeping(op[o]) <=> op[o].kind = "durable"
<1>1. loadedId = a
  BY Parts DEF Unopened, SavePoints, LoadPoints
<1>2. OnItsWay(op[o]) /\ op[o].gen <= sequence /\ op[o].before # Blank /\ op[o] \in Operations(version)
  BY <1>1, Parts DEF Ways, Opened
<1>3. op[o].kind \in {"durable", "save", "flush", "timer"} /\ op[o].id \in Ids
  BY <1>2, NoneIsNoKind DEF OnItsWay, SavePoints, LoadPoints
<1>4. Keeping(op[o]) <=> op[o].kind = "durable"
  BY DEF Keeping, SavePoints
<1> QED BY <1>1, <1>2, <1>3, <1>4

\* Nothing else of the character has changed when a save goes on.
LEMMA SavingRest ==
  ASSUME NEW a, Ids = {a}, Safe, IInv', NEW o \in Ops, Elsewhere(o), Heard, Pending', Writing',
         CleanStored(a)', LastWritten(a)', loadedId' = a, loadedId = a, Underway' => Underway,
         engine' = engine, latest' = latest, sequence' = sequence, dirty' \in {dirty, [dirty EXCEPT ![a] = 0]},
         store'[a] >= 1, undo' = undo,
         OnItsWay(op'[o]), op'[o].gen <= sequence, op'[o].kind \in Changers => op[o].kind \in Changers,
         op'[o].pc \notin LoadPoints, op'[o].before # Blank,
         op'[o].pc \in {"summary", "put"} => op'[o].xml >= 1,
         \A r : In(Posts(worker'), r) => In(Posts(worker), r) \/ (r.method = "importCharacterXml" => r.doc >= 1)
  PROVE  Safe'
<1>1. /\ IInv /\ Pending /\ Ways /\ Opened(a) /\ InOrder(a) /\ sequence \in Nat
  BY Parts
<1>2. Ways'
  BY <1>1, WaysStep
<1>3. dirty'[a] # 0 \/ Underway' => dirty[a] # 0 \/ Underway
  BY Parts DEF IInv, Types, PageTypes
<1>4. \A k \in DOMAIN undo'[a] : undo'[a][k].xml >= 1
  BY UndoWhole
<1>5. Opened(a)'
  BY <1>1, <1>3, <1>4, OpenedStep
<1>6. InOrder(a)'
  BY <1>1, InOrderStep
<1> QED BY <1>2, <1>5, <1>6, LoadedStep

LEMMA ExportedSafe ==
  ASSUME NEW a, Ids = {a}, Safe, IInv', NEW o \in Ops, Exported(o)
  PROVE  Safe'
<1> DEFINE r == Request(o, "getCharacter", NoDoc)
<1>1. Answer(o, "exportCharacterXml", "export") /\ UNCHANGED <<loadedId, saveVars, undo>>
  BY DEF Exported
<1>2. "exportCharacterXml" \in Methods /\ "getCharacter" \in Methods /\ "exportCharacterXml" \in Reads
  BY DEF Methods, Reads
<1>3. /\ inbox # <<>> /\ inbox' = Tail(inbox) /\ Head(inbox).op = o /\ Head(inbox).method = "exportCharacterXml"
      /\ engine' = engine /\ latest' = latest /\ store' = store /\ Head(inbox) = Answered /\ op[o].pc = "export"
      /\ Head(inbox) \in Responses(version)
  BY ONLY <1>1, <1>2, Ids = {a}, Safe, o \in Ops, Heading
<1>4. op[o].pc \in SavePoints
  BY <1>3 DEF SavePoints
<1>5. /\ loadedId = a /\ op[o].id = a /\ op[o].kind \in {"durable", "save", "flush", "timer"}
      /\ op[o] \in Operations(version) /\ op[o].gen <= sequence /\ op[o].before # Blank
      /\ Keeping(op[o]) <=> op[o].kind = "durable"
  BY <1>4, SaveOf
<1>6. Answered.ok /\ Answered.doc >= 1
  BY <1>1, <1>2, <1>3, <1>5, Heading
<1>7. PICK pc \in {"summary", "put"} :
        /\ op' = [op EXCEPT ![o].pc = pc, ![o].xml = Answered.doc]
        /\ pc = "summary" => worker' = Sent(worker, r) /\ disk' = disk
        /\ pc = "put" => worker' = worker /\ disk' = Append(disk, o)
  BY <1>6 DEF Exported, Post
<1>8. r \in Requests(version) /\ r.op = o /\ r.method = "getCharacter"
  BY <1>2, <1>5, Parts, Versions, Requested DEF Request
<1> HIDE DEF r
<1>9. PICK q : op' = [op EXCEPT ![o] = q] /\ q = [op[o] EXCEPT !.pc = pc, !.xml = Answered.doc]
  <2>1. op \in [Ops -> Operations(version)]
    BY Parts
  <2> QED BY <1>7, <2>1
<1>10. Elsewhere(o) /\ op'[o] = q
  BY <1>9, Alone, Parts
<1>11. /\ q.pc = pc /\ q.kind = op[o].kind /\ q.id = a /\ q.gen = op[o].gen /\ q.before = op[o].before
       /\ q.xml = Answered.doc
  BY <1>5, <1>9 DEF Operations
<1>12. IInv /\ Pending /\ Writing /\ disk \in Seq(Ops)
  BY Parts, EngineSide
<1>13. /\ Pending' /\ OrderKept(o)
       /\ \A y : ~Precedes(Pipeline, y, <<o, "exportCharacterXml">>)
       /\ \A x : In(Posts(worker'), x) => In(Posts(worker), x) \/ x = r
  <2>1. CASE pc = "summary"
    <3>1. /\ ~Awaits(op[o], r.method)
          /\ \A k \in Methods : Awaits(op'[o], k) <=> (Awaits(op[o], k) /\ k # "exportCharacterXml") \/ k = r.method
      BY <1>3, <1>8, <1>10, <1>11, <2>1 DEF Awaits
    <3>2. /\ Pending'
          /\ \A x, y : Precedes(Pipeline, x, y) /\ x # <<o, "exportCharacterXml">> => Precedes(Pipeline', x, y)
          /\ \A y : ~Precedes(Pipeline, y, <<o, "exportCharacterXml">>)
          /\ \A x : In(Posts(worker'), x) <=> In(Posts(worker), x) \/ x = r
      BY <1>2, <1>3, <1>7, <1>8, <1>10, <1>12, <2>1, <3>1, HandleAskStep
    <3> QED BY <3>2 DEF OrderKept
  <2>2. CASE pc = "put"
    <3>1. \A k \in Methods : Awaits(op'[o], k) <=> Awaits(op[o], k) /\ k # "exportCharacterXml"
      BY <1>3, <1>10, <1>11, <2>2 DEF Awaits
    <3>2. Pending' /\ Leaves(Pipeline, Pipeline', <<o, "exportCharacterXml">>)
      BY <1>2, <1>3, <1>7, <1>10, <1>12, <2>2, <3>1, HandleStep
    <3>3. OrderKept(o)
      BY <3>2, OrderHandled
    <3> QED BY <1>7, <2>2, <3>2, <3>3 DEF Leaves
  <2> QED BY <2>1, <2>2
<1>14. /\ Writing' /\ \A p, t \in Ops : Precedes(disk, p, t) => Precedes(disk', p, t)
       /\ pc = "put" => \A p \in Ops : In(disk, p) => Precedes(disk', p, o)
  <2>1. ~OnDisk(op[o]) /\ (OnDisk(op'[o]) <=> pc = "put")
    BY <1>3, <1>10, <1>11 DEF OnDisk
  <2>2. CASE pc = "summary"
    BY <1>7, <1>10, <1>12, <2>1, <2>2, OtherOps DEF Writing
  <2>3. CASE pc = "put"
    <3>1. Joins(disk, disk', o) /\ \A x : In(disk, x) => Precedes(disk', x, o)
      <4>1. disk' = Append(disk, o)
        BY <1>7, <2>3
      <4>2. Distinct(disk) /\ ~In(disk, o) /\ disk \in Seq(Ops)
        BY <1>12, <2>1 DEF Writing
      <4> QED BY <4>1, <4>2, Queueing
    <3> QED BY <1>10, <1>12, <2>1, <2>3, <3>1, OtherOps DEF Writing, Joins
  <2> QED BY <2>2, <2>3
<1>15. Underway' <=> Underway
  <2>1. Keeping(op'[o]) <=> Keeping(op[o])
    BY <1>3, <1>10, <1>11 DEF Keeping, SavePoints
  <2>2. GoesOn(o)
    BY <1>3, <2>1 DEF GoesOn, Change
  <2> QED BY <1>10, <1>12, <2>2, StillUnderway
<1>16. op'[o].xml # engine[a] => ChangeIn(inbox)
  <2>1. 1 \in DOMAIN inbox /\ Head(inbox) = inbox[1]
    BY <1>3, <1>12, Rest
  <2> QED BY <1>3, <1>5, <1>10, <1>11, <2>1, Parts DEF InOrder, ChangeIn
<1>17. CleanStored(a)' /\ LastWritten(a)'
  <2>1. /\ engine'[a] = engine[a] /\ store'[a] = store[a] /\ dirty'[a] = dirty[a] /\ loadedId' = a
        /\ op'[o].pc \in {"summary", "put"} /\ op'[o].kind = op[o].kind /\ op'[o].gen = op[o].gen
        /\ op'[o].pc = pc
    BY <1>1, <1>3, <1>5, <1>10, <1>11 DEF saveVars
  <2> QED BY <1>3, <1>4, <1>5, <1>10, <1>13, <1>14, <1>15, <1>16, <2>1, SavingStep
<1>18. Heard
  BY <1>3 DEF Heard
<1>19. /\ OnItsWay(op'[o]) /\ op'[o].gen <= sequence /\ (op'[o].kind \in Changers => op[o].kind \in Changers)
       /\ op'[o].pc \notin LoadPoints /\ op'[o].before # Blank
       /\ op'[o].pc \in {"summary", "put"} => op'[o].xml >= 1
  BY <1>5, <1>6, <1>10, <1>11, Parts, NoneIsNoKind DEF OnItsWay, LoadPoints, SavePoints
<1>20. /\ loadedId' = a /\ sequence' = sequence /\ dirty' = dirty /\ undo' = undo /\ store'[a] >= 1
  BY <1>1, <1>3, <1>5, Parts DEF saveVars
<1>21. \A x : In(Posts(worker'), x) => In(Posts(worker), x) \/ (x.method = "importCharacterXml" => x.doc >= 1)
  BY <1>8, <1>13
<1> QED BY <1>3, <1>5, <1>10, <1>13, <1>14, <1>15, <1>17, <1>18, <1>19, <1>20, <1>21, SavingRest

LEMMA SummarisedSafe ==
  ASSUME NEW a, Ids = {a}, Safe, IInv', NEW o \in Ops, Summarised(o)
  PROVE  Safe'
<1>1. Answer(o, "getCharacter", "summary") /\ UNCHANGED <<worker, loadedId, saveVars, undo>>
  BY DEF Summarised
<1>2. "getCharacter" \in Methods /\ "getCharacter" \in Reads
  BY DEF Methods, Reads
<1>3. /\ inbox # <<>> /\ inbox' = Tail(inbox) /\ Head(inbox).op = o /\ Head(inbox).method = "getCharacter"
      /\ engine' = engine /\ latest' = latest /\ store' = store /\ Head(inbox) = Answered /\ op[o].pc = "summary"
  BY ONLY <1>1, <1>2, Ids = {a}, Safe, o \in Ops, Heading
<1>4. op[o].pc \in SavePoints
  BY <1>3 DEF SavePoints
<1>5. /\ loadedId = a /\ op[o].id = a /\ op[o].kind \in {"durable", "save", "flush", "timer"}
      /\ op[o] \in Operations(version) /\ op[o].gen <= sequence /\ op[o].before # Blank
      /\ Keeping(op[o]) <=> op[o].kind = "durable"
  BY <1>4, SaveOf
<1>6. Answered.ok
  BY <1>1, <1>2, <1>3, <1>5, Heading
<1>7. op' = [op EXCEPT ![o].pc = "put"] /\ disk' = Append(disk, o)
  BY <1>6 DEF Summarised
<1>8. PICK q : op' = [op EXCEPT ![o] = q] /\ q = [op[o] EXCEPT !.pc = "put"]
  <2>1. op \in [Ops -> Operations(version)]
    BY Parts
  <2> QED BY <1>7, <2>1
<1>9. Elsewhere(o) /\ op'[o] = q
  BY <1>8, Alone, Parts
<1>10. /\ q.pc = "put" /\ q.kind = op[o].kind /\ q.id = a /\ q.gen = op[o].gen /\ q.before = op[o].before
       /\ q.xml = op[o].xml
  BY <1>5, <1>8 DEF Operations
<1>11. IInv /\ Pending /\ Writing /\ disk \in Seq(Ops)
  BY Parts, EngineSide
<1>12. \A k \in Methods : Awaits(op'[o], k) <=> Awaits(op[o], k) /\ k # "getCharacter"
  BY <1>3, <1>9, <1>10 DEF Awaits
<1>13. Pending' /\ Leaves(Pipeline, Pipeline', <<o, "getCharacter">>)
  BY <1>1, <1>2, <1>3, <1>9, <1>11, <1>12, HandleStep
<1>14. OrderKept(o) /\ \A p : ~Precedes(Pipeline, p, <<o, "getCharacter">>)
  BY <1>13, OrderHandled DEF Leaves
<1>15. /\ Writing' /\ \A p, t \in Ops : Precedes(disk, p, t) => Precedes(disk', p, t)
       /\ \A p \in Ops : In(disk, p) => Precedes(disk', p, o)
  <2>1. ~OnDisk(op[o]) /\ OnDisk(op'[o])
    BY <1>3, <1>9, <1>10 DEF OnDisk
  <2>2. Joins(disk, disk', o) /\ \A x : In(disk, x) => Precedes(disk', x, o)
    BY <1>7, <1>11, <2>1, Queueing DEF Writing
  <2> QED BY <1>9, <1>11, <2>1, <2>2, OtherOps DEF Writing, Joins
<1>16. Underway' <=> Underway
  <2>1. Keeping(op'[o]) <=> Keeping(op[o])
    BY <1>3, <1>9, <1>10 DEF Keeping, SavePoints
  <2>2. GoesOn(o)
    BY <1>3, <2>1 DEF GoesOn, Change
  <2> QED BY <1>9, <1>11, <2>2, StillUnderway
<1>17. CleanStored(a)' /\ LastWritten(a)'
  <2>1. /\ engine'[a] = engine[a] /\ store'[a] = store[a] /\ dirty'[a] = dirty[a] /\ loadedId' = a
        /\ op'[o].pc \in {"summary", "put"} /\ op'[o].kind = op[o].kind /\ op'[o].gen = op[o].gen
        /\ op'[o].pc = "put" /\ op'[o].xml = op[o].xml
    BY <1>1, <1>3, <1>5, <1>9, <1>10 DEF saveVars
  <2> QED BY <1>3, <1>4, <1>5, <1>9, <1>14, <1>15, <1>16, <2>1, SavingStep
<1>18. Heard
  BY <1>3 DEF Heard
<1>19. op[o].xml >= 1
  BY <1>3, <1>5, Parts DEF Opened
<1>20. /\ OnItsWay(op'[o]) /\ op'[o].gen <= sequence /\ (op'[o].kind \in Changers => op[o].kind \in Changers)
       /\ op'[o].pc \notin LoadPoints /\ op'[o].before # Blank
       /\ op'[o].pc \in {"summary", "put"} => op'[o].xml >= 1
  BY <1>5, <1>9, <1>10, <1>19, Parts, NoneIsNoKind DEF OnItsWay, LoadPoints, SavePoints
<1>21. /\ loadedId' = a /\ sequence' = sequence /\ dirty' = dirty /\ undo' = undo /\ store'[a] >= 1
  BY <1>1, <1>3, <1>5, Parts DEF saveVars
<1>22. \A x : In(Posts(worker'), x) => In(Posts(worker), x) \/ (x.method = "importCharacterXml" => x.doc >= 1)
  BY <1>1, PostsKept
<1> QED BY <1>3, <1>5, <1>9, <1>13, <1>15, <1>16, <1>17, <1>18, <1>20, <1>21, <1>22, SavingRest

\* What a save that has ended leaves of its operation.
LEMMA EndsAs ==
  ASSUME NEW a, Ids = {a}, Safe, NEW o \in Ops, op[o].pc \in SavePoints, NEW ok \in BOOLEAN, PersistEnds(o, ok)
  PROVE  /\ Elsewhere(o) /\ op'[o].pc \in {"free", "wait"} /\ op'[o].kind \in {"flush", None}
         /\ OnItsWay(op'[o]) /\ op'[o].gen <= sequence /\ op'[o].before # Blank
<1> DEFINE w == [op[o] EXCEPT !.pc = "wait"]
<1>1. /\ op[o].id = a /\ op[o].kind \in {"durable", "save", "flush", "timer"}
      /\ op[o] \in Operations(version) /\ op[o].gen <= sequence /\ op[o].before # Blank
  BY SaveOf
<1>2. /\ w \in Operations(version) /\ w.on = {} /\ w.pc = "wait" /\ w.kind = op[o].kind
      /\ w.gen = op[o].gen /\ w.before = op[o].before
  <2>1. op[o].on = {} /\ op[o].id \in Ids
    BY <1>1 DEF Operations, SavePoints
  <2>2. "wait" \in Points
    BY DEF Points
  <2> QED BY <1>1, <2>1, <2>2 DEF Operations, Unnamed
<1> HIDE DEF w
<1>3. PICK q \in Operations(version) :
         /\ op' \in {Resolved([op EXCEPT ![o] = q], <<o, a>>), Rejected([op EXCEPT ![o] = q], <<o, a>>)}
         /\ q.on = {} /\ (q = Free \/ (q = w /\ op[o].kind = "flush"))
  <2>1. Free \in Operations(version) /\ Free.on = {}
    BY FreeType, Parts
  <2>2. \/ op' \in {Resolved([op EXCEPT ![o] = Free], <<o, a>>), Rejected([op EXCEPT ![o] = Free], <<o, a>>)}
        \/ /\ op' \in {Resolved([op EXCEPT ![o] = w], <<o, a>>), Rejected([op EXCEPT ![o] = w], <<o, a>>)}
           /\ op[o].kind = "flush"
    <3>1. [op EXCEPT ![o] = IF @.kind \in {"flush", "reload"} THEN [@ EXCEPT !.pc = "wait"] ELSE Free]
            = IF op[o].kind = "flush" THEN [op EXCEPT ![o] = w] ELSE [op EXCEPT ![o] = Free]
      BY <1>1, Parts DEF w
    <3> HIDE DEF Free
    <3> QED BY <1>1, <3>1 DEF PersistEnds
  <2> HIDE DEF Free
  <2> QED BY <1>2, <2>1, <2>2
<1>4. Elsewhere(o) /\ op'[o] = q
  <2>1. IInv
    BY Parts
  <2>2. q.on = {} /\ op' \in {Resolved([op EXCEPT ![o] = q], <<o, a>>), Rejected([op EXCEPT ![o] = q], <<o, a>>)}
    BY <1>3
  <2> QED BY <2>1, <2>2, Settling
<1>5. q.pc \in {"free", "wait"} /\ q.kind \in {"flush", None} /\ OnItsWay(q) /\ q.gen <= sequence /\ q.before # Blank
  <2>1. CASE q = Free
    BY <2>1, NoneIsNoKind, Parts DEF OnItsWay, Free, Blank, NoDoc
  <2>2. CASE q = w /\ op[o].kind = "flush"
    BY <1>1, <1>2, <2>2, NoneIsNoKind DEF OnItsWay
  <2> QED BY <1>3, <2>1, <2>2
<1> QED BY <1>4, <1>5

\* The oldest write completes or is refused.
LEMMA WriteEnds ==
  ASSUME NEW a, Ids = {a}, Safe, IInv', NEW o \in Ops, NEW ok \in BOOLEAN, Completes(o, "put"), PersistEnds(o, ok),
         UNCHANGED <<worker, loadedId, sequence, undo>>,
         \/ ok /\ store' = [store EXCEPT ![a] = op[o].xml] /\ MarkCleanIfCurrent(a, op[o].gen)
         \/ op[o].kind # "durable" /\ store' = store /\ dirty' = dirty
  PROVE  Safe'
<1>1. /\ disk # <<>> /\ Head(disk) = o /\ op[o].pc = "put" /\ disk' = Tail(disk) /\ UNCHANGED workerVars
  BY DEF Completes
<1>2. op[o].pc \in SavePoints
  BY <1>1 DEF SavePoints
<1>3. /\ loadedId = a /\ op[o].id = a /\ op[o].kind \in {"durable", "save", "flush", "timer"}
      /\ op[o].gen <= sequence /\ op[o] \in Operations(version)
      /\ Keeping(op[o]) <=> op[o].kind = "durable"
  BY <1>2, SaveOf
<1>4. /\ Elsewhere(o) /\ op'[o].pc \in {"free", "wait"} /\ op'[o].kind \in {"flush", None}
      /\ OnItsWay(op'[o]) /\ op'[o].gen <= sequence /\ op'[o].before # Blank
  BY <1>2, EndsAs
<1>5. /\ IInv /\ Pending /\ Writing /\ disk \in Seq(Ops) /\ CleanStored(a) /\ LastWritten(a)
      /\ engine' = engine /\ latest' = latest /\ inbox' = inbox /\ store[a] >= 1 /\ a \in Ids
      /\ store \in [Ids -> Docs(version)] /\ dirty \in [Ids -> 0..sequence]
  BY <1>1, Parts, EngineSide DEF workerVars, IInv, Types, StoreTypes, PageTypes
<1>6. Pending' /\ Pipeline' = Pipeline
  <2>1. \A m \in Methods : Awaits(op'[o], m) <=> Awaits(op[o], m)
    BY <1>1, <1>4 DEF Awaits
  <2> QED BY <1>4, <1>5, <2>1, QuietStep
<1>7. /\ Writing' /\ \A p, t \in Ops : Precedes(disk, p, t) /\ p # o => Precedes(disk', p, t)
      /\ \A p \in Ops : ~Precedes(disk, p, o)
  <2>1. OnDisk(op[o]) /\ ~OnDisk(op'[o])
    BY <1>1, <1>4 DEF OnDisk
  <2>2. Leaves(disk, disk', o)
    BY <1>1, <1>5, Completing DEF Writing
  <2> QED BY <1>4, <1>5, <2>1, <2>2, OtherOps DEF Writing, Leaves
<1>8. op'[o].pc \notin SavePoints /\ ~Keeping(op'[o])
  BY <1>4 DEF SavePoints, Keeping
<1>9. \A p \in Ops \ {o} : op'[p].pc \in SavePoints \/ op[p].pc \in SavePoints => Alike(op[p], op'[p])
  BY <1>4, OtherOps
<1>10. {"summary", "put", "export"} = SavePoints
  BY DEF SavePoints
<1>11. \A p \in Ops : Stale(a, p)' => p # o /\ Stale(a, p)
  BY <1>5, <1>8, <1>9, <1>10 DEF Stale, Alike
<1>12. (\E p \in Ops : Keeping(op'[p])) <=> \E p \in Ops \ {o} : Keeping(op[p])
  BY <1>4, <1>8, KeepingElsewhere
<1>13. (Underway' => Underway) /\ (op[o].kind # "durable" => (Underway' <=> Underway))
  BY <1>3, <1>5, <1>12 DEF Underway, ChangeIn, Change, Keeping
<1>14. \A s, t \in Ops : s # o /\ Stale(a, s) /\ op'[t].pc \in SavePoints /\ op'[s].pc \in SavePoints /\ Ahead(s, t)
                          => Ahead(s, t)'
  <2> TAKE s, t \in Ops
  <2> SUFFICES ASSUME s # o, Stale(a, s), op'[t].pc \in SavePoints, op'[s].pc \in SavePoints, Ahead(s, t)
               PROVE  Ahead(s, t)'
    OBVIOUS
  <2>1. op'[s].pc = op[s].pc /\ op'[t].pc = op[t].pc
    BY <1>8, <1>9 DEF Alike
  <2> QED BY <1>6, <1>7, <2>1 DEF Ahead
<1>15. ASSUME Decisive(a, o) /\ ok /\ store' = [store EXCEPT ![a] = op[o].xml]
      PROVE  CleanStored(a)' /\ LastWritten(a)'
  <2>1. \A s \in Ops : ~Stale(a, s)
    <3> SUFFICES ASSUME NEW s \in Ops, Stale(a, s) PROVE FALSE
      OBVIOUS
    <3>1. Ahead(s, o) /\ ~Stale(a, o)
      BY <1>3, <1>5, <1>15 DEF LastWritten
    <3> QED BY <1>1, <1>7, <3>1 DEF Ahead
  <2>2. store'[a] = engine[a]
    BY <1>1, <1>5, <1>15, <2>1 DEF Stale
  <2> QED BY <1>5, <1>11, <2>1, <2>2 DEF CleanStored, LastWritten
<1>16. ASSUME ~Decisive(a, o)
      PROVE  CleanStored(a)' /\ LastWritten(a)'
  <2>1. op[o].kind # "durable"
    BY <1>2, <1>16 DEF Decisive
  <2>2. Underway' <=> Underway
    BY <1>13, <2>1
  <2>3. ~Underway => dirty'[a] = dirty[a]
    <3>1. ~Underway => dirty[a] = 0 \/ op[o].gen # dirty[a]
      BY <1>2, <1>16 DEF Decisive
    <3> QED BY <1>5, <3>1 DEF MarkCleanIfCurrent
  <2>4. CleanStored(a)'
    <3> SUFFICES ASSUME ~Underway, dirty[a] = 0 PROVE store'[a] = engine[a] /\ \A s \in Ops : ~Stale(a, s)'
      BY <1>5, <2>2, <2>3 DEF CleanStored
    <3>1. store[a] = engine[a] /\ \A s \in Ops : ~Stale(a, s)
      BY <1>3, <1>5 DEF CleanStored
    <3>2. op[o].xml = engine[a]
      BY <1>1, <3>1 DEF Stale
    <3> QED BY <1>5, <1>11, <3>1, <3>2
  <2>5. ASSUME NEW t \in Ops, Decisive(a, t)' PROVE Decisive(a, t) /\ t # o
    BY <1>8, <1>9, <2>2, <2>3, <2>5 DEF Decisive, Alike
  <2>6. \A t \in Ops : Decisive(a, t)' => ~Stale(a, t)' /\ \A s \in Ops : Stale(a, s)' => Ahead(s, t)'
    <3> TAKE t \in Ops
    <3> SUFFICES ASSUME Decisive(a, t)' PROVE ~Stale(a, t)' /\ \A s \in Ops : Stale(a, s)' => Ahead(s, t)'
      OBVIOUS
    <3>1. Decisive(a, t)
      BY <2>5
    <3>2. ~Stale(a, t) /\ \A s \in Ops : Stale(a, s) => Ahead(s, t)
      BY <1>3, <1>5, <3>1 DEF LastWritten
    <3>3. op'[t].pc \in SavePoints
      BY DEF Decisive
    <3>4. \A s \in Ops : Stale(a, s)' => op'[s].pc \in SavePoints
      BY <1>10 DEF Stale
    <3> QED BY <1>11, <1>14, <3>2, <3>3, <3>4
  <2> QED BY <2>4, <2>6 DEF LastWritten
<1>17. ASSUME Decisive(a, o) /\ store' = store /\ op[o].kind # "durable" /\ dirty' = dirty
      PROVE  CleanStored(a)' /\ LastWritten(a)'
  <2>1. Underway' <=> Underway
    BY <1>13, <1>17
  <2>2. CleanStored(a)'
    BY <1>3, <1>5, <1>11, <1>17, <2>1 DEF CleanStored
  <2>3. ASSUME NEW t \in Ops, Decisive(a, t)' PROVE Decisive(a, t)
    BY <1>8, <1>9, <1>17, <2>1, <2>3 DEF Decisive, Alike
  <2>4. \A t \in Ops : Decisive(a, t)' => ~Stale(a, t)' /\ \A s \in Ops : Stale(a, s)' => Ahead(s, t)'
    <3> TAKE t \in Ops
    <3> SUFFICES ASSUME Decisive(a, t)' PROVE ~Stale(a, t)' /\ \A s \in Ops : Stale(a, s)' => Ahead(s, t)'
      OBVIOUS
    <3>1. Decisive(a, t)
      BY <2>3
    <3>2. ~Stale(a, t) /\ \A s \in Ops : Stale(a, s) => Ahead(s, t)
      BY <1>3, <1>5, <3>1 DEF LastWritten
    <3>3. op'[t].pc \in SavePoints
      BY DEF Decisive
    <3>4. \A s \in Ops : Stale(a, s)' => op'[s].pc \in SavePoints
      BY <1>10 DEF Stale
    <3> QED BY <1>11, <1>14, <3>2, <3>3, <3>4
  <2> QED BY <2>2, <2>4 DEF LastWritten
<1>18. CleanStored(a)' /\ LastWritten(a)'
  BY <1>15, <1>16, <1>17
<1>19. store'[a] >= 1 /\ dirty' \in {dirty, [dirty EXCEPT ![a] = 0]}
  <2>1. op[o].xml >= 1
    BY <1>1, <1>3, Parts DEF Opened
  <2> QED BY <1>5, <2>1 DEF MarkCleanIfCurrent
<1>20. Heard /\ loadedId' = a
  BY <1>3, <1>5 DEF Heard
<1>21. /\ op'[o].kind \notin Changers /\ op'[o].pc \notin LoadPoints /\ op'[o].pc \notin {"summary", "put"}
       /\ \A r : In(Posts(worker'), r) => In(Posts(worker), r) \/ (r.method = "importCharacterXml" => r.doc >= 1)
  BY <1>4, PostsKept, NoneIsNoKind DEF Changers, LoadPoints
<1> QED BY <1>3, <1>4, <1>5, <1>6, <1>7, <1>13, <1>18, <1>19, <1>20, <1>21, SavingRest

LEMMA PutDoneSafe ==
  ASSUME NEW a, Ids = {a}, Safe, IInv', NEW o \in Ops, PutDone(o)
  PROVE  Safe'
<1>1. op[o].id = a
  <2>1. op[o].pc \in SavePoints
    BY DEF PutDone, Completes, SavePoints
  <2> QED BY <2>1, SaveOf
<1>2. /\ Completes(o, "put") /\ PersistEnds(o, TRUE) /\ UNCHANGED <<worker, loadedId, sequence, undo>>
      /\ store' = [store EXCEPT ![a] = op[o].xml] /\ MarkCleanIfCurrent(a, op[o].gen)
  BY <1>1 DEF PutDone
<1> QED BY <1>2, WriteEnds

LEMMA PutFailsSafe ==
  ASSUME NEW a, Ids = {a}, Safe, IInv', NEW o \in Ops, PutFails(o), Undisturbed
  PROVE  Safe'
<1>1. /\ Completes(o, "put") /\ PersistEnds(o, FALSE) /\ UNCHANGED <<worker, loadedId, sequence, undo>>
      /\ store' = store /\ dirty' = dirty /\ op[o].kind # "durable"
  BY DEF PutFails, Undisturbed, saveVars
<1> QED BY <1>1, WriteEnds

\* Save o begins: what it asks for goes behind what the others have asked.
LEMMA NewSaveStep ==
  ASSUME NEW a, Ids = {a}, Safe, loadedId = a, NEW o \in Ops, Elsewhere(o),
         engine'[a] = engine[a], store'[a] = store[a], dirty'[a] = dirty[a], disk' = disk,
         op[o].pc \notin SavePoints, op'[o].pc = "export", Underway' <=> Underway, OrderKept(o),
         \A x : In(Pipeline, x) /\ x[1] # o => Precedes(Pipeline', x, <<o, "exportCharacterXml">>)
  PROVE  CleanStored(a)' /\ LastWritten(a)'
<1>1. CleanStored(a) /\ LastWritten(a) /\ Pending
  BY Parts
<1>2. \A p \in Ops \ {o} : op'[p].pc \in SavePoints \/ op[p].pc \in SavePoints => Alike(op[p], op'[p])
  BY OtherOps
<1>3. {"summary", "put", "export"} = SavePoints
  BY DEF SavePoints
<1>4. \A p \in Ops : Stale(a, p)' <=> p # o /\ Stale(a, p)
  BY <1>2, <1>3 DEF Stale, Alike
<1>5. \A p \in Ops \ {o} : Decisive(a, p)' <=> Decisive(a, p)
  BY <1>2, <1>3 DEF Decisive, Alike
<1>6. CleanStored(a)'
  BY <1>1, <1>4 DEF CleanStored
<1>7. ASSUME NEW t \in Ops, Decisive(a, t)', NEW s \in Ops, Stale(a, s), s # o PROVE Ahead(s, t)'
  <2>1. op[s].pc \in {"summary", "put"} /\ op'[s].pc = op[s].pc
    BY <1>2, <1>3, <1>7 DEF Stale, Alike
  <2>2. CASE t = o
    <3>1. CASE op[s].pc = "put"
      BY <2>1, <2>2, <3>1 DEF Ahead
    <3>2. CASE op[s].pc = "summary"
      <4>1. In(Pipeline, <<s, "getCharacter">>) /\ <<s, "getCharacter">>[1] # o
        BY <1>1, <1>7, <3>2 DEF Pending, Awaits, Methods
      <4>2. Precedes(Pipeline', <<s, "getCharacter">>, <<o, "exportCharacterXml">>)
        BY <4>1
      <4> QED BY <2>2, <4>2 DEF Ahead
    <3> QED BY <2>1, <3>1, <3>2
  <2>3. CASE t # o
    <3>1. Ahead(s, t) /\ op'[t].pc \in SavePoints
      BY <1>1, <1>5, <1>7, <2>3 DEF LastWritten, Decisive
    <3>2. op'[t].pc = op[t].pc
      BY <1>2, <2>3, <3>1 DEF Alike
    <3>3. \A y : Precedes(Pipeline, <<s, "getCharacter">>, y) => Precedes(Pipeline', <<s, "getCharacter">>, y)
      BY <1>7 DEF OrderKept, Methods
    <3> QED BY <2>1, <3>1, <3>2, <3>3 DEF Ahead
  <2> QED BY <2>2, <2>3
<1>8. \A t \in Ops : Decisive(a, t)' => ~Stale(a, t)'
  BY <1>1, <1>4, <1>5 DEF LastWritten
<1>9. LastWritten(a)'
  BY <1>4, <1>7, <1>8 DEF LastWritten
<1> QED BY <1>6, <1>9

\* A save that was scheduled, asked for or flushed begins.
LEMMA SaveBeginsSafe ==
  ASSUME NEW a, Ids = {a}, Safe, IInv', loadedId = a, NEW o \in Ops, NEW q, op' = [op EXCEPT ![o] = q],
         op[o].pc \in {"free", "wait"}, q.pc = "export", q.kind \in {"save", "flush", "timer"}, q.id = a,
         q.gen = dirty[a], q.before # Blank,
         worker' = Sent(worker, [op |-> o, method |-> "exportCharacterXml", id |-> a, doc |-> NoDoc]),
         UNCHANGED <<workerVars, store, disk, loadedId, dirty, sequence, undo>>
  PROVE  Safe'
<1> DEFINE r == [op |-> o, method |-> "exportCharacterXml", id |-> a, doc |-> NoDoc]
<1>1. /\ IInv /\ Pending /\ Writing /\ a \in Ids /\ store[a] >= 1 /\ loadedId' = a
      /\ inbox' = inbox /\ engine' = engine /\ latest' = latest /\ dirty' = dirty /\ dirty[a] <= sequence
      /\ worker' = Sent(worker, r)
  <2>1. /\ IInv /\ Pending /\ Writing /\ a \in Ids /\ store[a] >= 1 /\ loadedId' = a
        /\ inbox' = inbox /\ engine' = engine /\ latest' = latest /\ dirty' = dirty
    BY Parts DEF workerVars
  <2>2. dirty[a] <= sequence
    BY <2>1 DEF IInv, Types, PageTypes
  <2> QED BY <2>1, <2>2
<1>2. r \in Requests(version) /\ r.op = o /\ r.method = "exportCharacterXml" /\ r.method \in Reads
  <2>1. "exportCharacterXml" \in Methods
    BY DEF Methods
  <2> QED BY <1>1, <2>1, Versions, Requested DEF Reads
<1> HIDE DEF r
<1>3. Elsewhere(o) /\ op'[o] = q
  BY <1>1, Alone
<1>4. /\ ~Awaits(op[o], r.method)
      /\ \A m \in Methods : Awaits(op'[o], m) <=> Awaits(op[o], m) \/ m = r.method
  BY <1>2, <1>3 DEF Awaits
<1>5. /\ Pending' /\ Joins(Pipeline, Pipeline', <<o, r.method>>)
      /\ \A x : In(Pipeline, x) => Precedes(Pipeline', x, <<o, r.method>>)
      /\ \A x : In(Posts(worker'), x) <=> In(Posts(worker), x) \/ x = r
  BY <1>1, <1>2, <1>3, <1>4, AskStep
<1>6. OrderKept(o)
  BY <1>5, OrderAsked
<1>7. Writing'
  <2>1. \A p \in Ops : OnDisk(op'[p]) <=> OnDisk(op[p])
    BY <1>3, OtherOps DEF OnDisk
  <2> QED BY <1>1, <2>1 DEF Writing
<1>8. Underway' <=> Underway
  <2>1. GoesOn(o)
    BY <1>1, <1>3 DEF GoesOn, Keeping, SavePoints
  <2> QED BY <1>1, <1>3, <2>1, StillUnderway
<1>9. CleanStored(a)' /\ LastWritten(a)'
  <2>1. op[o].pc \notin SavePoints /\ op'[o].pc = "export"
    BY <1>3 DEF SavePoints
  <2>2. engine'[a] = engine[a] /\ store'[a] = store[a] /\ dirty'[a] = dirty[a] /\ disk' = disk
    BY <1>1
  <2>3. \A x : In(Pipeline, x) /\ x[1] # o => Precedes(Pipeline', x, <<o, "exportCharacterXml">>)
    BY <1>2, <1>5
  <2> QED BY <1>3, <1>6, <1>8, <2>1, <2>2, <2>3, NewSaveStep
<1>10. Heard
  BY <1>1 DEF Heard
<1>11. /\ OnItsWay(op'[o]) /\ op'[o].gen <= sequence /\ op'[o].kind \notin Changers
       /\ op'[o].pc \notin LoadPoints /\ op'[o].before # Blank /\ op'[o].pc \notin {"summary", "put"}
  BY <1>1, <1>3, NoneIsNoKind DEF OnItsWay, LoadPoints, SavePoints, Changers
<1>12. \A x : In(Posts(worker'), x) => In(Posts(worker), x) \/ (x.method = "importCharacterXml" => x.doc >= 1)
  BY <1>2, <1>5
<1>13. store'[a] >= 1 /\ sequence' = sequence /\ undo' = undo
  BY <1>1
<1> QED BY <1>1, <1>3, <1>5, <1>7, <1>8, <1>9, <1>10, <1>11, <1>12, <1>13, SavingRest

\* Operation o, as p, begins persist.
LEMMA PersistingFacts ==
  ASSUME NEW p \in Operations(version), NEW bare
  PROVE  LET q == Persisting(p, bare)
         IN  q.pc = "export" /\ q.kind = p.kind /\ q.id = p.id /\ q.gen = dirty[p.id] /\ q.before = p.before
BY DEF Persisting, Operations

LEMMA TimerSafe ==
  ASSUME NEW a, Ids = {a}, Safe, IInv', NEW o \in Ops, NEW id \in Ids, TimerFires(o, id)
  PROVE  Safe'
<1>1. id = a /\ timers[a] # "off" /\ op[o] = Free
      /\ op' = [op EXCEPT ![o] = Persisting([Free EXCEPT !.kind = "timer", !.id = id], timers[id] = "bare")]
      /\ worker' = Sent(worker, [op |-> o, method |-> "exportCharacterXml", id |-> a, doc |-> NoDoc])
      /\ UNCHANGED <<workerVars, store, disk, loadedId, dirty, sequence, undo>>
  BY DEF TimerFires, Post
<1>2. loadedId = a
  BY <1>1, Parts DEF Unopened
<1>3. PICK q : /\ op' = [op EXCEPT ![o] = q] /\ q.pc = "export" /\ q.kind = "timer" /\ q.id = a /\ q.gen = dirty[a]
               /\ q.before = NoDoc
  <2>1. PICK p : p = [Free EXCEPT !.kind = "timer", !.id = id]
    OBVIOUS
  <2>2. PICK q : q = [p EXCEPT !.pc = "export", !.gen = dirty[p.id], !.bare = (timers[id] = "bare")]
    OBVIOUS
  <2>3. q.pc = "export" /\ q.kind = "timer" /\ q.id = a /\ q.gen = dirty[a] /\ q.before = NoDoc
    BY <1>1, <2>1, <2>2 DEF Free
  <2>4. op' = [op EXCEPT ![o] = q]
    BY <1>1, <2>1, <2>2 DEF Persisting
  <2> QED BY <2>3, <2>4
<1>4. op[o].pc \in {"free", "wait"} /\ q.kind \in {"save", "flush", "timer"} /\ q.before # Blank
  BY <1>1, <1>3 DEF Free, Blank, NoDoc
<1>5. /\ worker' = Sent(worker, [op |-> o, method |-> "exportCharacterXml", id |-> a, doc |-> NoDoc])
      /\ UNCHANGED <<workerVars, store, disk, loadedId, dirty, sequence, undo>>
  BY <1>1
<1> QED BY <1>2, <1>3, <1>4, <1>5, SaveBeginsSafe

LEMMA ResumeSaveSafe ==
  ASSUME NEW a, Ids = {a}, Safe, IInv', NEW o \in Ops, ResumeSave(o)
  PROVE  Safe'
<1>1. /\ op[o].pc = "wait" /\ op[o].kind = "save" /\ op' = [op EXCEPT ![o] = Persisting(@, TRUE)]
      /\ worker' = Sent(worker, Request(o, "exportCharacterXml", NoDoc))
      /\ UNCHANGED <<workerVars, store, disk, loadedId, dirty, sequence, undo>>
  BY DEF ResumeSave, Post, Resumable, saveVars
<1>2. loadedId = a
  BY <1>1, Parts, NoneIsNoKind DEF Unopened, Loads
<1>3. OnItsWay(op[o]) /\ op[o] \in Operations(version) /\ op[o].before # Blank
  BY <1>2, Parts DEF Ways, Opened
<1>4. op[o].id = a
  BY <1>1, <1>3, NoneIsNoKind DEF OnItsWay
<1>5. PICK q : /\ op' = [op EXCEPT ![o] = q] /\ q.pc = "export" /\ q.kind = "save" /\ q.id = a /\ q.gen = dirty[a]
               /\ q.before = op[o].before
  <2>1. PICK q : q = Persisting(op[o], TRUE)
    OBVIOUS
  <2>2. q.pc = "export" /\ q.kind = "save" /\ q.id = a /\ q.gen = dirty[a] /\ q.before = op[o].before
    BY <1>1, <1>3, <1>4, <2>1, PersistingFacts
  <2>3. op' = [op EXCEPT ![o] = q]
    BY <1>1, <2>1, Parts
  <2> QED BY <2>2, <2>3
<1>6. /\ worker' = Sent(worker, [op |-> o, method |-> "exportCharacterXml", id |-> a, doc |-> NoDoc])
      /\ op[o].pc \in {"free", "wait"} /\ q.kind \in {"save", "flush", "timer"} /\ q.before # Blank
  BY <1>1, <1>3, <1>4, <1>5 DEF Request
<1>7. UNCHANGED <<workerVars, store, disk, loadedId, dirty, sequence, undo>>
  BY <1>1
<1> QED BY <1>2, <1>5, <1>6, <1>7, SaveBeginsSafe

LEMMA ResumeFlushSafe ==
  ASSUME NEW a, Ids = {a}, Safe, IInv', NEW o \in Ops, ResumeFlush(o)
  PROVE  Safe'
<1>1. Resumable(o) /\ op[o].kind \in {"flush", "reload"}
      /\ UNCHANGED <<workerVars, store, disk, loadedId, loading, saveVars, undo>>
  BY DEF ResumeFlush
<1>2. op[o].pc = "wait" /\ op[o].kind = "flush" /\ op[o] \in Operations(version)
  <2>1. op[o].pc = "wait" /\ OnItsWay(op[o])
    BY <1>1, Parts DEF Resumable, Ways
  <2> QED BY <1>1, <2>1, Parts DEF OnItsWay
<1>3. CASE op[o].ids = {}
  <2>1. op' = [op EXCEPT ![o] = Free] /\ worker' = worker
    BY <1>2, <1>3 DEF ResumeFlush
  <2>2. UNCHANGED <<workerVars, worker, store, disk, loadedId, loading, saveVars, undo>>
    BY <1>1, <2>1
  <2> QED BY <1>1, <2>1, <2>2, FlushedSafe
<1>4. CASE op[o].ids # {}
  <2>1. loadedId = a
    BY <1>2, <1>4, Parts DEF Unopened
  <2>2. PICK id \in op[o].ids :
          /\ op' = [op EXCEPT ![o] = Persisting([@ EXCEPT !.id = id, !.ids = op[o].ids \ {id}], TRUE)]
          /\ worker' = Sent(worker, [op |-> o, method |-> "exportCharacterXml", id |-> id, doc |-> NoDoc])
    BY <1>4 DEF ResumeFlush, Post
  <2>3. id = a
    BY <1>2 DEF Operations
  <2>4. op[o].before # Blank
    BY <2>1, Parts DEF Opened
  <2>5. PICK q : /\ op' = [op EXCEPT ![o] = q] /\ q.pc = "export" /\ q.kind = "flush" /\ q.id = a /\ q.gen = dirty[a]
                 /\ q.before = op[o].before
    <3>1. PICK p : p = [op[o] EXCEPT !.id = id, !.ids = op[o].ids \ {id}]
      OBVIOUS
    <3>2. PICK q : q = Persisting(p, TRUE)
      OBVIOUS
    <3>3. p \in Operations(version) /\ p.kind = "flush" /\ p.id = a /\ p.before = op[o].before
      BY <1>2, <2>3, <3>1, Parts DEF Operations, Unnamed
    <3>4. q.pc = "export" /\ q.kind = "flush" /\ q.id = a /\ q.gen = dirty[a] /\ q.before = op[o].before
      BY <3>2, <3>3, PersistingFacts
    <3>5. op' = [op EXCEPT ![o] = q]
      BY <2>2, <3>1, <3>2, Parts
    <3> QED BY <3>4, <3>5
  <2>6. /\ op[o].pc \in {"free", "wait"} /\ q.kind \in {"save", "flush", "timer"} /\ q.before # Blank
        /\ worker' = Sent(worker, [op |-> o, method |-> "exportCharacterXml", id |-> a, doc |-> NoDoc])
        /\ UNCHANGED <<workerVars, store, disk, loadedId, dirty, sequence, undo>>
    BY <1>1, <1>2, <2>2, <2>3, <2>4, <2>5 DEF saveVars
  <2> QED BY <2>1, <2>5, <2>6, SaveBeginsSafe
<1> QED BY <1>3, <1>4

----------------------------------------------------------------------------
\* The loaded character: an edit or an undo comes to its bookkeeping.

\* A durable edit's save begins with its answer.
LEMMA DurableSafe ==
  ASSUME NEW a, Ids = {a}, Safe, IInv', NEW o \in Ops, DurablyMutated(o), Answered.ok
  PROVE  Safe'
<1> DEFINE r == Request(o, "exportCharacterXml", NoDoc)
<1>1. /\ Answer(o, "mutation", "mutate") /\ op[o].kind = "durable" /\ loadedId' = op[o].id
      /\ worker' = Sent(worker, r) /\ UNCHANGED <<disk, saveVars, undo>>
  BY DEF DurablyMutated, Post
<1>2. PICK bare \in Bare : op' = [op EXCEPT ![o] = Persisting(@, bare)]
  BY DEF DurablyMutated
<1>3. "mutation" \in Methods /\ "exportCharacterXml" \in Methods /\ "exportCharacterXml" \in Reads
      /\ "mutate" \in Points \ (LoadPoints \cup {"free", "wait"})
  BY DEF Methods, Reads, Points, LoadPoints
<1>4. /\ inbox # <<>> /\ inbox' = Tail(inbox) /\ Head(inbox).op = o /\ Head(inbox).method = "mutation"
      /\ engine' = engine /\ latest' = latest /\ store' = store /\ Head(inbox) = Answered /\ op[o].pc = "mutate"
  BY ONLY <1>1, <1>3, Ids = {a}, Safe, o \in Ops, Heading
<1>5. loadedId = a
  BY <1>3, <1>4, WhenLoaded
<1>6. /\ OnItsWay(op[o]) /\ op[o] \in Operations(version) /\ op[o].before # Blank /\ a \in Ids
      /\ dirty[a] <= sequence /\ IInv /\ Pending /\ Writing /\ Ways /\ store[a] >= 1
  <2>1. dirty[a] <= sequence
    <3>1. dirty \in [Ids -> 0..sequence] /\ a \in Ids /\ sequence \in Nat
      BY Parts DEF IInv, Types, PageTypes
    <3> QED BY <3>1
  <2> QED BY <1>5, <2>1, Parts DEF Ways, Opened
<1>7. op[o].id = a
  BY <1>1, <1>6, NoneIsNoKind DEF OnItsWay
<1>8. r \in Requests(version) /\ r.op = o /\ r.method = "exportCharacterXml"
  BY <1>3, <1>6, <1>7, Versions, Requested DEF Request
<1> HIDE DEF r
<1>9. PICK q : /\ op' = [op EXCEPT ![o] = q] /\ q.pc = "export" /\ q.kind = "durable" /\ q.id = a
               /\ q.gen = dirty[a] /\ q.before = op[o].before
  <2>1. PICK q : q = Persisting(op[o], bare)
    OBVIOUS
  <2>2. q.pc = "export" /\ q.kind = "durable" /\ q.id = a /\ q.gen = dirty[a] /\ q.before = op[o].before
    BY <1>1, <1>6, <1>7, <2>1, PersistingFacts
  <2>3. op' = [op EXCEPT ![o] = q]
    BY <1>2, <2>1, Parts
  <2> QED BY <2>2, <2>3
<1>10. Elsewhere(o) /\ op'[o] = q
  BY <1>6, <1>9, Alone
<1>11. /\ ~Awaits(op[o], r.method)
       /\ \A k \in Methods : Awaits(op'[o], k) <=> (Awaits(op[o], k) /\ k # "mutation") \/ k = r.method
  BY <1>1, <1>4, <1>8, <1>9, <1>10 DEF Awaits
<1>12. /\ Pending'
       /\ \A x, y : Precedes(Pipeline, x, y) /\ x # <<o, "mutation">> => Precedes(Pipeline', x, y)
       /\ \A x : In(Pipeline, x) /\ x # <<o, "mutation">> => Precedes(Pipeline', x, <<o, r.method>>)
       /\ \A x : In(Posts(worker'), x) <=> In(Posts(worker), x) \/ x = r
  <2>1. /\ IInv /\ Pending /\ inbox # <<>> /\ inbox' = Tail(inbox) /\ worker' = Sent(worker, r)
        /\ Head(inbox).op = o /\ Head(inbox).method = "mutation" /\ "mutation" \in Methods
        /\ r.op = o /\ Elsewhere(o) /\ r \in Requests(version)
    BY <1>1, <1>3, <1>4, <1>6, <1>8, <1>10
  <2>2. r.method \in Reads
    BY <1>3, <1>8
  <2>3. /\ Pending'
        /\ \A x, y : Precedes(Pipeline, x, y) /\ x # <<o, "mutation">> => Precedes(Pipeline', x, y)
        /\ r.method \in Reads =>
             \A x : In(Pipeline, x) /\ x # <<o, "mutation">> => Precedes(Pipeline', x, <<o, r.method>>)
        /\ \A x : In(Posts(worker'), x) <=> In(Posts(worker), x) \/ x = r
    BY ONLY <1>11, <2>1, o \in Ops, HandleAskStep
  <2> QED BY <2>2, <2>3
<1>13. OrderKept(o)
  BY <1>12 DEF OrderKept
<1>14. Writing'
  <2>1. \A p \in Ops : OnDisk(op'[p]) <=> OnDisk(op[p])
    BY <1>4, <1>9, <1>10, OtherOps DEF OnDisk
  <2> QED BY <1>1, <1>6, <2>1 DEF Writing
<1>15. Underway' <=> Underway
  <2>1. Keeping(op'[o])
    BY <1>9, <1>10 DEF Keeping, SavePoints
  <2>2. Change(Head(inbox))
    BY <1>4 DEF Change
  <2>3. GoesOn(o)
    BY <1>4, <2>1, <2>2 DEF GoesOn
  <2> QED BY <1>6, <1>10, <2>3, StillUnderway
<1>16. CleanStored(a)' /\ LastWritten(a)'
  <2>1. op[o].pc \notin SavePoints /\ op'[o].pc = "export"
    BY <1>4, <1>9, <1>10 DEF SavePoints
  <2>2. engine'[a] = engine[a] /\ store'[a] = store[a] /\ dirty'[a] = dirty[a] /\ disk' = disk
    BY <1>1, <1>4 DEF saveVars
  <2>3. \A x : In(Pipeline, x) /\ x[1] # o => Precedes(Pipeline', x, <<o, "exportCharacterXml">>)
    BY <1>8, <1>12
  <2> QED BY <1>5, <1>10, <1>13, <1>15, <2>1, <2>2, <2>3, NewSaveStep
<1>17. Heard
  BY <1>4 DEF Heard
<1>18. /\ OnItsWay(op'[o]) /\ op'[o].gen <= sequence /\ op[o].kind \in Changers
       /\ op'[o].pc \notin LoadPoints /\ op'[o].before # Blank /\ op'[o].pc \notin {"summary", "put"}
  BY <1>1, <1>6, <1>9, <1>10, NoneIsNoKind DEF OnItsWay, LoadPoints, SavePoints, Changers
<1>19. \A x : In(Posts(worker'), x) => In(Posts(worker), x) \/ (x.method = "importCharacterXml" => x.doc >= 1)
  BY <1>8, <1>12
<1>20. /\ loadedId' = a /\ sequence' = sequence /\ dirty' = dirty /\ undo' = undo /\ store'[a] >= 1
  BY <1>1, <1>4, <1>6, <1>7 DEF saveVars
<1> QED BY <1>4, <1>5, <1>10, <1>12, <1>14, <1>15, <1>16, <1>17, <1>18, <1>19, <1>20, SavingRest

\* The edit or the undo ends and is marked, with a generation no save has.
LEMMA MarkSafe ==
  ASSUME NEW a, Ids = {a}, Safe, IInv', loadedId = a, loadedId' = a, NEW o \in Ops, NEW m \in Methods, NEW pc,
         Answer(o, m, pc), pc \in {"mutateOnly", "before", "restored"}, op[o].kind \in Changers,
         Keeping(op[o]) \/ Change(Head(inbox)), op' = [op EXCEPT ![o] = Free],
         worker' = worker, disk' = disk, NEW bare, Schedule(a, bare),
         \A k \in DOMAIN undo'[a] : undo'[a][k].xml >= 1
  PROVE  Safe'
<1>1. /\ inbox # <<>> /\ inbox' = Tail(inbox) /\ Head(inbox).op = o /\ Head(inbox).method = m
      /\ engine' = engine /\ latest' = latest /\ store' = store /\ op[o].pc = pc /\ Awaits(op[o], m)
  BY ONLY Answer(o, m, pc), m \in Methods, Ids = {a}, Safe, o \in Ops, Heading
<1>2. /\ IInv /\ Pending /\ Writing /\ Ways /\ Opened(a) /\ InOrder(a) /\ sequence \in Nat /\ store[a] >= 1
      /\ dirty \in [Ids -> 0..sequence] /\ a \in Ids
  BY Parts DEF IInv, Types, PageTypes
<1>3. Elsewhere(o) /\ op'[o] = Free
  BY <1>2, Alone
<1>4. /\ op'[o].kind = None /\ op'[o].pc = "free" /\ op'[o].gen = 0 /\ op'[o].before = NoDoc
  BY <1>3 DEF Free
<1>5. \A k \in Methods : Awaits(op'[o], k) <=> Awaits(op[o], k) /\ k # m
  BY <1>1, <1>4 DEF Awaits
<1>6. Pending'
  BY <1>1, <1>2, <1>3, <1>5, HandleStep
<1>7. Writing'
  <2>1. \A p \in Ops : OnDisk(op'[p]) <=> OnDisk(op[p])
    BY <1>1, <1>3, <1>4, OtherOps DEF OnDisk
  <2> QED BY <1>2, <2>1 DEF Writing
<1>8. Underway
  <2>1. 1 \in DOMAIN inbox /\ Head(inbox) = inbox[1]
    BY <1>1, <1>2, Rest
  <2> QED BY <2>1 DEF Underway, ChangeIn
<1>9. sequence' = sequence + 1 /\ dirty'[a] = sequence + 1
  BY <1>2 DEF Schedule
<1>10. Ways'
  <2>1. OnItsWay(op'[o]) /\ op'[o].gen <= sequence' /\ op'[o].kind \notin Changers
    BY <1>2, <1>4, <1>9, NoneIsNoKind DEF OnItsWay, Changers
  <2>2. sequence' \in Nat /\ sequence' >= sequence
    BY <1>2, <1>9
  <2> QED BY <1>2, <1>3, <2>1, <2>2, WaysStep
<1>11. Opened(a)'
  <2>1. Heard /\ op'[o].pc \notin LoadPoints /\ op'[o].before # Blank /\ op'[o].pc \notin {"summary", "put"}
    BY <1>1, <1>4 DEF Heard, LoadPoints, NoDoc, Blank
  <2>2. \A r : In(Posts(worker'), r) => In(Posts(worker), r) \/ (r.method = "importCharacterXml" => r.doc >= 1)
    BY PostsKept
  <2> QED BY <1>1, <1>2, <1>3, <1>8, <2>1, <2>2, OpenedStep
<1>12. InOrder(a)'
  <2>1. Heard
    BY <1>1 DEF Heard
  <2> QED BY <1>1, <1>2, <2>1, InOrderStep
<1>13. \A t \in Ops : ~Decisive(a, t)'
  <2> SUFFICES ASSUME NEW t \in Ops, Decisive(a, t)' PROVE FALSE
    OBVIOUS
  <2>1. op'[t].pc \in SavePoints /\ (op'[t].kind = "durable" \/ op'[t].gen = dirty'[a])
    BY DEF Decisive
  <2>2. t # o
    BY <1>4, <2>1 DEF SavePoints
  <2>3. Alike(op[t], op'[t])
    BY <1>3, <2>1, <2>2, OtherOps
  <2>4. op[t].kind # "durable"
    BY <1>2, <2>2 DEF Ways, Changers
  <2>5. op[t].gen <= sequence /\ op[t].gen \in Nat
    BY <1>2, Parts DEF Ways, Operations
  <2> QED BY <1>2, <1>9, <2>1, <2>3, <2>4, <2>5 DEF Alike
<1>14. CleanStored(a)' /\ LastWritten(a)'
  BY <1>2, <1>9, <1>13 DEF CleanStored, LastWritten
<1>15. store'[a] >= 1
  BY <1>1, <1>2
<1> QED BY <1>6, <1>7, <1>10, <1>11, <1>12, <1>14, <1>15, LoadedStep

LEMMA UndoneSafe ==
  ASSUME NEW a, Ids = {a}, Safe, IInv', NEW o \in Ops, Undone(o)
  PROVE  Safe'
<1>1. /\ Answer(o, "getCharacter", "restored") /\ op' = [op EXCEPT ![o] = Free]
      /\ UNCHANGED <<worker, disk, loadedId, undo>>
  BY DEF Undone
<1>2. "getCharacter" \in Methods /\ "getCharacter" \in Reads /\ "restored" \in Points \ (LoadPoints \cup {"free", "wait"})
  BY DEF Methods, Reads, Points, LoadPoints
<1>3. op[o].pc = "restored" /\ Head(inbox) = Answered
  BY ONLY <1>1, <1>2, Ids = {a}, Safe, o \in Ops, Heading
<1>4. loadedId = a /\ loadedId' = a
  BY <1>1, <1>2, <1>3, WhenLoaded
<1>5. Answered.ok
  BY <1>1, <1>2, <1>3, <1>4, Heading
<1>6. op[o].kind = "undo" /\ op[o].id = a
  <2>1. OnItsWay(op[o])
    BY Parts DEF Ways
  <2> QED BY <1>3, <2>1, NoneIsNoKind DEF OnItsWay, SavePoints, LoadPoints
<1>7. Schedule(a, FALSE) /\ op[o].kind \in Changers /\ Keeping(op[o])
  BY <1>3, <1>5, <1>6 DEF Undone, Changers, Keeping
<1>8. \A k \in DOMAIN undo'[a] : undo'[a][k].xml >= 1
  BY <1>1, <1>4, UndoWhole
<1>9. worker' = worker /\ disk' = disk /\ "restored" \in {"mutateOnly", "before", "restored"}
  BY <1>1
<1> QED BY <1>1, <1>2, <1>4, <1>7, <1>8, <1>9, MarkSafe

\* What is put on an undo stack is whole.
LEMMA EditedUndo ==
  ASSUME NEW a, Ids = {a}, Safe, IInv', loadedId = a, NEW o \in Ops, op[o].id = a,
         NEW before \in Docs(version), before # Blank, NEW was, Edited(o, before, was)
  PROVE  \A k \in DOMAIN undo'[a] : undo'[a][k].xml >= 1
<1>1. CASE before = NoDoc
  BY <1>1, UndoWhole DEF Edited
<1>2. CASE before # NoDoc
  <2> DEFINE e == [xml |-> before, was |-> was]
  <2>1. before >= 1
    BY <1>2, Parts DEF Docs, NoDoc, Blank
  <2>2. undo \in [Ids -> Seq(Entries(version))] /\ a \in Ids
    BY Parts DEF IInv, Types, PageTypes
  <2>3. PICK T : T = Entries(version)
    OBVIOUS
  <2>4. PICK s \in Seq(T) : s = undo[a]
    BY <2>2, <2>3
  <2>5. undo'[a] = IF Len(Append(s, e)) > UndoLimit THEN Tail(Append(s, e)) ELSE Append(s, e)
    BY <1>2, <2>2, <2>4 DEF Edited, PushUndo
  <2>6. \A k \in DOMAIN s : s[k].xml >= 1
    BY <2>4, UndoWhole
  <2>7. e.xml = before
    OBVIOUS
  <2> HIDE DEF e
  <2>8. PICK u : u = Append(s, e)
    OBVIOUS
  <2>9. u \in Seq(T \cup {e}) /\ u # <<>> /\ \A k \in DOMAIN u : u[k].xml >= 1
    BY <2>1, <2>6, <2>7, <2>8
  <2>10. \A k \in DOMAIN Tail(u) : k + 1 \in DOMAIN u /\ Tail(u)[k] = u[k + 1]
    BY <2>9
  <2>11. \A k \in DOMAIN Tail(u) : Tail(u)[k].xml >= 1
    BY <2>9, <2>10
  <2> QED BY <2>5, <2>8, <2>9, <2>11
<1> QED BY <1>1, <1>2

LEMMA MutatedLastSafe ==
  ASSUME NEW a, Ids = {a}, Safe, IInv', NEW o \in Ops, Mutated(o, "mutateOnly"), Answered.ok
  PROVE  Safe'
<1>1. /\ Answer(o, "mutation", "mutateOnly") /\ op[o].kind = "mutate" /\ loadedId' = op[o].id
      /\ Edited(o, op[o].before, Answered.was) /\ UNCHANGED <<worker, disk>>
  BY DEF Mutated
<1>2. "mutation" \in Methods /\ "mutateOnly" \in Points \ (LoadPoints \cup {"free", "wait"})
  BY DEF Methods, Points, LoadPoints
<1>3. op[o].pc = "mutateOnly" /\ Head(inbox) = Answered /\ Head(inbox).method = "mutation"
      /\ op[o] \in Operations(version)
  BY ONLY <1>1, <1>2, Ids = {a}, Safe, o \in Ops, Heading
<1>4. loadedId = a
  BY <1>2, <1>3, WhenLoaded
<1>5. op[o].id = a /\ op[o].before # Blank /\ op[o].before \in Docs(version)
  <2>1. OnItsWay(op[o]) /\ op[o].before # Blank
    BY <1>4, Parts DEF Ways, Opened
  <2> QED BY <1>1, <1>3, <2>1, NoneIsNoKind DEF OnItsWay, Operations
<1>6. PICK bare \in Bare : Schedule(a, bare)
  BY <1>1, <1>5 DEF Edited
<1>7. op' = [op EXCEPT ![o] = Free] /\ op[o].kind \in Changers /\ Change(Head(inbox)) /\ loadedId' = a
      /\ worker' = worker /\ disk' = disk
  BY <1>1, <1>3, <1>5 DEF Edited, Changers, Change
<1>8. \A k \in DOMAIN undo'[a] : undo'[a][k].xml >= 1
  BY <1>1, <1>4, <1>5, EditedUndo
<1> QED BY <1>1, <1>2, <1>4, <1>6, <1>7, <1>8, MarkSafe

LEMMA BeforeLastSafe ==
  ASSUME NEW a, Ids = {a}, Safe, IInv', NEW o \in Ops, BeforeArrives(o), op[o].pc = "before"
  PROVE  Safe'
<1>1. /\ Answer(o, "exportCharacterXml", "before") /\ UNCHANGED <<worker, disk, loadedId>>
      /\ Edited(o, IF Answered.ok THEN Answered.doc ELSE NoDoc, op[o].was)
  BY DEF BeforeArrives, Answer
<1>2. "exportCharacterXml" \in Methods /\ "exportCharacterXml" \in Reads
      /\ "before" \in Points \ (LoadPoints \cup {"free", "wait"})
  BY DEF Methods, Reads, Points, LoadPoints
<1>3. Head(inbox) = Answered /\ op[o] \in Operations(version) /\ Head(inbox) \in Responses(version)
  BY ONLY <1>1, <1>2, Ids = {a}, Safe, o \in Ops, Heading
<1>4. loadedId = a /\ loadedId' = a
  BY <1>1, <1>2, WhenLoaded
<1>5. Answered.ok /\ Answered.doc >= 1 /\ Answered.doc \in Docs(version)
  BY <1>1, <1>2, <1>3, <1>4, Heading DEF Responses
<1>6. op[o].id = a /\ op[o].kind = "mutate"
  <2>1. OnItsWay(op[o])
    BY Parts DEF Ways
  <2> QED BY <2>1, NoneIsNoKind DEF OnItsWay, SavePoints, LoadPoints
<1>7. Edited(o, Answered.doc, op[o].was) /\ Answered.doc # Blank
  BY <1>1, <1>5 DEF Blank
<1>8. PICK bare \in Bare : Schedule(a, bare)
  BY <1>6, <1>7 DEF Edited
<1>9. op' = [op EXCEPT ![o] = Free] /\ op[o].kind \in Changers /\ Keeping(op[o])
      /\ worker' = worker /\ disk' = disk /\ "before" \in {"mutateOnly", "before", "restored"}
  BY <1>1, <1>6, <1>7 DEF Edited, Changers, Keeping
<1>10. \A k \in DOMAIN undo'[a] : undo'[a][k].xml >= 1
  BY <1>4, <1>5, <1>6, <1>7, EditedUndo
<1> QED BY <1>1, <1>2, <1>4, <1>8, <1>9, <1>10, MarkSafe

----------------------------------------------------------------------------
\* The worker serves a request.

LEMMA AppendedFacts ==
  ASSUME NEW T, NEW s \in Seq(T), NEW e
  PROVE  \E n \in DOMAIN Append(s, e) :
           /\ Append(s, e)[n] = e
           /\ \A k \in DOMAIN s : k \in DOMAIN Append(s, e) /\ Append(s, e)[k] = s[k] /\ k < n
           /\ \A k \in DOMAIN Append(s, e) : k = n \/ k \in DOMAIN s
<1>1. PICK n : n = Len(s) + 1
  OBVIOUS
<1>2. /\ n \in Nat /\ DOMAIN s = 1..(n - 1) /\ DOMAIN Append(s, e) = 1..n /\ Append(s, e)[n] = e
      /\ \A k \in 1..(n - 1) : Append(s, e)[k] = s[k]
  BY <1>1
<1> QED BY <1>1, <1>2

\* The request is of the character, and an operation awaits it.
LEMMA WorkParts ==
  ASSUME NEW a, Ids = {a}, Safe, Work
  PROVE  /\ worker.active \in Requests(version) /\ worker.active.op \in Ops /\ worker.active.id = a
         /\ In(Posts(worker), worker.active) /\ In(Pipeline, <<worker.active.op, worker.active.method>>)
         /\ worker.active.method \in Methods
         /\ Awaits(op[worker.active.op], worker.active.method)
         /\ Serve(worker.active) /\ ~ServeDelete(worker.active) /\ ~ServeContent(worker.active)
<1>1. /\ version \in Nat /\ WorkerType(worker, version) /\ inbox \in Seq(Responses(version)) /\ Pending
      /\ worker.active # None /\ Serve(worker.active)
  BY Parts, EngineSide DEF Work
<1>2. worker.active \in Requests(version)
  BY <1>1 DEF WorkerType
<1>3. In(Posts(worker), worker.active)
  <2>1. Posts(worker) \in Seq(Requests(version)) /\ Len(Posts(worker)) = Len(worker.line) + 1
        /\ Posts(worker)[1] = worker.active /\ Len(worker.line) \in Nat
    BY <1>1, PostsType DEF WorkerType
  <2>2. 1 \in DOMAIN Posts(worker)
    BY <2>1
  <2> QED BY <2>1, <2>2 DEF In
<1>4. worker.active.op \in Ops /\ worker.active.method \in Methods
  BY <1>2 DEF Requests
<1>5. In(Pipeline, <<worker.active.op, worker.active.method>>)
  BY <1>1, <1>3, Members DEF Pipeline, Tag
<1>6. Awaits(op[worker.active.op], worker.active.method)
  BY <1>1, <1>4, <1>5 DEF Pending
<1>7. worker.active.method \notin {"deleteCharacter", "ingestUploaded"}
  BY <1>6 DEF Awaits
<1>8. worker.active.id = a
  BY <1>2, <1>7 DEF Requests
<1> QED BY <1>1, <1>2, <1>3, <1>4, <1>5, <1>6, <1>7, <1>8 DEF ServeDelete, ServeContent

\* Its answer goes behind the others.
LEMMA AnswerStep ==
  ASSUME NEW a, Ids = {a}, Safe, Work, version' \in {version, version + 1},
         NEW d \in Docs(version'), NEW ok \in BOOLEAN, Becomes(worker.active, d, ok)
  PROVE  /\ Pending' /\ Writing' /\ Pipeline' = Pipeline /\ \A r : In(Posts(worker'), r) => In(Posts(worker), r)
         /\ engine'[a] = d
         /\ \E n \in DOMAIN inbox' :
              /\ inbox'[n].op = worker.active.op /\ inbox'[n].method = worker.active.method
              /\ inbox'[n].ok = ok /\ inbox'[n].doc = d
              /\ \A k \in DOMAIN inbox : k \in DOMAIN inbox' /\ inbox'[k] = inbox[k] /\ k < n
              /\ \A k \in DOMAIN inbox' : k = n \/ k \in DOMAIN inbox
<1> DEFINE ans == [op |-> worker.active.op, method |-> worker.active.method, ok |-> ok, doc |-> d,
                   was |-> engine[worker.active.id]]
<1>1. /\ worker.active.op \in Ops /\ worker.active.method \in Methods /\ worker.active.id = a
      /\ worker.active # None /\ op' = op /\ disk' = disk
      /\ worker' = IF worker.line = <<>> THEN [active |-> None, line |-> <<>>]
                   ELSE [active |-> Head(worker.line), line |-> Tail(worker.line)]
  BY WorkParts DEF Work
<1>2. /\ IInv /\ Pending /\ Writing /\ version \in Nat /\ version' \in Nat /\ inbox \in Seq(Responses(version))
      /\ engine \in [Ids -> Docs(version)] /\ a \in Ids
  <2>1. IInv /\ Pending /\ Writing /\ a \in Ids
    BY Parts
  <2>2. version \in Nat /\ inbox \in Seq(Responses(version))
    BY <2>1, EngineSide
  <2>3. engine \in [Ids -> Docs(version)]
    BY <2>1 DEF IInv, Types, EngineTypes
  <2>4. version' \in Nat
    BY <2>2
  <2> QED BY <2>1, <2>2, <2>3, <2>4
<1>3. /\ Docs(version) \subseteq Docs(version') /\ Responses(version) \subseteq Responses(version')
      /\ Requests(version) \subseteq Requests(version')
  BY <1>2, Grown
<1>4. ans \in Responses(version')
  BY <1>1, <1>2, <1>3 DEF Responses
<1>5. ans.op = worker.active.op /\ ans.method = worker.active.method /\ ans.ok = ok /\ ans.doc = d
  OBVIOUS
<1>6. inbox' = Append(inbox, ans) /\ engine' = [engine EXCEPT ![worker.active.id] = d]
  BY DEF Becomes
<1> HIDE DEF ans
<1>7. /\ Pending' /\ Pipeline' = Pipeline /\ \A r : In(Posts(worker'), r) => In(Posts(worker), r)
  BY <1>1, <1>2, <1>3, <1>4, <1>5, <1>6, WorkStep
<1>8. Writing'
  BY <1>1, <1>2 DEF Writing
<1>9. engine'[a] = d
  BY <1>1, <1>2, <1>6
<1>10. PICK n \in DOMAIN inbox' :
         /\ inbox'[n] = ans
         /\ \A k \in DOMAIN inbox : k \in DOMAIN inbox' /\ inbox'[k] = inbox[k] /\ k < n
         /\ \A k \in DOMAIN inbox' : k = n \/ k \in DOMAIN inbox
  <2>1. PICK T : T = Responses(version)
    OBVIOUS
  <2>2. PICK s \in Seq(T) : s = inbox
    BY <1>2, <2>1
  <2>3. inbox' = Append(s, ans)
    BY <1>6, <2>2
  <2> QED BY <2>2, <2>3, AppendedFacts
<1> QED BY <1>5, <1>7, <1>8, <1>9, <1>10

\* What the page keeps.
LEMMA WorkRest ==
  ASSUME NEW a, Ids = {a}, Safe, Work
  PROVE  /\ loadedId' = loadedId /\ store' = store /\ disk' = disk /\ dirty' = dirty /\ sequence' = sequence
         /\ undo' = undo /\ timers' = timers /\ op' = op /\ loading' = loading /\ Ways' /\ store'[a] >= 1
<1>1. UNCHANGED <<store, disk, loadedId, loading, saveVars, undo, op>>
  BY DEF Work
<1>2. Ways'
  BY <1>1, Parts DEF Ways, OnItsWay, saveVars
<1> QED BY <1>1, <1>2, Parts DEF saveVars

\* A read of the loaded character, or a refused edit of it.
LEMMA ServeSafe ==
  ASSUME NEW a, Ids = {a}, Safe, IInv', Work, loadedId = a,
         version' = version, latest' = latest, NEW ok \in BOOLEAN, Becomes(worker.active, engine[a], ok),
         \/ worker.active.method \in Reads /\ ok
         \/ worker.active.method = "mutation" /\ ~ok
  PROVE  Safe'
<1>1. /\ Opened(a) /\ CleanStored(a) /\ LastWritten(a) /\ InOrder(a) /\ engine[a] \in Docs(version') /\ engine[a] >= 1
  BY Parts DEF Opened, IInv, Types, EngineTypes
<1>2. /\ Pending' /\ Writing' /\ Pipeline' = Pipeline /\ \A r : In(Posts(worker'), r) => In(Posts(worker), r)
      /\ engine'[a] = engine[a]
  BY <1>1, AnswerStep
<1>3. PICK n \in DOMAIN inbox' :
        /\ inbox'[n].method = worker.active.method /\ inbox'[n].ok = ok /\ inbox'[n].doc = engine[a]
        /\ \A k \in DOMAIN inbox : k \in DOMAIN inbox' /\ inbox'[k] = inbox[k] /\ k < n
        /\ \A k \in DOMAIN inbox' : k = n \/ k \in DOMAIN inbox
  BY <1>1, AnswerStep
<1>4. /\ loadedId' = a /\ store' = store /\ disk' = disk /\ dirty' = dirty /\ undo' = undo /\ op' = op /\ Ways'
      /\ store'[a] >= 1
  BY WorkRest
<1>5. ~Change(inbox'[n])
  BY <1>3 DEF Change, Reads
<1>6. ChangeIn(inbox') <=> ChangeIn(inbox)
  BY <1>3, <1>5 DEF ChangeIn, Change
<1>7. Underway' <=> Underway
  BY <1>4, <1>6 DEF Underway, ChangeIn, Change, Keeping
<1>8. \A p \in Ops : (Stale(a, p)' <=> Stale(a, p)) /\ (Decisive(a, p)' <=> Decisive(a, p))
  BY <1>2, <1>4, <1>7 DEF Stale, Decisive
<1>9. \A s, t \in Ops : Ahead(s, t)' <=> Ahead(s, t)
  BY <1>2, <1>4 DEF Ahead
<1>10. CleanStored(a)' /\ LastWritten(a)'
  BY <1>1, <1>2, <1>4, <1>7, <1>8, <1>9 DEF CleanStored, LastWritten
<1>11. InOrder(a)'
  <2> SUFFICES ASSUME NEW i \in DOMAIN inbox', inbox'[i].method = "exportCharacterXml", inbox'[i].doc # engine[a]
               PROVE  \E j \in DOMAIN inbox' : i < j /\ Change(inbox'[j])
    BY <1>2 DEF InOrder, Change
  <2>1. i \in DOMAIN inbox /\ inbox[i] = inbox'[i]
    BY <1>3
  <2>2. PICK j \in DOMAIN inbox : i < j /\ Change(inbox[j])
    BY <1>1, <2>1 DEF InOrder
  <2> QED BY <1>3, <2>2
<1>12. \A k \in DOMAIN inbox' : inbox'[k].method \in Reads => inbox'[k].ok /\ inbox'[k].doc >= 1
  <2>1. worker.active.method \in Reads => ok
    BY DEF Reads
  <2> QED BY <1>1, <1>3, <2>1 DEF Opened
<1>13. Opened(a)'
  BY <1>1, <1>2, <1>4, <1>7, <1>12 DEF Opened
<1> QED BY <1>2, <1>4, <1>10, <1>11, <1>13, LoadedStep

\* An edit or an undo of the loaded character.
LEMMA ServeChangeSafe ==
  ASSUME NEW a, Ids = {a}, Safe, IInv', Work, loadedId = a, version' \in {version, version + 1},
         NEW d \in Docs(version'), d >= 1, Becomes(worker.active, d, TRUE), latest' = [latest EXCEPT ![a] = d],
         worker.active.method \in {"mutation", "importCharacterXml"}
  PROVE  Safe'
<1>1. /\ Opened(a) /\ a \in Ids /\ Ways /\ latest \in [Ids -> Docs(version)]
  BY Parts DEF IInv, Types, EngineTypes
<1>2. /\ Pending' /\ Writing' /\ \A r : In(Posts(worker'), r) => In(Posts(worker), r)
      /\ engine'[a] = d
  BY AnswerStep
<1>3. PICK n \in DOMAIN inbox' :
        /\ inbox'[n].method = worker.active.method /\ inbox'[n].ok = TRUE
        /\ \A k \in DOMAIN inbox : k \in DOMAIN inbox' /\ inbox'[k] = inbox[k] /\ k < n
        /\ \A k \in DOMAIN inbox' : k = n \/ k \in DOMAIN inbox
  <2>1. PICK ok \in BOOLEAN : ok = TRUE
    OBVIOUS
  <2>2. Becomes(worker.active, d, ok)
    BY <2>1
  <2>3. \E n \in DOMAIN inbox' :
          /\ inbox'[n].op = worker.active.op /\ inbox'[n].method = worker.active.method
          /\ inbox'[n].ok = ok /\ inbox'[n].doc = d
          /\ \A k \in DOMAIN inbox : k \in DOMAIN inbox' /\ inbox'[k] = inbox[k] /\ k < n
          /\ \A k \in DOMAIN inbox' : k = n \/ k \in DOMAIN inbox
    BY ONLY <2>2, Ids = {a}, Safe, Work, version' \in {version, version + 1}, AnswerStep
  <2> QED BY <2>1, <2>3
<1>4. /\ loadedId' = a /\ store' = store /\ disk' = disk /\ dirty' = dirty /\ undo' = undo /\ op' = op /\ Ways'
      /\ store'[a] >= 1
  BY WorkRest
<1>5. Change(inbox'[n])
  BY <1>3 DEF Change
<1>6. ChangeIn(inbox') /\ Underway'
  BY <1>3, <1>5 DEF ChangeIn, Underway, Change, Keeping
<1>7. \A t \in Ops : ~Decisive(a, t)'
  <2> SUFFICES ASSUME NEW t \in Ops, op[t].kind = "durable", op[t].pc \in SavePoints PROVE FALSE
    BY <1>4, <1>6 DEF Decisive
  <2>1. worker.active.op \in Ops /\ In(Pipeline, <<worker.active.op, worker.active.method>>)
    BY WorkParts
  <2>2. op[worker.active.op].kind \in Changers /\ op[worker.active.op].pc \in {"restore", "mutate", "mutateOnly"}
    BY <2>1, ChangeOf
  <2>3. t = worker.active.op
    BY <1>1, <2>1, <2>2 DEF Ways, Changers
  <2> QED BY <2>2, <2>3 DEF SavePoints
<1>8. CleanStored(a)' /\ LastWritten(a)'
  BY <1>6, <1>7 DEF CleanStored, LastWritten
<1>9. InOrder(a)'
  <2> SUFFICES ASSUME NEW i \in DOMAIN inbox', inbox'[i].method = "exportCharacterXml"
               PROVE  \E j \in DOMAIN inbox' : i < j /\ Change(inbox'[j])
    BY DEF InOrder, Change
  <2>1. i # n
    BY <1>3
  <2> QED BY <1>3, <1>5, <2>1
<1>10. \A k \in DOMAIN inbox' : inbox'[k].method \in Reads => inbox'[k].ok /\ inbox'[k].doc >= 1
  <2>1. worker.active.method \notin Reads
    BY DEF Reads
  <2> QED BY <1>1, <1>3, <2>1 DEF Opened
<1>11. latest'[a] = d /\ d # NoDoc
  BY <1>1 DEF NoDoc
<1>12. Opened(a)'
  BY <1>1, <1>2, <1>4, <1>10, <1>11 DEF Opened
<1> QED BY <1>2, <1>4, <1>8, <1>9, <1>12, LoadedStep

LEMMA WorkLoadedSafe ==
  ASSUME NEW a, Ids = {a}, Safe, IInv', Work, loadedId = a
  PROVE  Safe'
<1> DEFINE r == worker.active
<1>1. /\ r \in Requests(version) /\ r.op \in Ops /\ r.id = a
      /\ In(Posts(worker), r) /\ In(Pipeline, <<r.op, r.method>>) /\ r.method \in Methods
      /\ Awaits(op[r.op], r.method) /\ Serve(r) /\ ~ServeDelete(r) /\ ~ServeContent(r)
  BY WorkParts
<1>2. engine[a] >= 1 /\ version \in Nat /\ Opened(a) /\ a \in Ids
  BY Parts DEF Opened
<1>3. CASE ServeRead(r)
  <2>1. r.method \in Reads /\ Becomes(r, engine[a], TRUE) /\ UNCHANGED <<version, latest>>
    <3>1. engine[r.id] # NoDoc
      BY <1>1, <1>2 DEF NoDoc
    <3>2. (engine[r.id] # NoDoc) = TRUE
      BY <3>1
    <3> QED BY <1>1, <1>3, <3>2 DEF ServeRead
  <2> QED BY <2>1, ServeSafe
<1>4. CASE ServeCreate(r)
  BY <1>1, <1>2, <1>4 DEF ServeCreate, Awaits, Opened, LoadPoints
<1>5. CASE ServeImport(r)
  <2>1. r.method = "importCharacterXml" /\ Becomes(r, r.doc, TRUE) /\ UNCHANGED version
    BY <1>5 DEF ServeImport
  <2>2. op[r.op].kind = "undo"
    BY <1>1, <2>1, ChangeOf
  <2>3. latest' = [latest EXCEPT ![a] = r.doc]
    BY <1>1, <1>5, <2>2 DEF ServeImport
  <2>4. r.doc >= 1 /\ r.doc \in Docs(version')
    BY <1>1, <1>2, <2>1 DEF Opened, Requests
  <2> QED BY <2>1, <2>3, <2>4, ServeChangeSafe
<1>6. CASE ServeMutation(r)
  <2>1. CASE Becomes(r, version + 1, TRUE) /\ version' = version + 1 /\ latest' = [latest EXCEPT ![r.id] = version + 1]
    <3>1. version + 1 \in Docs(version') /\ version + 1 >= 1
      BY <1>2, <2>1 DEF Docs, NoDoc
    <3>2. latest' = [latest EXCEPT ![a] = version + 1]
      BY <1>1, <2>1
    <3>3. r.method \in {"mutation", "importCharacterXml"}
      BY <1>6 DEF ServeMutation
    <3> QED BY <2>1, <3>1, <3>2, <3>3, ServeChangeSafe
  <2>2. CASE Becomes(r, engine[r.id], FALSE) /\ UNCHANGED <<version, latest>>
    <3>1. r.method = "mutation" /\ Becomes(r, engine[a], FALSE)
      BY <1>1, <1>6, <2>2 DEF ServeMutation
    <3> QED BY <2>2, <3>1, ServeSafe
  <2> QED BY <1>6, <2>1, <2>2 DEF ServeMutation
<1> QED BY <1>1, <1>3, <1>4, <1>5, <1>6 DEF Serve

----------------------------------------------------------------------------
\* The load of the character.

\* Only the load is answered before the character is loaded.
LEMMA LoadAwaits ==
  ASSUME NEW a, Ids = {a}, Safe, loadedId = None, NEW p \in Ops, NEW m, Awaits(op[p], m)
  PROVE  /\ loading = p /\ op[p].kind \in Loads
         /\ \/ m = "createCharacter" /\ op[p].pc = "create"
            \/ m = "importCharacterXml" /\ op[p].pc = "import"
<1>1. op[p].pc \in LoadPoints \cup {"free", "wait"} /\ OnItsWay(op[p])
      /\ (op[p].pc \in LoadPoints => loading = p)
  BY Parts DEF Unopened, Ways
<1>2. \/ m = "createCharacter" /\ op[p].pc = "create"
      \/ m = "importCharacterXml" /\ op[p].pc = "import"
  BY <1>1 DEF Awaits, LoadPoints
<1>3. op[p].pc \in LoadPoints
  BY <1>2 DEF LoadPoints
<1>4. op[p].kind \in Loads
  BY <1>1, <1>2, NoneIsNoKind DEF OnItsWay, Loads, LoadPoints, SavePoints
<1> QED BY <1>1, <1>2, <1>3, <1>4

\* What is in the inbox is awaited.
LEMMA InboxAwaited ==
  ASSUME NEW a, Ids = {a}, Safe, NEW k \in DOMAIN inbox
  PROVE  inbox[k].op \in Ops /\ inbox[k].method \in Methods /\ Awaits(op[inbox[k].op], inbox[k].method)
<1>1. IInv /\ Pending
  BY Parts
<1>2. In(Pipeline, Tag(inbox[k])) /\ inbox[k] \in Responses(version)
  BY <1>1, Members, EngineSide DEF Pipeline
<1>3. inbox[k].op \in Ops /\ inbox[k].method \in Methods
  BY <1>2 DEF Responses
<1> QED BY <1>1, <1>2, <1>3 DEF Pending, Tag

\* The load goes on, and the character is not loaded yet.
LEMMA LoadGoesOn ==
  ASSUME NEW a, Ids = {a}, Safe, IInv', NEW o \in Ops, NEW q, op' = [op EXCEPT ![o] = q],
         loadedId = None, loadedId' = None, loading' = o,
         op[o].pc \in LoadPoints \/ \A p \in Ops \ {o} : op[p].kind \notin Loads,
         q.kind \in Loads, q.kind = op[o].kind, q.id = a, q.pc \in LoadPoints, q.gen = op[o].gen,
         q.before = op[o].before, q.pc \in {"create", "import"} => q.xml = store[a],
         engine' = engine, latest' = latest, store' = store, undo' = undo, UNCHANGED saveVars,
         Pending', Writing',
         \A r : In(Posts(worker'), r) => In(Posts(worker), r) \/ (r.method = "importCharacterXml" => r.doc = store[a]),
         \A k \in DOMAIN inbox' : \E j \in DOMAIN inbox : inbox'[k] = inbox[j]
  PROVE  Safe'
<1>1. /\ IInv /\ Ways /\ Unopened(a) /\ store[a] >= 1 /\ op \in [Ops -> Operations(version)] /\ sequence \in Nat
      /\ sequence' = sequence /\ dirty' = dirty /\ timers' = timers /\ a \in Ids
  BY Parts DEF saveVars
<1>2. Elsewhere(o) /\ op'[o] = q /\ \A p \in Ops \ {o} : op'[p] = op[p]
  BY <1>1, Alone
<1>3. \A p \in Ops \ {o} : op[p].pc \notin LoadPoints
  <2> TAKE p \in Ops \ {o}
  <2>1. CASE op[o].pc \in LoadPoints
    BY <1>1, <2>1 DEF Unopened
  <2>2. CASE op[p].kind \notin Loads
    BY <1>1, <2>2, NoneIsNoKind DEF Ways, OnItsWay, Loads, LoadPoints, SavePoints
  <2> QED BY <2>1, <2>2
<1>4. Ways'
  <2>1. OnItsWay(q) /\ q.gen <= sequence'
    BY <1>1, NoneIsNoKind DEF Ways, OnItsWay, Loads
  <2> QED BY <1>1, <1>2, <2>1, WaysStep
<1>5. \A p \in Ops :
         /\ op'[p].kind \in Loads \cup {"flush", None}
         /\ op'[p].pc \in LoadPoints \cup {"free", "wait"}
         /\ op'[p].kind = "flush" => op'[p].ids = {}
         /\ op'[p].before # Blank
         /\ op'[p].pc \in LoadPoints => loading' = p
         /\ op'[p].pc \in {"create", "import"} => op'[p].xml = store'[a]
         /\ op'[p].kind \in Loads /\ op'[p].pc = "wait" /\ op'[p].on = {} =>
              \A r \in Ops \ {p} : op'[r].kind \notin Loads
  <2> TAKE p \in Ops
  <2>1. CASE p = o
    BY <1>1, <1>2, <2>1 DEF Unopened, Loads, LoadPoints
  <2>2. CASE p # o
    <3>1. op'[p] = op[p] /\ op[p].pc \notin LoadPoints
      BY <1>2, <1>3, <2>2
    <3>2. ~(op[p].kind \in Loads /\ op[p].pc = "wait" /\ op[p].on = {})
      BY <1>1, <2>2 DEF Unopened
    <3>3. op[p].pc \notin {"create", "import"}
      BY <3>1 DEF LoadPoints
    <3> QED BY <1>1, <3>1, <3>2, <3>3 DEF Unopened
  <2> QED BY <2>1, <2>2
<1>6. Unopened(a)'
  <2>1. dirty'[a] = 0 /\ timers'[a] = "off" /\ undo'[a] = <<>> /\ latest'[a] = NoDoc
    BY <1>1 DEF Unopened
  <2>2. \A r : In(Posts(worker'), r) /\ r.method = "importCharacterXml" => r.doc = store'[a]
    BY <1>1 DEF Unopened
  <2>3. \A k \in DOMAIN inbox' : inbox'[k].method = "importCharacterXml" => engine'[a] = store'[a]
    BY <1>1 DEF Unopened
  <2> QED BY <1>5, <2>1, <2>2, <2>3 DEF Unopened
<1>7. store'[a] >= 1
  BY <1>1
<1> QED BY <1>4, <1>6, <1>7, AsleepStep

\* The operation o, at a point of the load, unless it has yet to begin it.
LEMMA LoaderFacts ==
  ASSUME NEW a, Ids = {a}, Safe, NEW o \in Ops, op[o].pc \in LoadPoints
  PROVE  /\ loadedId = None /\ loading = o /\ op[o].kind \in Loads /\ op[o].id = a
         /\ op[o] \in Operations(version) /\ op[o].gen <= sequence /\ op[o].before # Blank
         /\ \A p \in Ops \ {o} : op[p].pc \in {"free", "wait"}
         /\ op[o].pc \in {"create", "import"} => op[o].xml = store[a]
<1>1. loadedId = None
  BY Parts DEF Opened
<1>2. /\ OnItsWay(op[o]) /\ loading = o /\ op[o] \in Operations(version) /\ op[o].gen <= sequence
      /\ op[o].before # Blank /\ (op[o].pc \in {"create", "import"} => op[o].xml = store[a])
      /\ \A p \in Ops \ {o} : op[p].pc \in {"free", "wait"}
  BY <1>1, Parts DEF Unopened, Ways
<1>3. op[o].kind \in Loads /\ op[o].id \in Ids
  BY <1>2, NoneIsNoKind DEF OnItsWay, Loads, LoadPoints, SavePoints
<1> QED BY <1>1, <1>2, <1>3

\* A load begins: the record is asked for.
LEMMA LoadBeginsSafe ==
  ASSUME NEW a, Ids = {a}, Safe, IInv', NEW o \in Ops, ResumeLoad(o), loadedId = None
  PROVE  Safe'
<1>1. /\ op[o].pc = "wait" /\ op[o].on = {} /\ op[o].kind \in Showing \cup {"mutate", "durable"}
      /\ UNCHANGED <<workerVars, store, loadedId, saveVars, undo>>
      /\ loadedId # op[o].id => loading' = o /\ disk' = Append(disk, o) /\ worker' = worker
                                /\ op' = [op EXCEPT ![o].pc = "get"]
  BY DEF ResumeLoad, Resumable
<1>2. /\ OnItsWay(op[o]) /\ op[o] \in Operations(version) /\ a # None /\ op \in [Ops -> Operations(version)]
      /\ IInv /\ Pending /\ Writing
  BY Parts DEF Ways
<1>3. op[o].kind \in Loads /\ op[o].id = a /\ loadedId # op[o].id
  BY <1>1, <1>2, NoneIsNoKind DEF OnItsWay, Showing, Loads
<1>4. \A p \in Ops \ {o} : op[p].kind \notin Loads
  BY <1>1, <1>3, Parts DEF Unopened
<1>5. PICK q : op' = [op EXCEPT ![o] = q] /\ q = [op[o] EXCEPT !.pc = "get"]
  BY <1>1, <1>2, <1>3
<1>6. /\ q.kind = op[o].kind /\ q.id = a /\ q.pc = "get" /\ q.gen = op[o].gen /\ q.before = op[o].before
  BY <1>2, <1>3, <1>5 DEF Operations
<1>7. Elsewhere(o) /\ op'[o] = q
  BY <1>2, <1>5, Alone
<1>8. worker' = worker /\ inbox' = inbox /\ disk' = Append(disk, o) /\ loading' = o
  BY <1>1, <1>3 DEF workerVars
<1>9. Pending'
  <2>1. \A m \in Methods : Awaits(op'[o], m) <=> Awaits(op[o], m)
    BY <1>1, <1>6, <1>7 DEF Awaits
  <2> QED BY <1>2, <1>7, <1>8, <2>1, QuietStep
<1>10. Writing'
  <2>1. ~OnDisk(op[o]) /\ OnDisk(op'[o])
    BY <1>1, <1>6, <1>7 DEF OnDisk
  <2>2. Joins(disk, disk', o)
    <3>1. Distinct(disk) /\ ~In(disk, o) /\ disk \in Seq(Ops)
      BY <1>2, <2>1, EngineSide DEF Writing
    <3> QED BY <1>8, <3>1, Queueing
  <2> QED BY <1>2, <1>7, <2>1, <2>2, OtherOps DEF Writing, Joins
<1>11. \A k \in DOMAIN inbox' : \E j \in DOMAIN inbox : inbox'[k] = inbox[j]
  BY <1>8
<1>12. /\ q.pc \in LoadPoints /\ q.kind \in Loads /\ (q.pc \in {"create", "import"} => q.xml = store[a])
       /\ engine' = engine /\ latest' = latest /\ store' = store /\ undo' = undo /\ UNCHANGED saveVars
       /\ loadedId' = None
  BY <1>1, <1>3, <1>6 DEF LoadPoints, workerVars
<1> QED BY <1>4, <1>5, <1>6, <1>8, <1>9, <1>10, <1>11, <1>12, LoadGoesOn

\* The record has been read.
LEMMA GotSafe ==
  ASSUME NEW a, Ids = {a}, Safe, IInv', NEW o \in Ops, Got(o)
  PROVE  Safe'
<1> DEFINE r == Request(o, "createCharacter", NoDoc)
<1>1. /\ disk # <<>> /\ Head(disk) = o /\ op[o].pc = "get" /\ disk' = Tail(disk)
      /\ UNCHANGED <<workerVars, store, loadedId, saveVars, undo>>
  BY DEF Got, Completes
<1>2. /\ loadedId = None /\ loading = o /\ op[o].kind \in Loads /\ op[o].id = a /\ op[o] \in Operations(version)
  BY <1>1, LoaderFacts DEF LoadPoints
<1>3. /\ op' = [op EXCEPT ![o].pc = "create", ![o].xml = store[a]] /\ worker' = Sent(worker, r)
      /\ loading' = loading
  <2>1. store[op[o].id] # NoDoc
    BY <1>2, Parts DEF NoDoc
  <2> QED BY <1>2, <2>1 DEF Got, Post
<1>4. r \in Requests(version) /\ r.op = o /\ r.method = "createCharacter"
  BY <1>2, Parts, Versions, Requested DEF Request, Methods
<1> HIDE DEF r
<1>5. IInv /\ Pending /\ Writing /\ op \in [Ops -> Operations(version)] /\ disk \in Seq(Ops)
  BY Parts, EngineSide
<1>6. PICK q : op' = [op EXCEPT ![o] = q] /\ q = [op[o] EXCEPT !.pc = "create", !.xml = store[a]]
  BY <1>3, <1>5
<1>7. /\ q.kind = op[o].kind /\ q.id = a /\ q.pc = "create" /\ q.gen = op[o].gen /\ q.before = op[o].before
      /\ q.xml = store[a]
  BY <1>2, <1>6 DEF Operations
<1>8. Elsewhere(o) /\ op'[o] = q
  BY <1>5, <1>6, Alone
<1>9. Pending' /\ \A x : In(Posts(worker'), x) <=> In(Posts(worker), x) \/ x = r
  <2>1. ~Awaits(op[o], r.method) /\ \A m \in Methods : Awaits(op'[o], m) <=> Awaits(op[o], m) \/ m = r.method
    BY <1>1, <1>4, <1>7, <1>8 DEF Awaits
  <2>2. inbox' = inbox
    BY <1>1 DEF workerVars
  <2> QED BY <1>3, <1>4, <1>5, <1>8, <2>1, <2>2, AskStep
<1>10. Writing'
  <2>1. OnDisk(op[o]) /\ ~OnDisk(op'[o])
    BY <1>1, <1>7, <1>8 DEF OnDisk
  <2>2. Leaves(disk, disk', o)
    BY <1>1, <1>5, Completing DEF Writing
  <2> QED BY <1>5, <1>8, <2>1, <2>2, OtherOps DEF Writing, Leaves
<1>11. \A x : In(Posts(worker'), x) => In(Posts(worker), x) \/ (x.method = "importCharacterXml" => x.doc = store[a])
  BY <1>4, <1>9
<1>12. /\ q.pc \in LoadPoints /\ q.kind \in Loads /\ (q.pc \in {"create", "import"} => q.xml = store[a])
       /\ engine' = engine /\ latest' = latest /\ store' = store /\ undo' = undo /\ UNCHANGED saveVars
       /\ loadedId' = None /\ loading' = o /\ op[o].pc \in LoadPoints
  BY <1>1, <1>2, <1>3, <1>7 DEF LoadPoints, workerVars
<1>13. \A k \in DOMAIN inbox' : \E j \in DOMAIN inbox : inbox'[k] = inbox[j]
  BY <1>1 DEF workerVars
<1>14. op[o].pc \in LoadPoints \/ \A p \in Ops \ {o} : op[p].kind \notin Loads
  BY <1>12
<1> QED BY ONLY <1>2, <1>6, <1>7, <1>9, <1>10, <1>11, <1>12, <1>13, <1>14, Ids = {a}, Safe, IInv', o \in Ops, LoadGoesOn

\* The blank character has been made: the record is put in its place.
LEMMA CreatedSafe ==
  ASSUME NEW a, Ids = {a}, Safe, IInv', NEW o \in Ops, Created(o)
  PROVE  Safe'
<1> DEFINE r == Request(o, "importCharacterXml", op[o].xml)
<1>1. Answer(o, "createCharacter", "create") /\ UNCHANGED <<disk, loadedId, loading, saveVars, undo>>
      /\ worker' = Sent(worker, r) /\ op' = [op EXCEPT ![o].pc = "import"]
  BY DEF Created, Post
<1>2. "createCharacter" \in Methods /\ "importCharacterXml" \in Methods
  BY DEF Methods
<1>3. /\ inbox # <<>> /\ inbox' = Tail(inbox) /\ Head(inbox).op = o /\ Head(inbox).method = "createCharacter"
      /\ engine' = engine /\ latest' = latest /\ store' = store /\ op[o].pc = "create"
  BY ONLY <1>1, <1>2, Ids = {a}, Safe, o \in Ops, Heading
<1>4. /\ loadedId = None /\ loading = o /\ op[o].kind \in Loads /\ op[o].id = a /\ op[o] \in Operations(version)
      /\ op[o].xml = store[a]
  BY <1>3, LoaderFacts DEF LoadPoints
<1>5. r \in Requests(version) /\ r.op = o /\ r.method = "importCharacterXml" /\ r.doc = store[a]
  <2>1. op[o].xml \in Docs(version) /\ a \in Ids
    BY <1>4, Parts DEF Operations
  <2> QED BY <1>2, <1>4, <2>1, Requested DEF Request
<1> HIDE DEF r
<1>6. IInv /\ Pending /\ Writing /\ op \in [Ops -> Operations(version)]
  BY Parts
<1>7. PICK q : op' = [op EXCEPT ![o] = q] /\ q = [op[o] EXCEPT !.pc = "import"]
  BY <1>1, <1>6
<1>8. /\ q.kind = op[o].kind /\ q.id = a /\ q.pc = "import" /\ q.gen = op[o].gen /\ q.before = op[o].before
      /\ q.xml = store[a]
  BY <1>4, <1>7 DEF Operations
<1>9. Elsewhere(o) /\ op'[o] = q
  BY <1>6, <1>7, Alone
<1>10. Pending' /\ \A x : In(Posts(worker'), x) <=> In(Posts(worker), x) \/ x = r
  <2>1. /\ ~Awaits(op[o], r.method)
        /\ \A m \in Methods : Awaits(op'[o], m) <=> (Awaits(op[o], m) /\ m # "createCharacter") \/ m = r.method
    BY <1>3, <1>5, <1>8, <1>9 DEF Awaits
  <2> QED BY <1>1, <1>2, <1>3, <1>5, <1>6, <1>9, <2>1, HandleAskStep
<1>11. Writing'
  <2>1. \A p \in Ops : OnDisk(op'[p]) <=> OnDisk(op[p])
    BY <1>3, <1>8, <1>9, OtherOps DEF OnDisk
  <2> QED BY <1>1, <1>6, <2>1 DEF Writing
<1>12. \A x : In(Posts(worker'), x) => In(Posts(worker), x) \/ (x.method = "importCharacterXml" => x.doc = store[a])
  BY <1>5, <1>10
<1>13. /\ q.pc \in LoadPoints /\ q.kind \in Loads /\ (q.pc \in {"create", "import"} => q.xml = store[a])
       /\ undo' = undo /\ UNCHANGED saveVars /\ loadedId' = None /\ loading' = o /\ op[o].pc \in LoadPoints
  BY <1>1, <1>3, <1>4, <1>8 DEF LoadPoints
<1>14. \A k \in DOMAIN inbox' : \E j \in DOMAIN inbox : inbox'[k] = inbox[j]
  BY <1>3, <1>6, Rest
<1>15. op[o].pc \in LoadPoints \/ \A p \in Ops \ {o} : op[p].kind \notin Loads
  BY <1>13
<1> QED BY ONLY <1>3, <1>4, <1>7, <1>8, <1>10, <1>11, <1>12, <1>13, <1>14, <1>15, Ids = {a}, Safe, IInv', o \in Ops, LoadGoesOn

\* The record is in the engine: the character is loaded.
LEMMA ImportedSafe ==
  ASSUME NEW a, Ids = {a}, Safe, IInv', NEW o \in Ops, Imported(o)
  PROVE  Safe'
<1> DEFINE r == Request(o, "getCharacter", NoDoc)
<1>1. /\ Answer(o, "importCharacterXml", "import") /\ undo' = [undo EXCEPT ![op[o].id] = <<>>]
      /\ loadedId' = op[o].id /\ worker' = Sent(worker, r) /\ op' = [op EXCEPT ![o].pc = "loaded"]
      /\ UNCHANGED <<disk, loading, saveVars>>
  BY DEF Imported, Post
<1>2. "importCharacterXml" \in Methods /\ "getCharacter" \in Methods
  BY DEF Methods
<1>3. /\ inbox # <<>> /\ inbox' = Tail(inbox) /\ Head(inbox).op = o /\ Head(inbox).method = "importCharacterXml"
      /\ engine' = engine /\ latest' = latest /\ store' = store /\ version' = version /\ op[o].pc = "import"
  BY ONLY <1>1, <1>2, Ids = {a}, Safe, o \in Ops, Heading
<1>4. /\ loadedId = None /\ loading = o /\ op[o].kind \in Loads /\ op[o].id = a /\ op[o] \in Operations(version)
      /\ op[o].gen <= sequence /\ op[o].before # Blank /\ \A p \in Ops \ {o} : op[p].pc \in {"free", "wait"}
  BY <1>3, LoaderFacts DEF LoadPoints
<1>5. r \in Requests(version) /\ r.op = o /\ r.method = "getCharacter"
  BY <1>2, <1>4, Parts, Versions, Requested DEF Request
<1> HIDE DEF r
<1>6. /\ IInv /\ Pending /\ Writing /\ Ways /\ Unopened(a) /\ op \in [Ops -> Operations(version)] /\ store[a] >= 1
      /\ sequence \in Nat /\ a \in Ids /\ undo \in [Ids -> Seq(Entries(version))]
  BY Parts DEF IInv, Types, PageTypes
<1>7. PICK q : op' = [op EXCEPT ![o] = q] /\ q = [op[o] EXCEPT !.pc = "loaded"]
  BY <1>1, <1>6
<1>8. /\ q.kind = op[o].kind /\ q.id = a /\ q.pc = "loaded" /\ q.gen = op[o].gen /\ q.before = op[o].before
  BY <1>4, <1>7 DEF Operations
<1>9. Elsewhere(o) /\ op'[o] = q /\ \A p \in Ops \ {o} : op'[p] = op[p]
  BY <1>6, <1>7, Alone
<1>10. Pending'
  <2>1. /\ ~Awaits(op[o], r.method)
        /\ \A m \in Methods : Awaits(op'[o], m) <=> (Awaits(op[o], m) /\ m # "importCharacterXml") \/ m = r.method
    BY <1>3, <1>5, <1>8, <1>9 DEF Awaits
  <2> QED BY <1>1, <1>2, <1>3, <1>5, <1>6, <1>9, <2>1, HandleAskStep
<1>11. Writing'
  <2>1. \A p \in Ops : OnDisk(op'[p]) <=> OnDisk(op[p])
    BY <1>3, <1>8, <1>9, OtherOps DEF OnDisk
  <2> QED BY <1>1, <1>6, <2>1 DEF Writing
<1>12. Ways'
  <2>1. OnItsWay(op'[o]) /\ op'[o].gen <= sequence'
    BY <1>1, <1>4, <1>6, <1>8, <1>9, NoneIsNoKind DEF OnItsWay, Loads, saveVars
  <2>2. sequence' = sequence
    BY <1>1 DEF saveVars
  <2> QED BY <1>6, <1>8, <1>9, <2>1, <2>2, WaysStep
<1>13. \A p \in Ops, m \in Methods : Awaits(op'[p], m) => p = o /\ m = "getCharacter"
  <2> TAKE p \in Ops, m \in Methods
  <2>1. CASE p = o
    BY <1>8, <1>9, <2>1 DEF Awaits
  <2>2. CASE p # o
    BY <1>4, <1>9, <2>2 DEF Awaits
  <2> QED BY <1>10, <2>1, <2>2
<1>14. inbox' = <<>> /\ \A k \in DOMAIN inbox' : FALSE
  <2>1. \A k \in DOMAIN inbox' : FALSE
    <3> SUFFICES ASSUME NEW k \in DOMAIN inbox' PROVE FALSE
      OBVIOUS
    <3>1. k + 1 \in DOMAIN inbox /\ inbox'[k] = inbox[k + 1]
      BY <1>3, <1>6, Rest
    <3>2. inbox'[k].method \in {"createCharacter", "importCharacterXml"}
      BY <1>4, <3>1, InboxAwaited, LoadAwaits
    <3>3. In(Pipeline', Tag(inbox'[k])) /\ inbox'[k] \in Responses(version)
      <4>1. /\ version \in Nat /\ WorkerType(worker', version) /\ inbox' \in Seq(Responses(version))
        BY <1>3, <1>13 DEF IInv, Types, EngineTypes
      <4> QED BY <4>1, Members DEF Pipeline
    <3>4. Awaits(op'[inbox'[k].op], inbox'[k].method) /\ inbox'[k].op \in Ops /\ inbox'[k].method \in Methods
      BY <1>10, <3>3 DEF Pending, Tag, Responses
    <3> QED BY <1>13, <3>2, <3>4
  <2>2. inbox' \in Seq(Responses(version))
    BY <1>3, <1>13 DEF IInv, Types, EngineTypes
  <2>3. PICK T : T = Responses(version)
    OBVIOUS
  <2>4. PICK s \in Seq(T) : s = inbox'
    BY <2>2, <2>3
  <2>5. DOMAIN s = 1..Len(s) /\ Len(s) \in Nat /\ \A k \in DOMAIN s : FALSE
    BY <2>1, <2>4
  <2>6. Len(s) = 0
    BY ONLY <2>5
  <2>7. s = <<>>
    BY ONLY <2>6, s \in Seq(T)
  <2> QED BY <2>1, <2>4, <2>7
<1>15. \A x : In(Posts(worker'), x) => x.method # "importCharacterXml"
  <2> SUFFICES ASSUME NEW x, In(Posts(worker'), x), x.method = "importCharacterXml" PROVE FALSE
    OBVIOUS
  <2>1. In(Pipeline', Tag(x)) /\ x \in Requests(version)
    <3>1. /\ version \in Nat /\ WorkerType(worker', version) /\ inbox' \in Seq(Responses(version))
      BY <1>3, <1>13 DEF IInv, Types, EngineTypes
    <3> QED BY <3>1, Members DEF Pipeline
  <2>2. x.op \in Ops /\ x.method \in Methods
    BY <2>1 DEF Requests
  <2>3. Awaits(op'[x.op], x.method)
    BY <1>10, <2>1, <2>2 DEF Pending, Tag
  <2> QED BY <1>13, <2>2, <2>3
<1>16. \A p \in Ops : op'[p].pc \in {"free", "wait", "loaded"} /\ op'[p].before # Blank
  <2> TAKE p \in Ops
  <2>1. CASE p = o
    BY <1>4, <1>8, <1>9, <2>1
  <2>2. CASE p # o
    BY <1>4, <1>6, <1>9, <2>2 DEF Unopened
  <2> QED BY <2>1, <2>2
<1>17. ~Underway'
  BY <1>14, <1>16 DEF Underway, ChangeIn, Keeping, SavePoints
<1>18. engine'[a] = store'[a] /\ store'[a] >= 1 /\ dirty'[a] = 0 /\ latest'[a] = NoDoc /\ undo'[a] = <<>>
  <2>1. 1 \in DOMAIN inbox /\ inbox[1].method = "importCharacterXml"
    BY <1>3, <1>6, Rest
  <2>2. engine[a] = store[a] /\ dirty[a] = 0 /\ latest[a] = NoDoc
    BY <1>4, <1>6, <2>1 DEF Unopened
  <2>3. undo'[a] = <<>>
    BY <1>1, <1>4, <1>6
  <2> QED BY <1>1, <1>3, <1>6, <2>2, <2>3 DEF saveVars
<1>19. CleanStored(a)' /\ LastWritten(a)'
  <2>1. \A p \in Ops : op'[p].pc \notin SavePoints /\ op'[p].pc \notin {"summary", "put"}
    BY <1>16 DEF SavePoints
  <2>2. (\A p \in Ops : ~Stale(a, p))' /\ (\A p \in Ops : ~Decisive(a, p))'
    BY <2>1 DEF Stale, Decisive
  <2> QED BY <1>18, <2>2 DEF CleanStored, LastWritten
<1>20. InOrder(a)'
  BY <1>14 DEF InOrder
<1>21. Opened(a)'
  <2>1. engine'[a] >= 1
    BY <1>18
  <2>2. \A p \in Ops : /\ op'[p].pc \notin LoadPoints /\ op'[p].before # Blank
                       /\ op'[p].pc \in {"summary", "put"} => op'[p].xml >= 1
    BY <1>16 DEF LoadPoints
  <2>3. \A k \in DOMAIN undo'[a] : undo'[a][k].xml >= 1
    BY <1>18
  <2> QED BY <1>14, <1>15, <1>17, <1>18, <2>1, <2>2, <2>3 DEF Opened
<1>22. loadedId' = a
  BY <1>1, <1>4
<1> QED BY <1>10, <1>11, <1>12, <1>18, <1>19, <1>20, <1>21, <1>22, LoadedStep

\* The worker serves the load.
LEMMA WorkAsleepSafe ==
  ASSUME NEW a, Ids = {a}, Safe, IInv', Work, loadedId = None
  PROVE  Safe'
<1> DEFINE r == worker.active
<1>1. /\ r \in Requests(version) /\ r.op \in Ops /\ r.id = a /\ In(Posts(worker), r) /\ r.method \in Methods
      /\ Awaits(op[r.op], r.method) /\ Serve(r) /\ ~ServeDelete(r) /\ ~ServeContent(r)
  BY WorkParts
<1>2. /\ loading = r.op /\ op[r.op].kind \in Loads
      /\ \/ r.method = "createCharacter" /\ op[r.op].pc = "create"
         \/ r.method = "importCharacterXml" /\ op[r.op].pc = "import"
  BY <1>1, LoadAwaits
<1>3. /\ version \in Nat /\ Unopened(a) /\ a \in Ids /\ store[a] >= 1
  BY Parts
<1>4. PICK d \in Docs(version), ok \in BOOLEAN :
        /\ ok = TRUE /\ Becomes(r, d, ok) /\ UNCHANGED <<version, latest>>
        /\ r.method = "importCharacterXml" => d = store[a]
  <2>1. CASE ServeCreate(r)
    <3>1. Blank \in Docs(version)
      BY <1>3 DEF Docs, Blank, NoDoc
    <3>2. Becomes(r, Blank, TRUE) /\ UNCHANGED <<version, latest>> /\ r.method # "importCharacterXml"
      BY <2>1 DEF ServeCreate
    <3> QED BY <3>1, <3>2
  <2>2. CASE ServeImport(r)
    <3>1. r.method = "importCharacterXml" /\ Becomes(r, r.doc, TRUE) /\ UNCHANGED version
      BY <2>2 DEF ServeImport
    <3>2. latest' = latest
      BY <1>2, <2>2 DEF ServeImport, Loads
    <3>3. r.doc \in Docs(version) /\ r.doc = store[a]
      BY <1>1, <1>3, <3>1 DEF Requests, Unopened
    <3> QED BY <3>1, <3>2, <3>3
  <2>3. ~ServeRead(r) /\ ~ServeMutation(r)
    BY <1>2 DEF ServeRead, ServeMutation, Reads
  <2> QED BY <1>1, <2>1, <2>2, <2>3 DEF Serve
<1>5. Becomes(worker.active, d, ok) /\ version' \in {version, version + 1} /\ d \in Docs(version')
  BY <1>4
<1>6. /\ Pending' /\ Writing' /\ \A x : In(Posts(worker'), x) => In(Posts(worker), x)
      /\ engine'[a] = d
  BY ONLY <1>5, Ids = {a}, Safe, Work, ok \in BOOLEAN, AnswerStep
<1>7. PICK n \in DOMAIN inbox' :
        /\ inbox'[n].method = worker.active.method
        /\ \A k \in DOMAIN inbox : k \in DOMAIN inbox' /\ inbox'[k] = inbox[k] /\ k < n
        /\ \A k \in DOMAIN inbox' : k = n \/ k \in DOMAIN inbox
  <2>1. \E n \in DOMAIN inbox' :
          /\ inbox'[n].op = worker.active.op /\ inbox'[n].method = worker.active.method
          /\ inbox'[n].ok = ok /\ inbox'[n].doc = d
          /\ \A k \in DOMAIN inbox : k \in DOMAIN inbox' /\ inbox'[k] = inbox[k] /\ k < n
          /\ \A k \in DOMAIN inbox' : k = n \/ k \in DOMAIN inbox
    BY ONLY <1>5, Ids = {a}, Safe, Work, ok \in BOOLEAN, AnswerStep
  <2> QED BY <2>1
<1>8. /\ loadedId' = loadedId /\ store' = store /\ dirty' = dirty /\ undo' = undo /\ timers' = timers
      /\ op' = op /\ loading' = loading /\ Ways' /\ store'[a] >= 1
  BY WorkRest
<1>9. \A k \in DOMAIN inbox : inbox[k].method = r.method
  <2> TAKE k \in DOMAIN inbox
  <2>1. /\ inbox[k].op \in Ops /\ Awaits(op[inbox[k].op], inbox[k].method)
    BY InboxAwaited
  <2>2. /\ loading = inbox[k].op
        /\ \/ inbox[k].method = "createCharacter" /\ op[inbox[k].op].pc = "create"
           \/ inbox[k].method = "importCharacterXml" /\ op[inbox[k].op].pc = "import"
    BY <2>1, LoadAwaits
  <2> QED BY <1>2, <2>2
<1>10. \A k \in DOMAIN inbox' : inbox'[k].method = "importCharacterXml" => engine'[a] = store'[a]
  BY <1>4, <1>6, <1>7, <1>8, <1>9
<1>11. Unopened(a)'
  <2>1. dirty'[a] = 0 /\ timers'[a] = "off" /\ undo'[a] = <<>> /\ latest'[a] = NoDoc
    BY <1>3, <1>4, <1>8 DEF Unopened
  <2>2. \A x : In(Posts(worker'), x) /\ x.method = "importCharacterXml" => x.doc = store'[a]
    BY <1>3, <1>6, <1>8 DEF Unopened
  <2> QED BY <1>3, <1>8, <1>10, <2>1, <2>2 DEF Unopened
<1>12. loadedId' = None
  BY <1>8
<1> QED BY <1>6, <1>8, <1>11, <1>12, AsleepStep

----------------------------------------------------------------------------
\* Every step.

\* Nobody removes the character or updates the library.
LEMMA NeverReached ==
  ASSUME NEW a, Ids = {a}, Safe, NEW o \in Ops
  PROVE  op[o].pc \notin {"delete", "erase", "records", "content"}
<1>1. OnItsWay(op[o])
  BY Parts DEF Ways
<1> QED BY <1>1 DEF OnItsWay, LoadPoints, SavePoints

LEMMA ContinueSafe ==
  ASSUME NEW a, Ids = {a}, Safe, IInv', NEW o \in Ops, Continue(o)
  PROVE  Safe'
<1>1. CASE ResumeLoad(o)
  <2>1. loadedId \in {a, None}
    BY Parts
  <2> QED BY <1>1, <2>1, ProceedSafe, LoadBeginsSafe
<1> QED BY <1>1, ResumeSaveSafe, ResumeFlushSafe DEF Continue

LEMMA AnswerSafe ==
  ASSUME NEW a, Ids = {a}, Safe, IInv', NEW o \in Ops, HandleAnswer(o)
  PROVE  Safe'
<1>1. CASE Mutated(o, "mutate")
  <2>1. "mutate" \in {"mutate", "mutateOnly"}
    OBVIOUS
  <2> QED BY <1>1, <2>1, MutatedSafe
<1>2. CASE Mutated(o, "mutateOnly")
  <2>1. "mutateOnly" \in {"mutate", "mutateOnly"}
    OBVIOUS
  <2>2. CASE Answered.ok
    BY <1>2, <2>2, MutatedLastSafe
  <2>3. CASE ~Answered.ok
    BY <1>2, <2>1, <2>3, MutatedSafe
  <2> QED BY <2>2, <2>3
<1>3. CASE BeforeArrives(o)
  BY <1>3, BeforeSafe, BeforeLastSafe
<1>4. CASE DurablyMutated(o)
  BY <1>4, DurableSafe, DurableRefusedSafe
<1>5. ~Deleted(o) /\ ~ContentChanged(o)
  BY NeverReached DEF Deleted, ContentChanged, Answer
<1> QED BY <1>1, <1>2, <1>3, <1>4, <1>5, ExportedSafe, SummarisedSafe, CreatedSafe, ImportedSafe,
           LoadedSafe, DetailedSafe, RestoredSafe, UndoneSafe DEF HandleAnswer

LEMMA TransactSafe ==
  ASSUME NEW a, Ids = {a}, Undisturbed, Safe, IInv', NEW o \in Ops, Transact(o)
  PROVE  Safe'
<1>1. ~Erased(o) /\ ~RecordsRead(o)
  BY NeverReached DEF Erased, RecordsRead, Completes
<1> QED BY <1>1, PutDoneSafe, PutFailsSafe, GotSafe DEF Transact

LEMMA UserSafe ==
  ASSUME NEW a, Ids = {a}, Undisturbed, Safe, IInv', NEW o \in Ops, User(o)
  PROVE  Safe'
<1>1. ~Reload(o) /\ \A id \in Ids : ~RemoveCharacter(o, id)
  BY DEF Reload, RemoveCharacter, Start, Undisturbed
<1>2. CASE Edit(o, "mutate") \/ Edit(o, "durable")
  <2>1. PICK kind \in {"mutate", "durable"} : Edit(o, kind)
    BY <1>2
  <2> QED BY <2>1, EditSafe
<1> QED BY <1>1, <1>2, OpenSafe, SaveSafe, UndoSafe, FlushSafe, ToggleSafe DEF User

LEMMA StillSafe ==
  ASSUME NEW a, Ids = {a}, Safe, IInv', UNCHANGED vars
  PROVE  Safe'
<1>1. /\ engine' = engine /\ worker' = worker /\ inbox' = inbox /\ store' = store /\ disk' = disk
      /\ loadedId' = loadedId /\ loading' = loading /\ dirty' = dirty /\ sequence' = sequence /\ timers' = timers
      /\ undo' = undo /\ op' = op /\ latest' = latest
  BY DEF vars
<1>2. Pipeline' = Pipeline
  BY <1>1 DEF Pipeline
<1>3. Pending' /\ Writing' /\ Ways'
  BY <1>1, <1>2, Parts DEF Pending, Writing, Ways
<1>4. Underway' <=> Underway
  BY <1>1 DEF Underway, ChangeIn
<1>5. Unopened(a)' /\ Opened(a)' /\ InOrder(a)'
  BY <1>1, <1>4, Parts DEF Unopened, Opened, InOrder
<1>6. \A s, t \in Ops : /\ Stale(a, s)' <=> Stale(a, s)
                        /\ Decisive(a, t)' <=> Decisive(a, t)
                        /\ Ahead(s, t)' <=> Ahead(s, t)
  BY <1>1, <1>2, <1>4 DEF Stale, Decisive, Ahead
<1>7. CleanStored(a)' /\ LastWritten(a)'
  BY <1>1, <1>4, <1>6, Parts DEF CleanStored, LastWritten
<1>8. store'[a] >= 1
  BY <1>1, Parts
<1> QED BY <1>3, <1>5, <1>7, <1>8, TwoQueues DEF Safe, Answerable, Pending, Writing

LEMMA SafeStep ==
  ASSUME NEW a, Ids = {a}, Undisturbed, Safe, [Next]_vars
  PROVE  Safe'
<1>1. IInv'
  <2>1. IInv
    BY DEF Safe
  <2> QED BY <2>1, Inductive
<1>2. ASSUME NEW o \in Ops, Continue(o) \/ HandleAnswer(o) \/ Transact(o) \/ User(o)
      PROVE  Safe'
  BY <1>1, <1>2, ContinueSafe, AnswerSafe, TransactSafe, UserSafe
<1>3. ASSUME NEW o \in Ops, NEW id \in Ids, TimerFires(o, id)
      PROVE  Safe'
  BY <1>1, <1>3, TimerSafe
<1>4. CASE Work
  <2>1. loadedId \in {a, None}
    BY Parts
  <2> QED BY <1>1, <1>4, <2>1, WorkLoadedSafe, WorkAsleepSafe
<1>5. ~Discard
  BY DEF Discard, Undisturbed
<1>6. CASE UNCHANGED vars
  BY <1>1, <1>6, StillSafe
<1> QED BY <1>2, <1>3, <1>4, <1>5, <1>6 DEF Next

LEMMA InitSafe ==
  ASSUME NEW a, Ids = {a}, Init
  PROVE  Safe
<1>1. /\ IInv /\ engine = [id \in Ids |-> NoDoc] /\ store = [id \in Ids |-> 1]
      /\ latest = [id \in Ids |-> NoDoc]
      /\ worker = [active |-> None, line |-> <<>>] /\ inbox = <<>> /\ disk = <<>>
      /\ loadedId = None /\ dirty = [id \in Ids |-> 0] /\ sequence = 0
      /\ timers = [id \in Ids |-> "off"] /\ undo = [id \in Ids |-> <<>>]
      /\ op = [o \in Ops |-> Free]
  BY InitTypes DEF Init
<1>2. \A o \in Ops : /\ op[o].kind = None /\ op[o].pc = "free" /\ op[o].gen = 0 /\ op[o].before = NoDoc
  BY <1>1 DEF Free
<1>3. Posts(worker) = <<>> /\ \A r : ~In(Posts(worker), r)
  <2>1. Posts(worker) = <<>>
    BY <1>1 DEF Posts
  <2> QED BY <2>1 DEF In
<1>4. DOMAIN Pipeline = {}
  <2>1. version \in Nat /\ WorkerType(worker, version) /\ inbox \in Seq(Responses(version))
    BY <1>1, EngineSide
  <2>2. /\ Pipe(inbox, worker) \in Seq(Ops \X Methods)
        /\ Len(Pipe(inbox, worker)) = Len(inbox) + Len(Posts(worker))
    BY <2>1, PipeParts
  <2>3. Len(inbox) = 0 /\ Len(Posts(worker)) = 0
    BY <1>1, <1>3
  <2>4. PICK T : T = Ops \X Methods
    OBVIOUS
  <2>5. PICK s \in Seq(T) : s = Pipe(inbox, worker)
    BY <2>2, <2>4
  <2>6. Len(s) = 0
    BY <2>2, <2>3, <2>5
  <2>7. DOMAIN s = {}
    BY ONLY <2>6, s \in Seq(T)
  <2> QED BY <2>5, <2>7 DEF Pipeline
<1>5. Pending
  BY <1>2, <1>4 DEF Pending, Distinct, In, Awaits
<1>6. Writing
  BY <1>1, <1>2 DEF Writing, Distinct, In, OnDisk
<1>7. Ways
  BY <1>1, <1>2, NoneIsNoKind DEF Ways, OnItsWay, Changers
<1>8. a \in Ids /\ a # None
  BY SessionAssumption
<1>9. Unopened(a)
  BY <1>1, <1>2, <1>3, <1>8, NoneIsNoKind DEF Unopened, Loads, LoadPoints, Blank, NoDoc
<1>10. Opened(a) /\ CleanStored(a) /\ LastWritten(a) /\ InOrder(a)
  BY <1>1, <1>8 DEF Opened, CleanStored, LastWritten, InOrder
<1>11. store[a] >= 1
  BY <1>1, <1>8
<1> QED BY <1>1, <1>5, <1>6, <1>7, <1>9, <1>10, <1>11, TwoQueues DEF Safe

LEMMA AlwaysSafe ==
  ASSUME OneCharacter, Undisturbed
  PROVE  Spec => []Safe
<1>1. Init => Safe
  BY InitSafe DEF OneCharacter
<1>2. Safe /\ [Next]_vars => Safe'
  BY SafeStep DEF OneCharacter
<1> QED BY <1>1, <1>2, PTL DEF Spec

\* A change is of an edit, or of an undo, of the character.
LEMMA UnderwayEdits ==
  ASSUME NEW a, Ids = {a}, Safe, loadedId = a, Underway
  PROVE  Editing(a)
<1>1. PICK o \in Ops : op[o].kind \in Changers
  <2>1. CASE ChangeIn(inbox)
    <3>1. PICK k \in DOMAIN inbox : Change(inbox[k])
      BY <2>1 DEF ChangeIn
    <3>2. inbox[k].op \in Ops /\ inbox[k].method \in {"importCharacterXml", "mutation"}
          /\ Awaits(op[inbox[k].op], inbox[k].method) /\ inbox[k].method \in Methods
      BY <3>1, InboxAwaited DEF Change
    <3>3. In(Pipeline, <<inbox[k].op, inbox[k].method>>)
      BY <3>2, Parts DEF Pending
    <3> QED BY <3>2, <3>3, ChangeOf
  <2>2. CASE \E o \in Ops : Keeping(op[o])
    <3>1. PICK o \in Ops : Keeping(op[o]) /\ OnItsWay(op[o])
      BY <2>2, Parts DEF Ways
    <3>2. op[o].kind \in Changers
      BY <3>1 DEF Keeping, OnItsWay, Changers, LoadPoints, SavePoints
    <3> QED BY <3>2
  <2> QED BY <2>1, <2>2 DEF Underway
<1>2. op[o].id = a
  BY <1>1, Parts, NoneIsNoKind DEF Ways, OnItsWay, Changers
<1> QED BY <1>1, <1>2 DEF Editing, Changers

\* What the marks say of a character nobody is editing.
LEMMA Settled ==
  ASSUME NEW a, Ids = {a}, Safe, ~Touching(a)
  PROVE  /\ loadedId = a => engine[a] \notin {NoDoc, Blank}
         /\ loadedId = a /\ dirty[a] = 0 => store[a] = engine[a]
         /\ dirty[a] # 0 => engine[a] = latest[a]
         /\ dirty[a] = 0 => latest[a] \in {NoDoc, store[a]}
<1>1. /\ loadedId \in {a, None} /\ Unopened(a) /\ Opened(a) /\ CleanStored(a)
  BY Parts
<1>2. loadedId = a => ~Underway
  BY UnderwayEdits DEF Touching
<1>3. loadedId = a => engine[a] >= 1 /\ latest[a] \in {NoDoc, engine[a]} /\ (dirty[a] # 0 => latest[a] # NoDoc)
  BY <1>1 DEF Opened
<1>4. loadedId = None => dirty[a] = 0 /\ latest[a] = NoDoc
  BY <1>1 DEF Unopened
<1>5. loadedId = a /\ dirty[a] = 0 => store[a] = engine[a]
  BY <1>1, <1>2 DEF CleanStored
<1>6. loadedId = a => engine[a] \notin {NoDoc, Blank}
  BY <1>3 DEF NoDoc, Blank
<1> QED BY <1>1, <1>3, <1>4, <1>5, <1>6

\* What the page shows as saved is saved: when the loaded character is not marked
\* and no edit of it is under way, the stored document is the engine's, whatever
\* saves, flushes, timers and refused writes overlapped (markCleanIfCurrent
\* compares the generation read before the export). Of one character that is
\* neither removed, nor given up, nor reloaded, and whose durable writes succeed.
THEOREM CleanIsStored ==
  ASSUME OneCharacter, Undisturbed
  PROVE  Spec => []CleanMeansStored
<1>1. Safe => CleanMeansStored
  BY Settled DEF OneCharacter, CleanMeansStored
<1> QED BY <1>1, AlwaysSafe, PTL

\* No unsaved edit is lost from the engine: a marked character's copy is the one
\* the last edit or undo made, and no load puts an older document in its place
\* (ensureLoaded and the load in progress), under the same conditions.
THEOREM UnsavedIsKept ==
  ASSUME OneCharacter, Undisturbed
  PROVE  Spec => []UnsavedEditKept
<1>1. Safe => UnsavedEditKept
  BY Settled DEF OneCharacter, UnsavedEditKept
<1> QED BY <1>1, AlwaysSafe, PTL

\* The page never takes a missing or a blank copy for the loaded character:
\* loadedId is set once the stored document has been imported and its answer
\* handled, under the same conditions.
THEOREM LoadedWhole ==
  ASSUME OneCharacter, Undisturbed
  PROVE  Spec => []LoadedIsWhole
<1>1. Safe => LoadedIsWhole
  BY Settled DEF OneCharacter, LoadedIsWhole
<1> QED BY <1>1, AlwaysSafe, PTL

\* The last edit of a character without unsaved changes is in the store: no mark
\* is taken away before the document it stands for is written, nor is that
\* document overwritten by an older one, under the same conditions.
THEOREM CleanKeepsEdit ==
  ASSUME OneCharacter, Undisturbed
  PROVE  Spec => []CleanKeepsLastEdit
<1>1. Safe => CleanKeepsLastEdit
  BY Settled DEF OneCharacter, CleanKeepsLastEdit
<1> QED BY <1>1, AlwaysSafe, PTL
=============================================================================
