------------------------- MODULE EngineQueueProofs -------------------------
(* What dispatch()'s insertion does to a waiting line of any requests.       *)
EXTENDS EngineQueue, SequenceTheorems, WellFoundedInduction, TLAPS

LEMMA LeastMember ==
  ASSUME NEW T, T \subseteq Nat, T # {}
  PROVE  \E x \in T : \A y \in T : x <= y
<1>1. PICK x \in T : \A y \in T : ~ (<<y, x>> \in OpToRel(<, Nat))
  BY NatLessThanWellFounded, WFMin
<1>2. \A y \in T : <<y, x>> \in Nat \X Nat
  OBVIOUS
<1>3. \A y \in T : ~ (y < x)
  BY <1>1, <1>2, Zenon DEF OpToRel
<1> QED BY <1>3

\* priority is a natural number of every kind of work.
LEMMA PriorityType == \A kind \in QueueKind : priority(kind) \in 0..2
  BY DEF priority, QueueKind

\* The members of a sequence put together from two parts and one in between.
LEMMA ThreeParts ==
  ASSUME NEW T, NEW a \in Seq(T), NEW e \in T, NEW b \in Seq(T)
  PROVE  LET r == a \o <<e>> \o b
         IN  /\ r \in Seq(T)
             /\ Len(r) = Len(a) + 1 + Len(b)
             /\ \A k \in 1..Len(a) : r[k] = a[k]
             /\ r[Len(a) + 1] = e
             /\ \A k \in (Len(a) + 2)..(Len(a) + 1 + Len(b)) : r[k] = b[k - Len(a) - 1]
<1> DEFINE m == a \o <<e>>
<1>1. /\ m \in Seq(T) /\ Len(m) = Len(a) + 1
      /\ \A k \in 1..Len(a) : m[k] = a[k]
      /\ m[Len(a) + 1] = e
  OBVIOUS
<1> HIDE DEF m
<1>2. /\ m \o b \in Seq(T) /\ Len(m \o b) = Len(m) + Len(b)
      /\ \A k \in 1..Len(m) : (m \o b)[k] = m[k]
      /\ \A k \in (Len(m) + 1)..(Len(m) + Len(b)) : (m \o b)[k] = b[k - Len(m)]
  BY <1>1
<1> QED BY <1>1, <1>2 DEF m

\* The place of a request: everything before it is at least as urgent, and what
\* is there is less urgent.
LEMMA InsertionPlace ==
  ASSUME NEW n \in Nat, NEW u, DOMAIN u = 1..n, Len(u) = n, NEW p
  PROVE  LET i == Insertion(u, p)
         IN  /\ i \in 1..(n + 1)
             /\ \A k \in 1..(i - 1) : ~(u[k] > p)
             /\ i <= n => u[i] > p
<1> DEFINE i == Insertion(u, p)
           less == {k \in DOMAIN u : u[k] > p}
<1> HIDE DEF i
<1>1. CASE less = {}
  BY <1>1 DEF Insertion, i
<1>2. CASE less # {}
  <2>1. \E k \in less : \A j \in less : k <= j
    <3>1. less \subseteq Nat
      OBVIOUS
    <3> QED BY <1>2, <3>1, LeastMember
  <2>2. i = CHOOSE k \in less : \A j \in less : k <= j
    BY <1>2 DEF Insertion, i
  <2>3. i \in less /\ \A j \in less : i <= j
    BY <2>1, <2>2
  <2> QED BY <2>3 DEF i
<1> QED BY <1>1, <1>2 DEF i

\* Line r is q with e put in at place i.
PutIn(T, q, e, i, r) ==
  /\ r \in Seq(T)
  /\ Len(r) = Len(q) + 1
  /\ \A k \in 1..(i - 1) : r[k] = q[k]
  /\ r[i] = e
  /\ \A k \in i..Len(q) : r[k + 1] = q[k]

LEMMA EnqueuedLine ==
  ASSUME NEW T, NEW q \in Seq(T), NEW e \in T,
         NEW u, DOMAIN u = 1..Len(q), Len(u) = Len(q), NEW p
  PROVE  PutIn(T, q, e, Insertion(u, p), Enqueue(q, e, u, p))
<1> DEFINE i == Insertion(u, p)
           r == Enqueue(q, e, u, p)
           a == SubSeq(q, 1, i - 1)
           b == SubSeq(q, i, Len(q))
<1>1. i \in 1..(Len(q) + 1) /\ Len(q) \in Nat
  BY InsertionPlace
<1>2. r = a \o <<e>> \o b
  BY DEF Enqueue, InsertAt
<1> HIDE DEF i, r
<1>3. /\ a \in Seq(T) /\ Len(a) = i - 1
      /\ b \in Seq(T) /\ Len(b) = Len(q) - i + 1
      /\ \A k \in 1..(i - 1) : a[k] = q[k]
      /\ \A k \in 1..(Len(q) - i + 1) : b[k] = q[i + k - 1]
  BY <1>1
<1> HIDE DEF a, b
<1>4. /\ r \in Seq(T)
      /\ Len(r) = Len(a) + 1 + Len(b)
      /\ \A k \in 1..Len(a) : r[k] = a[k]
      /\ r[Len(a) + 1] = e
      /\ \A k \in (Len(a) + 2)..(Len(a) + 1 + Len(b)) : r[k] = b[k - Len(a) - 1]
  <2>1. LET s == a \o <<e>> \o b
        IN  /\ s \in Seq(T)
            /\ Len(s) = Len(a) + 1 + Len(b)
            /\ \A k \in 1..Len(a) : s[k] = a[k]
            /\ s[Len(a) + 1] = e
            /\ \A k \in (Len(a) + 2)..(Len(a) + 1 + Len(b)) : s[k] = b[k - Len(a) - 1]
    <3>1. a \in Seq(T) /\ b \in Seq(T) /\ e \in T
      BY <1>3
    <3> QED BY <3>1, ThreeParts
  <2> QED BY <1>2, <2>1, Zenon
<1>5. \A k \in i..Len(q) : r[k + 1] = q[k]
  <2> TAKE k \in i..Len(q)
  <2>1. k + 1 \in (Len(a) + 2)..(Len(a) + 1 + Len(b)) /\ (k + 1) - Len(a) - 1 = k - i + 1
    BY <1>1, <1>3
  <2>2. k - i + 1 \in 1..(Len(q) - i + 1) /\ i + (k - i + 1) - 1 = k
    BY <1>1
  <2> QED BY <1>3, <1>4, <2>1, <2>2
<1>6. /\ Len(r) = Len(q) + 1
      /\ \A k \in 1..(i - 1) : r[k] = q[k]
      /\ r[i] = e
  <2>1. Len(a) = i - 1 /\ Len(a) + 1 = i /\ Len(a) + 1 + Len(b) = Len(q) + 1
    BY <1>1, <1>3
  <2>2. Len(r) = Len(q) + 1 /\ r[i] = e
    BY <1>4, <2>1
  <2>3. \A k \in 1..(i - 1) : r[k] = q[k]
    BY <1>3, <1>4, <2>1
  <2> QED BY <2>2, <2>3
<1> QED BY <1>4, <1>5, <1>6 DEF i, r, PutIn
=============================================================================
