-------------------------- MODULE DispatcherProofs --------------------------
(* Proofs about Dispatcher for any methods, any kinds, any number of calls.  *)
EXTENDS Dispatcher, EngineQueueProofs

USE MethodsAssumption

\* The insertion point of a request.
Place(q, id) == Insertion(Urgencies(q), Urgency(id))

\* Queued puts the request at its insertion point, keeps the order of the rest,
\* and everything before that point is at least as urgent, the rest less.
LEMMA EnqueueShape ==
  ASSUME NEW n \in Nat, NEW q \in Seq(1..n)
  PROVE  LET i == Place(q, n + 1)
             r == Queued(q, n + 1)
         IN  /\ i \in 1..(Len(q) + 1)
             /\ \A k \in 1..(i - 1) : ~(Urgency(q[k]) > Urgency(n + 1))
             /\ i <= Len(q) => Urgency(q[i]) > Urgency(n + 1)
             /\ r \in Seq(1..(n + 1))
             /\ Len(r) = Len(q) + 1
             /\ \A k \in 1..(i - 1) : r[k] = q[k]
             /\ r[i] = n + 1
             /\ \A k \in i..Len(q) : r[k + 1] = q[k]
<1> DEFINE u == Urgencies(q)
<1>1. /\ DOMAIN u = 1..Len(q) /\ Len(u) = Len(q)
      /\ \A k \in 1..Len(q) : u[k] = Urgency(q[k])
  BY DEF Urgencies
<1>2. q \in Seq(1..(n + 1)) /\ n + 1 \in 1..(n + 1) /\ Len(q) \in Nat
  OBVIOUS
<1> HIDE DEF u
<1>3. LET i == Insertion(u, Urgency(n + 1))
      IN  /\ i \in 1..(Len(q) + 1)
          /\ \A k \in 1..(i - 1) : ~(u[k] > Urgency(n + 1))
          /\ i <= Len(q) => u[i] > Urgency(n + 1)
  BY <1>1, <1>2, InsertionPlace
<1>4. LET i == Insertion(u, Urgency(n + 1))
          r == Enqueue(q, n + 1, u, Urgency(n + 1))
      IN  /\ r \in Seq(1..(n + 1))
          /\ Len(r) = Len(q) + 1
          /\ \A k \in 1..(i - 1) : r[k] = q[k]
          /\ r[i] = n + 1
          /\ \A k \in i..Len(q) : r[k + 1] = q[k]
  <2> DEFINE T == 1..(n + 1)
             e == n + 1
             w == Urgency(e)
  <2>1. q \in Seq(T) /\ e \in T
    BY <1>2
  <2> HIDE DEF T, e, w
  <2>2. PutIn(T, q, e, Insertion(u, w), Enqueue(q, e, u, w))
    BY <1>1, <2>1, EnqueuedLine
  <2> QED BY <2>2 DEF T, e, w, PutIn
<1> DEFINE i == Insertion(u, Urgency(n + 1))
           r == Enqueue(q, n + 1, u, Urgency(n + 1))
<1>5. i = Place(q, n + 1) /\ r = Queued(q, n + 1)
  BY DEF u, Place, Queued
<1> HIDE DEF i, r
<1>6. /\ i \in 1..(Len(q) + 1)
      /\ \A k \in 1..(i - 1) : ~(Urgency(q[k]) > Urgency(n + 1))
      /\ i <= Len(q) => Urgency(q[i]) > Urgency(n + 1)
  BY <1>1, <1>2, <1>3 DEF i
<1>7. /\ r \in Seq(1..(n + 1))
      /\ Len(r) = Len(q) + 1
      /\ \A k \in 1..(i - 1) : r[k] = q[k]
      /\ r[i] = n + 1
      /\ \A k \in i..Len(q) : r[k + 1] = q[k]
  BY <1>4 DEF i, r
<1> QED BY <1>5, <1>6, <1>7

----------------------------------------------------------------------------
\* The inductive invariant. It is stated of a line q, a running request and
\* the answers posted, so that the steps inside one turn of the worker can be
\* taken one after the other; n is the number of requests received.

TypedParts(q, running, posted, n) ==
  /\ n \in 0..Len(calls)
  /\ q \in Seq(1..n)
  /\ running \in 0..n
  /\ posted \in Seq(1..n)

OnePlace(q, running, posted, n) ==
  /\ \A k, l \in DOMAIN posted : posted[k] = posted[l] => k = l
  /\ \A k, l \in DOMAIN q : q[k] = q[l] => k = l
  /\ \A k \in DOMAIN q, l \in DOMAIN posted : q[k] # posted[l]
  /\ \A k \in DOMAIN q : q[k] # running
  /\ \A l \in DOMAIN posted : posted[l] # running
  /\ \A id \in 1..n : \/ \E l \in DOMAIN posted : posted[l] = id
                      \/ id = running
                      \/ \E k \in DOMAIN q : q[k] = id

\* The line is ordered by urgency, then by age.
Sorted(q) ==
  \A k, l \in DOMAIN q : k < l =>
    \/ Urgency(q[k]) < Urgency(q[l])
    \/ Urgency(q[k]) = Urgency(q[l]) /\ q[k] < q[l]

\* An older request that still waits is less urgent than the running one.
Leads(q, running) ==
  running # Idle =>
    \A k \in DOMAIN q : q[k] < running => Urgency(running) < Urgency(q[k])

Served(posted) ==
  \A k \in DOMAIN posted : \A older \in 1..(posted[k] - 1) :
    \/ ~IsKnown(posted[k])
    \/ \E l \in 1..(k - 1) : posted[l] = older
    \/ Urgency(posted[k]) < Urgency(older)

Consistent(q, running, posted, n) ==
  /\ TypedParts(q, running, posted, n)
  /\ OnePlace(q, running, posted, n)
  /\ Sorted(q)
  /\ Leads(q, running)
  /\ Served(posted)

IInv ==
  /\ TypeOK
  /\ Consistent(queue, active, answers, received)
  /\ PendingIsUnsettled
  /\ NeverIdleWhileWaiting

LEMMA UrgencyType ==
  ASSUME calls \in Seq(Methods), NEW id \in Requests
  PROVE  Urgency(id) \in 0..2
  BY PriorityType DEF Urgency, Requests

\* A new request takes its place in the line.
LEMMA EnqueueConsistent ==
  ASSUME calls \in Seq(Methods), NEW q, NEW running, NEW posted, NEW n,
         Consistent(q, running, posted, n), n < Len(calls)
  PROVE  Consistent(Queued(q, n + 1), running, posted, n + 1)
<1> DEFINE i == Place(q, n + 1)
           r == Queued(q, n + 1)
<1>1. /\ n \in Nat /\ n + 1 \in 1..Len(calls) /\ q \in Seq(1..n)
      /\ running \in 0..n /\ posted \in Seq(1..n)
  BY DEF Consistent, TypedParts
<1>2. /\ i \in 1..(Len(q) + 1)
      /\ \A k \in 1..(i - 1) : ~(Urgency(q[k]) > Urgency(n + 1))
      /\ i <= Len(q) => Urgency(q[i]) > Urgency(n + 1)
      /\ r \in Seq(1..(n + 1))
      /\ Len(r) = Len(q) + 1
      /\ \A k \in 1..(i - 1) : r[k] = q[k]
      /\ r[i] = n + 1
      /\ \A k \in i..Len(q) : r[k + 1] = q[k]
  BY <1>1, EnqueueShape
<1> HIDE DEF i, r
<1>3. Len(q) \in Nat /\ DOMAIN q = 1..Len(q) /\ DOMAIN r = 1..(Len(q) + 1)
  BY <1>1, <1>2
<1>4. \A k \in DOMAIN q : q[k] \in 1..n
  BY <1>1
<1>5. \A k \in DOMAIN r : \/ k < i /\ k \in DOMAIN q /\ r[k] = q[k]
                          \/ k = i /\ r[k] = n + 1
                          \/ k > i /\ k - 1 \in DOMAIN q /\ r[k] = q[k - 1]
  <2> TAKE k \in DOMAIN r
  <2>1. CASE k > i
    <3>1. k - 1 \in i..Len(q) /\ (k - 1) + 1 = k
      BY <1>2, <1>3, <2>1
    <3> QED BY <1>2, <1>3, <3>1, <2>1
  <2> QED BY <1>2, <1>3, <2>1
<1>6. TypedParts(r, running, posted, n + 1)
  <2>1. posted \in Seq(1..(n + 1))
    BY <1>1
  <2> QED BY <1>1, <1>2, <2>1 DEF TypedParts
<1>7. OnePlace(r, running, posted, n + 1)
  <2>1. ASSUME NEW k \in DOMAIN r, NEW l \in DOMAIN r, r[k] = r[l]
        PROVE  k = l
    <3>1. \A x, y \in DOMAIN q : q[x] = q[y] => x = y
      BY DEF Consistent, OnePlace
    <3>2. \A x \in DOMAIN q : q[x] # n + 1
      BY <1>1, <1>4
    <3>3. CASE r[k] = n + 1
      BY <1>5, <2>1, <3>2, <3>3
    <3>4. CASE r[k] # n + 1
      BY <1>2, <1>3, <1>5, <2>1, <3>1, <3>4
    <3> QED BY <3>3, <3>4
  <2>2. ASSUME NEW k \in DOMAIN r
        PROVE  r[k] # running /\ \A l \in DOMAIN posted : r[k] # posted[l]
    <3>1. CASE r[k] = n + 1
      <4>1. \A l \in DOMAIN posted : posted[l] \in 1..n
        BY <1>1
      <4> QED BY <3>1, <4>1, <1>1
    <3>2. CASE \E m \in DOMAIN q : r[k] = q[m]
      BY <3>2 DEF Consistent, OnePlace
    <3> QED BY <1>5, <3>1, <3>2
  <2>4. \A k \in DOMAIN q : \E m \in DOMAIN r : r[m] = q[k]
    <3> TAKE k \in DOMAIN q
    <3>1. CASE k < i
      BY <1>2, <1>3, <3>1
    <3>2. CASE k >= i
      BY <1>2, <1>3, <3>2
    <3> QED BY <1>2, <1>3, <3>1, <3>2
  <2>5. \A id \in 1..(n + 1) : \/ \E l \in DOMAIN posted : posted[l] = id
                               \/ id = running
                               \/ \E k \in DOMAIN r : r[k] = id
    <3> TAKE id \in 1..(n + 1)
    <3>1. CASE id = n + 1
      BY <1>2, <1>3, <3>1
    <3>2. CASE id # n + 1
      <4>1. id \in 1..n
        BY <1>1, <3>2
      <4> QED BY <4>1, <2>4 DEF Consistent, OnePlace
    <3> QED BY <3>1, <3>2
  <2>6. \A l \in DOMAIN posted : posted[l] # running
    BY DEF Consistent, OnePlace
  <2>7. \A k, l \in DOMAIN posted : posted[k] = posted[l] => k = l
    BY DEF Consistent, OnePlace
  <2> QED BY <2>1, <2>2, <2>5, <2>6, <2>7 DEF OnePlace
<1>8. Sorted(r)
  <2>1. \A id \in 1..(n + 1) : Urgency(id) \in Int
    <3> TAKE id \in 1..(n + 1)
    <3>1. id \in Requests
      BY <1>1 DEF Requests
    <3> QED BY <3>1, UrgencyType
  <2>2. \A k, l \in DOMAIN q : k < l =>
          \/ Urgency(q[k]) < Urgency(q[l])
          \/ Urgency(q[k]) = Urgency(q[l]) /\ q[k] < q[l]
    BY DEF Consistent, Sorted
  <2>3. \A k \in DOMAIN q : k >= i => Urgency(n + 1) < Urgency(q[k])
    <3> TAKE k \in DOMAIN q
    <3> HAVE k >= i
    <3>1. i \in DOMAIN q /\ Urgency(n + 1) < Urgency(q[i])
      <4>1. i \in DOMAIN q /\ i <= Len(q)
        BY <1>2, <1>3
      <4>2. q[i] \in 1..(n + 1) /\ n + 1 \in 1..(n + 1)
        BY <4>1, <1>4, <1>1
      <4>3. Urgency(q[i]) \in Int /\ Urgency(n + 1) \in Int
        BY <4>2, <2>1
      <4> QED BY <4>1, <4>3, <1>2
    <3>2. CASE k = i
      BY <3>1, <3>2
    <3>3. CASE k > i
      <4>1. Urgency(q[i]) <= Urgency(q[k])
        <5>1. q[i] \in 1..(n + 1) /\ q[k] \in 1..(n + 1)
          BY <3>1, <1>4, <1>1
        <5>2. i \in DOMAIN q /\ k \in DOMAIN q /\ i < k
          BY <3>1, <3>3
        <5>3. \/ Urgency(q[i]) < Urgency(q[k])
              \/ Urgency(q[i]) = Urgency(q[k]) /\ q[i] < q[k]
          BY <5>2, <2>2
        <5>4. Urgency(q[i]) \in Int /\ Urgency(q[k]) \in Int
          BY <5>1, <2>1
        <5> QED BY <5>3, <5>4
      <4> QED BY <4>1, <3>1, <2>1, <1>4, <1>1
    <3> QED BY <3>2, <3>3, <1>2, <1>3
  <2>4. \A k \in DOMAIN q : k < i => Urgency(q[k]) <= Urgency(n + 1)
    BY <1>1, <1>2, <1>3, <1>4, <2>1
  <2> SUFFICES ASSUME NEW k \in DOMAIN r, NEW l \in DOMAIN r, k < l
               PROVE  \/ Urgency(r[k]) < Urgency(r[l])
                      \/ Urgency(r[k]) = Urgency(r[l]) /\ r[k] < r[l]
    BY DEF Sorted
  <2>5. CASE k = i
    BY <1>2, <1>3, <1>5, <2>3, <2>5
  <2>6. CASE l = i
    <3>1. k < i /\ k \in DOMAIN q /\ r[k] = q[k] /\ r[l] = n + 1
      BY <1>2, <1>3, <1>5, <2>6
    <3>2. r[k] < r[l] /\ Urgency(r[k]) <= Urgency(r[l])
      BY <3>1, <2>4, <1>4, <1>1
    <3> QED BY <3>1, <3>2, <2>1, <1>1, <1>4
  <2>7. CASE k # i /\ l # i
    BY <1>2, <1>3, <1>5, <2>2, <2>7
  <2> QED BY <2>5, <2>6, <2>7
<1>9. Leads(r, running)
  <2> SUFFICES ASSUME running # Idle, NEW k \in DOMAIN r, r[k] < running
               PROVE  Urgency(running) < Urgency(r[k])
    BY DEF Leads
  <2>1. r[k] # n + 1
    BY <1>1
  <2>2. PICK m \in DOMAIN q : r[k] = q[m]
    BY <1>5, <2>1
  <2> QED BY <2>2 DEF Consistent, Leads
<1> QED BY <1>6, <1>7, <1>8, <1>9 DEF Consistent, r

\* run() moves the front of the line to the answers and to the handler.
LEMMA RunConsistent ==
  ASSUME NEW q, NEW running, NEW posted, NEW n,
         Consistent(q, running, posted, n),
         Run(q, running, posted)
  PROVE  /\ Consistent(queue', active', answers', n)
         /\ active' = Idle => queue' = <<>>
         /\ Len(answers') >= Len(posted)
         /\ \A i \in 1..Len(posted) : answers'[i] = posted[i]
<1>1. CASE running # Idle
  <2>1. posted \in Seq(1..n)
    BY DEF Consistent, TypedParts
  <2> QED BY <1>1, <2>1 DEF Run
<1>2. CASE running = Idle
  <2> DEFINE k == Stop(q)
             A == SubSeq(q, 1, k - 1)
             B == SubSeq(q, k + 1, Len(q))
             P == posted \o A
  <2>1. /\ n \in Nat /\ q \in Seq(1..n) /\ posted \in Seq(1..n)
        /\ n \in 0..Len(calls)
    BY DEF Consistent, TypedParts
  <2>2. k \in 1..(Len(q) + 1)
    <3> DEFINE handled == {i \in DOMAIN q : calls[q[i]] \in Handled}
    <3>1. CASE handled = {}
      BY <2>1, <3>1 DEF Stop
    <3>2. CASE handled # {}
      <4>1. handled \subseteq Nat
        BY <2>1
      <4>2. \E i \in handled : \A j \in handled : i <= j
        BY <3>2, <4>1, LeastMember
      <4>3. k = CHOOSE i \in handled : \A j \in handled : i <= j
        BY <3>2 DEF Stop
      <4>4. k \in handled
        BY <4>2, <4>3
      <4> QED BY <2>1, <4>4
    <3> QED BY <3>1, <3>2
  <2>3. /\ answers' = P
        /\ active' = (IF k \in DOMAIN q THEN q[k] ELSE Idle)
        /\ queue' = B
    BY <1>2 DEF Run
  <2> HIDE DEF k
  <2>4. /\ A \in Seq(1..n) /\ Len(A) = k - 1
        /\ \A i \in 1..(k - 1) : A[i] = q[i]
    BY <2>1, <2>2
  <2>5. /\ B \in Seq(1..n) /\ Len(B) = (IF k \in DOMAIN q THEN Len(q) - k ELSE 0)
        /\ \A i \in DOMAIN B : B[i] = q[k + i] /\ k + i \in DOMAIN q
    BY <2>1, <2>2
  <2> HIDE DEF A, B
  <2>6. /\ P \in Seq(1..n) /\ Len(P) = Len(posted) + k - 1
        /\ \A i \in 1..Len(posted) : P[i] = posted[i]
        /\ \A i \in (Len(posted) + 1)..(Len(posted) + k - 1) :
             P[i] = q[i - Len(posted)]
    <3>1. /\ P \in Seq(1..n) /\ Len(P) = Len(posted) + Len(A)
          /\ \A i \in 1..Len(posted) : P[i] = posted[i]
          /\ \A i \in (Len(posted) + 1)..(Len(posted) + Len(A)) :
               P[i] = A[i - Len(posted)]
      BY <2>1, <2>4
    <3> HIDE DEF P
    <3>2. Len(posted) \in Nat
      BY <2>1
    <3>3. \A i \in (Len(posted) + 1)..(Len(posted) + k - 1) : i - Len(posted) \in 1..(k - 1)
      BY <2>2, <3>2
    <3> QED BY <2>2, <2>4, <3>1, <3>2, <3>3
  <2> HIDE DEF P
  <2>7. TypedParts(queue', active', answers', n)
    BY <2>1, <2>2, <2>3, <2>5, <2>6 DEF TypedParts, Idle
  <2>8. Len(q) \in Nat /\ DOMAIN q = 1..Len(q) /\ Len(posted) \in Nat /\ DOMAIN posted = 1..Len(posted)
    BY <2>1
  \* Where each answer of P comes from.
  <2>9. ASSUME NEW i \in DOMAIN P
        PROVE  \/ i \in DOMAIN posted /\ P[i] = posted[i]
               \/ /\ i > Len(posted) /\ i - Len(posted) \in DOMAIN q
                  /\ i - Len(posted) < k /\ P[i] = q[i - Len(posted)]
    <3>1. i \in 1..(Len(posted) + k - 1)
      BY <2>2, <2>6, <2>8
    <3>2. CASE i <= Len(posted)
      BY <2>6, <2>8, <3>1, <3>2
    <3>3. CASE i > Len(posted)
      <4>1. i \in (Len(posted) + 1)..(Len(posted) + k - 1) /\ i - Len(posted) \in 1..(k - 1)
        BY <2>2, <2>8, <3>1, <3>3
      <4>2. i - Len(posted) \in DOMAIN q /\ i - Len(posted) < k
        BY <2>2, <2>8, <4>1
      <4> QED BY <2>6, <3>3, <4>1, <4>2
    <3> QED BY <2>8, <3>1, <3>2, <3>3
  \* Where each request goes.
  <2>10. ASSUME NEW m \in DOMAIN q
         PROVE  \/ m < k /\ Len(posted) + m \in DOMAIN P /\ P[Len(posted) + m] = q[m]
                \/ m = k /\ active' = q[m]
                \/ m > k /\ m - k \in DOMAIN B /\ B[m - k] = q[m]
    <3>1. CASE m < k
      <4>1. Len(posted) + m \in (Len(posted) + 1)..(Len(posted) + k - 1)
        BY <2>2, <2>8, <3>1
      <4>2. P[Len(posted) + m] = q[(Len(posted) + m) - Len(posted)]
        BY <4>1, <2>6
      <4>3. (Len(posted) + m) - Len(posted) = m
        BY <2>8
      <4>4. Len(posted) + m \in DOMAIN P
        BY <2>2, <2>6, <2>8, <3>1
      <4> QED BY <3>1, <4>2, <4>3, <4>4
    <3>2. CASE m = k
      BY <2>3, <3>2
    <3>3. CASE m > k
      <4>1. m - k \in DOMAIN B /\ k + (m - k) = m
        <5>1. k \in DOMAIN q /\ m - k \in 1..(Len(q) - k)
          BY <2>2, <2>8, <3>3
        <5>2. DOMAIN B = 1..(Len(q) - k)
          BY <2>5, <5>1
        <5> QED BY <5>1, <5>2, <2>2, <2>8
      <4>2. B[m - k] = q[k + (m - k)]
        BY <4>1, <2>5
      <4> QED BY <3>3, <4>1, <4>2
    <3> QED BY <3>1, <3>2, <3>3, <2>2, <2>8
  \* Where the members of the new line and the new running request were.
  <2>11. /\ \A i \in DOMAIN B : k + i \in DOMAIN q /\ B[i] = q[k + i] /\ k + i > k
         /\ active' # Idle => k \in DOMAIN q /\ active' = q[k]
         /\ \A i \in DOMAIN q : q[i] \in 1..n
         /\ \A i \in DOMAIN posted : posted[i] \in 1..n
    BY <2>1, <2>2, <2>3, <2>5
  <2>11a. \A i \in DOMAIN P : P[i] \in 1..n
    BY <2>9, <2>11
  <2>11b. \A id \in 1..n : \/ \E y \in DOMAIN posted : posted[y] = id
                          \/ \E x \in DOMAIN q : q[x] = id
    <3> TAKE id \in 1..n
    <3>1. id # running
      BY <1>2, <2>1 DEF Idle
    <3> QED BY <3>1 DEF Consistent, OnePlace
  <2>12. OnePlace(queue', active', answers', n)
    <3>1. /\ \A x, y \in DOMAIN posted : posted[x] = posted[y] => x = y
          /\ \A x, y \in DOMAIN q : q[x] = q[y] => x = y
          /\ \A x \in DOMAIN q, y \in DOMAIN posted : q[x] # posted[y]
      BY DEF Consistent, OnePlace
    <3>2. ASSUME NEW i \in DOMAIN P, NEW j \in DOMAIN P, P[i] = P[j]
          PROVE  i = j
      <4>1. i \in Int /\ j \in Int
        BY <2>6
      <4>2. CASE i \in DOMAIN posted /\ P[i] = posted[i]
        <5>1. CASE j \in DOMAIN posted /\ P[j] = posted[j]
          BY <3>1, <3>2, <4>2, <5>1
        <5>2. CASE j - Len(posted) \in DOMAIN q /\ P[j] = q[j - Len(posted)]
          BY <3>1, <3>2, <4>2, <5>2
        <5> QED BY <2>9, <5>1, <5>2
      <4>3. CASE i - Len(posted) \in DOMAIN q /\ P[i] = q[i - Len(posted)]
        <5>1. j - Len(posted) \in DOMAIN q /\ P[j] = q[j - Len(posted)]
          <6>1. CASE j \in DOMAIN posted /\ P[j] = posted[j]
            BY <3>1, <3>2, <4>3, <6>1
          <6> QED BY <2>9, <6>1
        <5>2. i - Len(posted) = j - Len(posted)
          BY <3>1, <3>2, <4>3, <5>1
        <5> QED BY <2>8, <4>1, <5>2
      <4> QED BY <2>9, <4>2, <4>3
    <3>3. ASSUME NEW i \in DOMAIN B, NEW j \in DOMAIN B, B[i] = B[j]
          PROVE  i = j
      <4>1. k + i = k + j
        BY <2>11, <3>1, <3>3
      <4> QED BY <2>2, <2>5, <4>1
    <3>4. ASSUME NEW i \in DOMAIN B, NEW j \in DOMAIN P
          PROVE  B[i] # P[j]
      <4>1. CASE j \in DOMAIN posted /\ P[j] = posted[j]
        BY <2>11, <3>1, <4>1
      <4>2. CASE /\ j - Len(posted) \in DOMAIN q /\ j - Len(posted) < k
                 /\ P[j] = q[j - Len(posted)]
        <5>1. k + i # j - Len(posted)
          BY <2>2, <2>8, <2>11, <4>2
        <5> QED BY <2>11, <3>1, <4>2, <5>1
      <4> QED BY <2>9, <4>1, <4>2
    <3>5. ASSUME NEW i \in DOMAIN B
          PROVE  B[i] # active'
      <4>1. CASE active' = Idle
        BY <2>1, <2>11, <4>1 DEF Idle
      <4>2. CASE active' # Idle
        <5>1. k + i # k
          BY <2>2, <2>8, <2>11
        <5> QED BY <2>11, <3>1, <4>2, <5>1
      <4> QED BY <4>1, <4>2
    <3>6. ASSUME NEW j \in DOMAIN P
          PROVE  P[j] # active'
      <4>1. CASE active' = Idle
        BY <2>1, <2>11a, <4>1 DEF Idle
      <4>2. CASE active' # Idle
        <5>1. k \in DOMAIN q /\ active' = q[k]
          BY <2>11, <4>2
        <5>2. CASE j \in DOMAIN posted /\ P[j] = posted[j]
          BY <3>1, <5>1, <5>2
        <5>3. CASE /\ j - Len(posted) \in DOMAIN q /\ j - Len(posted) < k
                   /\ P[j] = q[j - Len(posted)]
          <6>1. j - Len(posted) # k
            BY <2>2, <2>8, <5>3
          <6> QED BY <3>1, <5>1, <5>3, <6>1
        <5> QED BY <2>9, <5>2, <5>3
      <4> QED BY <4>1, <4>2
    <3>7. ASSUME NEW id \in 1..n
          PROVE  \/ \E l \in DOMAIN P : P[l] = id
                 \/ id = active'
                 \/ \E l \in DOMAIN B : B[l] = id
      <4>1. CASE \E y \in DOMAIN posted : posted[y] = id
        <5>1. \A y \in DOMAIN posted : y \in DOMAIN P /\ P[y] = posted[y]
          BY <2>2, <2>6, <2>8
        <5> QED BY <4>1, <5>1
      <4>2. CASE \E x \in DOMAIN q : q[x] = id
        BY <2>10, <4>2
      <4> QED BY <2>11b, <4>1, <4>2
    <3> QED BY <2>3, <3>2, <3>3, <3>4, <3>5, <3>6, <3>7 DEF OnePlace
  <2>13. Sorted(queue')
    <3>1. \A x, y \in DOMAIN q : x < y =>
            \/ Urgency(q[x]) < Urgency(q[y])
            \/ Urgency(q[x]) = Urgency(q[y]) /\ q[x] < q[y]
      BY DEF Consistent, Sorted
    <3> SUFFICES ASSUME NEW i \in DOMAIN B, NEW j \in DOMAIN B, i < j
                 PROVE  \/ Urgency(B[i]) < Urgency(B[j])
                        \/ Urgency(B[i]) = Urgency(B[j]) /\ B[i] < B[j]
      BY <2>3 DEF Sorted
    <3>2. k + i \in DOMAIN q /\ k + j \in DOMAIN q /\ k + i < k + j
      BY <2>2, <2>5, <2>11
    <3> QED BY <2>11, <3>1, <3>2
  <2>14. \A x, y \in DOMAIN q : x < y /\ q[y] < q[x] => Urgency(q[x]) < Urgency(q[y])
    <3> TAKE x, y \in DOMAIN q
    <3>1. q[x] \in Nat /\ q[y] \in Nat
      BY <2>1
    <3> QED BY <3>1 DEF Consistent, Sorted
  <2>15. Leads(queue', active')
    <3> SUFFICES ASSUME active' # Idle, NEW i \in DOMAIN B, B[i] < active'
                 PROVE  Urgency(active') < Urgency(B[i])
      BY <2>3 DEF Leads
    <3>1. k \in DOMAIN q /\ active' = q[k] /\ k < k + i /\ k + i \in DOMAIN q /\ B[i] = q[k + i]
      BY <2>2, <2>5, <2>11
    <3> QED BY <2>14, <3>1
  <2>16. Served(answers')
    <3> SUFFICES ASSUME NEW i \in DOMAIN P, NEW older \in 1..(P[i] - 1)
                 PROVE  \/ ~IsKnown(P[i])
                        \/ \E l \in 1..(i - 1) : P[l] = older
                        \/ Urgency(P[i]) < Urgency(older)
      BY <2>3 DEF Served
    <3>1. i \in Nat /\ P[i] \in 1..n /\ older \in 1..n /\ older < P[i]
      <4>1. P[i] \in 1..n
        BY <2>11a
      <4>2. i \in Nat
        BY <2>6
      <4> QED BY <2>1, <4>1, <4>2
    <3>2. CASE i \in DOMAIN posted /\ P[i] = posted[i]
      <4>1. \A l \in 1..(i - 1) : P[l] = posted[l]
        BY <2>6, <2>8, <3>2
      <4>2. \/ ~IsKnown(posted[i])
            \/ \E l \in 1..(i - 1) : posted[l] = older
            \/ Urgency(posted[i]) < Urgency(older)
        BY <3>2 DEF Consistent, Served
      <4> QED BY <3>2, <4>1, <4>2
    <3>3. CASE /\ i > Len(posted) /\ i - Len(posted) \in DOMAIN q
               /\ i - Len(posted) < k /\ P[i] = q[i - Len(posted)]
      <4>1. \/ \E y \in DOMAIN posted : posted[y] = older
            \/ \E x \in DOMAIN q : q[x] = older
        BY <2>11b, <3>1
      <4>2. CASE \E y \in DOMAIN posted : posted[y] = older
        <5>1. PICK y \in DOMAIN posted : posted[y] = older
          BY <4>2
        <5>2. y \in 1..(i - 1) /\ P[y] = posted[y]
          BY <2>6, <2>8, <3>1, <3>3
        <5> QED BY <5>1, <5>2
      <4>3. CASE \E x \in DOMAIN q : q[x] = older
        <5>1. PICK x \in DOMAIN q : q[x] = older
          BY <4>3
        <5>2. x \in Nat /\ i - Len(posted) \in Nat
          BY <2>8, <3>3
        <5>3. CASE x < i - Len(posted)
          <6>1. x < k /\ Len(posted) + x \in 1..(i - 1)
            BY <2>2, <2>8, <3>1, <3>3, <5>2, <5>3
          <6>2. P[Len(posted) + x] = q[x]
            BY <2>2, <2>10, <5>2, <6>1
          <6> QED BY <5>1, <6>1, <6>2
        <5>4. CASE x > i - Len(posted)
          BY <2>14, <3>1, <3>3, <5>1, <5>4
        <5>5. CASE x = i - Len(posted)
          BY <3>1, <3>3, <5>1, <5>5
        <5> QED BY <5>2, <5>3, <5>4, <5>5
      <4> QED BY <4>1, <4>2, <4>3
    <3> QED BY <2>9, <3>2, <3>3
  <2>17. active' = Idle => queue' = <<>>
    <3> HAVE active' = Idle
    <3>1. k \notin DOMAIN q
      BY <2>1, <2>3 DEF Idle
    <3> QED BY <2>3, <2>5, <3>1
  <2>18. /\ Len(answers') >= Len(posted)
         /\ \A i \in 1..Len(posted) : answers'[i] = posted[i]
    BY <2>2, <2>3, <2>6, <2>8
  <2> QED BY <2>7, <2>12, <2>13, <2>15, <2>16, <2>17, <2>18 DEF Consistent
<1> QED BY <1>1, <1>2

\* The active handler settles: its request joins the answers.
LEMMA CompleteConsistent ==
  ASSUME NEW q, NEW running, NEW posted, NEW n,
         Consistent(q, running, posted, n), running # Idle
  PROVE  Consistent(q, Idle, Append(posted, running), n)
<1> DEFINE P == Append(posted, running)
<1>1. /\ n \in Nat /\ q \in Seq(1..n) /\ posted \in Seq(1..n) /\ running \in 1..n
      /\ n \in 0..Len(calls)
  BY DEF Consistent, TypedParts, Idle
<1>2. /\ P \in Seq(1..n) /\ Len(P) = Len(posted) + 1 /\ Len(posted) \in Nat
      /\ \A l \in 1..Len(posted) : P[l] = posted[l]
      /\ P[Len(posted) + 1] = running
  BY <1>1
<1> HIDE DEF P
<1>3. DOMAIN posted = 1..Len(posted) /\ DOMAIN P = 1..(Len(posted) + 1)
  BY <1>1, <1>2
<1>4. \A l \in DOMAIN P : \/ l \in DOMAIN posted /\ P[l] = posted[l]
                          \/ l = Len(posted) + 1 /\ P[l] = running
  BY <1>2, <1>3
<1>5. TypedParts(q, Idle, P, n)
  BY <1>1, <1>2 DEF TypedParts, Idle
<1>6. OnePlace(q, Idle, P, n)
  <2>1. OnePlace(q, running, posted, n)
    BY DEF Consistent
  <2>2. ASSUME NEW k \in DOMAIN P, NEW l \in DOMAIN P, P[k] = P[l]
        PROVE  k = l
    BY <1>4, <2>1, <2>2 DEF OnePlace
  <2>3. \A k \in DOMAIN q, l \in DOMAIN P : q[k] # P[l]
    BY <1>4, <2>1 DEF OnePlace
  <2>4. /\ \A k \in DOMAIN q : q[k] # Idle
        /\ \A l \in DOMAIN P : P[l] # Idle
    BY <1>1, <1>4 DEF Idle
  <2>5. ASSUME NEW id \in 1..n
        PROVE  (\E l \in DOMAIN P : P[l] = id) \/ (\E k \in DOMAIN q : q[k] = id)
    <3>1. CASE \E l \in DOMAIN posted : posted[l] = id
      BY <1>2, <1>3, <3>1
    <3>2. CASE id = running
      BY <1>2, <1>3, <3>2
    <3>3. CASE \E k \in DOMAIN q : q[k] = id
      BY <3>3
    <3> QED BY <2>1, <3>1, <3>2, <3>3 DEF OnePlace
  <2>6. \A k, l \in DOMAIN q : q[k] = q[l] => k = l
    BY <2>1 DEF OnePlace
  <2> QED BY <2>2, <2>3, <2>4, <2>5, <2>6 DEF OnePlace
<1>7. Served(P)
  <2> SUFFICES ASSUME NEW k \in DOMAIN P, NEW older \in 1..(P[k] - 1)
               PROVE  \/ ~IsKnown(P[k])
                      \/ \E l \in 1..(k - 1) : P[l] = older
                      \/ Urgency(P[k]) < Urgency(older)
    BY DEF Served
  <2>1. CASE k \in DOMAIN posted /\ P[k] = posted[k]
    <3>1. \A l \in 1..(k - 1) : P[l] = posted[l]
      BY <1>2, <1>3, <2>1
    <3>2. \/ ~IsKnown(posted[k])
          \/ \E l \in 1..(k - 1) : posted[l] = older
          \/ Urgency(posted[k]) < Urgency(older)
      BY <2>1 DEF Consistent, Served
    <3> QED BY <2>1, <3>1, <3>2
  <2>2. CASE k = Len(posted) + 1 /\ P[k] = running
    <3>1. older \in 1..n /\ older < running
      BY <1>1, <2>2
    <3>2. CASE \E l \in DOMAIN posted : posted[l] = older
      BY <1>2, <1>3, <2>2, <3>2
    <3>3. CASE \E m \in DOMAIN q : q[m] = older
      BY <2>2, <3>1, <3>3 DEF Consistent, Leads
    <3>4. older # running
      BY <1>1, <3>1
    <3> QED BY <3>1, <3>2, <3>3, <3>4 DEF Consistent, OnePlace
  <2> QED BY <1>4, <2>1, <2>2
<1> QED BY <1>5, <1>6, <1>7 DEF Consistent, Leads, P

\* A request that fails validation is answered past the line.
LEMMA RejectConsistent ==
  ASSUME NEW q, NEW running, NEW posted, NEW n,
         Consistent(q, running, posted, n), n < Len(calls), ~IsKnown(n + 1)
  PROVE  Consistent(q, running, Append(posted, n + 1), n + 1)
<1> DEFINE P == Append(posted, n + 1)
<1>1. /\ n \in Nat /\ q \in Seq(1..n) /\ posted \in Seq(1..n) /\ running \in 0..n
      /\ n + 1 \in 0..Len(calls)
  BY DEF Consistent, TypedParts
<1>2. /\ q \in Seq(1..(n + 1)) /\ posted \in Seq(1..(n + 1))
  BY <1>1
<1>3. /\ P \in Seq(1..(n + 1)) /\ Len(P) = Len(posted) + 1 /\ Len(posted) \in Nat
      /\ \A l \in 1..Len(posted) : P[l] = posted[l]
      /\ P[Len(posted) + 1] = n + 1
  BY <1>1, <1>2
<1> HIDE DEF P
<1>4. DOMAIN posted = 1..Len(posted) /\ DOMAIN P = 1..(Len(posted) + 1)
  BY <1>1, <1>3
<1>5. \A l \in DOMAIN P : \/ l \in DOMAIN posted /\ P[l] = posted[l]
                          \/ l = Len(posted) + 1 /\ P[l] = n + 1
  BY <1>3, <1>4
<1>6. /\ \A k \in DOMAIN q : q[k] \in 1..n
      /\ \A l \in DOMAIN posted : posted[l] \in 1..n
  BY <1>1
<1>7. TypedParts(q, running, P, n + 1)
  BY <1>1, <1>2, <1>3 DEF TypedParts
<1>8. OnePlace(q, running, P, n + 1)
  <2>1. OnePlace(q, running, posted, n)
    BY DEF Consistent
  <2>2. ASSUME NEW k \in DOMAIN P, NEW l \in DOMAIN P, P[k] = P[l]
        PROVE  k = l
    <3>1. \A x \in DOMAIN posted : posted[x] # n + 1
      BY <1>1, <1>6
    <3> QED BY <1>5, <2>1, <2>2, <3>1 DEF OnePlace
  <2>3. \A k \in DOMAIN q, l \in DOMAIN P : q[k] # P[l]
    <3>1. \A k \in DOMAIN q : q[k] # n + 1
      BY <1>1, <1>6
    <3> QED BY <1>5, <2>1, <3>1 DEF OnePlace
  <2>4. \A l \in DOMAIN P : P[l] # running
    BY <1>1, <1>5, <2>1 DEF OnePlace
  <2>5. ASSUME NEW id \in 1..(n + 1)
        PROVE  \/ \E l \in DOMAIN P : P[l] = id
               \/ id = running
               \/ \E k \in DOMAIN q : q[k] = id
    <3>1. CASE id = n + 1
      BY <1>3, <1>4, <3>1
    <3>2. CASE id # n + 1
      <4>1. id \in 1..n
        BY <1>1, <3>2
      <4>2. \A l \in DOMAIN posted : l \in DOMAIN P /\ P[l] = posted[l]
        BY <1>3, <1>4
      <4> QED BY <2>1, <4>1, <4>2 DEF OnePlace
    <3> QED BY <3>1, <3>2
  <2> QED BY <2>1, <2>2, <2>3, <2>4, <2>5 DEF OnePlace
<1>9. Served(P)
  <2> SUFFICES ASSUME NEW k \in DOMAIN posted, NEW older \in 1..(posted[k] - 1)
               PROVE  \/ ~IsKnown(posted[k])
                      \/ \E l \in 1..(k - 1) : P[l] = older
                      \/ Urgency(posted[k]) < Urgency(older)
    BY <1>5 DEF Served
  <2>1. \A l \in 1..(k - 1) : P[l] = posted[l]
    BY <1>3, <1>4
  <2>2. \/ ~IsKnown(posted[k])
        \/ \E l \in 1..(k - 1) : posted[l] = older
        \/ Urgency(posted[k]) < Urgency(older)
    BY DEF Consistent, Served
  <2> QED BY <2>1, <2>2
<1> QED BY <1>7, <1>8, <1>9 DEF Consistent, P

\* One more call changes nothing about the requests already received.
LEMMA InvokeConsistent ==
  ASSUME calls \in Seq(Methods), NEW m \in Methods, calls' = Append(calls, m),
         UNCHANGED <<queue, active, answers, received>>,
         Consistent(queue, active, answers, received)
  PROVE  Consistent(queue, active, answers, received)'
<1>1. /\ received \in Nat /\ queue \in Seq(1..received) /\ answers \in Seq(1..received)
      /\ active \in 0..received /\ received <= Len(calls)
  BY DEF Consistent, TypedParts
<1>2. \A id \in 1..received : calls'[id] = calls[id]
  BY <1>1
<1>3. \A id \in 1..received : Urgency(id)' = Urgency(id) /\ (IsKnown(id)' <=> IsKnown(id))
  BY <1>2 DEF Urgency, IsKnown
<1>4. TypedParts(queue, active, answers, received)'
  <2>1. Len(calls') = Len(calls) + 1
    OBVIOUS
  <2> QED BY <1>1, <2>1 DEF TypedParts
<1>5. OnePlace(queue, active, answers, received)'
  BY DEF Consistent, OnePlace
<1>6. /\ \A k \in DOMAIN queue : queue[k] \in 1..received
      /\ \A k \in DOMAIN answers : answers[k] \in 1..received
  BY <1>1
<1>7. Sorted(queue)'
  BY <1>3, <1>6 DEF Consistent, Sorted
<1>8. Leads(queue, active)'
  BY <1>1, <1>3, <1>6 DEF Consistent, Leads, Idle
<1>9. Served(answers)'
  BY <1>1, <1>3, <1>6 DEF Consistent, Served
<1> QED BY <1>4, <1>5, <1>7, <1>8, <1>9 DEF Consistent

----------------------------------------------------------------------------
LEMMA InitInv == Init => IInv
  BY DEF Init, IInv, TypeOK, Consistent, TypedParts, OnePlace, Sorted, Leads,
         Served, PendingIsUnsettled, NeverIdleWhileWaiting, Requests, Idle

\* A turn of the worker keeps the invariant parts and only adds answers.
LEMMA WorkerTurn ==
  ASSUME IInv, Receive \/ Complete
  PROVE  /\ Consistent(queue', active', answers', received')
         /\ active' = Idle => queue' = <<>>
         /\ Len(answers') >= Len(answers)
         /\ \A k \in 1..Len(answers) : answers'[k] = answers[k]
         /\ UNCHANGED <<calls, pending, delivered>>
<1>1. /\ calls \in Seq(Methods) /\ received \in 0..Len(calls)
      /\ answers \in Seq(1..received)
      /\ Consistent(queue, active, answers, received)
      /\ NeverIdleWhileWaiting
  BY DEF IInv, TypeOK
<1>2. CASE Receive
  <2> DEFINE id == received + 1
  <2>1. id \in 1..Len(calls) /\ received < Len(calls) /\ received' = id
    BY <1>1, <1>2 DEF Receive
  <2>2. CASE IsKnown(id)
    <3>1. Run(Queued(queue, id), active, answers)
      BY <1>2, <2>2 DEF Receive
    <3>2. Consistent(Queued(queue, id), active, answers, id)
      BY <1>1, <2>1, EnqueueConsistent
    <3> HIDE DEF id
    <3>3. /\ Consistent(queue', active', answers', id)
          /\ active' = Idle => queue' = <<>>
          /\ Len(answers') >= Len(answers)
          /\ \A k \in 1..Len(answers) : answers'[k] = answers[k]
      BY <3>1, <3>2, RunConsistent
    <3>4. UNCHANGED <<calls, pending, delivered>>
      BY <1>2 DEF Receive
    <3> QED BY <2>1, <3>3, <3>4
  <2>3. CASE ~IsKnown(id)
    <3>1. answers' = Append(answers, id) /\ UNCHANGED <<queue, active, calls, pending, delivered>>
      BY <1>2, <2>3 DEF Receive
    <3>2. Consistent(queue, active, Append(answers, id), id)
      BY <1>1, <2>1, <2>3, RejectConsistent
    <3>3. /\ Len(answers') >= Len(answers)
          /\ \A k \in 1..Len(answers) : answers'[k] = answers[k]
      BY <1>1, <3>1
    <3> QED BY <1>1, <2>1, <3>1, <3>2, <3>3 DEF NeverIdleWhileWaiting
  <2> QED BY <2>2, <2>3
<1>3. CASE Complete
  <2>1. active # Idle /\ Run(queue, Idle, Append(answers, active))
        /\ UNCHANGED <<calls, pending, received, delivered>>
    BY <1>3 DEF Complete
  <2>2. Consistent(queue, Idle, Append(answers, active), received)
    BY <1>1, <2>1, CompleteConsistent
  <2>3. /\ Consistent(queue', active', answers', received)
        /\ active' = Idle => queue' = <<>>
        /\ Len(answers') >= Len(Append(answers, active))
        /\ \A k \in 1..Len(Append(answers, active)) : answers'[k] = Append(answers, active)[k]
    BY <2>1, <2>2, RunConsistent
  <2>4. /\ Len(Append(answers, active)) = Len(answers) + 1
        /\ \A k \in 1..Len(answers) : Append(answers, active)[k] = answers[k]
        /\ Len(answers) \in Nat
    BY <1>1
  <2>5. Append(answers, active) \in Seq(1..received) /\ answers' \in Seq(1..received)
    BY <2>2, <2>3 DEF Consistent, TypedParts
  <2>6. /\ Len(answers') >= Len(answers)
        /\ \A k \in 1..Len(answers) : answers'[k] = answers[k]
    BY <2>3, <2>4, <2>5
  <2> QED BY <2>1, <2>3, <2>6
<1> QED BY <1>2, <1>3

LEMMA NextInv == IInv /\ [Next]_vars => IInv'
<1> SUFFICES ASSUME IInv, [Next]_vars
             PROVE  IInv'
  OBVIOUS
<1>1. /\ calls \in Seq(Methods) /\ pending \subseteq Requests
      /\ received \in 0..Len(calls) /\ delivered \in 0..Len(answers)
      /\ answers \in Seq(1..received)
      /\ Consistent(queue, active, answers, received)
      /\ pending = Requests \ {answers[k] : k \in 1..delivered}
      /\ NeverIdleWhileWaiting
  BY DEF IInv, TypeOK, PendingIsUnsettled
<1>2. ASSUME NEW m \in Methods, Invoke(m)
      PROVE  IInv'
  <2>1. Consistent(queue, active, answers, received)'
    BY <1>1, <1>2, InvokeConsistent DEF Invoke
  <2>2. /\ calls' \in Seq(Methods) /\ Len(calls') = Len(calls) + 1
        /\ Requests' = Requests \cup {Len(calls) + 1}
    BY <1>1, <1>2 DEF Invoke, Requests
  <2>3. \A k \in 1..delivered : answers[k] # Len(calls) + 1
    BY <1>1
  <2>4. PendingIsUnsettled'
    BY <1>1, <1>2, <2>2, <2>3 DEF Invoke, PendingIsUnsettled
  <2>5. TypeOK'
    BY <1>1, <1>2, <2>1, <2>2 DEF Invoke, TypeOK, Consistent, TypedParts
  <2> QED BY <1>1, <1>2, <2>1, <2>4, <2>5 DEF IInv, Invoke, NeverIdleWhileWaiting
<1>3. CASE Deliver
  <2>1. Consistent(queue, active, answers, received)'
    BY <1>1, <1>3 DEF Deliver, Consistent, TypedParts, OnePlace, Sorted, Leads, Served,
                      Urgency, IsKnown
  <2>2. 1..delivered' = (1..delivered) \cup {delivered + 1}
    BY <1>1, <1>3 DEF Deliver
  <2>3. PendingIsUnsettled'
    BY <1>1, <1>3, <2>2 DEF Deliver, PendingIsUnsettled, Requests
  <2>4. TypeOK'
    BY <1>1, <1>3, <2>1 DEF Deliver, TypeOK, Consistent, TypedParts, Requests
  <2> QED BY <1>1, <1>3, <2>1, <2>3, <2>4 DEF IInv, Deliver, NeverIdleWhileWaiting
\* The turns of the worker change neither the calls nor what was delivered.
<1>4. ASSUME Consistent(queue', active', answers', received'),
             active' = Idle => queue' = <<>>,
             Len(answers') >= Len(answers),
             \A k \in 1..Len(answers) : answers'[k] = answers[k],
             UNCHANGED <<calls, pending, delivered>>
      PROVE  IInv'
  <2>1. Consistent(queue, active, answers, received)'
    BY <1>4 DEF Consistent, TypedParts, OnePlace, Sorted, Leads, Served, Urgency, IsKnown
  <2>2. /\ received' \in 0..Len(calls) /\ queue' \in Seq(1..received')
        /\ active' \in 0..received' /\ answers' \in Seq(1..received')
    BY <1>4 DEF Consistent, TypedParts
  <2>3. TypeOK'
    BY <1>1, <1>4, <2>2 DEF TypeOK, Requests
  <2>4. \A k \in 1..delivered : answers'[k] = answers[k]
    BY <1>1, <1>4
  <2>5. PendingIsUnsettled'
    BY <1>1, <1>4, <2>4 DEF PendingIsUnsettled, Requests
  <2> QED BY <1>4, <2>1, <2>3, <2>5 DEF IInv, NeverIdleWhileWaiting
<1>5. CASE Receive \/ Complete
  BY <1>4, <1>5, WorkerTurn
<1>6. CASE UNCHANGED vars
  BY <1>1, <1>6 DEF vars, IInv, TypeOK, Consistent, TypedParts, OnePlace, Sorted, Leads,
                    Served, Urgency, IsKnown, PendingIsUnsettled, Requests, NeverIdleWhileWaiting
<1> QED BY <1>2, <1>3, <1>5, <1>6 DEF Next

LEMMA SpecInv == Spec => []IInv
  BY InitInv, NextInv, PTL DEF Spec

\* Every variable of the client and the worker keeps its type.
THEOREM TypeCorrect == Spec => []TypeOK
<1>1. IInv => TypeOK
  BY DEF IInv
<1> QED BY <1>1, SpecInv, PTL

\* No request is dropped or answered twice: a received request is in exactly
\* one of the line, the handler and the answers.
THEOREM NothingLostNorDoubled == Spec => []InOnePlace
<1>1. IInv => InOnePlace
  BY DEF IInv, TypeOK, Consistent, OnePlace, InOnePlace, Answered
<1> QED BY <1>1, SpecInv, PTL

\* A request is answered before an older one only if it is more urgent (or
\* refused before the line).
THEOREM OrderKept == Spec => []ServedInOrder
<1>1. IInv => ServedInOrder
  BY DEF IInv, Consistent, Served, ServedInOrder
<1> QED BY <1>1, SpecInv, PTL

\* The client's map holds exactly the calls it has not seen answered.
THEOREM PendingCorrect == Spec => []PendingIsUnsettled
<1>1. IInv => PendingIsUnsettled
  BY DEF IInv
<1> QED BY <1>1, SpecInv, PTL

\* The worker does not rest while its line is not empty: each turn ends by
\* taking the next request.
THEOREM NeverIdle == Spec => []NeverIdleWhileWaiting
<1>1. IInv => NeverIdleWhileWaiting
  BY DEF IInv
<1> QED BY <1>1, SpecInv, PTL

----------------------------------------------------------------------------
LEMMA SettledShape ==
  ASSUME IInv
  PROVE  /\ settled \in Seq(1..received)
         /\ Len(settled) = delivered /\ DOMAIN settled = 1..delivered
         /\ \A k \in 1..delivered : settled[k] = answers[k]
<1>1. answers \in Seq(1..received) /\ delivered \in 0..Len(answers)
  BY DEF IInv, TypeOK
<1>2. 1 \in Int /\ delivered \in Int /\ delivered <= Len(answers)
  BY <1>1
<1>3. settled = [k \in 1..delivered |-> answers[k]]
  BY <1>1, <1>2 DEF settled
<1>4. \A k \in 1..delivered : answers[k] \in 1..received
  <2> TAKE k \in 1..delivered
  <2>1. k \in 1..Len(answers)
    BY <1>1, <1>2
  <2> QED BY <1>1, <2>1, ElementOfSeq
<1>5. settled \in [1..delivered -> 1..received]
  BY <1>3, <1>4
<1> QED BY <1>1, <1>3, <1>5
\* A turn of the worker only adds answers behind those already delivered.
LEMMA WorkerKeepsSettled ==
  ASSUME IInv, IInv', delivered' = delivered, Len(answers') >= Len(answers),
         \A k \in 1..Len(answers) : answers'[k] = answers[k]
  PROVE  settled' = settled
<1>1. answers \in Seq(1..received) /\ delivered \in 0..Len(answers)
  BY DEF IInv, TypeOK
<1>2. answers' \in Seq(1..received') /\ delivered' \in 0..Len(answers')
  BY DEF IInv, TypeOK
<1>3. /\ settled = [k \in 1..delivered |-> answers[k]]
      /\ settled' = [k \in 1..delivered |-> answers'[k]]
  BY <1>1, <1>2 DEF settled
<1>4. \A k \in 1..delivered : answers'[k] = answers[k]
  BY <1>1
<1> QED BY <1>3, <1>4

\* The client and the worker together keep the promise of EngineCalls.
THEOREM ImplementsEngineCalls == Spec => Calls!Spec
<1>1. Init => Calls!Init
  BY DEF Init, Calls!Init, settled
<1>2. IInv /\ IInv' /\ [Next]_vars => [Calls!Next]_(Calls!vars)
  <2> SUFFICES ASSUME IInv, IInv', [Next]_vars
               PROVE  [Calls!Next]_(Calls!vars)
    OBVIOUS
  <2>1. ASSUME NEW m \in Methods, Invoke(m)
        PROVE  Calls!Call(m)
    BY <2>1 DEF Invoke, Calls!Call, settled
  <2>2. CASE Deliver
    <3> DEFINE id == answers[delivered + 1]
    <3>1. /\ answers \in Seq(1..received) /\ delivered + 1 \in 1..Len(answers)
          /\ received \in 0..Len(calls) /\ delivered \in Nat
          /\ \A k, l \in DOMAIN answers : answers[k] = answers[l] => k = l
          /\ Served(answers)
          /\ calls \in Seq(Methods)
      BY <2>2 DEF IInv, TypeOK, Consistent, OnePlace, Deliver
    <3>2. settled' = Append(settled, id)
      BY <2>2, <3>1 DEF Deliver, settled
    <3>3. id \in DOMAIN calls /\ id \in 1..received
      BY <3>1
    <3>4. Calls!Settled = {answers[k] : k \in 1..delivered}
      BY SettledShape DEF Calls!Settled
    <3>5. \A k \in 1..delivered : answers[k] # id
      BY <3>1
    <3>6. id \in Calls!Open
      BY <3>3, <3>4, <3>5 DEF Calls!Open
    <3>7. Calls!MaySettle(id)
      <4>1. ASSUME calls[id] \in Known, NEW older \in Calls!Open, older < id
            PROVE  Calls!priority(KindOf[calls[id]]) < Calls!priority(KindOf[calls[older]])
        <5>1. older \in 1..(id - 1)
          BY <3>1, <3>3, <4>1 DEF Calls!Open
        <5>2. \A l \in 1..delivered : answers[l] # older
          BY <3>4 DEF Calls!Open
        <5>3. delivered + 1 \in DOMAIN answers /\ (delivered + 1) - 1 = delivered
          BY <3>1
        <5> QED BY <3>1, <4>1, <5>1, <5>2, <5>3 DEF Served, IsKnown, Urgency, priority, Calls!priority
      <4> HIDE DEF id
      <4> QED BY <4>1 DEF Calls!MaySettle
    <3>8. UNCHANGED calls
      BY <2>2 DEF Deliver
    <3> QED BY <3>2, <3>6, <3>7, <3>8 DEF Calls!Next, Calls!Settle
  <2>3. CASE Receive \/ Complete
    BY <2>3, WorkerTurn, WorkerKeepsSettled DEF Calls!vars
  <2>4. CASE UNCHANGED vars
    BY <2>4 DEF vars, Calls!vars, settled
  <2> QED BY <2>1, <2>2, <2>3, <2>4 DEF Next, Calls!Next
<1> QED BY <1>1, <1>2, SpecInv, PTL DEF Spec, Calls!Spec

=============================================================================
