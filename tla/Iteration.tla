----------------------------- MODULE Iteration -----------------------------
(* Induction with an operator for a parameter: what a step and a predicate   *)
(* that a module puts in for Step and P come to when the step is taken again *)
(* and again, or over the elements of a sequence. p stands for what the step *)
(* and the predicate are told besides.                                       *)
EXTENDS Integers, FiniteSetsExt, FiniteSetTheorems, WellFoundedInduction, TLAPS

CONSTANTS Step(_, _, _), P(_, _)

----------------------------------------------------------------------------
(* Least and greatest elements.                                              *)

\* A set of numbers has a least one.
LEMMA LeastOf ==
  ASSUME NEW T \in SUBSET Nat, T # {}
  PROVE  Min(T) \in T /\ \A y \in T : Min(T) =< y
  <1> DEFINE U == {0 .. n : n \in T}
  <1>1. U \subseteq FiniteSubsetsOf(Nat) /\ U # {}
    <2>1. \A n \in Nat : IsFiniteSet(0 .. n) /\ 0 .. n \subseteq Nat
      BY FS_Interval
    <2> QED BY <2>1 DEF FiniteSubsetsOf
  <1>2. PICK s \in U : \A u \in U : ~(u \subseteq s /\ u # s)
    <2> HIDE DEF U
    <2>1. PICK s \in U : \A u \in U : <<u, s>> \notin StrictSubsetOrdering(Nat)
      BY <1>1, FS_StrictSubsetOrderingWellFounded, WFMin
    <2> QED BY <1>1, <2>1 DEF StrictSubsetOrdering, FiniteSubsetsOf
  <1>3. PICK x \in T : s = 0 .. x
    OBVIOUS
  <1>4. ASSUME NEW y \in T, ~(x =< y) PROVE FALSE
    <2>1. 0 .. y \subseteq 0 .. x /\ x \in 0 .. x /\ x \notin 0 .. y
      BY <1>4
    <2> QED BY <1>2, <1>3, <2>1
  <1> QED BY <1>4 DEF Min

\* A finite one that is not empty has a greatest.
LEMMA GreatestOf ==
  ASSUME NEW T \in SUBSET Nat, IsFiniteSet(T), T # {}
  PROVE  Max(T) \in T /\ \A y \in T : Max(T) >= y
  <1> DEFINE Sizes == {n \in Nat : \E s \in SUBSET T : s # {} /\ Cardinality(s) = n
                                     /\ ~\E m \in s : \A y \in s : m >= y}
  <1>1. ASSUME Sizes # {} PROVE FALSE
    <2>1. Min(Sizes) \in Sizes /\ \A n \in Sizes : Min(Sizes) =< n
      <3>1. Sizes \in SUBSET Nat
        OBVIOUS
      <3> HIDE DEF Sizes
      <3> QED BY <1>1, <3>1, LeastOf
    <2>2. PICK s \in SUBSET T : s # {} /\ Cardinality(s) = Min(Sizes) /\ ~\E m \in s : \A y \in s : m >= y
      BY <2>1
    <2>3. PICK c \in s : TRUE
      BY <2>2
    <2>4. IsFiniteSet(s) /\ Cardinality(s \ {c}) = Cardinality(s) - 1 /\ Cardinality(s) \in Nat
          /\ Cardinality(s \ {c}) \in Nat
      BY FS_Subset, FS_RemoveElement, FS_CardinalityType
    <2>5. s \ {c} # {}
      BY <2>2, <2>3
    <2>6. Cardinality(s \ {c}) \notin Sizes
      <3> HIDE DEF Sizes
      <3> QED BY <2>1, <2>2, <2>4
    <2>7. PICK m \in s \ {c} : \A y \in s \ {c} : m >= y
      BY <2>4, <2>5, <2>6
    <2>8. (IF m >= c THEN m ELSE c) \in s /\ \A y \in s : (IF m >= c THEN m ELSE c) >= y
      BY <2>3, <2>7
    <2> QED BY <2>2, <2>8
  <1>2. \E m \in T : \A y \in T : m >= y
    <2>1. Cardinality(T) \in Nat
      BY FS_CardinalityType
    <2> QED BY <1>1, <2>1
  <1> QED BY <1>2 DEF Max

\* A bounded one needs no count.
LEMMA GreatestUpTo ==
  ASSUME NEW n \in Nat, NEW T \in SUBSET (0 .. n), T # {}
  PROVE  Max(T) \in T /\ \A y \in T : Max(T) >= y
  <1>1. IsFiniteSet(0 .. n) /\ T \in SUBSET Nat
    BY FS_Interval
  <1>2. IsFiniteSet(T)
    BY <1>1, FS_Subset
  <1> QED BY <1>1, <1>2, GreatestOf

----------------------------------------------------------------------------
(* Numbers.                                                                  *)

\* What holds of 0, and of n + 1 when it holds of n, holds of every number.
THEOREM Climb ==
  ASSUME NEW p, P(p, 0), \A n \in Nat : P(p, n) => P(p, n + 1)
  PROVE  \A n \in Nat : P(p, n)
  <1> DEFINE Fails == {n \in Nat : ~P(p, n)}
  <1>1. ASSUME Fails # {} PROVE FALSE
    <2>1. PICK n \in Fails : \A m \in Fails : n =< m
      <3>1. Fails \in SUBSET Nat
        OBVIOUS
      <3> HIDE DEF Fails
      <3> QED BY <1>1, <3>1, LeastOf
    <2>2. n # 0 /\ n \in Nat /\ n - 1 \in Nat
      BY <2>1
    <2>3. P(p, n - 1)
      BY <2>1, <2>2
    <2>4. P(p, (n - 1) + 1)
      BY <2>2, <2>3
    <2>5. (n - 1) + 1 = n
      BY <2>2
    <2> QED BY <2>1, <2>4, <2>5
  <1> QED BY <1>1

----------------------------------------------------------------------------
(* A step taken n times.                                                     *)

Run(p, x) == CHOOSE run : run = [k \in Nat |-> IF k = 0 THEN x ELSE Step(p, run[k - 1], k)]

\* The run is a function: what a step makes of what came before it.
LEMMA RunExists ==
  ASSUME NEW p, NEW x
  PROVE  \E run : run = [k \in Nat |-> IF k = 0 THEN x ELSE Step(p, run[k - 1], k)]
  <1> DEFINE Value(k, g) == IF k = 0 THEN x ELSE Step(p, g[k - 1], k)
             Upto(n, g) == \A k \in 0 .. n : g[k] = Value(k, g)
  <1>1. \A n \in Nat : \E g : Upto(n, g)
    <2> DEFINE Fails == {n \in Nat : ~\E g : Upto(n, g)}
    <2>1. ASSUME Fails # {} PROVE FALSE
      <3>1. PICK n \in Fails : \A m \in Fails : n =< m
        <4>1. Fails \in SUBSET Nat
          OBVIOUS
        <4> HIDE DEF Fails
        <4> QED BY <2>1, <4>1, LeastOf
      <3>2. n # 0
        <4> DEFINE g == [k \in Nat |-> x]
        <4>1. \A k \in 0 .. 0 : g[k] = Value(k, g)
          OBVIOUS
        <4>2. Upto(0, g)
          BY <4>1
        <4> HIDE DEF Upto, g
        <4>3. 0 \notin Fails
          BY <4>2
        <4> QED BY <3>1, <4>3
      <3>3. n \in Nat /\ n - 1 \in Nat /\ n - 1 \notin Fails
        <4>1. n \in Nat
          OBVIOUS
        <4> HIDE DEF Fails
        <4> QED BY <3>1, <3>2, <4>1
      <3>4. PICK g : Upto(n - 1, g)
        BY <3>3
      <3> DEFINE h == [k \in Nat |-> Value(k, g)]
      <3>5. ASSUME NEW k \in 0 .. n PROVE h[k] = Value(k, h)
        <4>1. k \in Nat /\ (k # 0 => k - 1 \in 0 .. n - 1 /\ k - 1 \in Nat)
          BY <3>3
        <4>2. k # 0 => h[k - 1] = g[k - 1]
          BY <3>4, <4>1
        <4> QED BY <4>1, <4>2
      <3>6. Upto(n, h)
        BY <3>5
      <3> HIDE DEF Upto, h
      <3> QED BY <3>1, <3>6
    <2> QED BY <2>1
  <1>2. \A n \in Nat : \A g, h : Upto(n, g) /\ Upto(n, h) => g[n] = h[n]
    <2> SUFFICES ASSUME NEW n \in Nat, NEW g, NEW h, Upto(n, g), Upto(n, h), g[n] # h[n] PROVE FALSE
      <3> HIDE DEF Upto
      <3> QED OBVIOUS
    <2> DEFINE Fails == {k \in 0 .. n : g[k] # h[k]}
    <2>1. PICK k \in Fails : \A m \in Fails : k =< m
      <3>1. Fails \in SUBSET Nat /\ Fails # {}
        OBVIOUS
      <3> HIDE DEF Fails
      <3> QED BY <3>1, LeastOf
    <2>2. k \in 0 .. n /\ g[k] = Value(k, g) /\ h[k] = Value(k, h)
      OBVIOUS
    <2>3. k # 0
      BY <2>1, <2>2
    <2>4. k - 1 \in 0 .. n /\ k - 1 \notin Fails
      BY <2>1, <2>2, <2>3
    <2>5. g[k - 1] = h[k - 1]
      BY <2>4
    <2> QED BY <2>1, <2>2, <2>5
  <1> DEFINE Upon(n) == CHOOSE g : Upto(n, g)
             run == [n \in Nat |-> Upon(n)[n]]
  <1>3. \A n \in Nat : Upto(n, Upon(n))
    <2> HIDE DEF Upto
    <2> QED BY <1>1
  <1>4. ASSUME NEW n \in Nat PROVE run[n] = Value(n, run)
    <2>1. run[n] = Value(n, Upon(n))
      BY <1>3
    <2>2. ASSUME n # 0 PROVE Upon(n)[n - 1] = run[n - 1]
      <3>1. n - 1 \in Nat /\ 0 .. n - 1 \subseteq 0 .. n
        BY <2>2
      <3>2. Upto(n - 1, Upon(n)) /\ Upto(n - 1, Upon(n - 1))
        BY <1>3, <3>1
      <3> HIDE DEF Upto, Upon
      <3> QED BY <1>2, <3>1, <3>2
    <2> HIDE DEF run, Upon
    <2> QED BY <2>1, <2>2
  <1>5. run = [k \in Nat |-> IF k = 0 THEN x ELSE Step(p, run[k - 1], k)]
    <2>1. run = [k \in Nat |-> run[k]]
      OBVIOUS
    <2> HIDE DEF run
    <2> QED BY <1>4, <2>1
  <1> HIDE DEF run
  <1> QED BY <1>5

\* Where a run starts and how it goes on.
THEOREM RunSteps ==
  ASSUME NEW p, NEW x
  PROVE  /\ Run(p, x)[0] = x
         /\ \A n \in Nat : Run(p, x)[n + 1] = Step(p, Run(p, x)[n], n + 1)
  <1> DEFINE run == Run(p, x)
  <1>1. run = [k \in Nat |-> IF k = 0 THEN x ELSE Step(p, run[k - 1], k)]
    BY RunExists DEF Run
  <1> HIDE DEF run
  <1>2. ASSUME NEW n \in Nat PROVE run[n + 1] = Step(p, run[n], n + 1)
    <2>1. n + 1 \in Nat /\ n + 1 # 0 /\ (n + 1) - 1 = n
      OBVIOUS
    <2> QED BY <1>1, <2>1
  <1>3. run[0] = x
    BY <1>1
  <1> QED BY <1>2, <1>3 DEF run

\* What every step keeps holds all along.
THEOREM RunKeeps ==
  ASSUME NEW p, NEW x, P(p, x), \A a, k : P(p, a) => P(p, Step(p, a, k))
  PROVE  \A n \in Nat : P(p, Run(p, x)[n])
  <1> DEFINE run == Run(p, x)
             Fails == {n \in Nat : ~P(p, run[n])}
  <1>1. run[0] = x /\ \A n \in Nat : run[n + 1] = Step(p, run[n], n + 1)
    BY RunSteps
  <1> HIDE DEF run
  <1>2. ASSUME Fails # {} PROVE FALSE
    <2>1. PICK n \in Fails : \A m \in Fails : n =< m
      <3>1. Fails \in SUBSET Nat
        OBVIOUS
      <3> HIDE DEF Fails
      <3> QED BY <1>2, <3>1, LeastOf
    <2>2. n # 0
      BY <1>1, <2>1
    <2>3. n \in Nat /\ n - 1 \in Nat /\ n - 1 \notin Fails /\ (n - 1) + 1 = n
      BY <2>1, <2>2
    <2>4. P(p, run[n - 1])
      BY <2>3
    <2>5. run[n] = Step(p, run[n - 1], n)
      BY <1>1, <2>3
    <2> QED BY <2>1, <2>4, <2>5
  <1> QED BY <1>2 DEF run

----------------------------------------------------------------------------
(* A step taken for the elements of a sequence in turn, as FoldLeft does.    *)

Folded(p, base, seq) ==
  CHOOSE iter : iter = [s \in SUBSET DOMAIN seq |->
                         IF s = {} THEN base ELSE Step(p, iter[s \ {Max(s)}], seq[Max(s)])]
Fold(p, base, seq) == Folded(p, base, seq)[DOMAIN seq]

\* The same of a fold over a sequence.
THEOREM FoldKeeps ==
  ASSUME NEW p, NEW base, NEW seq, NEW len \in Nat, DOMAIN seq = 1 .. len, P(p, base),
         \A a, i : i \in DOMAIN seq /\ P(p, a) => P(p, Step(p, a, seq[i]))
  PROVE  P(p, Fold(p, base, seq))
  <1> DEFINE T == DOMAIN seq
             Value(s, g) == IF s = {} THEN base ELSE Step(p, g[s \ {Max(s)}], seq[Max(s)])
             Upto(n, g) == \A s \in SUBSET T : Cardinality(s) =< n => g[s] = Value(s, g)
             iter == Folded(p, base, seq)
  <1>0. IsFiniteSet(T) /\ T \in SUBSET Nat
    BY FS_Interval
  <1> USE <1>0
  <1>1. \A s \in SUBSET T :
           /\ IsFiniteSet(s) /\ Cardinality(s) \in Nat /\ Cardinality(s) =< Cardinality(T)
           /\ s # {} => /\ Max(s) \in s /\ s \ {Max(s)} \in SUBSET T
                        /\ Cardinality(s \ {Max(s)}) = Cardinality(s) - 1
    <2> TAKE s \in SUBSET T
    <2>1. IsFiniteSet(s) /\ Cardinality(s) \in Nat /\ Cardinality(s) =< Cardinality(T)
      BY FS_Subset, FS_CardinalityType
    <2>2. s # {} => Max(s) \in s
      BY <2>1, GreatestOf
    <2>3. s # {} => Cardinality(s \ {Max(s)}) = Cardinality(s) - 1
      BY <2>1, <2>2, FS_RemoveElement
    <2> QED BY <2>1, <2>2, <2>3
  <1>2. \A n \in Nat : \E g : Upto(n, g)
    <2> DEFINE Fails == {n \in Nat : ~\E g : Upto(n, g)}
    <2>1. ASSUME Fails # {} PROVE FALSE
      <3>1. PICK n \in Fails : \A m \in Fails : n =< m
        <4>1. Fails \in SUBSET Nat
          OBVIOUS
        <4> HIDE DEF Fails
        <4> QED BY <2>1, <4>1, LeastOf
      <3>2. n # 0
        <4> DEFINE g == [s \in SUBSET T |-> base]
        <4>1. ASSUME NEW s \in SUBSET T, Cardinality(s) =< 0 PROVE g[s] = Value(s, g)
          <5>1. s = {}
            <6>1. s # {} => Cardinality(s \ {Max(s)}) = Cardinality(s) - 1 /\ Cardinality(s \ {Max(s)}) \in Nat
                           /\ Cardinality(s) \in Nat
              BY <1>1
            <6> QED BY <4>1, <6>1
          <5> QED BY <5>1
        <4>2. Upto(0, g)
          BY <4>1
        <4> HIDE DEF Upto, g
        <4> QED BY <3>1, <4>2
      <3>3. n \in Nat /\ n - 1 \in Nat /\ n - 1 \notin Fails
        <4>1. n \in Nat
          OBVIOUS
        <4> HIDE DEF Fails
        <4> QED BY <3>1, <3>2, <4>1
      <3>4. PICK g : Upto(n - 1, g)
        BY <3>3
      <3> DEFINE h == [s \in SUBSET T |-> Value(s, g)]
      <3>5. ASSUME NEW s \in SUBSET T, Cardinality(s) =< n PROVE h[s] = Value(s, h)
        <4> DEFINE r == s \ {Max(s)}
        <4>1. s # {} => r \in SUBSET T /\ Cardinality(r) =< n - 1
          BY <1>1, <3>3, <3>5
        <4>2. s # {} => h[r] = g[r]
          BY <3>4, <4>1
        <4> QED BY <4>2
      <3>6. Upto(n, h)
        BY <3>5
      <3> HIDE DEF Upto, h
      <3> QED BY <3>1, <3>6
    <2> QED BY <2>1
  <1>3. iter = [s \in SUBSET T |-> Value(s, iter)]
    <2>1. Cardinality(T) \in Nat
      BY FS_CardinalityType
    <2>2. PICK g : Upto(Cardinality(T), g)
      BY <1>2, <2>1
    <2> DEFINE h == [s \in SUBSET T |-> g[s]]
    <2>3. ASSUME NEW s \in SUBSET T PROVE h[s] = Value(s, h)
      <3>1. g[s] = Value(s, g)
        BY <1>1, <2>2
      <3>2. s # {} => h[s \ {Max(s)}] = g[s \ {Max(s)}]
        BY <1>1
      <3> QED BY <3>1, <3>2
    <2>4. h = [s \in SUBSET T |-> Value(s, h)]
      <3>1. h = [s \in SUBSET T |-> h[s]]
        OBVIOUS
      <3> HIDE DEF h
      <3> QED BY <2>3, <3>1
    <2> HIDE DEF h
    <2> QED BY <2>4 DEF Folded
  <1> HIDE DEF iter
  <1> DEFINE Fails == {n \in Nat : \E s \in SUBSET T : Cardinality(s) = n /\ ~P(p, iter[s])}
  <1>4. ASSUME Fails # {} PROVE FALSE
    <2>1. PICK n \in Fails : \A m \in Fails : n =< m
      <3>1. Fails \in SUBSET Nat
        OBVIOUS
      <3> HIDE DEF Fails
      <3> QED BY <1>4, <3>1, LeastOf
    <2>2. PICK s \in SUBSET T : Cardinality(s) = n /\ ~P(p, iter[s])
      BY <2>1
    <2>3. s # {}
      BY <1>3, <2>2
    <2>4. iter[s] = Step(p, iter[s \ {Max(s)}], seq[Max(s)])
      BY <1>3, <2>3
    <2>5. Cardinality(s \ {Max(s)}) \notin Fails
      BY <1>1, <2>1, <2>2, <2>3, SMTT(60)
    <2>6. P(p, iter[s \ {Max(s)}]) /\ Max(s) \in T
      BY <1>1, <2>3, <2>5
    <2> QED BY <2>2, <2>4, <2>6
  <1>5. P(p, iter[T])
    <2>1. Cardinality(T) \in Nat /\ Cardinality(T) \notin Fails
      BY <1>4, FS_CardinalityType
    <2> QED BY <2>1
  <1> QED BY <1>5 DEF Fold, iter
=============================================================================
