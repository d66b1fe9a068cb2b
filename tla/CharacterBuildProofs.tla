------------------------ MODULE CharacterBuildProofs ------------------------
(* Proofs about CharacterBuild for any sorted content library, any           *)
(* characters to start from and any number of levels and requests: no answer *)
(* to a choice outlives the level that opened it, and the levels stay within *)
(* their bound.                                                              *)
EXTENDS CharacterBuild, FiniteSetTheorems, SequenceTheorems, TLAPS

\* New content: nodes that are no levels and hold no answer.
Blank(n) == IsNode(n) /\ n.kind # "level" /\ n.reg = None

Tree(t) == \E N : t \in Seq(N) /\ \A n \in N : IsNode(n)
Blanks(s) == \E N : s \in Seq(N) /\ \A n \in N : Blank(n)

----------------------------------------------------------------------------
(* Trees: what hangs under a node is deeper, so no level hangs under any.    *)

NoStep(p, a, x) == a
NoClaim(p, a) == TRUE
I == INSTANCE Iteration WITH Step <- NoStep, P <- NoClaim

\* A tree is a finite sequence of nodes.
LEMMA TreeFacts ==
  ASSUME NEW t, Tree(t)
  PROVE  Len(t) \in Nat /\ DOMAIN t = 1 .. Len(t) /\ \A i \in DOMAIN t : IsNode(t[i])
  <1>1. PICK N : t \in Seq(N) /\ \A n \in N : IsNode(n)
    BY DEF Tree
  <1>2. \A i \in 1 .. Len(t) : t[i] \in N
    BY <1>1
  <1> QED BY <1>1, <1>2

\* New content is one too.
LEMMA BlanksFacts ==
  ASSUME NEW s, Blanks(s)
  PROVE  Len(s) \in Nat /\ DOMAIN s = 1 .. Len(s) /\ \A i \in DOMAIN s : Blank(s[i])
  <1>1. PICK N : s \in Seq(N) /\ \A n \in N : Blank(n)
    BY DEF Blanks
  <1>2. \A i \in 1 .. Len(s) : s[i] \in N
    BY <1>1
  <1> QED BY <1>1, <1>2

\* Depths are positive, and a level stands at depth 1.
LEMMA NodeFacts ==
  ASSUME NEW n, IsNode(n)
  PROVE  n.d \in Nat /\ n.d >= 1 /\ (n.d # 1 => n.kind # "level")
  BY DEF IsNode

\* What a node's subtree ends at, by CHOOSE of End.
LEMMA EndFacts ==
  ASSUME NEW t, Tree(t), NEW i \in 0 .. Len(t)
  PROVE  /\ End(t, i) \in i .. Len(t)
         /\ End(t, i) < Len(t) => t[End(t, i) + 1].d =< Depth(t, i)
         /\ \A k \in i + 1 .. End(t, i) : t[k].d > Depth(t, i)
  <1> DEFINE d == Depth(t, i)
             Ends == {j \in i .. Len(t) : j < Len(t) => t[j + 1].d =< d}
  <1>1. Len(t) \in Nat /\ DOMAIN t = 1 .. Len(t) /\ \A k \in DOMAIN t : t[k].d \in Nat /\ t[k].d >= 1
    BY TreeFacts, NodeFacts
  <1>2. d \in Nat
    BY <1>1 DEF Depth
  <1>3. Len(t) \in Ends /\ Ends \in SUBSET Nat
    BY <1>1
  <1>4. PICK j \in Ends : \A m \in Ends : j =< m
    <2> HIDE DEF Ends
    <2> QED BY <1>3, I!LeastOf
  <1>5. j \in i .. Len(t) /\ (j < Len(t) => t[j + 1].d =< d)
    OBVIOUS
  <1>6. ASSUME NEW k \in i + 1 .. j PROVE t[k].d > d
    <2>1. k - 1 \in i .. Len(t) /\ k - 1 < j /\ k - 1 < Len(t) /\ (k - 1) + 1 = k /\ k \in DOMAIN t
      BY <1>1, <1>5
    <2>2. k - 1 \notin Ends
      <3> HIDE DEF Ends
      <3> QED BY <1>1, <1>3, <1>4, <2>1
    <2>3. ~(t[k].d =< d)
      BY <2>1, <2>2
    <2> HIDE DEF d
    <2> QED BY <1>1, <1>2, <2>1, <2>3
  <1> HIDE DEF Ends
  <1>7. \E e \in i .. Len(t) : (e < Len(t) => t[e + 1].d =< d) /\ \A k \in i + 1 .. e : t[k].d > d
    BY <1>5, <1>6
  <1> QED BY <1>7 DEF End

\* Below a node everything is deeper than it.
LEMMA SubFacts ==
  ASSUME NEW t, Tree(t), NEW i \in DOMAIN t
  PROVE  /\ Sub(t, i) \subseteq DOMAIN t /\ i \in Sub(t, i)
         /\ \A k \in Sub(t, i) \ {i} : t[k].d > t[i].d /\ t[k].d > 1 /\ t[k].kind # "level"
  <1>1. Len(t) \in Nat /\ DOMAIN t = 1 .. Len(t) /\ \A k \in DOMAIN t : IsNode(t[k])
    BY TreeFacts
  <1>2. i \in 0 .. Len(t) /\ i \in Nat /\ i >= 1 /\ Depth(t, i) = t[i].d
    BY <1>1 DEF Depth
  <1>3. End(t, i) \in i .. Len(t) /\ \A k \in i + 1 .. End(t, i) : t[k].d > t[i].d
    BY <1>2, EndFacts
  <1>4. ASSUME NEW k \in Sub(t, i) \ {i} PROVE t[k].d > t[i].d /\ t[k].d > 1 /\ t[k].kind # "level"
    <2>1. k \in i + 1 .. End(t, i) /\ k \in DOMAIN t
      BY <1>1, <1>2, <1>3, <1>4 DEF Sub
    <2>2. t[k].d \in Nat /\ t[i].d \in Nat /\ t[i].d >= 1 /\ (t[k].d # 1 => t[k].kind # "level")
      BY <1>1, <2>1, NodeFacts
    <2> QED BY <1>3, <2>1, <2>2
  <1> QED BY <1>1, <1>2, <1>3, <1>4 DEF Sub

\* Children are positions of the tree, and no level is a child of a node.
LEMMA KidsFacts ==
  ASSUME NEW t, Tree(t), NEW i \in 0 .. Len(t)
  PROVE  /\ Kids(t, i) \subseteq DOMAIN t /\ IsFiniteSet(Kids(t, i))
         /\ i # 0 => \A k \in Kids(t, i) : k \in Sub(t, i) \ {i} /\ t[k].kind # "level"
  <1>1. Len(t) \in Nat /\ DOMAIN t = 1 .. Len(t)
    BY TreeFacts
  <1>2. End(t, i) \in i .. Len(t) /\ i \in Nat
    BY EndFacts
  <1>3. Kids(t, i) \subseteq i + 1 .. End(t, i)
    BY DEF Kids
  <1>4. IsFiniteSet(Kids(t, i))
    <2>1. i + 1 \in Int /\ End(t, i) \in Int
      BY <1>1, <1>2
    <2>2. IsFiniteSet(i + 1 .. End(t, i))
      BY <2>1, FS_Interval
    <2> QED BY <1>3, <2>2, FS_Subset
  <1>5. Kids(t, i) \subseteq DOMAIN t
    BY <1>1, <1>2, <1>3
  <1>6. ASSUME i # 0, NEW k \in Kids(t, i) PROVE k \in Sub(t, i) \ {i} /\ t[k].kind # "level"
    <2>1. k \in Sub(t, i) \ {i}
      BY <1>2, <1>3 DEF Sub
    <2>2. i \in DOMAIN t
      BY <1>1, <1>2, <1>6
    <2> QED BY <2>1, <2>2, SubFacts
  <1> QED BY <1>4, <1>5, <1>6

\* The subtrees of a set add no level to the set's own.
LEMMA SpreadFacts ==
  ASSUME NEW t, Tree(t), NEW S \in SUBSET DOMAIN t
  PROVE  /\ Spread(t, S) \subseteq DOMAIN t /\ S \subseteq Spread(t, S)
         /\ \A k \in Spread(t, S) \ S : t[k].kind # "level"
  <1>1. \A i \in S : Sub(t, i) \subseteq DOMAIN t /\ i \in Sub(t, i) /\ \A k \in Sub(t, i) \ {i} : t[k].kind # "level"
    BY SubFacts
  <1> QED BY <1>1 DEF Spread

----------------------------------------------------------------------------
(* Sequences put together keep their levels.                                 *)

\* The levels of a sequence are finitely many of its positions.
LEMMA LevelsFinite ==
  ASSUME NEW s, Len(s) \in Nat
  PROVE  IsFiniteSet(Levels(s)) /\ Cardinality(Levels(s)) \in Nat /\ Levels(s) \subseteq 1 .. Len(s)
  <1>1. IsFiniteSet(1 .. Len(s)) /\ Levels(s) \subseteq 1 .. Len(s)
    BY FS_Interval DEF Levels
  <1> QED BY <1>1, FS_Subset, FS_CardinalityType

\* The levels of two sequences put together add up.
LEMMA LevelsConcat ==
  ASSUME NEW N, NEW s \in Seq(N), NEW u \in Seq(N)
  PROVE  /\ s \o u \in Seq(N)
         /\ Cardinality(Levels(s \o u)) = Cardinality(Levels(s)) + Cardinality(Levels(u))
  <1> DEFINE S == {Len(s) + j : j \in Levels(u)}
             f == [j \in Levels(u) |-> Len(s) + j]
  <1>1. /\ s \o u \in Seq(N) /\ Len(s \o u) = Len(s) + Len(u) /\ Len(s) \in Nat /\ Len(u) \in Nat
        /\ \A i \in 1 .. Len(s) : (s \o u)[i] = s[i]
        /\ \A j \in 1 .. Len(u) : (s \o u)[Len(s) + j] = u[j]
    OBVIOUS
  <1>2. /\ IsFiniteSet(Levels(s)) /\ Cardinality(Levels(s)) \in Nat /\ Levels(s) \subseteq 1 .. Len(s)
        /\ IsFiniteSet(Levels(u)) /\ Cardinality(Levels(u)) \in Nat /\ Levels(u) \subseteq 1 .. Len(u)
        /\ IsFiniteSet(Levels(s \o u))
    BY <1>1, LevelsFinite
  <1>3. IsFiniteSet(S) /\ Cardinality(S) = Cardinality(Levels(u))
    <2>1. f \in Bijection(Levels(u), S)
      BY <1>1, <1>2 DEF Bijection, Injection, Surjection, IsInjective
    <2> QED BY <1>2, <2>1, FS_Bijection DEF ExistsBijection
  <1>4. Levels(s) \cap S = {}
    BY <1>1, <1>2
  <1>5. Cardinality(Levels(s) \cup S) = Cardinality(Levels(s)) + Cardinality(Levels(u)) /\ IsFiniteSet(Levels(s) \cup S)
    <2>1. Cardinality({}) = 0
      BY FS_EmptySet
    <2> HIDE DEF S
    <2>2. /\ IsFiniteSet(Levels(s) \cup S)
          /\ Cardinality(Levels(s) \cup S)
               = Cardinality(Levels(s)) + Cardinality(S) - Cardinality(Levels(s) \cap S)
      BY <1>2, <1>3, FS_Union
    <2>3. Cardinality(Levels(s) \cap S) = 0
      BY <1>4, <2>1
    <2> QED BY <1>2, <1>3, <2>2, <2>3
  <1>6. Levels(s) \cup S = Levels(s \o u)
    <2>1. Levels(s) \cup S \subseteq Levels(s \o u)
      BY <1>1, <1>2 DEF Levels
    <2>2. ASSUME NEW i \in Levels(s \o u), i \notin Levels(s) PROVE i \in S
      <3>1. i \in 1 .. Len(s) + Len(u) /\ (s \o u)[i].kind = "level"
        BY <1>1, <2>2 DEF Levels
      <3>2. i > Len(s)
        BY <1>1, <2>2, <3>1 DEF Levels
      <3>3. i - Len(s) \in 1 .. Len(u) /\ Len(s) + (i - Len(s)) = i
        BY <1>1, <3>1, <3>2
      <3>4. i - Len(s) \in Levels(u)
        BY <1>1, <3>1, <3>3 DEF Levels
      <3> QED BY <3>3, <3>4
    <2> QED BY <2>1, <2>2
  <1> QED BY <1>1, <1>5, <1>6

\* FlattenSeq as the function it evaluates.
Joined(seqs) ==
  CHOOSE flat : flat = [i \in 1 .. Len(seqs) |-> IF i = 1 THEN seqs[i] ELSE flat[i - 1] \o seqs[i]]

Joining(seqs, a, k) == a \o seqs[k]
\* p holds the sequences, what their elements are, and how many levels the first
\* of them hold at least and at most.
JoinClaim(p, n) ==
  n + 1 =< Len(p.seqs) =>
    /\ Joined(p.seqs)[n + 1] \in Seq(p.nodes)
    /\ Cardinality(Levels(Joined(p.seqs)[n + 1])) >= p.least[n + 1]
    /\ Cardinality(Levels(Joined(p.seqs)[n + 1])) =< p.most[n + 1]
J == INSTANCE Iteration WITH Step <- Joining, P <- JoinClaim

\* The fold that FlattenSeq makes, one sequence at a time.
LEMMA JoinedStep ==
  ASSUME NEW seqs, NEW N, Len(seqs) \in Nat, \A k \in 1 .. Len(seqs) : seqs[k] \in Seq(N)
  PROVE  /\ Len(seqs) > 0 => Joined(seqs)[1] = seqs[1]
         /\ \A k \in 1 .. Len(seqs) : k > 1 => Joined(seqs)[k] = Joined(seqs)[k - 1] \o seqs[k]
  <1> DEFINE run == J!Run(seqs, << >>)
             flat == [i \in 1 .. Len(seqs) |-> run[i]]
  <1>1. run[0] = << >> /\ \A n \in Nat : run[n + 1] = run[n] \o seqs[n + 1]
    BY J!RunSteps DEF Joining
  <1> HIDE DEF run
  <1>2. ASSUME NEW i \in 1 .. Len(seqs) PROVE flat[i] = IF i = 1 THEN seqs[i] ELSE flat[i - 1] \o seqs[i]
    <2>1. i - 1 \in Nat /\ (i - 1) + 1 = i /\ (i # 1 => i - 1 \in 1 .. Len(seqs))
      OBVIOUS
    <2>2. run[i] = run[i - 1] \o seqs[i]
      BY <1>1, <2>1
    <2>3. i = 1 => flat[i] = seqs[i]
      <3>1. << >> \o seqs[i] = seqs[i]
        OBVIOUS
      <3>2. i = 1 => i - 1 = 0
        OBVIOUS
      <3>3. flat[i] = run[i]
        OBVIOUS
      <3> HIDE DEF flat
      <3> QED BY <1>1, <2>2, <3>1, <3>2, <3>3
    <2>4. i # 1 => flat[i - 1] = run[i - 1]
      BY <2>1
    <2> QED BY <2>2, <2>3, <2>4
  <1>3. flat = [i \in 1 .. Len(seqs) |-> IF i = 1 THEN seqs[i] ELSE flat[i - 1] \o seqs[i]]
    <2>1. flat = [i \in 1 .. Len(seqs) |-> flat[i]]
      OBVIOUS
    <2> HIDE DEF flat
    <2> QED BY <1>2, <2>1
  <1> HIDE DEF flat
  <1> DEFINE out == Joined(seqs)
  <1>4. out = [i \in 1 .. Len(seqs) |-> IF i = 1 THEN seqs[i] ELSE out[i - 1] \o seqs[i]]
    BY <1>3 DEF Joined
  <1> HIDE DEF out
  <1>5. \A i \in 1 .. Len(seqs) : out[i] = IF i = 1 THEN seqs[i] ELSE out[i - 1] \o seqs[i]
    BY <1>4
  <1>6. Len(seqs) > 0 => out[1] = seqs[1]
    BY <1>5
  <1>7. ASSUME NEW k \in 1 .. Len(seqs), k > 1 PROVE out[k] = out[k - 1] \o seqs[k]
    <2>1. k # 1
      BY <1>7
    <2> QED BY <1>5, <2>1
  <1> QED BY <1>6, <1>7 DEF out

\* least and most count from below and above the levels of the first k sequences.
LEMMA FlattenLevels ==
  ASSUME NEW seqs, NEW N, Len(seqs) \in Nat, DOMAIN seqs = 1 .. Len(seqs),
         \A k \in 1 .. Len(seqs) : seqs[k] \in Seq(N),
         NEW least, least[0] = 0,
         \A k \in 1 .. Len(seqs) : least[k] \in Nat /\ least[k] =< least[k - 1] + Cardinality(Levels(seqs[k])),
         NEW most, most[0] \in Nat,
         \A k \in 1 .. Len(seqs) : most[k] \in Nat /\ most[k] >= most[k - 1] + Cardinality(Levels(seqs[k]))
  PROVE  /\ FlattenSeq(seqs) \in Seq(N)
         /\ Cardinality(Levels(FlattenSeq(seqs))) \in Nat
         /\ Cardinality(Levels(FlattenSeq(seqs))) >= least[Len(seqs)]
         /\ Cardinality(Levels(FlattenSeq(seqs))) =< most[Len(seqs)]
  <1> DEFINE p == [seqs |-> seqs, nodes |-> N, least |-> least, most |-> most]
             out == Joined(seqs)
  <1>1. /\ Len(seqs) > 0 => out[1] = seqs[1]
        /\ \A k \in 1 .. Len(seqs) : k > 1 => out[k] = out[k - 1] \o seqs[k]
    BY JoinedStep
  <1> HIDE DEF out
  <1>2. \A k \in 1 .. Len(seqs) : Cardinality(Levels(seqs[k])) \in Nat
    <2> TAKE k \in 1 .. Len(seqs)
    <2>1. Len(seqs[k]) \in Nat
      OBVIOUS
    <2> QED BY <2>1, LevelsFinite
  <1>3. JoinClaim(p, 0)
    <2>1. ASSUME 1 =< Len(seqs)
          PROVE  /\ out[1] \in Seq(N)
                 /\ Cardinality(Levels(out[1])) >= least[1] /\ Cardinality(Levels(out[1])) =< most[1]
      <3>1. 1 \in 1 .. Len(seqs) /\ out[1] = seqs[1] /\ 1 - 1 = 0
        BY <1>1, <2>1
      <3>2. /\ least[1] \in Nat /\ least[1] =< least[0] + Cardinality(Levels(seqs[1]))
            /\ most[1] \in Nat /\ most[1] >= most[0] + Cardinality(Levels(seqs[1]))
        BY <3>1
      <3> QED BY <1>2, <3>1, <3>2
    <2> QED BY <2>1 DEF JoinClaim, out
  <1>4. ASSUME NEW n \in Nat, JoinClaim(p, n) PROVE JoinClaim(p, n + 1)
    <2>1. ASSUME (n + 1) + 1 =< Len(seqs)
          PROVE  /\ out[(n + 1) + 1] \in Seq(N)
                 /\ Cardinality(Levels(out[(n + 1) + 1])) >= least[(n + 1) + 1]
                 /\ Cardinality(Levels(out[(n + 1) + 1])) =< most[(n + 1) + 1]
      <3> DEFINE k == (n + 1) + 1
      <3>1. /\ k \in 1 .. Len(seqs) /\ k > 1 /\ k - 1 = n + 1 /\ n + 1 \in 1 .. Len(seqs)
        BY <2>1
      <3>2. /\ out[n + 1] \in Seq(N)
            /\ Cardinality(Levels(out[n + 1])) >= least[n + 1] /\ Cardinality(Levels(out[n + 1])) =< most[n + 1]
        BY <1>4, <3>1 DEF JoinClaim, out
      <3>3. out[k] = out[n + 1] \o seqs[k]
        BY <1>1, <3>1
      <3> HIDE DEF k
      <3>4. /\ out[k] \in Seq(N)
            /\ Cardinality(Levels(out[k])) = Cardinality(Levels(out[n + 1])) + Cardinality(Levels(seqs[k]))
        BY <3>1, <3>2, <3>3, LevelsConcat
      <3>5. Cardinality(Levels(out[n + 1])) \in Nat /\ Cardinality(Levels(out[k])) \in Nat
        <4>1. Len(out[n + 1]) \in Nat /\ Len(out[k]) \in Nat
          BY <3>2, <3>4
        <4> QED BY <4>1, LevelsFinite
      <3>6. /\ least[k] =< least[n + 1] + Cardinality(Levels(seqs[k])) /\ least[k] \in Nat /\ least[n + 1] \in Nat
            /\ most[k] >= most[n + 1] + Cardinality(Levels(seqs[k])) /\ most[k] \in Nat /\ most[n + 1] \in Nat
            /\ Cardinality(Levels(seqs[k])) \in Nat
        BY <1>2, <3>1
      <3>7. Cardinality(Levels(out[k])) >= least[k] /\ Cardinality(Levels(out[k])) =< most[k]
        BY <3>2, <3>4, <3>5, <3>6, SMTT(60)
      <3> QED BY <3>4, <3>7 DEF k
    <2> QED BY <2>1 DEF JoinClaim, out
  <1>5. \A n \in Nat : JoinClaim(p, n)
    <2> HIDE DEF p
    <2> QED BY <1>3, <1>4, J!Climb
  <1>6. CASE Len(seqs) = 0
    <2>1. FlattenSeq(seqs) = seqs
      BY <1>6 DEF FlattenSeq
    <2>2. seqs \in Seq(N)
      <3>1. \A k \in DOMAIN seqs : seqs[k] \in N
        BY <1>6
      <3>2. seqs = << >>
        BY <1>6, <2>1
      <3> QED BY <3>2
    <2>3. Cardinality(Levels(seqs)) = 0
      <3>1. Levels(seqs) = {}
        BY <1>6 DEF Levels
      <3> QED BY <3>1, FS_EmptySet
    <2> QED BY <1>6, <2>1, <2>2, <2>3
  <1>7. CASE Len(seqs) # 0
    <2>1. FlattenSeq(seqs) = out[Len(seqs)]
      BY <1>7 DEF FlattenSeq, out, Joined
    <2>2. Len(seqs) - 1 \in Nat /\ (Len(seqs) - 1) + 1 = Len(seqs)
      BY <1>7
    <2>3. JoinClaim(p, Len(seqs) - 1)
      BY <1>5, <2>2
    <2>4. /\ out[Len(seqs)] \in Seq(N)
          /\ Cardinality(Levels(out[Len(seqs)])) >= least[Len(seqs)]
          /\ Cardinality(Levels(out[Len(seqs)])) =< most[Len(seqs)]
      BY <2>2, <2>3 DEF JoinClaim, out
    <2>5. Len(out[Len(seqs)]) \in Nat
      BY <2>4
    <2>6. Cardinality(Levels(out[Len(seqs)])) \in Nat
      BY <2>5, LevelsFinite
    <2> QED BY <2>1, <2>4, <2>6
  <1> QED BY <1>6, <1>7

----------------------------------------------------------------------------
(* Grafts.                                                                   *)

\* What is put into a tree: groups of nodes.
Grouped(groups) == IsFiniteSet(groups) /\ \A g \in groups : g.d \in Nat

Sorted(G, s) ==
  /\ s \in [1 .. Cardinality(G) -> G]
  /\ IsInjective(s) /\ \A j, k \in DOMAIN s : j < k => s[j].d >= s[k].d

LineClaim(p, n) == \A G : Grouped(G) /\ Cardinality(G) = n => \E s : Sorted(G, s)
L == INSTANCE Iteration WITH Step <- NoStep, P <- LineClaim

\* DeepestFirst chooses among orders that exist: any groups can be so lined up.
LEMMA LinedUp ==
  ASSUME NEW G, Grouped(G)
  PROVE  Sorted(G, DeepestFirst(G)) /\ Range(DeepestFirst(G)) = G /\ Cardinality(G) \in Nat
  <1>1. LineClaim(0, 0)
    <2> SUFFICES ASSUME NEW H, Grouped(H), Cardinality(H) = 0 PROVE \E s : Sorted(H, s)
      BY DEF LineClaim
    <2>1. Sorted(H, << >>)
      BY DEF Sorted, IsInjective
    <2> QED BY <2>1
  <1>2. ASSUME NEW n \in Nat, LineClaim(0, n) PROVE LineClaim(0, n + 1)
    <2> SUFFICES ASSUME NEW H, Grouped(H), Cardinality(H) = n + 1 PROVE \E s : Sorted(H, s)
      BY DEF LineClaim
    <2> DEFINE ds == {g.d : g \in H}
    <2>1. H # {}
      BY FS_EmptySet
    <2>2. ds \in SUBSET Nat /\ ds # {}
      BY <2>1 DEF Grouped
    <2>3. PICK g \in H : \A h \in H : g.d =< h.d
      <3>1. \E m \in ds : \A y \in ds : m =< y
        <4> HIDE DEF ds
        <4> QED BY <2>2, I!LeastOf
      <3> QED BY <3>1
    <2>4. IsFiniteSet(H \ {g}) /\ Cardinality(H \ {g}) = n
      <3>1. IsFiniteSet(H)
        BY DEF Grouped
      <3>2. IsFiniteSet(H \ {g}) /\ Cardinality(H \ {g}) = Cardinality(H) - 1
        BY <3>1, FS_RemoveElement
      <3>3. Cardinality(H) = n + 1
        OBVIOUS
      <3> QED BY <3>2, <3>3
    <2>5. PICK s : Sorted(H \ {g}, s)
      BY <1>2, <2>4 DEF LineClaim, Grouped
    <2> DEFINE u == [k \in 1 .. n + 1 |-> IF k = n + 1 THEN g ELSE s[k]]
    <2>6. /\ DOMAIN s = 1 .. n /\ (\A k \in 1 .. n : s[k] \in H \ {g})
          /\ \A j, k \in 1 .. n : s[j] = s[k] => j = k
          /\ \A j, k \in 1 .. n : j < k => s[j].d >= s[k].d
      BY <2>4, <2>5 DEF Sorted, IsInjective
    <2>7. \A k \in 1 .. n + 1 : k # n + 1 => k \in 1 .. n
      OBVIOUS
    <2>8. u \in [1 .. n + 1 -> H]
      BY <2>6, <2>7
    <2>9. \A j, k \in 1 .. n + 1 : u[j] = u[k] => j = k
      BY <2>6, <2>7
    <2>10. ASSUME NEW j \in 1 .. n + 1, NEW k \in 1 .. n + 1, j < k PROVE u[j].d >= u[k].d
      <3>1. j \in 1 .. n /\ u[j] = s[j] /\ s[j] \in H
        BY <2>6, <2>7, <2>10
      <3>2. CASE k = n + 1
        <4>1. u[k] = g /\ s[j].d \in Nat /\ g.d \in Nat
          BY <3>1, <3>2 DEF Grouped
        <4> QED BY <2>3, <3>1, <4>1
      <3>3. CASE k # n + 1
        <4>1. k \in 1 .. n /\ u[k] = s[k]
          BY <2>7, <3>3
        <4> QED BY <2>6, <2>10, <3>1, <4>1
      <3> QED BY <3>2, <3>3
    <2>11. Sorted(H, u)
      <3>1. DOMAIN u = 1 .. n + 1
        OBVIOUS
      <3> HIDE DEF u
      <3> QED BY <2>8, <2>9, <2>10, <3>1 DEF Sorted, IsInjective
    <2> QED BY <2>11
  <1>3. \A n \in Nat : LineClaim(0, n)
    BY <1>1, <1>2, L!Climb
  <1>4. Cardinality(G) \in Nat /\ IsFiniteSet(G)
    BY FS_CardinalityType DEF Grouped
  <1>5. \E s : Sorted(G, s)
    BY <1>3, <1>4 DEF LineClaim
  <1>6. Sorted(G, DeepestFirst(G))
    <2>1. \E s \in [1 .. Cardinality(G) -> G] :
             IsInjective(s) /\ \A j, k \in DOMAIN s : j < k => s[j].d >= s[k].d
      BY <1>5 DEF Sorted
    <2> QED BY <2>1 DEF DeepestFirst, Sorted
  <1>7. Range(DeepestFirst(G)) = G
    <2> DEFINE s == DeepestFirst(G)
    <2>1. s \in Injection(1 .. Cardinality(G), G)
      BY <1>6 DEF Sorted, Injection
    <2>2. IsFiniteSet(1 .. Cardinality(G)) /\ Cardinality(1 .. Cardinality(G)) = Cardinality(G)
      BY <1>4, FS_Interval
    <2> HIDE DEF s
    <2>3. s \in Surjection(1 .. Cardinality(G), G)
      BY <1>4, <2>1, <2>2, FS_Injection
    <2>4. Range(s) = G
      BY <2>1, <2>3 DEF Surjection, Injection, Range
    <2> QED BY <2>4 DEF s
  <1> QED BY <1>4, <1>6, <1>7

----------------------------------------------------------------------------
(* Sequences of new nodes.                                                   *)

\* New content: nothing, two put together, one node, a part.
LEMMA BlanksEmpty == Blanks(<< >>)
  <1> DEFINE N == {}
  <1>1. << >> \in Seq(N) /\ \A n \in N : Blank(n)
    OBVIOUS
  <1> HIDE DEF N
  <1> QED BY <1>1 DEF Blanks

\* Two put together.
LEMMA BlanksConcat ==
  ASSUME NEW s, NEW u, Blanks(s), Blanks(u)
  PROVE  Blanks(s \o u)
  <1>1. PICK N : s \in Seq(N) /\ \A n \in N : Blank(n)
    BY DEF Blanks
  <1>2. PICK M : u \in Seq(M) /\ \A n \in M : Blank(n)
    BY DEF Blanks
  <1>3. s \in Seq(N \cup M) /\ u \in Seq(N \cup M)
    BY <1>1, <1>2
  <1>4. s \o u \in Seq(N \cup M) /\ \A n \in N \cup M : Blank(n)
    BY <1>1, <1>2, <1>3
  <1> QED BY <1>4 DEF Blanks

\* One node.
LEMMA BlanksOne ==
  ASSUME NEW n, Blank(n)
  PROVE  Blanks(<<n>>) /\ \A s : Blanks(s) => Blanks(Append(s, n))
  <1> DEFINE Only == {n}
  <1>1. <<n>> \in Seq(Only) /\ \A m \in Only : Blank(m)
    OBVIOUS
  <1>2. Blanks(<<n>>)
    <2> HIDE DEF Only
    <2> QED BY <1>1 DEF Blanks
  <1>3. ASSUME NEW s, Blanks(s) PROVE Blanks(Append(s, n))
    <2>1. PICK N : s \in Seq(N) /\ \A m \in N : Blank(m)
      BY <1>3 DEF Blanks
    <2>2. Append(s, n) \in Seq(N \cup {n}) /\ \A m \in N \cup {n} : Blank(m)
      <3>1. s \in Seq(N \cup {n})
        BY <2>1
      <3> QED BY <2>1, <3>1
    <2> QED BY <2>2 DEF Blanks
  <1> QED BY <1>2, <1>3

\* A sequence given by its elements.
LEMMA BlanksOf ==
  ASSUME NEW s, NEW n \in Nat, s = [i \in 1 .. n |-> s[i]], \A i \in 1 .. n : Blank(s[i])
  PROVE  Blanks(s)
  <1> DEFINE N == {s[i] : i \in 1 .. n}
  <1>1. [i \in 1 .. n |-> s[i]] \in Seq(N)
    OBVIOUS
  <1>2. s \in Seq(N) /\ \A m \in N : Blank(m)
    BY <1>1
  <1> QED BY <1>2 DEF Blanks

\* The part from a position on, as a walk cuts it out.
LEMMA BlanksPart ==
  ASSUME NEW s, Blanks(s), NEW m \in Nat, m >= 1
  PROVE  Blanks(SubSeq(s, m, Len(s)))
  <1>1. PICK N : s \in Seq(N) /\ \A n \in N : Blank(n)
    BY DEF Blanks
  <1>2. \A i \in m .. Len(s) : s[i] \in N
    BY <1>1
  <1>3. SubSeq(s, m, Len(s)) \in Seq(N)
    BY <1>1, <1>2
  <1> QED BY <1>1, <1>3 DEF Blanks

\* New content holds no level.
LEMMA BlanksLevels ==
  ASSUME NEW s, Blanks(s)
  PROVE  Levels(s) = {} /\ Cardinality(Levels(s)) = 0
  <1>1. Levels(s) = {}
    BY BlanksFacts DEF Levels, Blank
  <1> QED BY <1>1, FS_EmptySet

\* Many put together.
LEMMA BlanksFlat ==
  ASSUME NEW seqs, Len(seqs) \in Nat, DOMAIN seqs = 1 .. Len(seqs), \A k \in 1 .. Len(seqs) : Blanks(seqs[k])
  PROVE  Blanks(FlattenSeq(seqs))
  <1> DEFINE N == UNION {{seqs[k][i] : i \in DOMAIN seqs[k]} : k \in 1 .. Len(seqs)}
             f == [k \in 0 .. Len(seqs) |-> 0]
  <1>1. ASSUME NEW k \in 1 .. Len(seqs)
        PROVE  /\ seqs[k] \in Seq(N) /\ \A i \in DOMAIN seqs[k] : Blank(seqs[k][i])
               /\ Cardinality(Levels(seqs[k])) = 0
    <2>1. Len(seqs[k]) \in Nat /\ DOMAIN seqs[k] = 1 .. Len(seqs[k]) /\ \A i \in DOMAIN seqs[k] : Blank(seqs[k][i])
      BY BlanksFacts
    <2>2. PICK M : seqs[k] \in Seq(M)
      BY DEF Blanks
    <2>3. \A i \in 1 .. Len(seqs[k]) : seqs[k][i] \in N
      BY <2>1
    <2> HIDE DEF N
    <2>4. seqs[k] \in Seq(N)
      BY <2>1, <2>2, <2>3
    <2> QED BY <2>1, <2>4, BlanksLevels
  <1>2. \A k \in 1 .. Len(seqs) : /\ f[k] \in Nat /\ f[k] =< f[k - 1] + Cardinality(Levels(seqs[k]))
                                  /\ f[k] >= f[k - 1] + Cardinality(Levels(seqs[k]))
    BY <1>1
  <1>3. \A n \in N : Blank(n)
    BY <1>1
  <1>4. f[0] = 0
    OBVIOUS
  <1>6. f[0] \in Nat
    OBVIOUS
  <1> HIDE DEF N, f
  <1>5. FlattenSeq(seqs) \in Seq(N)
    BY <1>1, <1>2, <1>4, <1>6, FlattenLevels
  <1> QED BY <1>3, <1>5 DEF Blanks

\* Positions in order.
Ordering(p, a, k) == IF k \in p THEN Append(a, k) ELSE a
OrderClaim(p, a) == a \in Seq(p)
O == INSTANCE Iteration WITH Step <- Ordering, P <- OrderClaim

\* A bounded set of numbers that is not empty has a greatest and a least.
LEMMA GreatestIn ==
  ASSUME NEW n \in Nat, NEW S \in SUBSET (0 .. n), S # {}
  PROVE  Max(S) \in S /\ \A y \in S : Max(S) >= y
  <1>1. \E m \in S : \A y \in S : m >= y
    BY I!GreatestUpTo
  <1> QED BY <1>1 DEF Max

\* The least one.
LEMMA LeastIn ==
  ASSUME NEW S \in SUBSET Nat, S # {}
  PROVE  Min(S) \in S /\ \A y \in S : Min(S) =< y
  <1>1. \E m \in S : \A y \in S : m =< y
    BY I!LeastOf
  <1> QED BY <1>1 DEF Min

\* InOrder lists members of the set.
LEMMA InOrderFacts ==
  ASSUME NEW n \in Nat, NEW S \in SUBSET (0 .. n)
  PROVE  /\ InOrder(S) \in Seq(S)
         /\ Len(InOrder(S)) \in Nat /\ DOMAIN InOrder(S) = 1 .. Len(InOrder(S))
         /\ \A k \in DOMAIN InOrder(S) : InOrder(S)[k] \in S
  <1>1. InOrder(S) = O!Run(S, << >>)[Max(S \cup {0})]
    BY DEF InOrder, O!Run, Ordering
  <1>2. Max(S \cup {0}) \in Nat
    <2>1. S \cup {0} \in SUBSET (0 .. n) /\ S \cup {0} # {}
      OBVIOUS
    <2>2. Max(S \cup {0}) \in S \cup {0}
      BY <2>1, GreatestIn
    <2>3. \A y \in S \cup {0} : y \in Nat
      OBVIOUS
    <2> QED BY <2>2, <2>3
  <1>3. OrderClaim(S, << >>) /\ \A a, k : OrderClaim(S, a) => OrderClaim(S, Ordering(S, a, k))
    BY DEF OrderClaim, Ordering
  <1>4. OrderClaim(S, O!Run(S, << >>)[Max(S \cup {0})])
    BY <1>2, <1>3, O!RunKeeps
  <1>5. InOrder(S) \in Seq(S)
    BY <1>1, <1>4 DEF OrderClaim
  <1> QED BY <1>5

\* Picking places of new content leaves new content.
LEMMA InPlacesBlanks ==
  ASSUME NEW s, Blanks(s), NEW S \in SUBSET DOMAIN s
  PROVE  Blanks(InPlaces(s, S))
  <1>1. Len(s) \in Nat /\ DOMAIN s = 1 .. Len(s) /\ \A i \in DOMAIN s : Blank(s[i])
    BY BlanksFacts
  <1>2. S \in SUBSET (0 .. Len(s))
    BY <1>1
  <1> DEFINE order == InOrder(S)
  <1>3. Len(order) \in Nat /\ DOMAIN order = 1 .. Len(order) /\ \A k \in DOMAIN order : order[k] \in S
    BY <1>1, <1>2, InOrderFacts
  <1> HIDE DEF order
  <1> DEFINE r == [k \in DOMAIN order |-> s[order[k]]]
  <1>4. InPlaces(s, S) = r
    BY DEF InPlaces, order
  <1>5. r = [k \in 1 .. Len(order) |-> r[k]] /\ \A k \in 1 .. Len(order) : Blank(r[k])
    BY <1>1, <1>3
  <1> HIDE DEF r
  <1> QED BY <1>3, <1>4, <1>5, BlanksOf

----------------------------------------------------------------------------
(* What a graft leaves and what it puts in.                                  *)

\* Groups of nodes out of N.
GroupsOf(groups, N) == Grouped(groups) /\ \A g \in groups : g.nodes \in Seq(N)

\* Only the group top holds levels, no more than most of them.
TopGroup(groups, top, most) ==
  most \in Nat /\ \A g \in groups : Cardinality(Levels(g.nodes)) =< IF g = top THEN most ELSE 0

\* The groups at one position, put together: at most top's levels.
LEMMA NodesLevels ==
  ASSUME NEW N, NEW G, GroupsOf(G, N), NEW top, NEW most, TopGroup(G, top, most)
  PROVE  /\ NodesOf(DeepestFirst(G)) \in Seq(N)
         /\ Cardinality(Levels(NodesOf(DeepestFirst(G)))) \in Nat
         /\ \A g \in G : Cardinality(Levels(NodesOf(DeepestFirst(G)))) >= Cardinality(Levels(g.nodes))
         /\ Cardinality(Levels(NodesOf(DeepestFirst(G)))) =< IF top \in G THEN most ELSE 0
  <1> DEFINE order == DeepestFirst(G)
             n == Cardinality(G)
             seqs == [k \in DOMAIN order |-> order[k].nodes]
  <1>1. /\ n \in Nat /\ DOMAIN order = 1 .. n /\ (\A k \in 1 .. n : order[k] \in G)
        /\ \A g \in G : \E k \in 1 .. n : order[k] = g
        /\ \A j, k \in 1 .. n : order[j] = order[k] => j = k
    <2>1. Grouped(G)
      BY DEF GroupsOf
    <2>2. /\ order \in [1 .. n -> G] /\ Range(order) = G /\ n \in Nat
          /\ \A j, k \in 1 .. n : order[j] = order[k] => j = k
      BY <2>1, LinedUp DEF Sorted, IsInjective
    <2>3. \A g \in G : \E k \in DOMAIN order : order[k] = g
      BY <2>2 DEF Range
    <2> QED BY <2>2, <2>3
  <1> HIDE DEF order, n
  <1>2. /\ Len(seqs) = n /\ DOMAIN seqs = 1 .. n
        /\ \A k \in 1 .. n : seqs[k] = order[k].nodes /\ seqs[k] \in Seq(N)
    <2>1. \A k \in 1 .. n : seqs[k] = order[k].nodes /\ seqs[k] \in Seq(N)
      BY <1>1 DEF GroupsOf
    <2>2. DOMAIN seqs = 1 .. n
      BY <1>1
    <2>3. Len(seqs) = n
      BY <1>1
    <2> QED BY <2>1, <2>2, <2>3
  <1>3. \A k \in 1 .. n : Cardinality(Levels(seqs[k])) \in Nat
    <2> TAKE k \in 1 .. n
    <2>1. Len(seqs[k]) \in Nat
      BY <1>2
    <2> HIDE DEF seqs
    <2> QED BY <2>1, LevelsFinite
  <1>4. NodesOf(order) = FlattenSeq(seqs)
    BY DEF NodesOf
  <1> HIDE DEF seqs
  <1>5. PICK in \in Nat : /\ in \in 0 .. n /\ (in = 0 <=> top \notin G)
                          /\ \A k \in 1 .. n : k # in => Cardinality(Levels(seqs[k])) = 0
                          /\ in # 0 => Cardinality(Levels(seqs[in])) =< most
    <2>1. \A k \in 1 .. n : Cardinality(Levels(seqs[k])) =< IF order[k] = top THEN most ELSE 0
      BY <1>1, <1>2 DEF TopGroup
    <2>2. CASE top \notin G
      <3>1. \A k \in 1 .. n : Cardinality(Levels(seqs[k])) = 0
        BY <1>1, <1>3, <2>1, <2>2
      <3> QED BY <1>1, <2>2, <3>1
    <2>3. CASE top \in G
      <3>1. PICK k \in 1 .. n : order[k] = top
        BY <1>1, <2>3
      <3>2. \A j \in 1 .. n : j # k => Cardinality(Levels(seqs[j])) = 0
        BY <1>1, <1>3, <2>1, <3>1
      <3>3. Cardinality(Levels(seqs[k])) =< most
        BY <2>1, <3>1
      <3> QED BY <1>1, <2>3, <3>1, <3>2, <3>3
    <2> QED BY <2>2, <2>3
  <1>6. ASSUME NEW at \in 0 .. n
        PROVE  /\ FlattenSeq(seqs) \in Seq(N) /\ Cardinality(Levels(FlattenSeq(seqs))) \in Nat
               /\ at # 0 => Cardinality(Levels(FlattenSeq(seqs))) >= Cardinality(Levels(seqs[at]))
               /\ Cardinality(Levels(FlattenSeq(seqs))) =< IF in # 0 THEN most ELSE 0
    <2> DEFINE f == [k \in 0 .. n |-> IF at # 0 /\ k >= at THEN Cardinality(Levels(seqs[at])) ELSE 0]
               h == [k \in 0 .. n |-> IF in # 0 /\ k >= in THEN most ELSE 0]
    <2>1. (at # 0 => Cardinality(Levels(seqs[at])) \in Nat) /\ most \in Nat
      BY <1>1, <1>3 DEF TopGroup
    <2>2. ASSUME NEW k \in 1 .. n PROVE f[k] \in Nat /\ f[k] =< f[k - 1] + Cardinality(Levels(seqs[k]))
      <3>1. k - 1 \in 0 .. n /\ k \in 0 .. n /\ Cardinality(Levels(seqs[k])) \in Nat /\ k \in Nat
        BY <1>1, <1>3
      <3>2. CASE at = 0
        BY <3>1, <3>2
      <3>3. CASE at # 0 /\ k < at
        BY <3>1, <3>3
      <3>4. CASE at # 0 /\ k = at
        BY <2>1, <3>1, <3>4
      <3>5. CASE at # 0 /\ k > at
        BY <2>1, <3>1, <3>5
      <3> QED BY <1>1, <3>1, <3>2, <3>3, <3>4, <3>5
    <2>3. ASSUME NEW k \in 1 .. n PROVE h[k] \in Nat /\ h[k] >= h[k - 1] + Cardinality(Levels(seqs[k]))
      <3>1. k - 1 \in 0 .. n /\ k \in 0 .. n /\ Cardinality(Levels(seqs[k])) \in Nat /\ k \in Nat
        BY <1>1, <1>3
      <3>2. k # in => Cardinality(Levels(seqs[k])) = 0
        BY <1>5
      <3>3. k = in => Cardinality(Levels(seqs[k])) =< most /\ in # 0
        BY <1>5, <3>1
      <3>4. CASE k < in
        <4>1. h[k] = 0 /\ h[k - 1] = 0
          BY <1>5, <3>1, <3>4
        <4> QED BY <3>1, <3>2, <3>4, <4>1
      <3>5. CASE k = in
        <4>1. h[k] = most /\ h[k - 1] = 0
          BY <1>5, <3>1, <3>3, <3>5
        <4> QED BY <2>1, <3>1, <3>3, <3>5, <4>1
      <3>6. CASE k > in
        <4>1. h[k] = h[k - 1] /\ h[k] \in Nat
          BY <1>5, <2>1, <3>1, <3>6
        <4> HIDE DEF h
        <4> QED BY <3>1, <3>2, <3>6, <4>1
      <3> QED BY <1>5, <3>1, <3>4, <3>5, <3>6
    <2>4. f[0] = 0 /\ f[n] = IF at # 0 THEN Cardinality(Levels(seqs[at])) ELSE 0
      BY <1>1
    <2>5. h[0] = 0 /\ h[0] \in Nat /\ h[n] = IF in # 0 THEN most ELSE 0
      BY <1>1, <1>5
    <2> HIDE DEF f, h
    <2>6. /\ FlattenSeq(seqs) \in Seq(N) /\ Cardinality(Levels(FlattenSeq(seqs))) \in Nat
          /\ Cardinality(Levels(FlattenSeq(seqs))) >= f[n]
          /\ Cardinality(Levels(FlattenSeq(seqs))) =< h[n]
      BY <1>1, <1>2, <2>2, <2>3, <2>4, <2>5, FlattenLevels
    <2> QED BY <2>4, <2>5, <2>6
  <1>7. /\ FlattenSeq(seqs) \in Seq(N) /\ Cardinality(Levels(FlattenSeq(seqs))) \in Nat
        /\ Cardinality(Levels(FlattenSeq(seqs))) =< IF in # 0 THEN most ELSE 0
    <2>1. 0 \in 0 .. n
      BY <1>1
    <2> QED BY <1>6, <2>1
  <1>8. ASSUME NEW g \in G PROVE Cardinality(Levels(FlattenSeq(seqs))) >= Cardinality(Levels(g.nodes))
    <2>1. PICK k \in 1 .. n : order[k] = g
      BY <1>1
    <2>2. k \in 0 .. n /\ k # 0 /\ seqs[k] = g.nodes
      BY <1>1, <1>2, <2>1
    <2> QED BY <1>6, <2>2
  <1> QED BY <1>4, <1>5, <1>7, <1>8 DEF order

\* The kept nodes of a tree, and those that are put in.
LEMMA PieceLevels ==
  ASSUME NEW t, Len(t) \in Nat, NEW cut, NEW N, NEW groups, GroupsOf(groups, N),
         \A i \in 1 .. Len(t) : i \notin cut => t[i] \in N,
         NEW top, NEW most, TopGroup(groups, top, most),
         NEW i \in 0 .. Len(t)
  PROVE  /\ Piece(t, cut, groups, i) \in Seq(N)
         /\ Cardinality(Levels(Piece(t, cut, groups, i))) \in Nat
         /\ Cardinality(Levels(Piece(t, cut, groups, i))) >= IF i \in Levels(t) \ cut THEN 1 ELSE 0
         /\ \A g \in groups : g.after = i =>
              Cardinality(Levels(Piece(t, cut, groups, i)))
                >= (IF i \in Levels(t) \ cut THEN 1 ELSE 0) + Cardinality(Levels(g.nodes))
         /\ Cardinality(Levels(Piece(t, cut, groups, i)))
              =< (IF i \in Levels(t) \ cut THEN 1 ELSE 0) + (IF top.after = i THEN most ELSE 0)
  <1> DEFINE G == {g \in groups : g.after = i}
             own == IF i = 0 \/ i \in cut THEN << >> ELSE <<t[i]>>
             put == NodesOf(DeepestFirst(G))
             one == IF i \in Levels(t) \ cut THEN 1 ELSE 0
  <1>1. GroupsOf(G, N)
    <2>1. IsFiniteSet(G)
      BY FS_Subset DEF GroupsOf, Grouped
    <2> QED BY <2>1 DEF GroupsOf, Grouped
  <1>2. /\ put \in Seq(N) /\ Cardinality(Levels(put)) \in Nat
        /\ \A g \in G : Cardinality(Levels(put)) >= Cardinality(Levels(g.nodes))
        /\ Cardinality(Levels(put)) =< IF top \in G THEN most ELSE 0
    <2>1. TopGroup(G, top, most)
      BY DEF TopGroup
    <2> HIDE DEF G
    <2> QED BY <1>1, <2>1, NodesLevels
  <1>3. own \in Seq(N) /\ Len(own) \in Nat
    OBVIOUS
  <1>4. Cardinality(Levels(own)) = one
    <2>1. CASE i \in Levels(t) \ cut
      <3>1. i # 0 /\ own = <<t[i]>> /\ t[i].kind = "level"
        BY <2>1 DEF Levels
      <3>2. Levels(own) = {1}
        BY <3>1 DEF Levels
      <3> HIDE DEF own
      <3> QED BY <2>1, <3>2, FS_Singleton
    <2>2. CASE i \notin Levels(t) \ cut
      <3>1. Levels(own) = {}
        BY <2>2 DEF Levels
      <3> HIDE DEF own
      <3> QED BY <2>2, <3>1, FS_EmptySet
    <2> QED BY <2>1, <2>2
  <1> HIDE DEF own, put
  <1>5. /\ own \o put \in Seq(N)
        /\ Cardinality(Levels(own \o put)) = Cardinality(Levels(own)) + Cardinality(Levels(put))
    BY <1>2, <1>3, LevelsConcat
  <1>6. Len(own \o put) \in Nat
    BY <1>5
  <1>7. Cardinality(Levels(own \o put)) \in Nat
    BY <1>6, LevelsFinite
  <1>8. Piece(t, cut, groups, i) = own \o put
    BY DEF Piece, own, put
  <1>9. one \in Nat
    OBVIOUS
  <1> HIDE DEF one
  <1>10. ASSUME NEW g \in groups, g.after = i
         PROVE  Cardinality(Levels(own \o put)) >= one + Cardinality(Levels(g.nodes))
    <2>1. Len(g.nodes) \in Nat
      BY DEF GroupsOf
    <2>2. Cardinality(Levels(g.nodes)) \in Nat
      BY <2>1, LevelsFinite
    <2>3. Cardinality(Levels(put)) >= Cardinality(Levels(g.nodes))
      BY <1>2, <1>10
    <2> QED BY <1>2, <1>4, <1>5, <1>7, <1>9, <2>2, <2>3
  <1>11. Cardinality(Levels(own \o put)) >= one
    BY <1>2, <1>4, <1>5, <1>7, <1>9
  <1>12. Cardinality(Levels(own \o put)) =< one + (IF top.after = i THEN most ELSE 0)
    <2>1. (IF top \in G THEN most ELSE 0) =< (IF top.after = i THEN most ELSE 0) /\ most \in Nat
      BY DEF TopGroup
    <2> HIDE DEF G
    <2> QED BY <1>2, <1>4, <1>5, <1>9, <2>1
  <1> QED BY <1>5, <1>7, <1>8, <1>10, <1>11, <1>12 DEF one

\* Piece by piece over the whole tree.
LEMMA GraftLevels ==
  ASSUME NEW t, Len(t) \in Nat, NEW cut, NEW N, NEW groups, GroupsOf(groups, N),
         \A i \in 1 .. Len(t) : i \notin cut => t[i] \in N,
         NEW extra \in Nat,
         extra = 0 \/ \E g \in groups : g.after \in 0 .. Len(t) /\ Cardinality(Levels(g.nodes)) >= extra,
         NEW top, NEW most, TopGroup(groups, top, most)
  PROVE  /\ GraftAt(t, cut, groups) \in Seq(N)
         /\ LevelOf(GraftAt(t, cut, groups)) \in Nat
         /\ LevelOf(GraftAt(t, cut, groups)) >= Cardinality(Levels(t) \ cut) + extra
         /\ LevelOf(GraftAt(t, cut, groups)) =< Cardinality(Levels(t) \ cut) + most
  <1>1. PICK at \in Nat : /\ at \in 0 .. Len(t)
                          /\ extra = 0 \/ \E g \in groups : g.after = at /\ Cardinality(Levels(g.nodes)) >= extra
    <2>1. CASE extra = 0
      BY <2>1
    <2>2. CASE \E g \in groups : g.after \in 0 .. Len(t) /\ Cardinality(Levels(g.nodes)) >= extra
      BY <2>2
    <2> QED BY <2>1, <2>2
  <1> DEFINE n == Len(t) + 1
             kept == Levels(t) \ cut
             Upto(k) == {i \in kept : i =< k}
             seqs == [k \in 1 .. n |-> Piece(t, cut, groups, k - 1)]
             Put(k) == IF k >= at THEN extra ELSE 0
             f == [k \in 0 .. n |-> Cardinality(Upto(k - 1)) + Put(k - 1)]
             Most(k) == IF \E j \in 0 .. k : j = top.after THEN most ELSE 0
             h == [k \in 0 .. n |-> Cardinality(Upto(k - 1)) + Most(k - 1)]
  <1>2. IsFiniteSet(kept) /\ \A k \in Int : IsFiniteSet(Upto(k)) /\ Cardinality(Upto(k)) \in Nat
    <2>1. IsFiniteSet(kept)
      BY LevelsFinite, FS_Subset
    <2>2. \A k \in Int : Upto(k) \in SUBSET kept
      OBVIOUS
    <2> HIDE DEF kept, Upto
    <2> QED BY <2>1, <2>2, FS_Subset, FS_CardinalityType
  <1>3. ASSUME NEW k \in 1 .. n
        PROVE  /\ seqs[k] \in Seq(N) /\ Cardinality(Levels(seqs[k])) \in Nat
               /\ Cardinality(Levels(seqs[k])) >= IF k - 1 \in kept THEN 1 ELSE 0
               /\ k - 1 = at => Cardinality(Levels(seqs[k])) >= (IF k - 1 \in kept THEN 1 ELSE 0) + extra
               /\ Cardinality(Levels(seqs[k]))
                    =< (IF k - 1 \in kept THEN 1 ELSE 0) + (IF top.after = k - 1 THEN most ELSE 0)
    <2> DEFINE s == Piece(t, cut, groups, k - 1)
               one == IF k - 1 \in kept THEN 1 ELSE 0
    <2>1. k - 1 \in 0 .. Len(t) /\ seqs[k] = s
      OBVIOUS
    <2>2. /\ s \in Seq(N) /\ Cardinality(Levels(s)) \in Nat
          /\ Cardinality(Levels(s)) >= one
          /\ \A g \in groups : g.after = k - 1 => Cardinality(Levels(s)) >= one + Cardinality(Levels(g.nodes))
          /\ Cardinality(Levels(s)) =< one + (IF top.after = k - 1 THEN most ELSE 0)
      BY <2>1, PieceLevels
    <2>3. \A g \in groups : Cardinality(Levels(g.nodes)) \in Nat
      <3> TAKE g \in groups
      <3>1. Len(g.nodes) \in Nat
        BY DEF GroupsOf
      <3> QED BY <3>1, LevelsFinite
    <2>4. one \in Nat
      OBVIOUS
    <2> HIDE DEF s, one, seqs, kept
    <2>5. ASSUME k - 1 = at PROVE Cardinality(Levels(s)) >= one + extra
      <3>1. CASE extra = 0
        BY <2>2, <2>4, <3>1
      <3>2. CASE extra # 0
        <4>1. PICK g \in groups : g.after = at /\ Cardinality(Levels(g.nodes)) >= extra
          BY <1>1, <3>2
        <4> QED BY <2>2, <2>3, <2>4, <2>5, <4>1
      <3> QED BY <3>1, <3>2
    <2> QED BY <2>1, <2>2, <2>5 DEF one
  <1>4. ASSUME NEW k \in Nat PROVE Cardinality(Upto(k)) = Cardinality(Upto(k - 1)) + IF k \in kept THEN 1 ELSE 0
    <2>1. \A i \in kept : i \in Nat
      BY LevelsFinite
    <2> HIDE DEF kept
    <2>2. CASE k \in kept
      <3>0. \A i \in kept : (i =< k <=> i =< k - 1 \/ i = k)
        BY <2>1
      <3>2. k \in kept /\ k =< k /\ ~(k =< k - 1) /\ k - 1 \in Int
        BY <2>2
      <3>3. \A i : i \in Upto(k) <=> i \in Upto(k - 1) \cup {k}
        BY <3>0, <3>2
      <3>4. Upto(k) = Upto(k - 1) \cup {k}
        <4> HIDE DEF Upto
        <4> QED BY <3>3
      <3>1. Upto(k) = Upto(k - 1) \cup {k} /\ k \notin Upto(k - 1) /\ k - 1 \in Int
        BY <3>2, <3>4
      <3> HIDE DEF Upto
      <3>5. Cardinality(Upto(k - 1) \cup {k}) = Cardinality(Upto(k - 1)) + 1
        BY <1>2, <3>1, FS_AddElement
      <3>6. Cardinality(Upto(k)) = Cardinality(Upto(k - 1)) + 1 /\ Cardinality(Upto(k - 1)) \in Nat
        BY <1>2, <3>1, <3>5
      <3> QED BY <2>2, <3>6
    <2>3. CASE k \notin kept
      <3>1. Upto(k) = Upto(k - 1) /\ k - 1 \in Int
        BY <2>1, <2>3
      <3> HIDE DEF Upto
      <3> QED BY <1>2, <2>3, <3>1
    <2> QED BY <2>2, <2>3
  <1>5. \A k \in Int : Put(k) \in Nat /\ Most(k) \in Nat
    BY DEF TopGroup
  <1>6. ASSUME NEW k \in 1 .. n PROVE f[k] \in Nat /\ f[k] =< f[k - 1] + Cardinality(Levels(seqs[k]))
    <2> DEFINE a == Cardinality(Upto(k - 1))
               b == Cardinality(Upto((k - 1) - 1))
               one == IF k - 1 \in kept THEN 1 ELSE 0
               c == Cardinality(Levels(seqs[k]))
    <2>1. k - 1 \in Nat /\ k \in 0 .. n /\ k - 1 \in 0 .. n /\ k - 1 \in Int /\ (k - 1) - 1 \in Int
      OBVIOUS
    <2>2. f[k] = a + Put(k - 1) /\ f[k - 1] = b + Put((k - 1) - 1)
      BY <2>1
    <2>3. a = b + one /\ a \in Nat /\ b \in Nat
      BY <1>2, <1>4, <2>1
    <2>4. c \in Nat /\ c >= one /\ (k - 1 = at => c >= one + extra) /\ one \in Nat
      BY <1>3
    <2> HIDE DEF a, b, one, c, f
    <2>5. k - 1 = at => Put(k - 1) = extra /\ Put((k - 1) - 1) = 0
      BY <2>1
    <2>6. k - 1 # at => Put(k - 1) = Put((k - 1) - 1)
      BY <2>1
    <2>7. Put(k - 1) \in Nat /\ Put((k - 1) - 1) \in Nat
      BY <1>5, <2>1
    <2> HIDE DEF Gained
    <2>8. f[k] \in Nat
      BY <2>2, <2>3, <2>7
    <2>9. CASE k - 1 = at
      <3>1. f[k] = a + extra /\ f[k - 1] = b + 0 /\ c >= one + extra
        BY <2>2, <2>4, <2>5, <2>9
      <3>2. f[k] =< f[k - 1] + c
        BY <2>3, <2>4, <3>1
      <3> QED BY <2>8, <3>2 DEF c
    <2>10. CASE k - 1 # at
      <3>1. f[k] = a + Put((k - 1) - 1) /\ f[k - 1] = b + Put((k - 1) - 1)
        BY <2>2, <2>6, <2>10
      <3>2. f[k] =< f[k - 1] + c
        BY <2>3, <2>4, <2>7, <3>1
      <3> QED BY <2>8, <3>2 DEF c
    <2> QED BY <2>9, <2>10
  <1>13. ASSUME NEW k \in 1 .. n PROVE h[k] \in Nat /\ h[k] >= h[k - 1] + Cardinality(Levels(seqs[k]))
    <2> DEFINE a == Cardinality(Upto(k - 1))
               b == Cardinality(Upto((k - 1) - 1))
               one == IF k - 1 \in kept THEN 1 ELSE 0
               put == IF top.after = k - 1 THEN most ELSE 0
               c == Cardinality(Levels(seqs[k]))
    <2>1. k - 1 \in Nat /\ k \in 0 .. n /\ k - 1 \in 0 .. n /\ k - 1 \in Int /\ (k - 1) - 1 \in Int
      OBVIOUS
    <2>2. h[k] = a + Most(k - 1) /\ h[k - 1] = b + Most((k - 1) - 1)
      BY <2>1
    <2>3. a = b + one /\ a \in Nat /\ b \in Nat
      BY <1>2, <1>4, <2>1
    <2>4. c \in Nat /\ c =< one + put /\ one \in Nat
      BY <1>3
    <2>5. Most(k - 1) \in Nat /\ Most((k - 1) - 1) \in Nat /\ Most(k - 1) = Most((k - 1) - 1) + put
      <3>1. most \in Nat
        BY DEF TopGroup
      <3>2. CASE top.after = k - 1
        <4>1. k - 1 \in 0 .. k - 1 /\ k - 1 \notin 0 .. (k - 1) - 1
          BY <2>1
        <4>2. Most(k - 1) = most /\ Most((k - 1) - 1) = 0 /\ put = most
          BY <3>2, <4>1
        <4> HIDE DEF Most, put
        <4> QED BY <3>1, <4>2
      <3>3. CASE top.after # k - 1
        <4>1. 0 .. k - 1 = 0 .. (k - 1) - 1 \cup {k - 1}
          BY <2>1
        <4>2. Most(k - 1) = Most((k - 1) - 1) /\ put = 0 /\ Most(k - 1) \in Nat
          BY <3>1, <3>3, <4>1
        <4> HIDE DEF Most, put
        <4> QED BY <4>2
      <3> QED BY <3>2, <3>3
    <2>6. put \in Nat
      BY DEF TopGroup
    <2> HIDE DEF a, b, one, c, h, Most, put
    <2>7. h[k] \in Nat /\ h[k] >= h[k - 1] + c
      BY <2>2, <2>3, <2>4, <2>5, <2>6
    <2> QED BY <2>7 DEF c
  <1>14. h[0] \in Nat
    <2>1. Upto(0 - 1) = {} /\ Most(0 - 1) = 0
      BY LevelsFinite
    <2>2. h[0] = Cardinality(Upto(0 - 1)) + Most(0 - 1)
      OBVIOUS
    <2> QED BY <2>1, <2>2, FS_EmptySet
  <1>7. f[0] = 0
    <2>1. Upto(0 - 1) = {} /\ Put(0 - 1) = 0
      BY LevelsFinite
    <2>2. f[0] = Cardinality(Upto(0 - 1)) + Put(0 - 1)
      OBVIOUS
    <2> QED BY <2>1, <2>2, FS_EmptySet
  <1>8. f[n] = Cardinality(kept) + extra /\ h[n] =< Cardinality(kept) + most
    <2>1. \A i \in kept : i \in Nat /\ i =< n - 1
      BY LevelsFinite
    <2>3. Upto(n - 1) = kept
      BY <2>1
    <2>4. Put(n - 1) = extra
      BY <1>1
    <2>2. f[n] = Cardinality(Upto(n - 1)) + Put(n - 1) /\ h[n] = Cardinality(Upto(n - 1)) + Most(n - 1)
      OBVIOUS
    <2>5. Most(n - 1) =< most /\ Most(n - 1) \in Nat /\ most \in Nat
      BY DEF TopGroup
    <2>6. Cardinality(kept) \in Nat
      BY <1>2, FS_CardinalityType
    <2> HIDE DEF Upto, kept, Put, Most, f, h
    <2> QED BY <2>2, <2>3, <2>4, <2>5, <2>6
  <1>9. Len(seqs) = n /\ DOMAIN seqs = 1 .. n
    OBVIOUS
  <1>10. GraftAt(t, cut, groups) = FlattenSeq(seqs)
    BY DEF GraftAt
  <1> HIDE DEF seqs, f, h, kept, n
  <1>11. n \in Nat
    BY DEF n
  <1>12. /\ FlattenSeq(seqs) \in Seq(N)
         /\ Cardinality(Levels(FlattenSeq(seqs))) \in Nat
         /\ Cardinality(Levels(FlattenSeq(seqs))) >= f[n]
         /\ Cardinality(Levels(FlattenSeq(seqs))) =< h[n]
    BY <1>3, <1>6, <1>7, <1>9, <1>11, <1>13, <1>14, FlattenLevels
  <1>15. h[n] \in Nat /\ Cardinality(kept) \in Nat /\ most \in Nat
    <2>1. n \in 1 .. n
      BY <1>11 DEF n
    <2> QED BY <1>2, <1>13, <2>1, FS_CardinalityType DEF TopGroup
  <1> QED BY <1>8, <1>10, <1>12, <1>15 DEF LevelOf, kept

\* A graft keeps the levels it does not cut out and adds those of one group.
LEMMA GraftFacts ==
  ASSUME NEW t, Tree(t), NEW gone \in SUBSET DOMAIN t, NEW groups, Grouped(groups), NEW n \in Nat,
         \A g \in groups : Tree(g.nodes) /\ EarnedBy(g.nodes, n),
         \A i \in DOMAIN t \ Spread(t, gone) : Filled(t[i]) => t[i].lvl =< n,
         NEW extra \in Nat,
         extra = 0 \/ \E g \in groups : g.after \in 0 .. Len(t) /\ Cardinality(Levels(g.nodes)) >= extra,
         NEW top, NEW most, TopGroup(groups, top, most)
  PROVE  /\ Tree(Graft(t, gone, groups)) /\ EarnedBy(Graft(t, gone, groups), n)
         /\ LevelOf(Graft(t, gone, groups)) \in Nat
         /\ LevelOf(Graft(t, gone, groups)) >= Cardinality(Levels(t) \ gone) + extra
         /\ LevelOf(Graft(t, gone, groups)) =< Cardinality(Levels(t) \ gone) + most
  <1> DEFINE cut == Spread(t, gone)
             Old == {t[i] : i \in {j \in 1 .. Len(t) : j \notin cut}}
             New == UNION {{g.nodes[i] : i \in DOMAIN g.nodes} : g \in groups}
             N == Old \cup New
             Good(m) == IsNode(m) /\ (Filled(m) => m.lvl =< n)
  <1>1. Len(t) \in Nat /\ DOMAIN t = 1 .. Len(t) /\ \A i \in DOMAIN t : IsNode(t[i])
    BY TreeFacts
  <1>2. \A m \in Old : Good(m)
    BY <1>1
  <1>3. ASSUME NEW g \in groups
        PROVE  g.nodes \in Seq(N) /\ \A i \in DOMAIN g.nodes : Good(g.nodes[i])
    <2>1. Len(g.nodes) \in Nat /\ DOMAIN g.nodes = 1 .. Len(g.nodes) /\ \A i \in DOMAIN g.nodes : IsNode(g.nodes[i])
      BY TreeFacts
    <2>2. \A i \in DOMAIN g.nodes : Good(g.nodes[i])
      BY <2>1 DEF EarnedBy
    <2>3. \A i \in 1 .. Len(g.nodes) : g.nodes[i] \in N
      BY <2>1
    <2>4. PICK M : g.nodes \in Seq(M)
      BY DEF Tree
    <2> HIDE DEF N
    <2>5. g.nodes \in Seq(N)
      BY <2>1, <2>3, <2>4
    <2> QED BY <2>2, <2>5
  <1>4. \A m \in New : Good(m)
    BY <1>3
  <1>5. \A m \in N : Good(m)
    BY <1>2, <1>4
  <1>6. GroupsOf(groups, N)
    BY <1>3 DEF GroupsOf
  <1>7. \A i \in 1 .. Len(t) : i \notin cut => t[i] \in N
    OBVIOUS
  <1>8. Graft(t, gone, groups) = GraftAt(t, cut, groups)
    BY DEF Graft
  <1> HIDE DEF N, Old, New, Good, cut
  <1>9. /\ GraftAt(t, cut, groups) \in Seq(N)
        /\ LevelOf(GraftAt(t, cut, groups)) \in Nat
        /\ LevelOf(GraftAt(t, cut, groups)) >= Cardinality(Levels(t) \ cut) + extra
        /\ LevelOf(GraftAt(t, cut, groups)) =< Cardinality(Levels(t) \ cut) + most
    BY <1>1, <1>6, <1>7, GraftLevels
  <1>10. Levels(t) \ cut = Levels(t) \ gone
    <2>1. gone \subseteq cut /\ \A k \in cut \ gone : t[k].kind # "level"
      BY SpreadFacts DEF cut
    <2> QED BY <2>1 DEF Levels
  <1>11. Tree(GraftAt(t, cut, groups)) /\ EarnedBy(GraftAt(t, cut, groups), n)
    <2> DEFINE u == GraftAt(t, cut, groups)
    <2>1. \A i \in DOMAIN u : u[i] \in N
      BY <1>9
    <2> HIDE DEF u
    <2>2. \A m \in N : IsNode(m) /\ (Filled(m) => m.lvl =< n)
      BY <1>5 DEF Good
    <2> QED BY <1>9, <2>1, <2>2 DEF Tree, EarnedBy, u
  <1> QED BY <1>8, <1>9, <1>10, <1>11

\* New nodes come with their choices open.
LEMMA BlanksTree ==
  ASSUME NEW s, Blanks(s)
  PROVE  Tree(s) /\ \A n : EarnedBy(s, n)
  <1>1. Tree(s)
    BY DEF Blanks, Tree, Blank
  <1>2. \A i \in DOMAIN s : ~Filled(s[i])
    BY BlanksFacts DEF Blank, Filled
  <1> QED BY <1>1, <1>2 DEF EarnedBy

\* A document is sound when it is a tree of no more levels than there are, and
\* every answered choice is one of a level it has.
SoundTree(t) == Tree(t) /\ EarnedBy(t, LevelOf(t)) /\ LevelOf(t) =< MAX_LEVEL

\* LevelOf counts.
LEMMA TreeLevels ==
  ASSUME NEW t, Tree(t)
  PROVE  LevelOf(t) \in Nat /\ IsFiniteSet(Levels(t)) /\ Levels(t) \subseteq DOMAIN t
  BY TreeFacts, LevelsFinite DEF LevelOf

\* What keeps the levels of a sound tree and puts in new nodes keeps it sound.
LEMMA GraftKeeps ==
  ASSUME NEW t, Tree(t), NEW n \in Nat, EarnedBy(t, n), LevelOf(t) = n, n =< MAX_LEVEL,
         NEW gone \in SUBSET DOMAIN t, \A i \in gone : t[i].kind # "level",
         NEW groups, Grouped(groups), \A g \in groups : Blanks(g.nodes)
  PROVE  SoundTree(Graft(t, gone, groups)) /\ LevelOf(Graft(t, gone, groups)) = n
  <1> DEFINE u == Graft(t, gone, groups)
  <1>1. \A g \in groups : Tree(g.nodes) /\ EarnedBy(g.nodes, n)
    BY BlanksTree
  <1>2. \A i \in DOMAIN t \ Spread(t, gone) : Filled(t[i]) => t[i].lvl =< n
    BY DEF EarnedBy
  <1>3. TopGroup(groups, None, 0)
    BY BlanksLevels DEF TopGroup
  <1>4. Levels(t) \ gone = Levels(t)
    BY DEF Levels
  <1>5. /\ Tree(u) /\ EarnedBy(u, n) /\ LevelOf(u) \in Nat
        /\ LevelOf(u) >= Cardinality(Levels(t) \ gone) + 0 /\ LevelOf(u) =< Cardinality(Levels(t) \ gone) + 0
    BY <1>1, <1>2, <1>3, GraftFacts
  <1>6. LevelOf(u) = LevelOf(t)
    <2>1. LevelOf(t) \in Nat /\ LevelOf(t) = Cardinality(Levels(t) \ gone)
      BY <1>4, TreeLevels DEF LevelOf
    <2> QED BY <1>5, <2>1
  <1> HIDE DEF u
  <1> QED BY <1>5, <1>6 DEF SoundTree, u

----------------------------------------------------------------------------
(* Registering.                                                              *)

\* The image of a finite set is finite.
LEMMA ImageFinite ==
  ASSUME NEW S, IsFiniteSet(S), NEW f, DOMAIN f = S
  PROVE  IsFiniteSet({f[x] : x \in S})
  <1> DEFINE T == {f[x] : x \in S}
             g == [x \in S |-> f[x]]
  <1>1. g \in Surjection(S, T)
    BY DEF Surjection
  <1> HIDE DEF T, g
  <1>2. IsFiniteSet(T)
    BY <1>1, FS_Surjection
  <1> QED BY <1>2 DEF T

Ctx(c) ==
  /\ c = [has |-> c.has, new |-> c.new, lvl |-> c.lvl, on |-> c.on, out |-> c.out]
  /\ Blanks(c.out)

\* The edits a context takes.
LEMMA CtxWith ==
  ASSUME NEW c, Ctx(c), NEW has, NEW new, NEW out
  PROVE  /\ [c EXCEPT !.out = out].out = out
         /\ Blanks(out) => Ctx([c EXCEPT !.out = out])
         /\ [c EXCEPT !.has = has, !.new = new].out = c.out
         /\ Ctx([c EXCEPT !.has = has, !.new = new])
         /\ Ctx([c EXCEPT !.has = has])
  <1>1. PICK h, n, l, o, s : c = [has |-> h, new |-> n, lvl |-> l, on |-> o, out |-> s] /\ Blanks(s)
    BY DEF Ctx
  <1>2. [c EXCEPT !.out = out] = [has |-> h, new |-> n, lvl |-> l, on |-> o, out |-> out]
    BY <1>1
  <1>3. [c EXCEPT !.has = has, !.new = new] = [has |-> has, new |-> new, lvl |-> l, on |-> o, out |-> s]
    <2>1. [c EXCEPT !.has = has, !.new = new] = [[c EXCEPT !.has = has] EXCEPT !.new = new]
      OBVIOUS
    <2> DEFINE r == [has |-> has, new |-> n, lvl |-> l, on |-> o, out |-> s]
    <2>2. [c EXCEPT !.has = has] = r
      BY <1>1
    <2>3. [r EXCEPT !.new = new] = [has |-> has, new |-> new, lvl |-> l, on |-> o, out |-> s]
      OBVIOUS
    <2> HIDE DEF r
    <2> QED BY <2>1, <2>2, <2>3
  <1> DEFINE a == [has |-> h, new |-> n, lvl |-> l, on |-> o, out |-> out]
             b == [has |-> has, new |-> new, lvl |-> l, on |-> o, out |-> s]
  <1>4. a.out = out /\ b.out = s /\ c.out = s
    BY <1>1
  <1>5. Blanks(out) => Ctx(a)
    BY DEF Ctx
  <1>6. Ctx(b)
    BY <1>1 DEF Ctx
  <1>7. Ctx([c EXCEPT !.has = has])
    <2> DEFINE r == [has |-> has, new |-> n, lvl |-> l, on |-> o, out |-> s]
    <2>1. [c EXCEPT !.has = has] = r
      BY <1>1
    <2>2. Ctx(r)
      BY <1>1 DEF Ctx
    <2> QED BY <2>1, <2>2
  <1> QED BY <1>2, <1>3, <1>4, <1>5, <1>6, <1>7

\* A context starts with no new content.
LEMMA ContextFacts ==
  ASSUME NEW document, NEW extra, NEW level
  PROVE  Ctx(Context(document, extra, level))
  BY BlanksEmpty DEF Ctx, Context

\* What LibrarySorted says of one element's rules.
LEMMA RuleFacts ==
  ASSUME LibrarySorted, NEW e \in Elem
  PROVE  /\ Len(Rules[e]) \in Nat /\ DOMAIN Rules[e] = 1 .. Len(Rules[e])
         /\ \A n \in DOMAIN Rules[e] :
              /\ Rules[e][n].kind \in {"select", "grant"}
              /\ Rules[e][n].level \in Nat /\ Rules[e][n].number \in Nat /\ Rules[e][n].pool \subseteq Elem
              /\ Rules[e][n].kind = "grant" => Rules[e][n].name \in Elem
  BY DEF LibrarySorted

\* The same for what may be no element.
LEMMA RulesOfFacts ==
  ASSUME LibrarySorted, NEW e
  PROVE  /\ Len(RulesOf(e)) \in Nat /\ DOMAIN RulesOf(e) = 1 .. Len(RulesOf(e))
         /\ \A n \in DOMAIN RulesOf(e) :
              /\ e \in Elem /\ n \in DOMAIN Rules[e] /\ RulesOf(e)[n] = Rules[e][n]
              /\ Rules[e][n].level \in Nat /\ Rules[e][n].number \in Nat
              /\ Rules[e][n].kind = "grant" => Rules[e][n].name \in Elem
  <1>1. CASE e \in Elem
    BY <1>1, RuleFacts DEF RulesOf
  <1>2. CASE e \notin Elem
    <2>1. RulesOf(e) = << >>
      BY <1>2 DEF RulesOf
    <2> QED BY <2>1
  <1> QED BY <1>1, <1>2

\* An element's node holds no answer and is no level.
LEMMA ElementBlank ==
  ASSUME LibrarySorted, NEW d \in Nat, d >= 1, NEW e \in Elem \cup Range(StartId)
  PROVE  Blank(ElementNode(d, e))
  <1>1. e \notin LevelIds /\ None \notin LevelIds
    BY DEF LibrarySorted
  <1> QED BY <1>1 DEF Blank, IsNode, ElementNode

\* A rule's wrappers start unanswered.
LEMMA SlotsBlank ==
  ASSUME LibrarySorted, NEW owner \in Elem, NEW i \in DOMAIN Rules[owner], NEW d \in Nat, d >= 1
  PROVE  Blanks(Slots(owner, i, d)) /\ Len(Slots(owner, i, d)) \in Nat
  <1> DEFINE r == Rules[owner][i]
             w(s) == WrapperNode(d, r.name, IF r.level = 0 THEN 1 ELSE r.level, <<owner, i, s>>, None)
             slots == Slots(owner, i, d)
  <1>1. r.level \in Nat /\ r.number \in Nat /\ r.pool \subseteq Elem
    BY RuleFacts
  <1>2. ASSUME NEW s PROVE Blank(w(s))
    <2>1. Pool(w(s)) = r.pool
      BY DEF Pool, Authored, RuleOf, WrapperNode
    <2>2. None \notin LevelIds
      BY DEF LibrarySorted
    <2>3. (IF r.level = 0 THEN 1 ELSE r.level) \in Nat
      BY <1>1
    <2> HIDE DEF r
    <2>4. w(s).kind = "wrapper" /\ w(s).d = d /\ w(s).id = None /\ w(s).reg = None
          /\ w(s).lvl = IF r.level = 0 THEN 1 ELSE r.level
      BY DEF WrapperNode
    <2>5. w(s) = [d |-> w(s).d, kind |-> w(s).kind, id |-> w(s).id, name |-> w(s).name,
                  lvl |-> w(s).lvl, rule |-> w(s).rule, reg |-> w(s).reg]
      BY DEF WrapperNode
    <2> HIDE DEF w
    <2> QED BY <1>1, <2>1, <2>2, <2>3, <2>4, <2>5 DEF Blank, IsNode
  <1>3. slots = [s \in 1 .. r.number |-> w(s)]
    BY DEF Slots
  <1> HIDE DEF w, r, slots
  <1>4. slots = [s \in 1 .. r.number |-> slots[s]] /\ \A s \in 1 .. r.number : Blank(slots[s])
    BY <1>2, <1>3
  <1>5. Blanks(slots)
    BY <1>1, <1>4, BlanksOf
  <1>6. Len(slots) \in Nat
    BY <1>5, BlanksFacts
  <1> QED BY <1>5, <1>6 DEF slots

\* The wrappers of several rules.
LEMMA SlotsOfBlank ==
  ASSUME LibrarySorted, NEW owner \in Elem, NEW S \in SUBSET DOMAIN Rules[owner], NEW d \in Nat, d >= 1
  PROVE  Blanks(SlotsOf(owner, S, d))
  <1> DEFINE order == InOrder(S)
             seqs == [k \in DOMAIN order |-> Slots(owner, order[k], d)]
  <1>1. Len(order) \in Nat /\ DOMAIN order = 1 .. Len(order) /\ \A k \in DOMAIN order : order[k] \in DOMAIN Rules[owner]
    <2>1. Len(Rules[owner]) \in Nat /\ S \in SUBSET (0 .. Len(Rules[owner]))
      BY RuleFacts
    <2> QED BY <2>1, InOrderFacts
  <1> HIDE DEF order
  <1>2. Len(seqs) = Len(order) /\ DOMAIN seqs = 1 .. Len(order) /\ \A k \in 1 .. Len(order) : seqs[k] = Slots(owner, order[k], d)
    BY <1>1
  <1>3. SlotsOf(owner, S, d) = FlattenSeq(seqs)
    BY DEF SlotsOf, order
  <1> HIDE DEF seqs
  <1>4. \A k \in 1 .. Len(seqs) : Blanks(seqs[k])
    BY <1>1, <1>2, SlotsBlank
  <1>5. Blanks(FlattenSeq(seqs))
    BY <1>1, <1>2, <1>4, BlanksFlat
  <1> QED BY <1>3, <1>5

\* What is left to register, and what has been registered.
ToRegister == [e : Elem, d : Nat \ {0}]
Machine(m) == m.todo \in Seq(ToRegister) /\ Ctx(m.ctx)

Registering(p, m, k) == RegisterNext(m)
RegisterClaim(p, m) == Machine(m)
RG == INSTANCE Iteration WITH Step <- Registering, P <- RegisterClaim

\* One step of registering: entering, adding.
LEMMA EnteringKeeps ==
  ASSUME LibrarySorted, NEW e \in Elem, NEW d \in Nat \ {0}, NEW rest \in Seq(ToRegister), NEW c, Ctx(c)
  PROVE  Machine(Entering(e, d, rest, c))
  <1>1. CASE e \in c.new
    BY <1>1 DEF Entering, Machine
  <1>2. CASE e \notin c.new
    <2> DEFINE in == [c EXCEPT !.has = @ \cup {e}, !.new = @ \cup {e}]
               open == {i \in DOMAIN Rules[e] : Eligible(Rules[e][i], in)}
               kind(k) == {i \in open : Rules[e][i].kind = k}
               order == InOrder(kind("grant"))
               grants == InPlaces(Rules[e], kind("grant"))
               todo == [k \in DOMAIN grants |-> Todo(grants[k].name, d)]
    <2>1. Len(order) \in Nat /\ DOMAIN order = 1 .. Len(order) /\ \A k \in DOMAIN order : order[k] \in kind("grant")
      <3>1. Len(Rules[e]) \in Nat /\ kind("grant") \in SUBSET (0 .. Len(Rules[e]))
        BY RuleFacts
      <3> QED BY <3>1, InOrderFacts
    <2>2. \A k \in DOMAIN order : Rules[e][order[k]].name \in Elem
      BY <2>1, RuleFacts
    <2>3. grants = [k \in DOMAIN order |-> Rules[e][order[k]]]
      BY DEF InPlaces
    <2> HIDE DEF order
    <2>4. todo = [k \in 1 .. Len(order) |-> Todo(Rules[e][order[k]].name, d)]
      BY <2>1, <2>3
    <2>5. todo \in Seq(ToRegister)
      <3>1. \A k \in 1 .. Len(order) : Todo(Rules[e][order[k]].name, d) \in ToRegister
        BY <2>1, <2>2 DEF Todo, ToRegister
      <3> HIDE DEF todo
      <3> QED BY <2>1, <2>4, <3>1
    <2>6. Blanks(SlotsOf(e, kind("select"), d))
      <3>1. kind("select") \in SUBSET DOMAIN Rules[e]
        OBVIOUS
      <3> QED BY <3>1, SlotsOfBlank
    <2>7. Ctx(in) /\ in.out = c.out
      <3> DEFINE has == c.has \cup {e}
                 new == c.new \cup {e}
      <3>1. in = [c EXCEPT !.has = has, !.new = new]
        OBVIOUS
      <3> HIDE DEF has, new, in
      <3> QED BY <3>1, CtxWith
    <2>8. Blanks(in.out \o SlotsOf(e, kind("select"), d))
      BY <2>6, <2>7, BlanksConcat DEF Ctx
    <2>9. Entering(e, d, rest, c) = [todo |-> todo \o rest, ctx |-> [in EXCEPT !.out = @ \o SlotsOf(e, kind("select"), d)]]
      BY <1>2 DEF Entering
    <2> HIDE DEF todo, in, open
    <2>10. todo \o rest \in Seq(ToRegister)
      BY <2>5
    <2>11. Ctx([in EXCEPT !.out = @ \o SlotsOf(e, kind("select"), d)])
      BY <2>7, <2>8, CtxWith
    <2> QED BY <2>9, <2>10, <2>11 DEF Machine
  <1> QED BY <1>1, <1>2

\* A grant adds its element's node first.
LEMMA AddingKeeps ==
  ASSUME LibrarySorted, NEW e \in Elem, NEW d \in Nat \ {0}, NEW rest \in Seq(ToRegister), NEW c, Ctx(c)
  PROVE  Machine(Adding(e, d, rest, c))
  <1> DEFINE in == [c EXCEPT !.out = Append(@, ElementNode(d, e))]
  <1>1. Blank(ElementNode(d, e))
    BY ElementBlank
  <1>2. Ctx(in)
    <2>1. Blanks(Append(c.out, ElementNode(d, e)))
      BY <1>1, BlanksOne DEF Ctx
    <2> QED BY <2>1, CtxWith
  <1>3. Machine(Entering(e, d + 1, rest, in))
    <2> HIDE DEF in
    <2> QED BY <1>2, EnteringKeeps
  <1>4. Machine([todo |-> rest, ctx |-> c])
    BY DEF Machine
  <1> QED BY <1>3, <1>4 DEF Adding

\* The number of steps is a number.
LEMMA RulesCounted ==
  ASSUME LibrarySorted
  PROVE  Cardinality(AllRules) + 1 \in Nat
  <1> DEFINE Of(e) == {<<e, i>> : i \in DOMAIN Rules[e]}
             Sets == {Of(e) : e \in Elem}
  <1>1. IsFiniteSet(Sets)
    <2> DEFINE f == [e \in Elem |-> Of(e)]
    <2>1. IsFiniteSet(Elem) /\ DOMAIN f = Elem
      BY DEF LibrarySorted
    <2>2. Sets = {f[e] : e \in Elem}
      OBVIOUS
    <2> HIDE DEF f, Sets
    <2> QED BY <2>1, <2>2, ImageFinite
  <1>2. ASSUME NEW e \in Elem PROVE IsFiniteSet(Of(e))
    <2>1. IsFiniteSet(DOMAIN Rules[e])
      BY RuleFacts, FS_Interval
    <2> DEFINE f == [i \in DOMAIN Rules[e] |-> <<e, i>>]
    <2>2. Of(e) = {f[i] : i \in DOMAIN Rules[e]} /\ DOMAIN f = DOMAIN Rules[e]
      OBVIOUS
    <2> HIDE DEF f, Of
    <2> QED BY <2>1, <2>2, ImageFinite
  <1>3. IsFiniteSet(UNION Sets)
    <2>1. \A T \in Sets : IsFiniteSet(T)
      BY <1>2
    <2> HIDE DEF Sets
    <2> QED BY <1>1, <2>1, FS_UNION
  <1>4. Cardinality(AllRules) \in Nat
    BY <1>3, FS_CardinalityType DEF AllRules
  <1> QED BY <1>4

\* All the steps.
LEMMA RegisteredKeeps ==
  ASSUME LibrarySorted, NEW m, Machine(m)
  PROVE  Ctx(Registered(m))
  <1> DEFINE n == Cardinality(AllRules) + 1
  <1>1. n \in Nat
    BY RulesCounted
  <1>2. ASSUME NEW a, Machine(a) PROVE Machine(RegisterNext(a))
    <2>1. CASE a.todo = << >>
      BY <1>2, <2>1 DEF RegisterNext
    <2>2. CASE a.todo # << >>
      <3>1. Head(a.todo) \in ToRegister /\ Tail(a.todo) \in Seq(ToRegister)
        BY <1>2, <2>2 DEF Machine
      <3>2. Head(a.todo).e \in Elem /\ Head(a.todo).d \in Nat \ {0}
        BY <3>1 DEF ToRegister
      <3>3. RegisterNext(a) = Adding(Head(a.todo).e, Head(a.todo).d, Tail(a.todo), a.ctx)
        BY <2>2 DEF RegisterNext
      <3> QED BY <1>2, <3>1, <3>2, <3>3, AddingKeeps DEF Machine
    <2> QED BY <2>1, <2>2
  <1>3. RegisterClaim(0, m) /\ \A a, k : RegisterClaim(0, a) => RegisterClaim(0, Registering(0, a, k))
    BY <1>2 DEF RegisterClaim, Registering
  <1> HIDE DEF n
  <1>4. RegisterClaim(0, RG!Run(0, m)[n])
    BY <1>1, <1>3, RG!RunKeeps
  <1>5. Registered(m) = RG!Run(0, m)[n].ctx
    BY DEF Registered, Repeat, RG!Run, Registering, n
  <1> QED BY <1>4, <1>5 DEF RegisterClaim, Machine

\* Registering brings new content alone.
LEMMA RegisterKeeps ==
  ASSUME LibrarySorted, NEW e \in Elem, NEW d \in Nat \ {0}, NEW c, Ctx(c)
  PROVE  Ctx(Register(e, d, c)) /\ Ctx(AddChild(e, d, c))
  <1>1. << >> \in Seq(ToRegister)
    OBVIOUS
  <1>2. Ctx(Register(e, d, c))
    BY <1>1, EnteringKeeps, RegisteredKeeps DEF Register
  <1>3. Machine([todo |-> <<Todo(e, d)>>, ctx |-> c])
    <2>1. Todo(e, d) \in ToRegister
      BY DEF Todo, ToRegister
    <2> QED BY <2>1 DEF Machine
  <1>4. Ctx(AddChild(e, d, c))
    BY <1>3, RegisteredKeeps DEF AddChild
  <1> QED BY <1>2, <1>4

----------------------------------------------------------------------------
(* What a walk over a tree grows: groups of new nodes.                       *)

Growths(groups, S) == IsFiniteSet(groups) /\ \A g \in groups : g.at \in S /\ Blanks(g.nodes)

\* What a visit adds is one more group of new content.
LEMMA GrownFacts ==
  ASSUME NEW i, NEW before, NEW c, Ctx(before), Ctx(c), NEW S, NEW groups, Growths(groups, S), i \in S
  PROVE  Blanks(Grown(i, before, c).nodes) /\ Growths(groups \cup NewGroup(Grown(i, before, c)), S)
  <1> DEFINE g == Grown(i, before, c)
  <1>1. Blanks(g.nodes) /\ g.at = i
    <2>1. Len(before.out) + 1 \in Nat /\ Len(before.out) + 1 >= 1
      BY BlanksFacts DEF Ctx
    <2>2. Blanks(SubSeq(c.out, Len(before.out) + 1, Len(c.out)))
      BY <2>1, BlanksPart DEF Ctx
    <2> QED BY <2>2 DEF Grown
  <1> HIDE DEF g
  <1>2. NewGroup(g) \subseteq {g} /\ IsFiniteSet(NewGroup(g))
    BY FS_EmptySet, FS_Singleton DEF NewGroup
  <1>3. IsFiniteSet(groups \cup NewGroup(g))
    BY <1>2, FS_Union DEF Growths
  <1> QED BY <1>1, <1>2, <1>3 DEF Growths, g

ReleaseUnder(p, c, r) == Released(r, p, c)
CtxClaim(p, c) == Ctx(c)
RL == INSTANCE Iteration WITH Step <- ReleaseUnder, P <- CtxClaim

\* The grants of one node.
LEMMA ReleasedKeeps ==
  ASSUME LibrarySorted, NEW t, NEW i, t[i].d + 1 \in Nat \ {0}, NEW c, Ctx(c)
  PROVE  Ctx(ReleasedUnder(t, i, c))
  <1> DEFINE rules == RulesOf(PendingOwner(t[i]))
             d == t[i].d + 1
  <1>1. Len(rules) \in Nat /\ DOMAIN rules = 1 .. Len(rules)
    BY RulesOfFacts
  <1>2. \A n \in DOMAIN rules : rules[n].kind = "grant" => rules[n].name \in Elem
    BY RulesOfFacts
  <1> HIDE DEF rules, d
  <1>3. ASSUME NEW a, NEW n, n \in DOMAIN rules, CtxClaim(d, a)
        PROVE  CtxClaim(d, ReleaseUnder(d, a, rules[n]))
    <2>1. Ctx(a) /\ d \in Nat \ {0}
      BY <1>3 DEF CtxClaim, d
    <2>2. CASE rules[n].kind = "grant"
      <3>1. Ctx(AddChild(rules[n].name, d, a))
        BY <1>2, <1>3, <2>1, <2>2, RegisterKeeps
      <3> QED BY <2>1, <3>1 DEF CtxClaim, ReleaseUnder, Released
    <2>3. CASE rules[n].kind # "grant"
      BY <2>1, <2>3 DEF CtxClaim, ReleaseUnder, Released
    <2> QED BY <2>2, <2>3
  <1>4. CtxClaim(d, c)
    BY DEF CtxClaim
  <1>5. CtxClaim(d, RL!Fold(d, c, rules))
    BY <1>1, <1>3, <1>4, RL!FoldKeeps
  <1>6. ReleasedUnder(t, i, c) = RL!Fold(d, c, rules)
    BY DEF ReleasedUnder, FoldLeft, MapThenFoldSet, Max, RL!Max, RL!Fold, RL!Folded, ReleaseUnder, rules, d
  <1> QED BY <1>5, <1>6 DEF CtxClaim

PendingVisit(p, a, i) == Visited(a, i, ReleasedUnder(p.t, i, a.ctx))
PendingClaim(p, a) == Ctx(a.ctx) /\ Growths(a.groups, p.keep)
PV == INSTANCE Iteration WITH Step <- PendingVisit, P <- PendingClaim

\* The grants that have become eligible.
LEMMA PendingFacts ==
  ASSUME LibrarySorted, NEW t, Tree(t), NEW keep \in SUBSET DOMAIN t, NEW start, Ctx(start)
  PROVE  Growths(PendingGrants(t, keep, start), keep)
  <1> DEFINE p == [t |-> t, keep |-> keep]
             S == {i \in keep : RulesOf(PendingOwner(t[i])) # << >>}
             order == InOrder(S)
             base == [ctx |-> start, groups |-> {}]
  <1>1. Len(t) \in Nat /\ DOMAIN t = 1 .. Len(t)
    BY TreeFacts
  <1>2. Len(order) \in Nat /\ DOMAIN order = 1 .. Len(order) /\ \A k \in DOMAIN order : order[k] \in keep
    <2>1. S \in SUBSET (0 .. Len(t))
      BY <1>1
    <2> HIDE DEF S
    <2>2. Len(order) \in Nat /\ DOMAIN order = 1 .. Len(order) /\ \A k \in DOMAIN order : order[k] \in S
      BY <1>1, <2>1, InOrderFacts
    <2> QED BY <2>2 DEF S
  <1>3. PendingClaim(p, base)
    BY FS_EmptySet DEF PendingClaim, Growths
  <1>4. ASSUME NEW a, NEW k, k \in DOMAIN order, PendingClaim(p, a)
        PROVE  PendingClaim(p, PendingVisit(p, a, order[k]))
    <2> DEFINE i == order[k]
               c == ReleasedUnder(t, i, a.ctx)
    <2>1. i \in keep /\ i \in DOMAIN t
      BY <1>2, <1>4
    <2>2. t[i].d + 1 \in Nat \ {0}
      BY <2>1, TreeFacts, NodeFacts
    <2>3. Ctx(a.ctx) /\ Growths(a.groups, keep)
      BY <1>4 DEF PendingClaim
    <2> HIDE DEF i
    <2>4. Ctx(c)
      BY <2>2, <2>3, ReleasedKeeps
    <2>5. PendingVisit(p, a, i) = Visited(a, i, c)
      BY DEF PendingVisit
    <2> HIDE DEF c
    <2>6. Growths(a.groups \cup NewGroup(Grown(i, a.ctx, c)), keep)
      BY <2>1, <2>3, <2>4, GrownFacts
    <2>7. PendingClaim(p, Visited(a, i, c))
      BY <2>4, <2>6 DEF PendingClaim, Visited
    <2> QED BY <2>5, <2>7 DEF i
  <1> HIDE DEF order, base
  <1>5. PendingClaim(p, PV!Fold(p, base, order))
    <2> HIDE DEF p
    <2> QED BY <1>2, <1>3, <1>4, PV!FoldKeeps
  <1>6. PendingGrants(t, keep, start) = PV!Fold(p, base, order).groups
    BY DEF PendingGrants, FoldLeft, MapThenFoldSet, Max, PV!Max, PV!Fold, PV!Folded, PendingVisit, order, base
  <1> QED BY <1>5, <1>6 DEF PendingClaim

\* The groups as they are put into a tree.
LEMMA GroupedAtEnd ==
  ASSUME NEW t, Tree(t), NEW u, NEW groups, Growths(groups, DOMAIN t)
  PROVE  /\ Grouped({AtEnd(t, g.at, g.nodes) : g \in groups})
         /\ \A h \in {AtEnd(t, g.at, g.nodes) : g \in groups} : Blanks(h.nodes)
  <1> DEFINE f == [g \in groups |-> AtEnd(t, g.at, g.nodes)]
             T == {AtEnd(t, g.at, g.nodes) : g \in groups}
  <1>1. IsFiniteSet(T)
    <2>1. IsFiniteSet(groups) /\ DOMAIN f = groups
      BY DEF Growths
    <2>2. T = {f[g] : g \in groups}
      OBVIOUS
    <2> HIDE DEF f, T
    <2> QED BY <2>1, <2>2, ImageFinite
  <1>2. ASSUME NEW g \in groups PROVE AtEnd(t, g.at, g.nodes).d \in Nat /\ Blanks(AtEnd(t, g.at, g.nodes).nodes)
    <2>1. g.at \in DOMAIN t /\ Blanks(g.nodes)
      BY DEF Growths
    <2>2. g.at # 0 /\ t[g.at].d \in Nat
      BY <2>1, TreeFacts, NodeFacts
    <2> QED BY <2>1, <2>2 DEF AtEnd, Depth
  <1> QED BY <1>1, <1>2 DEF Grouped

----------------------------------------------------------------------------
(* The sweep.                                                                *)

SoundDoc(d) == d = [tree |-> d.tree, sum |-> d.sum, on |-> d.on] /\ SoundTree(d.tree)

\* A document with another tree and sum.
LEMMA DocWith ==
  ASSUME NEW d, d = [tree |-> d.tree, sum |-> d.sum, on |-> d.on], NEW t, NEW s
  PROVE  /\ [d EXCEPT !.tree = t, !.sum = s] = [tree |-> t, sum |-> s, on |-> d.on]
         /\ SoundTree(t) => SoundDoc([d EXCEPT !.tree = t, !.sum = s])
  <1>1. PICK t0, s0, o : d = [tree |-> t0, sum |-> s0, on |-> o] /\ d.on = o
    OBVIOUS
  <1> DEFINE r == [tree |-> t, sum |-> s0, on |-> o]
             u == [tree |-> t, sum |-> s, on |-> o]
  <1>2. [d EXCEPT !.tree = t, !.sum = s] = [[d EXCEPT !.tree = t] EXCEPT !.sum = s]
    OBVIOUS
  <1>3. [d EXCEPT !.tree = t] = r
    BY <1>1
  <1>4. [r EXCEPT !.sum = s] = u
    OBVIOUS
  <1>5. SoundTree(t) => SoundDoc(u)
    BY DEF SoundDoc
  <1> HIDE DEF r
  <1>6. [d EXCEPT !.tree = t, !.sum = s] = u
    BY <1>2, <1>3, <1>4
  <1> QED BY <1>1, <1>5, <1>6

\* What a sound document is.
LEMMA SoundFacts ==
  ASSUME NEW d, SoundDoc(d)
  PROVE  /\ d = [tree |-> d.tree, sum |-> d.sum, on |-> d.on]
         /\ Tree(d.tree) /\ EarnedBy(d.tree, LevelOf(d.tree))
         /\ LevelOf(d.tree) \in Nat /\ LevelOf(d.tree) =< MAX_LEVEL
  BY TreeLevels DEF SoundDoc, SoundTree

\* A node's level is one of those the sweep has a context for.
LEMMA LevelAtFacts ==
  ASSUME NEW t, Tree(t), NEW i
  PROVE  LevelAt(t, i) \in 0 .. LevelOf(t)
  <1>1. LevelOf(t) \in Nat /\ IsFiniteSet(Levels(t))
    BY TreeLevels
  <1>2. \A class : ClassLevel(t, class) \in 0 .. LevelOf(t)
    <2> TAKE class
    <2> DEFINE S == {k \in Levels(t) : LevelClass(t, k) = class}
    <2>1. S \in SUBSET Levels(t)
      OBVIOUS
    <2> HIDE DEF S
    <2>2. Cardinality(S) \in Nat /\ Cardinality(S) =< Cardinality(Levels(t))
      BY <1>1, <2>1, FS_Subset, FS_CardinalityType
    <2> QED BY <1>1, <2>2 DEF ClassLevel, LevelOf, S
  <1> QED BY <1>1, <1>2 DEF LevelAt

SwitchUnder(p, c, n) == SwitchedOn(p.t, p.i, c, n)
SW == INSTANCE Iteration WITH Step <- SwitchUnder, P <- CtxClaim

\* The rules of one node switched on.
LEMMA SwitchedKeeps ==
  ASSUME LibrarySorted, NEW t, Tree(t), NEW i \in DOMAIN t, NEW c, Ctx(c)
  PROVE  Ctx(SwitchedUnder(t, i, c))
  <1> DEFINE p == [t |-> t, i |-> i]
             owner == Holder(t[i])
             order == InOrder(DOMAIN RulesOf(owner))
  <1>1. t[i].d + 1 \in Nat \ {0} /\ t[i].d + 1 >= 1
    BY TreeFacts, NodeFacts
  <1>2. Len(order) \in Nat /\ DOMAIN order = 1 .. Len(order) /\ \A k \in DOMAIN order : order[k] \in DOMAIN RulesOf(owner)
    <2>1. Len(RulesOf(owner)) \in Nat /\ DOMAIN RulesOf(owner) \in SUBSET (0 .. Len(RulesOf(owner)))
      BY RulesOfFacts
    <2> QED BY <2>1, InOrderFacts
  <1> HIDE DEF order
  <1>3. ASSUME NEW a, NEW k, k \in DOMAIN order, CtxClaim(p, a)
        PROVE  CtxClaim(p, SwitchUnder(p, a, order[k]))
    <2> DEFINE n == order[k]
               r == Rules[owner][n]
               slots == Slots(owner, n, t[i].d + 1)
    <2>1. n \in DOMAIN RulesOf(owner)
      BY <1>2, <1>3
    <2>2. owner \in Elem /\ n \in DOMAIN Rules[owner] /\ (r.kind = "grant" => r.name \in Elem)
      BY <2>1, RulesOfFacts
    <2>3. Ctx(a)
      BY <1>3 DEF CtxClaim
    <2> HIDE DEF n
    <2>4. Ctx([a EXCEPT !.out = @ \o Missing(t, i, n)])
      <3>1. Blanks(slots)
        BY <1>1, <2>2, SlotsBlank
      <3>2. Blanks(Missing(t, i, n))
        <4> DEFINE S == {m \in DOMAIN slots : /\ \A x \in Kids(t, i) : t[x].rule # slots[m].rule
                                             /\ Claimant(t, slots[m].name, slots[m].lvl) \in {None, Holder(t[i])}}
        <4>1. Missing(t, i, n) = InPlaces(slots, S)
          BY DEF Missing
        <4>2. S \in SUBSET DOMAIN slots
          OBVIOUS
        <4> HIDE DEF S, slots
        <4> QED BY <3>1, <4>1, <4>2, InPlacesBlanks
      <3>3. Blanks(a.out \o Missing(t, i, n))
        BY <2>3, <3>2, BlanksConcat DEF Ctx
      <3> QED BY <2>3, <3>3, CtxWith
    <2>5. r.kind = "grant" => Ctx(AddChild(r.name, t[i].d + 1, a))
      BY <1>1, <2>2, <2>3, RegisterKeeps
    <2>6. Ctx(SwitchedOn(t, i, a, n))
      <3>1. CASE r.kind = "select"
        BY <2>3, <2>4, <3>1 DEF SwitchedOn
      <3>2. CASE r.kind # "select"
        <4>1. r.kind = "grant"
          <5>1. r.kind \in {"select", "grant"}
            BY <2>2, RuleFacts
          <5> QED BY <3>2, <5>1
        <4> QED BY <2>3, <2>5, <3>2, <4>1 DEF SwitchedOn
      <3> QED BY <3>1, <3>2
    <2> QED BY <2>6 DEF CtxClaim, SwitchUnder, n
  <1>4. CtxClaim(p, c)
    BY DEF CtxClaim
  <1>5. CtxClaim(p, SW!Fold(p, c, order))
    <2> HIDE DEF p
    <2> QED BY <1>2, <1>3, <1>4, SW!FoldKeeps
  <1>6. SwitchedUnder(t, i, c) = SW!Fold(p, c, order)
    BY DEF SwitchedUnder, FoldLeft, MapThenFoldSet, Max, SW!Max, SW!Fold, SW!Folded, SwitchUnder, order
  <1> QED BY <1>5, <1>6 DEF CtxClaim

AddVisit(p, a, i) == VisitedAt(a, i, LevelAt(p, i), SwitchedUnder(p, i, a.ctx[LevelAt(p, i)]))
AddClaim(p, a) ==
  /\ a.ctx = [l \in 0 .. LevelOf(p) |-> a.ctx[l]] /\ \A l \in 0 .. LevelOf(p) : Ctx(a.ctx[l])
  /\ Growths(a.groups, DOMAIN p)
AV == INSTANCE Iteration WITH Step <- AddVisit, P <- AddClaim

\* What a sweep adds.
LEMMA AdditionsFacts ==
  ASSUME LibrarySorted, NEW d, Tree(d.tree), NEW gone
  PROVE  Growths(Additions(d, gone), DOMAIN d.tree)
  <1> DEFINE t == d.tree
             S == InScope(t) \ Spread(t, gone)
             order == InOrder(S)
             start == [l \in 0 .. LevelOf(t) |->
                        LET c == Context(d, {}, l) IN [c EXCEPT !.has = @ \ Shown(t, gone)]]
             base == [ctx |-> start, groups |-> {}]
  <1>1. Len(t) \in Nat /\ DOMAIN t = 1 .. Len(t)
    BY TreeFacts
  <1>2. Len(order) \in Nat /\ DOMAIN order = 1 .. Len(order) /\ \A k \in DOMAIN order : order[k] \in DOMAIN t
    <2>1. S \in SUBSET (0 .. Len(t)) /\ S \in SUBSET DOMAIN t
      BY <1>1 DEF InScope
    <2> HIDE DEF S
    <2> QED BY <1>1, <2>1, InOrderFacts
  <1>3. AddClaim(t, base)
    <2>1. ASSUME NEW l PROVE Ctx([Context(d, {}, l) EXCEPT !.has = @ \ Shown(t, gone)])
      BY ContextFacts, CtxWith
    <2>2. Growths({}, DOMAIN t)
      BY FS_EmptySet DEF Growths
    <2>3. \A l \in 0 .. LevelOf(t) : Ctx(start[l])
      BY <2>1
    <2>4. start = [l \in 0 .. LevelOf(t) |-> start[l]]
      OBVIOUS
    <2> HIDE DEF start, t
    <2> QED BY <2>2, <2>3, <2>4 DEF AddClaim
  <1>4. ASSUME NEW a, NEW k, k \in DOMAIN order, AddClaim(t, a)
        PROVE  AddClaim(t, AddVisit(t, a, order[k]))
    <2> DEFINE i == order[k]
               l == LevelAt(t, i)
               c == SwitchedUnder(t, i, a.ctx[l])
    <2>1. i \in DOMAIN t
      BY <1>2, <1>4
    <2> HIDE DEF i
    <2>2. l \in 0 .. LevelOf(t)
      BY LevelAtFacts
    <2> HIDE DEF l
    <2>3. Ctx(a.ctx[l]) /\ Growths(a.groups, DOMAIN t)
      BY <1>4, <2>2 DEF AddClaim
    <2>4. Ctx(c)
      BY <2>1, <2>3, SwitchedKeeps
    <2> HIDE DEF c
    <2>5. Growths(a.groups \cup NewGroup(Grown(i, a.ctx[l], c)), DOMAIN t)
      BY <2>1, <2>3, <2>4, GrownFacts
    <2> DEFINE new == [a.ctx EXCEPT ![l] = c]
    <2>6. new = [m \in 0 .. LevelOf(t) |-> new[m]] /\ \A m \in 0 .. LevelOf(t) : Ctx(new[m])
      BY <1>4, <2>2, <2>4 DEF AddClaim
    <2> HIDE DEF new, t
    <2>7. AddClaim(t, VisitedAt(a, i, l, c))
      BY <2>5, <2>6 DEF AddClaim, VisitedAt, new
    <2> QED BY <2>7 DEF AddVisit, i, l, c
  <1> HIDE DEF order, base
  <1>5. AddClaim(t, AV!Fold(t, base, order))
    <2> HIDE DEF t
    <2> QED BY <1>2, <1>3, <1>4, AV!FoldKeeps
  <1>6. Additions(d, gone) = AV!Fold(t, base, order).groups
    BY DEF Additions, FoldLeft, MapThenFoldSet, Max, AV!Max, AV!Fold, AV!Folded, AddVisit, order, base
  <1> QED BY <1>5, <1>6 DEF AddClaim

\* What a sweep removes are children, so no levels.
LEMMA RemovalsFacts ==
  ASSUME NEW d, Tree(d.tree)
  PROVE  Removals(d) \in SUBSET DOMAIN d.tree /\ \A j \in Removals(d) : d.tree[j].kind # "level"
  <1> DEFINE t == d.tree
  <1>1. Len(t) \in Nat /\ DOMAIN t = 1 .. Len(t)
    BY TreeFacts
  <1>2. ASSUME NEW i \in InScope(t) PROVE \A j \in RemovedUnder(t, i, At(d, i)) : j \in DOMAIN t /\ t[j].kind # "level"
    <2>1. i \in 0 .. Len(t) /\ i # 0
      BY <1>1 DEF InScope
    <2>2. \A j \in Kids(t, i) : j \in DOMAIN t /\ t[j].kind # "level"
      BY <2>1, KidsFacts
    <2>3. RemovedUnder(t, i, At(d, i)) \subseteq Kids(t, i)
      BY DEF RemovedUnder
    <2> QED BY <2>2, <2>3
  <1>3. Removals(d) \subseteq UNION {RemovedUnder(t, i, At(d, i)) : i \in InScope(t)}
    BY DEF Removals, Outermost
  <1> QED BY <1>2, <1>3

\* One sweep.
LEMMA SweepKeeps ==
  ASSUME NEW d, SoundDoc(d),
         NEW gone \in SUBSET DOMAIN d.tree, \A j \in gone : d.tree[j].kind # "level",
         NEW added, Growths(added, DOMAIN d.tree)
  PROVE  SoundDoc(Sweep(d, gone, added))
  <1> DEFINE t == d.tree
             groups == {AtEnd(t, g.at, g.nodes) : g \in added}
  <1>1. Tree(t) /\ EarnedBy(t, LevelOf(t)) /\ LevelOf(t) \in Nat
    BY SoundFacts
  <1>2. Grouped(groups) /\ \A h \in groups : Blanks(h.nodes)
    BY <1>1, GroupedAtEnd
  <1>3. SoundTree(Graft(t, gone, groups))
    <2>1. LevelOf(t) =< MAX_LEVEL
      BY SoundFacts
    <2> HIDE DEF t, groups
    <2> QED BY <1>1, <1>2, <2>1, GraftKeeps DEF t
  <1>4. Sweep(d, gone, added)
          = [d EXCEPT !.tree = Graft(t, gone, groups), !.sum = AddAll(Drop(d.sum, Shown(t, gone)), added)]
    BY DEF Sweep
  <1> HIDE DEF groups
  <1>5. d = [tree |-> d.tree, sum |-> d.sum, on |-> d.on]
    BY SoundFacts
  <1> DEFINE sum == AddAll(Drop(d.sum, Shown(t, gone)), added)
             u == Graft(t, gone, groups)
  <1> HIDE DEF sum, u, t
  <1>6. SoundDoc([d EXCEPT !.tree = u, !.sum = sum])
    BY <1>3, <1>5, DocWith DEF u
  <1> QED BY <1>4, <1>6 DEF sum, u

SettleRun(p, s, k) == SettlePass(s)
SettleClaim(p, s) == s = [doc |-> s.doc, seen |-> s.seen, done |-> s.done] /\ SoundDoc(s.doc)
ST == INSTANCE Iteration WITH Step <- SettleRun, P <- SettleClaim

\* All the sweeps: the bound is a number of steps like any other.
LEMMA SettleKeeps ==
  ASSUME LibrarySorted, NEW d, SoundDoc(d)
  PROVE  SoundDoc(Settle(d))
  <1> DEFINE start == [doc |-> d, seen |-> {}, done |-> FALSE]
  <1>1. ASSUME NEW s, SettleClaim(0, s) PROVE SettleClaim(0, SettlePass(s))
    <2> DEFINE gone == Removals(s.doc)
               added == Additions(s.doc, gone)
               flips == Flips(s.doc.tree, gone, added)
    <2>1. PICK x, y, z : s = [doc |-> x, seen |-> y, done |-> z] /\ s.doc = x
      BY <1>1 DEF SettleClaim
    <2>2. SoundDoc(s.doc)
      BY <1>1 DEF SettleClaim
    <2>3. SoundDoc(Sweep(s.doc, gone, added))
      <3>1. Tree(s.doc.tree)
        BY <2>2, SoundFacts
      <3> QED BY <2>2, <3>1, RemovalsFacts, AdditionsFacts, SweepKeeps
    <2> HIDE DEF gone, added, flips
    <2>4. SettleClaim(0, [s EXCEPT !.done = TRUE])
      <3> DEFINE yes == TRUE
                 r == [doc |-> x, seen |-> y, done |-> yes]
      <3> HIDE DEF yes
      <3>1. [s EXCEPT !.done = yes] = r
        BY <2>1
      <3>2. SettleClaim(0, r)
        BY <2>1, <2>2 DEF SettleClaim
      <3>3. SettleClaim(0, [s EXCEPT !.done = yes])
        BY <3>1, <3>2
      <3> QED BY <3>3 DEF yes
    <2>5. SettleClaim(0, [s EXCEPT !.doc = Sweep(s.doc, gone, added), !.seen = s.seen \cup {flips}])
      <3> DEFINE new == Sweep(s.doc, gone, added)
                 seen == s.seen \cup {flips}
                 r == [doc |-> new, seen |-> y, done |-> z]
                 u == [doc |-> new, seen |-> seen, done |-> z]
      <3>1. [s EXCEPT !.doc = new, !.seen = seen] = [[s EXCEPT !.doc = new] EXCEPT !.seen = seen]
        OBVIOUS
      <3> HIDE DEF new, seen
      <3>2. [s EXCEPT !.doc = new] = r
        BY <2>1
      <3>3. [r EXCEPT !.seen = seen] = u
        OBVIOUS
      <3>4. SettleClaim(0, u)
        BY <2>3 DEF SettleClaim, new
      <3> HIDE DEF r, u
      <3>5. SettleClaim(0, [s EXCEPT !.doc = new, !.seen = seen])
        BY <3>1, <3>2, <3>3, <3>4
      <3> QED BY <3>5 DEF new, seen
    <2>6. CASE s.done
      BY <1>1, <2>6 DEF SettlePass
    <2>7. CASE ~s.done
      <3>1. SettlePass(s) = Settling(s, gone, added)
        BY <2>7 DEF SettlePass, SettlingWithout, gone, added
      <3> QED BY <2>4, <2>5, <3>1 DEF Settling, flips
    <2> QED BY <2>6, <2>7
  <1>2. SettleClaim(0, start)
    BY DEF SettleClaim
  <1>3. \A s, k : SettleClaim(0, s) => SettleClaim(0, SettleRun(0, s, k))
    BY <1>1 DEF SettleRun
  <1> HIDE DEF start
  <1>4. SettleClaim(0, ST!Run(0, start)[MAX_RULE_RECONCILE_PASSES])
    BY <1>2, <1>3, ST!RunKeeps DEF MAX_RULE_RECONCILE_PASSES
  <1>5. Settle(d) = ST!Run(0, start)[MAX_RULE_RECONCILE_PASSES].doc
    BY DEF Settle, Repeat, ST!Run, SettleRun, start
  <1> QED BY <1>4, <1>5 DEF SettleClaim

----------------------------------------------------------------------------
(* A pick and its removal.                                                   *)

\* A function on 1 .. n is a sequence.
LEMMA SeqFrom ==
  ASSUME NEW N, NEW n \in Nat, NEW s, s = [i \in 1 .. n |-> s[i]], \A i \in 1 .. n : s[i] \in N
  PROVE  s \in Seq(N)
  OBVIOUS

\* An answer, or none, in a wrapper.
LEMMA NodeAnswered ==
  ASSUME LibrarySorted, NEW v, IsNode(v), v.kind = "wrapper", NEW pick \in Elem \cup {None},
         NEW new, new = [v EXCEPT !.reg = pick]
  PROVE  IsNode(new) /\ new.kind = "wrapper" /\ new.lvl = v.lvl /\ new.reg = pick /\ new.d = v.d
  <1>1. PICK d, id, name, lvl, rule, reg :
          v = [d |-> d, kind |-> "wrapper", id |-> id, name |-> name, lvl |-> lvl, rule |-> rule, reg |-> reg]
    BY DEF IsNode
  <1>2. new = [d |-> d, kind |-> "wrapper", id |-> id, name |-> name, lvl |-> lvl, rule |-> rule, reg |-> pick]
    BY <1>1
  <1>3. pick \notin LevelIds
    BY DEF LibrarySorted
  <1>4. Pool(new) = Pool(v)
    BY <1>1, <1>2 DEF Pool, Authored, RuleOf
  <1>5. d \in Nat /\ d >= 1 /\ lvl \in Nat /\ id \notin LevelIds /\ Pool(v) \subseteq Elem
    BY <1>1 DEF IsNode
  <1>6. new.d = d /\ new.kind = "wrapper" /\ new.id = id /\ new.name = name /\ new.lvl = lvl /\ new.rule = rule /\ new.reg = pick
    BY <1>2
  <1>7. new = [d |-> new.d, kind |-> new.kind, id |-> new.id, name |-> new.name, lvl |-> new.lvl,
               rule |-> new.rule, reg |-> new.reg]
    BY <1>2, <1>6
  <1>8. v.lvl = lvl /\ v.d = d
    BY <1>1
  <1> QED BY <1>3, <1>4, <1>5, <1>6, <1>7, <1>8 DEF IsNode

WithAnswer(t, w, pick) == [t EXCEPT ![w].reg = pick]

\* A tree with one answer changed keeps its levels.
LEMMA AnswerFacts ==
  ASSUME LibrarySorted, NEW t, Tree(t), NEW w \in DOMAIN t, t[w].kind = "wrapper", NEW pick \in Elem \cup {None},
         NEW u, u = WithAnswer(t, w, pick)
  PROVE  /\ Tree(u) /\ DOMAIN u = DOMAIN t /\ Len(u) = Len(t) /\ u[w].kind = "wrapper" /\ Levels(u) = Levels(t)
         /\ \A n : EarnedBy(t, n) /\ (pick = None \/ t[w].lvl =< n) => EarnedBy(u, n)
  <1> DEFINE new == [t[w] EXCEPT !.reg = pick]
  <1>1. PICK N : t \in Seq(N) /\ \A n \in N : IsNode(n)
    BY DEF Tree
  <1>2. Len(t) \in Nat /\ DOMAIN t = 1 .. Len(t) /\ \A i \in DOMAIN t : IsNode(t[i])
    BY TreeFacts
  <1>3. IsNode(new) /\ new.kind = "wrapper" /\ new.lvl = t[w].lvl /\ new.reg = pick
    BY <1>2, NodeAnswered
  <1> HIDE DEF new
  <1>4. /\ DOMAIN u = DOMAIN t /\ u[w] = new /\ \A i \in DOMAIN t : i # w => u[i] = t[i]
    BY DEF new, WithAnswer
  <1>5. u \in Seq(N \cup {new}) /\ \A n \in N \cup {new} : IsNode(n)
    <2>1. \A i \in 1 .. Len(t) : u[i] \in N \cup {new}
      BY <1>1, <1>2, <1>4
    <2>2. t \in Seq(N \cup {new})
      BY <1>1
    <2>3. u = [i \in 1 .. Len(t) |-> u[i]]
      BY <1>2 DEF WithAnswer
    <2>4. u \in Seq(N \cup {new})
      BY <1>2, <2>1, <2>3, SeqFrom
    <2> QED BY <1>1, <1>3, <2>4
  <1>6. Tree(u)
    BY <1>5 DEF Tree
  <1>7. Len(u) = Len(t)
    BY <1>2, <1>4, <1>5
  <1>8. Levels(u) = Levels(t)
    BY <1>2, <1>3, <1>4, <1>7 DEF Levels
  <1>9. ASSUME NEW n, EarnedBy(t, n), pick = None \/ t[w].lvl =< n PROVE EarnedBy(u, n)
    <2>1. ASSUME NEW i \in DOMAIN u, Filled(u[i]) PROVE u[i].lvl =< n
      <3>1. CASE i = w
        <4>1. pick # None
          BY <1>3, <1>4, <2>1, <3>1 DEF Filled
        <4> QED BY <1>3, <1>4, <1>9, <3>1, <4>1
      <3>2. CASE i # w
        BY <1>4, <1>9, <2>1, <3>2 DEF EarnedBy
      <3> QED BY <3>1, <3>2
    <2> QED BY <2>1 DEF EarnedBy
  <1> QED BY <1>3, <1>4, <1>6, <1>7, <1>8, <1>9

\* The ids of content are no level's.
LEMMA IdsAtFacts ==
  ASSUME LibrarySorted, NEW t, Tree(t), NEW S \in SUBSET DOMAIN t, \A i \in S : t[i].kind # "level"
  PROVE  IdsAt(t, S) \cap LevelIds = {}
  <1>1. \A i \in S : t[i].id \notin LevelIds /\ t[i].reg \notin LevelIds
    BY TreeFacts DEF IsNode
  <1> QED BY <1>1 DEF IdsAt

\* Nor are those beneath it.
LEMMA ShownFacts ==
  ASSUME LibrarySorted, NEW t, Tree(t), NEW S \in SUBSET DOMAIN t, \A i \in S : t[i].kind # "level"
  PROVE  Shown(t, S) \cap LevelIds = {}
  <1>1. Spread(t, S) \in SUBSET DOMAIN t /\ \A i \in Spread(t, S) : t[i].kind # "level"
    BY SpreadFacts
  <1> QED BY <1>1, IdsAtFacts DEF Shown

\* A level stands under no node.
LEMMA ParentOfLevel ==
  ASSUME NEW t, Tree(t), NEW j \in DOMAIN t, t[j].kind = "level"
  PROVE  Parent(t, j) = 0
  <1>1. Len(t) \in Nat /\ DOMAIN t = 1 .. Len(t) /\ \A i \in DOMAIN t : t[i].d \in Nat /\ t[i].d >= 1
    BY TreeFacts, NodeFacts
  <1>2. t[j].d = 1
    BY TreeFacts DEF IsNode
  <1>3. 0 \in 0 .. j - 1 /\ Depth(t, 0) < t[j].d /\ \A k \in 0 + 1 .. j - 1 : t[k].d >= t[j].d
    BY <1>1, <1>2 DEF Depth
  <1>4. \A i \in 0 .. j - 1 : Depth(t, i) < t[j].d => i = 0
    BY <1>1, <1>2 DEF Depth
  <1>5. /\ Parent(t, j) \in 0 .. j - 1 /\ Depth(t, Parent(t, j)) < t[j].d
    BY <1>3 DEF Parent
  <1> QED BY <1>4, <1>5

\* The state a pick starts from: the ids of levels stay in the sum.
BaseClaim(p, b) ==
  /\ b = [tree |-> b.tree, sum |-> b.sum, on |-> b.on, keep |-> b.keep, done |-> b.done]
  /\ b.tree = p.tree /\ b.keep \subseteq DOMAIN p.tree /\ LevelIds \cap DOMAIN p.sum \subseteq DOMAIN b.sum
PruneRun(p, b, k) == PrunePass(b)
PR == INSTANCE Iteration WITH Step <- PruneRun, P <- BaseClaim

\* One pass of the clearing: the sum keeps every level.
LEMMA PruningKeeps ==
  ASSUME LibrarySorted, NEW p, Tree(p.tree), NEW b, BaseClaim(p, b)
  PROVE  BaseClaim(p, Pruning(b))
  <1> DEFINE t == b.tree
             c == Now(b)
             Granting(i) == SelectSeq(RulesOf(Holder(t[Parent(t, i)])),
                                      LAMBDA r : r.kind = "grant" /\ r.name = Holder(t[i]))
             orphan(i) == /\ Parent(t, i) # 0 /\ Holder(t[i]) # None
                          /\ Granting(i) # << >>
                          /\ \A k \in DOMAIN Granting(i) : ~Eligible(Granting(i)[k], c)
             orphans == {i \in b.keep : orphan(i)}
             stale == IdsAt(t, Spread(t, orphans) \cap b.keep)
             keep == b.keep \ Spread(t, {i \in b.keep : Holder(t[i]) \in stale})
             sum == Drop(b.sum, stale)
             done == stale = {}
  <1>1. Tree(t) /\ b.keep \in SUBSET DOMAIN t
    BY DEF BaseClaim
  <1>2. orphans \in SUBSET DOMAIN t /\ \A i \in orphans : t[i].kind # "level"
    <2>1. \A i \in orphans : i \in DOMAIN t /\ Parent(t, i) # 0
      BY <1>1
    <2> HIDE DEF orphans, t
    <2> QED BY <1>1, <2>1, ParentOfLevel
  <1>3. stale \cap LevelIds = {}
    <2> HIDE DEF orphans, t
    <2>1. Spread(t, orphans) \subseteq DOMAIN t /\ \A k \in Spread(t, orphans) : t[k].kind # "level"
      BY <1>1, <1>2, SpreadFacts
    <2>2. Spread(t, orphans) \cap b.keep \in SUBSET DOMAIN t
      BY <2>1
    <2> QED BY <1>1, <2>1, <2>2, IdsAtFacts
  <1>4. Pruning(b) = [b EXCEPT !.keep = keep, !.sum = sum, !.done = done]
    BY DEF Pruning
  <1> HIDE DEF stale, keep, sum, done
  <1>5. PICK x, y, z, k, f : b = [tree |-> x, sum |-> y, on |-> z, keep |-> k, done |-> f]
    BY DEF BaseClaim
  <1> DEFINE r1 == [tree |-> x, sum |-> y, on |-> z, keep |-> keep, done |-> f]
             r2 == [tree |-> x, sum |-> sum, on |-> z, keep |-> keep, done |-> f]
             r3 == [tree |-> x, sum |-> sum, on |-> z, keep |-> keep, done |-> done]
  <1>6. [b EXCEPT !.keep = keep, !.sum = sum, !.done = done]
          = [[[b EXCEPT !.keep = keep] EXCEPT !.sum = sum] EXCEPT !.done = done]
    OBVIOUS
  <1>7. [b EXCEPT !.keep = keep] = r1 /\ [r1 EXCEPT !.sum = sum] = r2 /\ [r2 EXCEPT !.done = done] = r3
    BY <1>5
  <1>8. BaseClaim(p, r3)
    <2>1. keep \subseteq b.keep
      BY DEF keep
    <2>2. DOMAIN sum = DOMAIN b.sum \ stale
      BY DEF sum, Drop
    <2>3. x = b.tree
      BY <1>5
    <2> QED BY <1>3, <2>1, <2>2, <2>3 DEF BaseClaim
  <1> HIDE DEF r1, r2, r3
  <1>9. Pruning(b) = r3
    BY <1>4, <1>6, <1>7
  <1> QED BY <1>8, <1>9

\* All the passes.
LEMMA PrunedKeeps ==
  ASSUME LibrarySorted, NEW p, Tree(p.tree), NEW b, BaseClaim(p, b)
  PROVE  BaseClaim(p, Pruned(b))
  <1> DEFINE n == Len(b.tree) + 1
  <1>1. n \in Nat
    <2>1. b.tree = p.tree /\ Len(p.tree) \in Nat
      BY TreeFacts DEF BaseClaim
    <2> QED BY <2>1
  <1>2. ASSUME NEW a, BaseClaim(p, a) PROVE BaseClaim(p, PrunePass(a))
    <2>1. BaseClaim(p, Pruning(a))
      BY <1>2, PruningKeeps
    <2> QED BY <1>2, <2>1 DEF PrunePass
  <1>3. \A a, k : BaseClaim(p, a) => BaseClaim(p, PruneRun(p, a, k))
    BY <1>2 DEF PruneRun
  <1> HIDE DEF n
  <1>4. BaseClaim(p, PR!Run(p, b)[n])
    BY <1>1, <1>3, PR!RunKeeps
  <1>5. Pruned(b) = PR!Run(p, b)[n]
    BY DEF Pruned, Repeat, PR!Run, PruneRun, n
  <1> QED BY <1>4, <1>5

\* The state a clearing starts from.
LEMMA WithKeepFacts ==
  ASSUME NEW d, NEW keep, NEW t, NEW p,
         keep \subseteq DOMAIN t, p.tree = t, NEW sum, LevelIds \cap DOMAIN p.sum \subseteq DOMAIN sum
  PROVE  BaseClaim(p, [WithKeep(d, keep) EXCEPT !.tree = t, !.sum = sum])
  <1> DEFINE b == WithKeep(d, keep)
             no == FALSE
             r0 == [tree |-> d.tree, sum |-> d.sum, on |-> d.on, keep |-> keep, done |-> no]
             r1 == [tree |-> t, sum |-> d.sum, on |-> d.on, keep |-> keep, done |-> no]
             r2 == [tree |-> t, sum |-> sum, on |-> d.on, keep |-> keep, done |-> no]
  <1>1. b = r0
    BY DEF WithKeep
  <1> HIDE DEF no, b
  <1>2. [b EXCEPT !.tree = t, !.sum = sum] = [[b EXCEPT !.tree = t] EXCEPT !.sum = sum]
    OBVIOUS
  <1>3. [b EXCEPT !.tree = t] = r1 /\ [r1 EXCEPT !.sum = sum] = r2
    BY <1>1
  <1>4. BaseClaim(p, r2)
    BY DEF BaseClaim
  <1> HIDE DEF r1, r2
  <1> QED BY <1>2, <1>3, <1>4 DEF b

\* Clearing a wrapper.
LEMMA ClearedFacts ==
  ASSUME LibrarySorted, NEW d, Tree(d.tree), NEW w \in DOMAIN d.tree, d.tree[w].kind = "wrapper"
  PROVE  BaseClaim([tree |-> [d.tree EXCEPT ![w].reg = None], sum |-> d.sum], Cleared(d, w))
  <1> DEFINE t == d.tree
             keep == DOMAIN t \ (Sub(t, w) \ {w})
             b == WithKeep(d, keep)
             u == [t EXCEPT ![w].reg = None]
             sum == Drop(d.sum, Shown(t, {w}))
             p == [tree |-> u, sum |-> d.sum]
             start == [b EXCEPT !.tree = u, !.sum = sum]
  <1>1. Tree(u) /\ DOMAIN u = DOMAIN t
    <2>1. None \in Elem \cup {None}
      OBVIOUS
    <2> QED BY <2>1, AnswerFacts DEF WithAnswer
  <1>2. LevelIds \cap DOMAIN p.sum \subseteq DOMAIN sum
    <2>1. Shown(t, {w}) \cap LevelIds = {}
      <3>1. {w} \in SUBSET DOMAIN t /\ \A i \in {w} : t[i].kind # "level"
        OBVIOUS
      <3> QED BY <3>1, ShownFacts
    <2>2. DOMAIN sum = DOMAIN d.sum \ Shown(t, {w})
      BY DEF Drop
    <2> QED BY <2>1, <2>2
  <1>3. BaseClaim(p, start)
    <2>1. p.tree = u /\ keep \subseteq DOMAIN u
      BY <1>1
    <2> HIDE DEF p, u, sum, keep
    <2> QED BY <1>2, <2>1, WithKeepFacts
  <1>4. Cleared(d, w) = Pruned(start)
    <2>1. b.tree = t /\ b.sum = d.sum
      BY DEF WithKeep
    <2>2. Cleared(d, w) = Pruned([b EXCEPT !.tree[w].reg = None, !.sum = Drop(b.sum, Shown(t, {w}))])
      BY DEF Cleared
    <2> HIDE DEF b
    <2>3. [b EXCEPT !.tree[w].reg = None, !.sum = Drop(b.sum, Shown(t, {w}))]
            = [b EXCEPT !.tree = [b.tree EXCEPT ![w].reg = None], !.sum = Drop(b.sum, Shown(t, {w}))]
      OBVIOUS
    <2> QED BY <2>1, <2>2, <2>3
  <1>5. Tree(p.tree)
    BY <1>1
  <1> HIDE DEF p, start
  <1>6. BaseClaim(p, Pruned(start))
    BY <1>3, <1>5, PrunedKeeps
  <1> QED BY <1>4, <1>6 DEF p, u

\* The state a pick starts from.
LEMMA BaseFacts ==
  ASSUME LibrarySorted, NEW d, Tree(d.tree), NEW w \in DOMAIN d.tree, d.tree[w].kind = "wrapper"
  PROVE  /\ Tree(Base(d, w).tree) /\ DOMAIN Base(d, w).tree = DOMAIN d.tree
         /\ Base(d, w).keep \subseteq DOMAIN d.tree
         /\ LevelIds \cap DOMAIN d.sum \subseteq DOMAIN Base(d, w).sum
  <1>1. CASE Filled(d.tree[w])
    <2> DEFINE u == [d.tree EXCEPT ![w].reg = None]
               p == [tree |-> u, sum |-> d.sum]
    <2>1. Base(d, w) = Cleared(d, w)
      BY <1>1 DEF Base
    <2>2. Tree(u) /\ DOMAIN u = DOMAIN d.tree
      <3>1. None \in Elem \cup {None}
        OBVIOUS
      <3> QED BY <3>1, AnswerFacts DEF WithAnswer
    <2>3. BaseClaim(p, Base(d, w))
      BY <2>1, ClearedFacts
    <2>4. p.tree = u /\ p.sum = d.sum
      OBVIOUS
    <2> HIDE DEF p, u
    <2> QED BY <2>2, <2>3, <2>4 DEF BaseClaim
  <1>2. CASE ~Filled(d.tree[w])
    <2>1. Base(d, w) = WithKeep(d, DOMAIN d.tree)
      BY <1>2 DEF Base
    <2> QED BY <2>1 DEF WithKeep
  <1> QED BY <1>1, <1>2

\* What a pick asks for.
Want(d, want) ==
  /\ want.keep \subseteq DOMAIN d.tree /\ Growths(want.groups, want.keep) /\ Blanks(want.content)
  /\ LevelIds \cap DOMAIN d.sum \subseteq DOMAIN want.sum

\* Adding to a sum takes nothing from it.
LEMMA SumGrows ==
  ASSUME NEW sum, NEW groups
  PROVE  /\ DOMAIN sum \subseteq DOMAIN AddAll(sum, groups)
         /\ \A ids : DOMAIN sum \subseteq DOMAIN (sum (+) SetToBag(ids))
  BY DEF AddAll, (+)

\* The state a pick, or its removal, asks for.
LEMMA AskedFacts ==
  ASSUME LibrarySorted, NEW d, Tree(d.tree), NEW w \in DOMAIN d.tree, d.tree[w].kind = "wrapper",
         NEW pick \in Elem \cup {None}
  PROVE  Want(d, Asked(d, w, pick))
  <1>1. CASE pick = None
    <2> DEFINE u == [d.tree EXCEPT ![w].reg = None]
               p == [tree |-> u, sum |-> d.sum]
               b == Cleared(d, w)
    <2>1. BaseClaim(p, b)
      BY ClearedFacts
    <2>2. p.tree = u /\ p.sum = d.sum /\ DOMAIN u = DOMAIN d.tree
      OBVIOUS
    <2> HIDE DEF p, u, b
    <2>3. b.keep \subseteq DOMAIN d.tree /\ LevelIds \cap DOMAIN d.sum \subseteq DOMAIN b.sum
      BY <2>1, <2>2 DEF BaseClaim
    <2>4. Asked(d, w, pick) = [keep |-> b.keep, content |-> << >>, groups |-> {}, sum |-> b.sum]
      BY <1>1 DEF Asked, Bare, b
    <2>5. Growths({}, b.keep)
      BY FS_EmptySet DEF Growths
    <2> QED BY <2>3, <2>4, <2>5, BlanksEmpty DEF Want
  <1>2. CASE pick # None
    <2> DEFINE b == Base(d, w)
               c == Now(b)
               own == IF Holds(Needs[pick], c) THEN Register(pick, d.tree[w].d + 1, c) ELSE c
               groups == PendingGrants(b.tree, b.keep, own)
    <2>1. Ctx(c)
      BY ContextFacts DEF Now
    <2>2. Ctx(own)
      <3>1. pick \in Elem /\ d.tree[w].d + 1 \in Nat \ {0}
        BY <1>2, TreeFacts, NodeFacts
      <3> HIDE DEF c
      <3> QED BY <2>1, <3>1, RegisterKeeps
    <2>3. /\ Tree(b.tree) /\ b.keep \in SUBSET DOMAIN b.tree /\ b.keep \subseteq DOMAIN d.tree
          /\ LevelIds \cap DOMAIN d.sum \subseteq DOMAIN b.sum
      BY BaseFacts
    <2> HIDE DEF own
    <2>4. Growths(groups, b.keep)
      <3> HIDE DEF b
      <3> QED BY <2>2, <2>3, PendingFacts
    <2>5. Asked(d, w, pick) = [keep |-> b.keep, content |-> own.out, groups |-> groups,
                               sum |-> AddAll(b.sum (+) SetToBag(own.new), groups)]
      BY <1>2 DEF Asked, Desired, Releasing, Holding, own
    <2> HIDE DEF b, groups
    <2>6. DOMAIN b.sum \subseteq DOMAIN AddAll(b.sum (+) SetToBag(own.new), groups)
      <3>1. DOMAIN b.sum \subseteq DOMAIN (b.sum (+) SetToBag(own.new))
        BY SumGrows
      <3>2. DOMAIN (b.sum (+) SetToBag(own.new)) \subseteq DOMAIN AddAll(b.sum (+) SetToBag(own.new), groups)
        BY SumGrows
      <3> QED BY <3>1, <3>2
    <2> QED BY <2>2, <2>3, <2>4, <2>5, <2>6 DEF Want, Ctx
  <1> QED BY <1>1, <1>2

\* Writing it leaves every level in place.
LEMMA EditsKeep ==
  ASSUME LibrarySorted, NEW d, SoundDoc(d), NEW w \in DOMAIN d.tree, d.tree[w].kind = "wrapper",
         NEW pick \in Elem \cup {None}, pick = None \/ d.tree[w].lvl =< LevelOf(d.tree),
         NEW want, Want(d, want)
  PROVE  SoundDoc(Edits(d, w, pick, want))
  <1> DEFINE t == d.tree
             u == [t EXCEPT ![w].reg = pick]
             anew == WrittenAnew(d, w, want)
             inside == (Sub(u, w) \ {w}) \cup UNION {Sub(u, g.at) \ want.keep : g \in anew}
             stale == StaleNodes(d, w, want) \ Spread(u, {g.at : g \in want.groups})
             gone == inside \cup stale
             groups == Groups(u, w, want)
             n == LevelOf(t)
  <1>1. Tree(t) /\ EarnedBy(t, n) /\ n \in Nat /\ d = [tree |-> d.tree, sum |-> d.sum, on |-> d.on]
    BY SoundFacts
  <1>2. /\ Tree(u) /\ DOMAIN u = DOMAIN t /\ EarnedBy(u, n) /\ LevelOf(u) = n /\ w \in DOMAIN u
        /\ \A i \in DOMAIN t : t[i].kind = "level" <=> u[i].kind = "level"
    <2>1. /\ Tree(u) /\ DOMAIN u = DOMAIN t /\ EarnedBy(u, n) /\ Levels(u) = Levels(t) /\ w \in DOMAIN u
      <3>1. w \in DOMAIN t /\ t[w].kind = "wrapper" /\ (pick = None \/ t[w].lvl =< n)
            /\ u = WithAnswer(t, w, pick)
        BY DEF u, n, WithAnswer
      <3> HIDE DEF t, n, u
      <3>2. /\ Tree(u) /\ DOMAIN u = DOMAIN t /\ Levels(u) = Levels(t)
            /\ \A m : EarnedBy(t, m) /\ (pick = None \/ t[w].lvl =< m) => EarnedBy(u, m)
        BY <1>1, <3>1, AnswerFacts
      <3> QED BY <1>1, <3>1, <3>2
    <2>2. \A i \in DOMAIN t : t[i].kind = "level" <=> u[i].kind = "level"
      BY <1>1, <2>1, TreeFacts DEF Levels
    <2> HIDE DEF u, t
    <2> QED BY <2>1, <2>2 DEF LevelOf
  <1> HIDE DEF u, n
  <1>3. want.keep \subseteq DOMAIN u /\ \A g \in want.groups : g.at \in DOMAIN u /\ g.at \in want.keep
    BY <1>2 DEF Want, Growths
  <1>4. ASSUME NEW j \in inside PROVE j \in DOMAIN u /\ u[j].kind # "level"
    <2>1. CASE j \in Sub(u, w) \ {w}
      BY <1>2, <2>1, SubFacts
    <2>2. ASSUME NEW g \in anew, j \in Sub(u, g.at) \ want.keep PROVE j \in DOMAIN u /\ u[j].kind # "level"
      <3>1. g.at \in DOMAIN u /\ g.at \in want.keep
        BY <1>3 DEF WrittenAnew
      <3>2. j \in Sub(u, g.at) \ {g.at}
        BY <2>2, <3>1
      <3> QED BY <1>2, <3>1, <3>2, SubFacts
    <2> QED BY <2>1, <2>2
  <1>5. ASSUME NEW j \in stale PROVE j \in DOMAIN u /\ u[j].kind # "level"
    <2>1. j \in DOMAIN t /\ Holder(t[j]) \in DOMAIN d.sum \ DOMAIN want.sum
      BY DEF StaleNodes, Outermost, BagToSet
    <2>2. t[j].kind = "level" => Holder(t[j]) \in LevelIds
      <3>1. IsNode(t[j])
        BY <1>1, <2>1, TreeFacts
      <3> QED BY <3>1 DEF IsNode, Holder, LibrarySorted
    <2> QED BY <1>2, <2>1, <2>2 DEF Want
  <1>6. gone \in SUBSET DOMAIN u /\ \A j \in gone : u[j].kind # "level"
    BY <1>4, <1>5
  <1>7. Grouped(groups) /\ \A g \in groups : Blanks(g.nodes)
    <2> DEFINE G == {AtEnd(u, g.at, g.nodes) : g \in want.groups}
               own == [after |-> w, d |-> u[w].d + 1, nodes |-> want.content]
    <2>1. Grouped(G) /\ \A g \in G : Blanks(g.nodes)
      <3>1. Growths(want.groups, DOMAIN u)
        BY <1>3 DEF Want, Growths
      <3> QED BY <1>2, <3>1, GroupedAtEnd
    <2>2. own.d \in Nat /\ Blanks(own.nodes)
      BY <1>2, TreeFacts, NodeFacts DEF Want
    <2>3. groups = G \cup {own}
      BY DEF Groups
    <2> HIDE DEF G, own
    <2> QED BY <2>1, <2>2, <2>3, FS_AddElement DEF Grouped
  <1>8. SoundTree(Graft(u, gone, groups))
    <2>1. LevelOf(u) = n /\ n =< MAX_LEVEL
      BY <1>2, SoundFacts DEF n
    <2> HIDE DEF gone, groups, t
    <2> QED BY <1>1, <1>2, <1>6, <1>7, <2>1, GraftKeeps
  <1>9. Edits(d, w, pick, want) = [d EXCEPT !.tree = Graft(u, gone, groups), !.sum = want.sum]
    BY DEF Edits, u
  <1> DEFINE v == Graft(u, gone, groups)
  <1> HIDE DEF gone, groups, v
  <1>10. SoundTree(v)
    BY <1>8 DEF v
  <1>11. SoundDoc([d EXCEPT !.tree = v, !.sum = want.sum])
    BY <1>1, <1>10, DocWith
  <1> QED BY <1>9, <1>11 DEF v

\* A pick of a choice at a level the character has, or the removal of one.
LEMMA PlanKeeps ==
  ASSUME LibrarySorted, NEW d, SoundDoc(d), NEW w \in DOMAIN d.tree, d.tree[w].kind = "wrapper",
         NEW pick, pick = None \/ (pick \in Pool(d.tree[w]) /\ d.tree[w].lvl =< LevelOf(d.tree))
  PROVE  SoundDoc(PlanSelection(d, w, pick))
  <1>1. Tree(d.tree)
    BY SoundFacts
  <1>2. pick \in Elem \cup {None} /\ (pick = None \/ d.tree[w].lvl =< LevelOf(d.tree))
    <2>1. Pool(d.tree[w]) \subseteq Elem
      BY <1>1, TreeFacts DEF IsNode
    <2> QED BY <2>1
  <1>3. Want(d, Asked(d, w, pick))
    BY <1>1, <1>2, AskedFacts
  <1> QED BY <1>2, <1>3, EditsKeep DEF PlanSelection

----------------------------------------------------------------------------
(* What a level brings.                                                      *)

\* The wrappers of what may be no element.
LEMMA SlotsOfAny ==
  ASSUME LibrarySorted, NEW owner, NEW S \in SUBSET DOMAIN RulesOf(owner), NEW d \in Nat \ {0}
  PROVE  Blanks(SlotsOf(owner, S, d))
  <1>1. CASE owner \in Elem
    <2>1. S \in SUBSET DOMAIN Rules[owner] /\ d \in Nat /\ d >= 1
      BY <1>1 DEF RulesOf
    <2> QED BY <1>1, <2>1, SlotsOfBlank
  <1>2. CASE owner \notin Elem
    <2> DEFINE order == InOrder(S)
               seqs == [k \in DOMAIN order |-> Slots(owner, order[k], d)]
    <2>1. S = {}
      BY <1>2, RulesOfFacts
    <2>2. Len(order) \in Nat /\ DOMAIN order = 1 .. Len(order) /\ \A k \in DOMAIN order : order[k] \in S
      <3>1. S \in SUBSET (0 .. 0)
        BY <2>1
      <3> QED BY <3>1, InOrderFacts
    <2> HIDE DEF order
    <2>3. DOMAIN order = {} /\ Len(order) = 0
      BY <2>1, <2>2
    <2>4. Len(seqs) \in Nat /\ DOMAIN seqs = 1 .. Len(seqs) /\ \A k \in 1 .. Len(seqs) : Blanks(seqs[k])
      BY <2>2, <2>3
    <2>5. SlotsOf(owner, S, d) = FlattenSeq(seqs)
      BY DEF SlotsOf, order
    <2> HIDE DEF seqs
    <2> QED BY <2>4, <2>5, BlanksFlat
  <1> QED BY <1>1, <1>2

Giving(p, a, r) == IF ~Holds(r.req, a) \/ r.name \in a.new THEN a ELSE AddChild(r.name, p.d, a)
GV == INSTANCE Iteration WITH Step <- Giving, P <- CtxClaim

\* The grant rules of the library: what each grants is one of its elements.
GrantRules == UNION {{RulesOf(e)[i] : i \in OfKind(e, "grant")} : e \in Elem}

LEMMA GrantsOfFacts ==
  ASSUME LibrarySorted, NEW owner, NEW S
  PROVE  GrantsOf(owner, S) \in Seq(GrantRules)
  <1> DEFINE T == OfKind(owner, "grant") \cap S
             order == InOrder(T)
             rules == RulesOf(owner)
  <1>1. Len(order) \in Nat /\ DOMAIN order = 1 .. Len(order) /\ \A k \in DOMAIN order : order[k] \in T
    <2>1. Len(rules) \in Nat /\ T \in SUBSET (0 .. Len(rules))
      BY RulesOfFacts DEF OfKind
    <2> HIDE DEF T, rules
    <2> QED BY <2>1, InOrderFacts
  <1>2. \A i \in T : rules[i] \in GrantRules
    <2> SUFFICES ASSUME NEW i \in T PROVE rules[i] \in GrantRules
      OBVIOUS
    <2>1. owner \in Elem
      BY RulesOfFacts DEF OfKind
    <2> QED BY <2>1 DEF GrantRules
  <1>3. GrantsOf(owner, S) = [k \in DOMAIN order |-> rules[order[k]]]
    BY DEF GrantsOf, InPlaces
  <1> HIDE DEF order, rules, T
  <1> QED BY <1>1, <1>2, <1>3

\* The grants of a class level.
LEMMA GrantAllKeeps ==
  ASSUME LibrarySorted, NEW b, Ctx(b), NEW grants \in Seq(GrantRules), NEW d \in Nat \ {0}
  PROVE  Ctx(GrantAll(b, grants, d))
  <1> DEFINE p == [d |-> d]
  <1>1. \A r \in GrantRules : r.name \in Elem
    <2> SUFFICES ASSUME NEW e \in Elem, NEW i \in OfKind(e, "grant") PROVE RulesOf(e)[i].name \in Elem
      BY DEF GrantRules
    <2> QED BY RulesOfFacts DEF OfKind
  <1>2. Len(grants) \in Nat /\ DOMAIN grants = 1 .. Len(grants) /\ \A k \in DOMAIN grants : grants[k] \in GrantRules
    OBVIOUS
  <1>3. ASSUME NEW a, NEW k, k \in DOMAIN grants, CtxClaim(p, a)
        PROVE  CtxClaim(p, Giving(p, a, grants[k]))
    <2> DEFINE r == grants[k]
               name == r.name
    <2>1. name \in Elem
      BY <1>1, <1>2, <1>3
    <2>2. Ctx(a)
      BY <1>3 DEF CtxClaim
    <2>3. Giving(p, a, r) = IF ~Holds(r.req, a) \/ name \in a.new THEN a ELSE AddChild(name, d, a)
      BY DEF Giving
    <2> HIDE DEF r, name
    <2>4. Ctx(AddChild(name, d, a))
      BY <2>1, <2>2, RegisterKeeps
    <2>5. Ctx(Giving(p, a, r))
      BY <2>2, <2>3, <2>4
    <2> QED BY <2>5 DEF CtxClaim, r
  <1>4. CtxClaim(p, b)
    BY DEF CtxClaim
  <1>5. CtxClaim(p, GV!Fold(p, b, grants))
    <2> HIDE DEF p
    <2> QED BY <1>2, <1>3, <1>4, GV!FoldKeeps
  <1>6. GrantAll(b, grants, d) = GV!Fold(p, b, grants)
    BY DEF GrantAll, FoldLeft, MapThenFoldSet, Max, GV!Max, GV!Fold, GV!Folded, Giving
  <1> HIDE DEF p
  <1> QED BY <1>5, <1>6 DEF CtxClaim

\* One class level's content is new content.
LEMMA ClassLevelKeeps ==
  ASSUME LibrarySorted, NEW document, NEW class, NEW level, NEW variant, NEW d \in Nat \ {0}
  PROVE  Ctx(ApplyClassLevel(document, class, level, variant, d))
  <1> DEFINE c == Context(document, {variant} \ {None}, level)
             atLevel == {i \in DOMAIN RulesOf(class) :
                           level = IF RulesOf(class)[i].level = 0 THEN 1 ELSE RulesOf(class)[i].level}
             now == {i \in atLevel : Holds(RulesOf(class)[i].req, c)}
             held == {i \in DOMAIN RulesOf(variant) : Holds(RulesOf(variant)[i].req, c)}
             starting == variant # None /\ level = 1
             block == IF starting THEN SlotsOf(variant, OfKind(variant, "select") \cap held, d) ELSE << >>
             wrapped == [c EXCEPT !.out = SlotsOf(class, OfKind(class, "select") \cap now, d) \o block]
             again == GrantsOf(class, {i \in atLevel : RulesOf(class)[i].name # PREREQUISITE})
             block2 == GrantsOf(variant, held)
             plain == GrantsOf(class, now)
             grants == IF starting THEN again \o block2 \o again ELSE plain
  <1>1. ApplyClassLevel(document, class, level, variant, d) = GrantAll(wrapped, grants, d)
    BY DEF ApplyClassLevel
  <1>2. Ctx(wrapped)
    <2>1. Blanks(block)
      <3>1. Blanks(SlotsOf(variant, OfKind(variant, "select") \cap held, d))
        <4>1. OfKind(variant, "select") \cap held \in SUBSET DOMAIN RulesOf(variant)
          BY DEF OfKind
        <4> HIDE DEF held
        <4> QED BY <4>1, SlotsOfAny
      <3> HIDE DEF held
      <3> QED BY <3>1, BlanksEmpty
    <2>2. Blanks(SlotsOf(class, OfKind(class, "select") \cap now, d))
      <3>1. OfKind(class, "select") \cap now \in SUBSET DOMAIN RulesOf(class)
        BY DEF OfKind
      <3> HIDE DEF now
      <3> QED BY <3>1, SlotsOfAny
    <2>3. Ctx(c)
      BY ContextFacts
    <2> HIDE DEF block, now, c
    <2>4. Blanks(SlotsOf(class, OfKind(class, "select") \cap now, d) \o block)
      BY <2>1, <2>2, BlanksConcat
    <2> QED BY <2>3, <2>4, CtxWith
  <1>3. again \in Seq(GrantRules) /\ block2 \in Seq(GrantRules) /\ plain \in Seq(GrantRules)
    BY GrantsOfFacts
  <1> HIDE DEF wrapped, again, block2, plain, starting
  <1>4. grants \in Seq(GrantRules)
    BY <1>3
  <1> HIDE DEF grants
  <1> QED BY <1>1, <1>2, <1>4, GrantAllKeeps

----------------------------------------------------------------------------
(* What a level brings to the elements registered before it.                 *)

NestSlots(p, c, n) == NestedSlots(p.t, p.i, p.match, c, n)
NS == INSTANCE Iteration WITH Step <- NestSlots, P <- CtxClaim
NestGrant(p, c, n) == NestedGrant(p.t, p.i, p.match, c, n)
NG == INSTANCE Iteration WITH Step <- NestGrant, P <- CtxClaim

\* The level-gated rules of one node: its choices, its grants.
LEMMA NestedSlotsKeeps ==
  ASSUME LibrarySorted, NEW t, Tree(t), NEW i \in DOMAIN t, NEW match, NEW c, Ctx(c),
         NEW n \in DOMAIN RulesOf(Holder(t[i]))
  PROVE  Ctx(NestedSlots(t, i, match, c, n)) /\ Ctx(NestedGrant(t, i, match, c, n))
  <1> DEFINE owner == Holder(t[i])
             r == RulesOf(owner)[n]
             slots == Slots(owner, n, t[i].d + 1)
             S == {m \in DOMAIN slots : \A k \in Kids(t, i) : t[k].rule # slots[m].rule}
             new == [c EXCEPT !.out = @ \o InPlaces(slots, S)]
  <1>1. t[i].d + 1 \in Nat \ {0} /\ t[i].d + 1 >= 1
    BY TreeFacts, NodeFacts
  <1>2. owner \in Elem /\ n \in DOMAIN Rules[owner] /\ (r.kind = "grant" => r.name \in Elem)
    BY RulesOfFacts
  <1>3. Ctx(new)
    <2>1. Blanks(slots)
      BY <1>1, <1>2, SlotsBlank
    <2>2. S \in SUBSET DOMAIN slots
      OBVIOUS
    <2> HIDE DEF S, slots
    <2>3. Blanks(c.out \o InPlaces(slots, S))
      BY <2>1, <2>2, InPlacesBlanks, BlanksConcat DEF Ctx
    <2> QED BY <2>3, CtxWith
  <1>4. NestedSlots(t, i, match, c, n) = IF r.kind = "select" /\ r.level = match /\ Holds(r.req, c) THEN new ELSE c
    BY DEF NestedSlots
  <1>5. r.kind = "grant" => Ctx(AddChild(r.name, t[i].d + 1, c))
    BY <1>1, <1>2, RegisterKeeps
  <1>6. Ctx(NestedGrant(t, i, match, c, n))
    BY <1>5 DEF NestedGrant
  <1> HIDE DEF new, r
  <1> QED BY <1>3, <1>4, <1>6

\* The groups, in the order they were grown.
NestedGroups(s) ==
  \E N : s \in Seq(N) /\ \A g \in N : g.d \in Nat /\ Blanks(g.nodes)
NestedClaim(p, a) == Ctx(a.ctx) /\ NestedGroups(a.groups)
NestVisit(p, a, i) ==
  NestedFrom(p.t, a, i, p.match,
             InOrder(IF Holder(p.t[i]) \in p.fresh THEN {} ELSE DOMAIN RulesOf(Holder(p.t[i]))))
NV == INSTANCE Iteration WITH Step <- NestVisit, P <- NestedClaim

\* Sequences of groups of new content.
LEMMA NestedGroupsFacts ==
  /\ NestedGroups(<< >>)
  /\ \A s, u : NestedGroups(s) /\ NestedGroups(u) => NestedGroups(s \o u)
  /\ \A g : g.d \in Nat /\ Blanks(g.nodes) => NestedGroups(<<g>>)
  /\ \A s : NestedGroups(s) => Len(s) \in Nat /\ DOMAIN s = 1 .. Len(s) /\ \A k \in DOMAIN s : s[k].d \in Nat /\ Blanks(s[k].nodes)
  <1>1. NestedGroups(<< >>)
    <2> DEFINE N == {}
    <2>1. << >> \in Seq(N) /\ \A g \in N : g.d \in Nat /\ Blanks(g.nodes)
      OBVIOUS
    <2> HIDE DEF N
    <2> QED BY <2>1 DEF NestedGroups
  <1>2. ASSUME NEW s, NEW u, NestedGroups(s), NestedGroups(u) PROVE NestedGroups(s \o u)
    <2>1. PICK N : s \in Seq(N) /\ \A g \in N : g.d \in Nat /\ Blanks(g.nodes)
      BY <1>2 DEF NestedGroups
    <2>2. PICK M : u \in Seq(M) /\ \A g \in M : g.d \in Nat /\ Blanks(g.nodes)
      BY <1>2 DEF NestedGroups
    <2>3. s \in Seq(N \cup M) /\ u \in Seq(N \cup M)
      BY <2>1, <2>2
    <2>4. s \o u \in Seq(N \cup M)
      BY <2>3
    <2> QED BY <2>1, <2>2, <2>4 DEF NestedGroups
  <1>3. ASSUME NEW g, g.d \in Nat, Blanks(g.nodes) PROVE NestedGroups(<<g>>)
    <2> DEFINE N == {g}
    <2>1. <<g>> \in Seq(N) /\ \A h \in N : h.d \in Nat /\ Blanks(h.nodes)
      BY <1>3
    <2> HIDE DEF N
    <2> QED BY <2>1 DEF NestedGroups
  <1>4. ASSUME NEW s, NestedGroups(s)
        PROVE  Len(s) \in Nat /\ DOMAIN s = 1 .. Len(s) /\ \A k \in DOMAIN s : s[k].d \in Nat /\ Blanks(s[k].nodes)
    <2>1. PICK N : s \in Seq(N) /\ \A g \in N : g.d \in Nat /\ Blanks(g.nodes)
      BY <1>4 DEF NestedGroups
    <2>2. Len(s) \in Nat /\ DOMAIN s = 1 .. Len(s) /\ \A k \in DOMAIN s : s[k] \in N
      BY <2>1
    <2> QED BY <2>1, <2>2
  <1> QED BY <1>1, <1>2, <1>3, <1>4

\* One node's group.
LEMMA NestedFromKeeps ==
  ASSUME LibrarySorted, NEW t, Tree(t), NEW i \in DOMAIN t, NEW match, NEW a, NestedClaim(t, a),
         NEW S \in SUBSET DOMAIN RulesOf(Holder(t[i]))
  PROVE  NestedClaim(t, NestedFrom(t, a, i, match, InOrder(S)))
  <1> DEFINE p == [t |-> t, i |-> i, match |-> match]
             order == InOrder(S)
             spawned == NS!Fold(p, a.ctx, order)
             c == NG!Fold(p, spawned, order)
  <1>1. Len(order) \in Nat /\ DOMAIN order = 1 .. Len(order) /\ \A k \in DOMAIN order : order[k] \in DOMAIN RulesOf(Holder(t[i]))
    <2>1. Len(RulesOf(Holder(t[i]))) \in Nat /\ S \in SUBSET (0 .. Len(RulesOf(Holder(t[i]))))
      BY RulesOfFacts
    <2> QED BY <2>1, InOrderFacts
  <1> HIDE DEF order
  <1>2. ASSUME NEW x, NEW k, k \in DOMAIN order, CtxClaim(p, x)
        PROVE  CtxClaim(p, NestSlots(p, x, order[k])) /\ CtxClaim(p, NestGrant(p, x, order[k]))
    <2>1. order[k] \in DOMAIN RulesOf(Holder(t[i])) /\ Ctx(x)
      BY <1>1, <1>2 DEF CtxClaim
    <2>2. Ctx(NestedSlots(t, i, match, x, order[k])) /\ Ctx(NestedGrant(t, i, match, x, order[k]))
      BY <2>1, NestedSlotsKeeps
    <2> QED BY <2>2 DEF CtxClaim, NestSlots, NestGrant
  <1>3. CtxClaim(p, a.ctx)
    BY DEF CtxClaim, NestedClaim
  <1>4. CtxClaim(p, spawned)
    <2> HIDE DEF p
    <2> QED BY <1>1, <1>2, <1>3, NS!FoldKeeps
  <1>5. CtxClaim(p, c)
    <2> HIDE DEF p, spawned
    <2> QED BY <1>1, <1>2, <1>4, NG!FoldKeeps
  <1>6. NestedFrom(t, a, i, match, order) = NestedVisit(t, a, i, match, order, spawned)
    BY DEF NestedFrom, FoldLeft, MapThenFoldSet, Max, NS!Max, NS!Fold, NS!Folded, NestSlots
  <1> HIDE DEF spawned
  <1>7. NestedVisit(t, a, i, match, order, spawned) = NestedVisited(t, a, i, match, spawned, c)
    BY DEF NestedVisit, FoldLeft, MapThenFoldSet, Max, NG!Max, NG!Fold, NG!Folded, NestGrant
  <1> HIDE DEF c
  <1>8. NestedClaim(t, NestedVisited(t, a, i, match, spawned, c))
    <2> DEFINE g == Grown(i, a.ctx, c)
               new == PutAt(g, SplicePoint(t, i, match, spawned.out # a.ctx.out), t[i].d + 1)
               more == IF g.nodes = << >> THEN << >> ELSE <<new>>
    <2>1. Ctx(a.ctx) /\ Ctx(c) /\ NestedGroups(a.groups)
      BY <1>5 DEF CtxClaim, NestedClaim
    <2>2. Blanks(g.nodes)
      <3>1. Growths({}, {i}) /\ i \in {i}
        BY FS_EmptySet DEF Growths
      <3> QED BY <2>1, <3>1, GrownFacts
    <2>3. new.d = t[i].d + 1 /\ new.nodes = g.nodes
      BY DEF PutAt
    <2>4. t[i].d + 1 \in Nat
      BY TreeFacts, NodeFacts
    <2> HIDE DEF g, new
    <2>5. NestedGroups(more)
      BY <2>2, <2>3, <2>4, NestedGroupsFacts
    <2>6. NestedVisited(t, a, i, match, spawned, c) = [ctx |-> c, groups |-> a.groups \o more]
      BY DEF NestedVisited, g, new
    <2> HIDE DEF more
    <2>7. NestedGroups(a.groups \o more)
      BY <2>1, <2>5, NestedGroupsFacts
    <2> QED BY <2>1, <2>6, <2>7 DEF NestedClaim
  <1> QED BY <1>6, <1>7, <1>8 DEF order

\* The groups of a walk.
LEMMA NestedInFacts ==
  ASSUME LibrarySorted, NEW t, Tree(t), NEW S \in SUBSET DOMAIN t, NEW match, NEW start, Ctx(start), NEW fresh
  PROVE  NestedGroups(NestedIn(t, S, match, start, fresh))
  <1> DEFINE p == [t |-> t, match |-> match, fresh |-> fresh]
             order == InOrder(S)
             base == [ctx |-> start, groups |-> << >>]
  <1>1. Len(order) \in Nat /\ DOMAIN order = 1 .. Len(order) /\ \A k \in DOMAIN order : order[k] \in S
    <2>1. Len(t) \in Nat /\ S \in SUBSET (0 .. Len(t))
      BY TreeFacts
    <2> QED BY <2>1, InOrderFacts
  <1> HIDE DEF order
  <1>2. NestedClaim(p, base)
    BY NestedGroupsFacts DEF NestedClaim
  <1>3. ASSUME NEW a, NEW k, k \in DOMAIN order, NestedClaim(p, a)
        PROVE  NestedClaim(p, NestVisit(p, a, order[k]))
    <2> DEFINE i == order[k]
               T == IF Holder(t[i]) \in fresh THEN {} ELSE DOMAIN RulesOf(Holder(t[i]))
    <2>1. i \in DOMAIN t
      BY <1>1, <1>3
    <2>2. T \in SUBSET DOMAIN RulesOf(Holder(t[i]))
      OBVIOUS
    <2>3. NestedClaim(t, a)
      BY <1>3 DEF NestedClaim
    <2>4. NestVisit(p, a, i) = NestedFrom(t, a, i, match, InOrder(T))
      BY DEF NestVisit
    <2> HIDE DEF i, T
    <2>5. NestedClaim(t, NestVisit(p, a, i))
      BY <2>1, <2>2, <2>3, <2>4, NestedFromKeeps
    <2> QED BY <2>5 DEF NestedClaim, i
  <1> HIDE DEF base
  <1>4. NestedClaim(p, NV!Fold(p, base, order))
    <2> HIDE DEF p
    <2> QED BY <1>1, <1>2, <1>3, NV!FoldKeeps
  <1>5. NestedIn(t, S, match, start, fresh) = NV!Fold(p, base, order).groups
    BY DEF NestedIn, FoldLeft, MapThenFoldSet, Max, NV!Max, NV!Fold, NV!Folded, NestVisit, order, base
  <1> QED BY <1>4, <1>5 DEF NestedClaim

\* The groups of a level.
LEMMA NestedFacts ==
  ASSUME LibrarySorted, NEW d, Tree(d.tree), NEW fresh, NEW container \in 0 .. Len(d.tree),
         NEW class, NEW classLevel, NEW total
  PROVE  NestedGroups(NestedRules(d, fresh, container, class, classLevel, total))
  <1> DEFINE t == d.tree
             extra == fresh \cup (IF IsVariant(class) THEN {class} ELSE {})
             gated == {i \in DOMAIN t : \E n \in DOMAIN RulesOf(Holder(t[i])) : RulesOf(Holder(t[i]))[n].level = total}
             inside == IF container = 0 THEN << >>
                       ELSE NestedIn(t, Sub(t, container) \ {container}, classLevel, Context(d, extra, classLevel), fresh)
             outside == NestedIn(t, {i \in gated : ~InClass(t, i)}, total, Context(d, extra, total), fresh)
  <1>1. NestedGroups(inside)
    <2>1. CASE container = 0
      BY <2>1, NestedGroupsFacts
    <2>2. CASE container # 0
      <3>1. container \in DOMAIN t
        BY <2>2, TreeFacts
      <3>2. Sub(t, container) \ {container} \in SUBSET DOMAIN t
        BY <3>1, SubFacts
      <3>3. NestedGroups(NestedIn(t, Sub(t, container) \ {container}, classLevel, Context(d, extra, classLevel), fresh))
        <4> HIDE DEF extra
        <4> QED BY <3>2, ContextFacts, NestedInFacts
      <3> QED BY <2>2, <3>3
    <2> QED BY <2>1, <2>2
  <1>2. NestedGroups(outside)
    <2>1. {i \in gated : ~InClass(t, i)} \in SUBSET DOMAIN t
      OBVIOUS
    <2> HIDE DEF extra, gated
    <2> QED BY <2>1, ContextFacts, NestedInFacts
  <1>3. NestedRules(d, fresh, container, class, classLevel, total) = inside \o outside
    BY DEF NestedRules
  <1> HIDE DEF inside, outside
  <1> QED BY <1>1, <1>2, <1>3, NestedGroupsFacts

\* As a set of groups to put into a tree.
LEMMA NestedGrouped ==
  ASSUME NEW s, NestedGroups(s)
  PROVE  Grouped(Range(s)) /\ \A g \in Range(s) : Blanks(g.nodes)
  <1>1. Len(s) \in Nat /\ DOMAIN s = 1 .. Len(s) /\ \A k \in DOMAIN s : s[k].d \in Nat /\ Blanks(s[k].nodes)
    BY NestedGroupsFacts
  <1>2. IsFiniteSet(1 .. Len(s))
    BY <1>1, FS_Interval
  <1>3. Range(s) = {s[k] : k \in DOMAIN s}
    BY DEF Range
  <1>4. IsFiniteSet(Range(s))
    BY <1>1, <1>2, <1>3, ImageFinite
  <1> QED BY <1>1, <1>3, <1>4 DEF Grouped

----------------------------------------------------------------------------
(* Gaining a level: the document, and the record that takes it back.         *)

\* A record names children that are no levels, and runs of children.
Expected(s) == \E N : s \in Seq(N) /\ \A n \in N : n.kind # "level"
IsRecord(r) ==
  /\ r = [total |-> r.total, class |-> r.class, level |-> r.level, multi |-> r.multi, start |-> r.start,
          ids |-> r.ids, nodes |-> r.nodes, nested |-> r.nested]
  /\ Expected(r.nodes) /\ IsRun(r.nested)
  /\ \A k \in DOMAIN r.nested : IsRun(r.nested[k].nodes)
Records(recs) == \E R : recs \in Seq(R) /\ \A r \in R : IsRecord(r)
Gain(r) == SoundDoc(r.doc) /\ IsRecord(r.rec)

\* New content is what a record may expect.
LEMMA ExpectedBlanks ==
  ASSUME NEW s, Blanks(s)
  PROVE  Expected(s) /\ IsRun(s)
  <1>1. PICK N : s \in Seq(N) /\ \A n \in N : Blank(n)
    BY DEF Blanks
  <1>2. \A n \in N : n.kind # "level"
    BY <1>1 DEF Blank
  <1> QED BY <1>1, <1>2, BlanksFacts DEF Expected, IsRun

\* So is its top row.
LEMMA TopBlanks ==
  ASSUME NEW s, Blanks(s)
  PROVE  Blanks(Top(s))
  <1> DEFINE S == {k \in DOMAIN s : s[k].d = s[1].d}
  <1>1. S \in SUBSET DOMAIN s
    OBVIOUS
  <1> HIDE DEF S
  <1>2. Blanks(InPlaces(s, S))
    BY <1>1, InPlacesBlanks
  <1> QED BY <1>2 DEF Top, S

\* A record of new content names no level.
LEMMA RecordMade ==
  ASSUME NEW total, NEW class, NEW level, NEW multi, NEW start, NEW ids, NEW nodes, Blanks(nodes),
         NEW nested, IsRun(nested), \A k \in DOMAIN nested : IsRun(nested[k].nodes)
  PROVE  IsRecord(Record(total, class, level, multi, start, ids, nodes, nested))
  <1>1. Expected(nodes)
    BY ExpectedBlanks
  <1> QED BY <1>1 DEF IsRecord, Record

\* The recorded form of the groups.
LEMMA NestedRecorded ==
  ASSUME NEW t, NEW nested, NestedGroups(nested), NEW rec, rec = [k \in DOMAIN nested |-> Recorded(t, nested[k])]
  PROVE  IsRun(rec) /\ \A k \in DOMAIN rec : IsRun(rec[k].nodes)
  <1>1. Len(nested) \in Nat /\ DOMAIN nested = 1 .. Len(nested) /\ \A k \in DOMAIN nested : Blanks(nested[k].nodes)
    BY NestedGroupsFacts
  <1>2. IsRun(rec) /\ DOMAIN rec = DOMAIN nested
    BY <1>1 DEF IsRun
  <1>3. ASSUME NEW k \in DOMAIN nested PROVE IsRun(rec[k].nodes)
    <2>1. rec[k].nodes = Top(nested[k].nodes)
      BY DEF Recorded
    <2>2. Blanks(Top(nested[k].nodes))
      BY <1>1, TopBlanks
    <2> QED BY <2>1, <2>2, ExpectedBlanks
  <1> QED BY <1>2, <1>3

\* A level's node.
LEMMA LevelNodeFacts ==
  ASSUME LibrarySorted, NEW n \in 1 .. MAX_LEVEL, NEW class
  PROVE  /\ IsNode(LevelNode(n, class)) /\ ~Filled(LevelNode(n, class)) /\ LevelNode(n, class).kind = "level"
         /\ Tree(<<LevelNode(n, class)>>) /\ \A m : EarnedBy(<<LevelNode(n, class)>>, m)
         /\ LevelId[n] \in LevelIds
         /\ Cardinality(Levels(<<LevelNode(n, class)>>)) = 1
  <1> DEFINE v == LevelNode(n, class)
             N == {v}
  <1>1. LevelId[n] \in LevelIds
    BY LevelingAssumption DEF LevelIds, Range
  <1>2. IsNode(v) /\ ~Filled(v) /\ v.kind = "level"
    BY <1>1 DEF LevelNode, IsNode, Filled
  <1> HIDE DEF v
  <1>3. <<v>> \in Seq(N) /\ \A m \in N : IsNode(m)
    BY <1>2
  <1>4. Tree(<<v>>)
    <2> HIDE DEF N
    <2> QED BY <1>3 DEF Tree
  <1>5. \A m : EarnedBy(<<v>>, m)
    BY <1>2 DEF EarnedBy
  <1>6. Cardinality(Levels(<<v>>)) = 1
    <2>1. Levels(<<v>>) = {1}
      BY <1>2 DEF Levels
    <2> QED BY <2>1, FS_Singleton
  <1> QED BY <1>1, <1>2, <1>4, <1>5, <1>6 DEF v

\* A document written anew from a tree that keeps its levels.
LEMMA SoundWritten ==
  ASSUME NEW d, SoundDoc(d), NEW t, Tree(t), NEW n \in Nat, EarnedBy(t, n), n =< LevelOf(t), LevelOf(t) =< MAX_LEVEL,
         NEW sum
  PROVE  SoundDoc([d EXCEPT !.tree = t, !.sum = sum])
  <1>1. EarnedBy(t, LevelOf(t))
    <2>1. \A i \in DOMAIN t : t[i].lvl \in Nat
      BY TreeFacts DEF IsNode
    <2>2. LevelOf(t) \in Nat
      BY TreeLevels
    <2> QED BY <2>1, <2>2 DEF EarnedBy
  <1> QED BY <1>1, SoundFacts, DocWith DEF SoundTree

\* The document and the record of a level gained.
LEMMA LevelWrittenKeeps ==
  ASSUME LibrarySorted, NEW d, SoundDoc(d), LevelOf(d.tree) < MAX_LEVEL,
         NEW class, Container(d.tree, class) \in DOMAIN d.tree,
         NEW own, Ctx(own), NEW nested, NestedGroups(nested)
  PROVE  Gain(LevelWritten(d, class, own, nested))
  <1> DEFINE t == d.tree
             total == LevelOf(t) + 1
             multi == IsVariant(class)
             name == IF multi THEN class ELSE None
             ids == {LevelId[total]} \cup own.new
             last == [after |-> End(t, LastLevel(t)), d |-> 1, nodes |-> <<LevelNode(total, name)>>]
             content == AtEnd(t, Container(t, class), own.out)
             groups == {last, content} \cup Range(nested)
             u == Graft(t, {}, groups)
             sum == AddAll(d.sum (+) SetToBag(ids), Range(nested))
             nodes == IF own.out = << >> THEN << >> ELSE Top(own.out)
             recorded == [k \in DOMAIN nested |-> Recorded(t, nested[k])]
             rec == Record(total, class, ClassLevel(t, class) + 1, multi, FALSE, ids, nodes, recorded)
  <1>1. Tree(t) /\ EarnedBy(t, LevelOf(t)) /\ LevelOf(t) \in Nat
    BY SoundFacts
  <1>2. total \in 1 .. MAX_LEVEL
    BY <1>1, LevelingAssumption
  <1>3. Blanks(own.out)
    BY DEF Ctx
  <1>4. last.d \in Nat /\ Tree(last.nodes) /\ EarnedBy(last.nodes, LevelOf(t)) /\ Cardinality(Levels(last.nodes)) = 1
    <2> HIDE DEF total, name
    <2> QED BY <1>2, LevelNodeFacts
  <1>5. content.d \in Nat /\ content.nodes = own.out
    <2>1. Container(t, class) \in DOMAIN t /\ Container(t, class) # 0
      BY <1>1, TreeFacts
    <2> QED BY <1>1, <2>1, TreeFacts, NodeFacts DEF AtEnd, Depth
  <1>6. Grouped(groups) /\ \A g \in groups : Tree(g.nodes) /\ EarnedBy(g.nodes, LevelOf(t))
    <2> HIDE DEF last, content
    <2>1. IsFiniteSet({last, content} \cup Range(nested))
      <3>1. IsFiniteSet(Range(nested))
        BY NestedGrouped DEF Grouped
      <3>2. IsFiniteSet(Range(nested) \cup {last})
        BY <3>1, FS_AddElement
      <3>3. IsFiniteSet((Range(nested) \cup {last}) \cup {content})
        BY <3>2, FS_AddElement
      <3>4. groups = (Range(nested) \cup {last}) \cup {content}
        OBVIOUS
      <3> QED BY <3>3, <3>4
    <2>2. \A g \in Range(nested) : g.d \in Nat /\ Blanks(g.nodes)
      BY NestedGrouped DEF Grouped
    <2>3. \A g \in Range(nested) \cup {content} : Tree(g.nodes) /\ EarnedBy(g.nodes, LevelOf(t))
      BY <1>3, <1>5, <2>2, BlanksTree
    <2> QED BY <1>4, <1>5, <2>1, <2>2, <2>3 DEF Grouped
  <1>11. TopGroup(groups, last, 1)
    <2>1. \A g \in Range(nested) \cup {content} : Cardinality(Levels(g.nodes)) = 0
      <3> HIDE DEF content
      <3>1. \A g \in Range(nested) : Blanks(g.nodes)
        BY NestedGrouped
      <3> QED BY <1>3, <1>5, <3>1, BlanksLevels
    <2> HIDE DEF last, content
    <2> QED BY <1>4, <2>1 DEF TopGroup
  <1> HIDE DEF groups
  <1>7. Tree(u) /\ EarnedBy(u, LevelOf(t)) /\ LevelOf(t) =< LevelOf(u) /\ LevelOf(u) =< MAX_LEVEL
    <2> DEFINE n == LevelOf(t)
               none == {}
    <2>1. /\ none \in SUBSET DOMAIN t /\ 0 \in Nat
          /\ \A i \in DOMAIN t \ Spread(t, none) : Filled(t[i]) => t[i].lvl =< n
          /\ Levels(t) \ none = Levels(t)
      BY <1>1 DEF EarnedBy
    <2>2. n \in Nat /\ n = Cardinality(Levels(t))
      BY <1>1 DEF LevelOf
    <2> HIDE DEF n, none, t
    <2>3. /\ Tree(Graft(t, none, groups)) /\ EarnedBy(Graft(t, none, groups), n)
          /\ LevelOf(Graft(t, none, groups)) \in Nat
          /\ LevelOf(Graft(t, none, groups)) >= Cardinality(Levels(t) \ none) + 0
          /\ LevelOf(Graft(t, none, groups)) =< Cardinality(Levels(t) \ none) + 1
      <3>1. \A g \in groups : Tree(g.nodes) /\ EarnedBy(g.nodes, n)
        BY <1>6 DEF n
      <3> HIDE DEF last
      <3> QED BY <1>1, <1>6, <1>11, <2>1, <2>2, <3>1, GraftFacts
    <2>4. n < MAX_LEVEL /\ MAX_LEVEL \in Nat
      BY LevelingAssumption DEF n, t
    <2> HIDE DEF last
    <2> QED BY <2>1, <2>2, <2>3, <2>4 DEF n, none
  <1>8. SoundDoc([d EXCEPT !.tree = u, !.sum = sum])
    <2> HIDE DEF u, sum
    <2> QED BY <1>1, <1>7, SoundWritten
  <1>9. IsRecord(rec)
    <2>1. Blanks(nodes)
      BY <1>3, BlanksEmpty, TopBlanks
    <2>2. IsRun(recorded) /\ \A k \in DOMAIN recorded : IsRun(recorded[k].nodes)
      BY NestedRecorded
    <2> HIDE DEF nodes, recorded, ids, multi, total
    <2> QED BY <2>1, <2>2, RecordMade
  <1>10. LevelWritten(d, class, own, nested) = [ok |-> TRUE, doc |-> [d EXCEPT !.tree = u, !.sum = sum], rec |-> rec]
    BY DEF LevelWritten, groups
  <1> HIDE DEF rec, u, sum
  <1> QED BY <1>8, <1>9, <1>10 DEF Gain

\* The node of a multiclass level with its choice, open or answered.
LEMMA ChoiceNodesFacts ==
  ASSUME LibrarySorted, NEW n \in 1 .. MAX_LEVEL, NEW class \in Elem \cup {None}
  PROVE  /\ Tree(ChoiceNodes(n, class)) /\ EarnedBy(ChoiceNodes(n, class), n)
         /\ (class = None => \A m : EarnedBy(ChoiceNodes(n, class), m))
         /\ Cardinality(Levels(ChoiceNodes(n, class))) = 1
  <1> DEFINE v == LevelNode(n, class)
             w == WrapperNode(2, "Multiclass", n, <<LevelId[n], 1, 1>>, class)
             N == {v, w}
             s == <<v, w>>
  <1>1. IsNode(v) /\ ~Filled(v) /\ v.kind = "level" /\ LevelId[n] \in LevelIds /\ w.kind # "level"
    BY LevelNodeFacts DEF WrapperNode
  <1>2. IsNode(w)
    <2>1. ~Authored(w)
      BY <1>1 DEF Authored, WrapperNode, LibrarySorted
    <2>2. Pool(w) \subseteq Elem
      BY <2>1 DEF Pool, WrapperNode, LibrarySorted
    <2>3. class \notin LevelIds /\ None \notin LevelIds /\ n \in Nat
      BY LevelingAssumption DEF LibrarySorted
    <2> QED BY <2>2, <2>3 DEF IsNode, WrapperNode
  <1>3. w.lvl = n /\ w.reg = class /\ (Filled(w) => class # None)
    BY DEF WrapperNode, Filled
  <1> HIDE DEF v, w
  <1>4. s \in Seq(N) /\ Len(s) = 2 /\ s[1] = v /\ s[2] = w /\ DOMAIN s = 1 .. 2 /\ \A m \in N : IsNode(m)
    BY <1>1, <1>2
  <1>5. ChoiceNodes(n, class) = s
    BY DEF ChoiceNodes, v, w
  <1> HIDE DEF s, N
  <1>6. Tree(s)
    BY <1>4 DEF Tree
  <1>7. \A m : (class = None \/ n =< m) => EarnedBy(s, m)
    BY <1>1, <1>3, <1>4 DEF EarnedBy
  <1>8. n =< n
    OBVIOUS
  <1>9. Cardinality(Levels(s)) = 1
    <2>1. Levels(s) = {1}
      BY <1>1, <1>4 DEF Levels
    <2> QED BY <2>1, FS_Singleton
  <1> QED BY <1>5, <1>6, <1>7, <1>8, <1>9

\* Two trees put together.
LEMMA TreeConcat ==
  ASSUME NEW s, NEW u, Tree(s), Tree(u)
  PROVE  /\ Tree(s \o u)
         /\ \A n : EarnedBy(s, n) /\ EarnedBy(u, n) => EarnedBy(s \o u, n)
         /\ Cardinality(Levels(s \o u)) = Cardinality(Levels(s)) + Cardinality(Levels(u))
         /\ Cardinality(Levels(s)) \in Nat /\ Cardinality(Levels(u)) \in Nat /\ Cardinality(Levels(s \o u)) \in Nat
  <1>1. PICK N : s \in Seq(N) /\ \A n \in N : IsNode(n)
    BY DEF Tree
  <1>2. PICK M : u \in Seq(M) /\ \A n \in M : IsNode(n)
    BY DEF Tree
  <1>3. s \in Seq(N \cup M) /\ u \in Seq(N \cup M) /\ \A n \in N \cup M : IsNode(n)
    BY <1>1, <1>2
  <1>4. s \o u \in Seq(N \cup M) /\ Cardinality(Levels(s \o u)) = Cardinality(Levels(s)) + Cardinality(Levels(u))
    BY <1>3, LevelsConcat
  <1>5. Tree(s \o u)
    BY <1>3, <1>4 DEF Tree
  <1>6. ASSUME NEW n, EarnedBy(s, n), EarnedBy(u, n) PROVE EarnedBy(s \o u, n)
    <2>1. \A i \in DOMAIN (s \o u) : (i \in DOMAIN s /\ (s \o u)[i] = s[i])
                                      \/ (i - Len(s) \in DOMAIN u /\ (s \o u)[i] = u[i - Len(s)])
      BY <1>3
    <2> QED BY <1>6, <2>1 DEF EarnedBy
  <1>7. Cardinality(Levels(s)) \in Nat /\ Cardinality(Levels(u)) \in Nat /\ Cardinality(Levels(s \o u)) \in Nat
    BY <1>5, TreeLevels DEF LevelOf
  <1> QED BY <1>4, <1>5, <1>6, <1>7

\* The document and the record of an open choice.
LEMMA OpenWrittenKeeps ==
  ASSUME LibrarySorted, NEW d, SoundDoc(d), LevelOf(d.tree) < MAX_LEVEL, NEW nested, NestedGroups(nested)
  PROVE  Gain(OpenWritten(d, nested))
  <1> DEFINE t == d.tree
             n == LevelOf(t)
             total == n + 1
             ids == {LevelId[total], StartId[total]}
             written == ChoiceNodes(total, None) \o <<ElementNode(2, StartId[total])>>
             added == [after |-> End(t, LastLevel(t)), d |-> 1, nodes |-> written]
             groups == {added} \cup Range(nested)
             u == Graft(t, {}, groups)
             sum == AddAll(d.sum (+) SetToBag(ids), Range(nested))
             recorded == [k \in DOMAIN nested |-> Recorded(t, nested[k])]
             rec == Record(total, None, 0, TRUE, FALSE, ids, << >>, recorded)
  <1>1. Tree(t) /\ EarnedBy(t, n) /\ n \in Nat
    BY SoundFacts
  <1>2. total \in 1 .. MAX_LEVEL
    BY <1>1, LevelingAssumption
  <1>3. Tree(written) /\ EarnedBy(written, n) /\ Cardinality(Levels(written)) = 1
    <2> HIDE DEF total, n
    <2>1. /\ Tree(ChoiceNodes(total, None)) /\ EarnedBy(ChoiceNodes(total, None), n)
          /\ Cardinality(Levels(ChoiceNodes(total, None))) = 1
      BY <1>2, ChoiceNodesFacts
    <2>2. Blank(ElementNode(2, StartId[total]))
      <3>1. StartId[total] \in Range(StartId)
        BY <1>2, LevelingAssumption DEF Range
      <3>2. 2 \in Nat /\ 2 >= 1
        OBVIOUS
      <3> QED BY <3>1, <3>2, ElementBlank
    <2> DEFINE e == <<ElementNode(2, StartId[total])>>
    <2>3. Tree(e) /\ EarnedBy(e, n) /\ Cardinality(Levels(e)) = 0
      BY <2>2, BlanksOne, BlanksTree, BlanksLevels
    <2>4. written = ChoiceNodes(total, None) \o e
      OBVIOUS
    <2> HIDE DEF e, written
    <2>5. /\ Tree(written) /\ EarnedBy(written, n)
          /\ Cardinality(Levels(written)) = Cardinality(Levels(ChoiceNodes(total, None))) + Cardinality(Levels(e))
      BY <2>1, <2>3, <2>4, TreeConcat
    <2> QED BY <2>1, <2>3, <2>5
  <1>4. added.d \in Nat /\ added.nodes = written
    OBVIOUS
  <1>5. Grouped(groups) /\ \A g \in groups : Tree(g.nodes) /\ EarnedBy(g.nodes, n)
    <2> HIDE DEF added, written, n
    <2>1. Grouped(Range(nested)) /\ \A g \in Range(nested) : Blanks(g.nodes)
      BY NestedGrouped
    <2>2. IsFiniteSet(groups)
      <3>1. IsFiniteSet(Range(nested) \cup {added})
        BY <2>1, FS_AddElement DEF Grouped
      <3>2. groups = Range(nested) \cup {added}
        OBVIOUS
      <3> QED BY <3>1, <3>2
    <2>3. \A g \in Range(nested) : Tree(g.nodes) /\ EarnedBy(g.nodes, n)
      BY <2>1, BlanksTree
    <2> QED BY <1>3, <1>4, <2>1, <2>2, <2>3 DEF Grouped
  <1>10. TopGroup(groups, added, 1)
    <2>1. \A g \in Range(nested) : Cardinality(Levels(g.nodes)) = 0
      BY NestedGrouped, BlanksLevels
    <2> HIDE DEF added, written
    <2> QED BY <1>3, <1>4, <2>1 DEF TopGroup
  <1> HIDE DEF groups
  <1>6. Tree(u) /\ EarnedBy(u, n) /\ n =< LevelOf(u) /\ LevelOf(u) =< MAX_LEVEL
    <2> DEFINE none == {}
    <2>1. /\ none \in SUBSET DOMAIN t /\ 0 \in Nat
          /\ \A i \in DOMAIN t \ Spread(t, none) : Filled(t[i]) => t[i].lvl =< n
          /\ Levels(t) \ none = Levels(t)
      BY <1>1 DEF EarnedBy
    <2>2. n \in Nat /\ n = Cardinality(Levels(t))
      BY <1>1 DEF LevelOf
    <2> HIDE DEF n, none, t
    <2>3. /\ Tree(Graft(t, none, groups)) /\ EarnedBy(Graft(t, none, groups), n)
          /\ LevelOf(Graft(t, none, groups)) \in Nat
          /\ LevelOf(Graft(t, none, groups)) >= Cardinality(Levels(t) \ none) + 0
          /\ LevelOf(Graft(t, none, groups)) =< Cardinality(Levels(t) \ none) + 1
      <3> HIDE DEF added, written
      <3> QED BY <1>1, <1>5, <1>10, <2>1, <2>2, GraftFacts
    <2>4. n < MAX_LEVEL /\ MAX_LEVEL \in Nat
      BY LevelingAssumption DEF n, t
    <2> HIDE DEF added
    <2> QED BY <2>1, <2>2, <2>3, <2>4 DEF none
  <1>7. SoundDoc([d EXCEPT !.tree = u, !.sum = sum])
    <2> HIDE DEF u, sum, n
    <2> QED BY <1>1, <1>6, SoundWritten
  <1>8. IsRecord(rec)
    <2>1. IsRun(recorded) /\ \A k \in DOMAIN recorded : IsRun(recorded[k].nodes)
      BY NestedRecorded
    <2> HIDE DEF recorded, ids, total
    <2> QED BY <2>1, BlanksEmpty, RecordMade
  <1>9. OpenWritten(d, nested) = [ok |-> TRUE, doc |-> [d EXCEPT !.tree = u, !.sum = sum], rec |-> rec]
    BY DEF OpenWritten, groups
  <1> HIDE DEF rec, u, sum
  <1> QED BY <1>7, <1>8, <1>9 DEF Gain

\* The level cut out with the open choice is the one written anew.
LEMMA StartWrittenKeeps ==
  ASSUME LibrarySorted, NEW d, SoundDoc(d), LevelOf(d.tree) > 1, NEW m \in Elem,
         NEW own, Ctx(own), StartWritten(d, m, own).ok
  PROVE  Gain(StartWritten(d, m, own))
  <1> DEFINE t == d.tree
             n == LevelOf(t)
             last == LastLevel(t)
             ids == {m} \cup own.new
             before == IF StartId[n] \in Shown(t, {last}) THEN {} ELSE {StartId[n]}
             front == ChoiceNodes(n, m) \o own.out
             written == front \o <<ElementNode(2, StartId[n])>>
             group == [after |-> last, d |-> 1, nodes |-> written]
             u == Graft(t, {last}, {group})
             sum == d.sum (+) SetToBag(ids \cup before)
             nodes == Top(own.out)
             rec == Record(n, m, 1, TRUE, TRUE, ids \cup {StartId[n]}, nodes, << >>)
             brings == own.out # << >>
  <1>0. brings
    BY DEF StartWritten
  <1>1. Tree(t) /\ EarnedBy(t, n) /\ n \in Nat /\ n >= 1 /\ n \in 1 .. MAX_LEVEL
    BY SoundFacts, LevelingAssumption
  <1>2. last \in Levels(t) /\ last \in DOMAIN t /\ last \in 0 .. Len(t)
    <2>1. Len(t) \in Nat /\ DOMAIN t = 1 .. Len(t) /\ IsFiniteSet(Levels(t)) /\ Levels(t) \subseteq DOMAIN t
      BY <1>1, TreeFacts, TreeLevels
    <2>2. Levels(t) # {}
      BY <1>1, <2>1, FS_EmptySet DEF LevelOf
    <2>3. Levels(t) \in SUBSET (0 .. Len(t))
      BY <2>1
    <2>4. Max(Levels(t)) \in Levels(t)
      <3> HIDE DEF t
      <3> QED BY <2>1, <2>2, <2>3, GreatestIn
    <2> QED BY <2>1, <2>4 DEF LastLevel
  <1>3. /\ Tree(written) /\ EarnedBy(written, n)
        /\ Cardinality(Levels(written)) = 1
    <2> DEFINE e == <<ElementNode(2, StartId[n])>>
    <2>1. Tree(ChoiceNodes(n, m)) /\ EarnedBy(ChoiceNodes(n, m), n) /\ Cardinality(Levels(ChoiceNodes(n, m))) = 1
      <3> HIDE DEF n
      <3>1. n \in 1 .. MAX_LEVEL /\ m \in Elem \cup {None}
        BY <1>1
      <3> QED BY <3>1, ChoiceNodesFacts
    <2>2. Tree(own.out) /\ EarnedBy(own.out, n) /\ Cardinality(Levels(own.out)) = 0
      BY BlanksTree, BlanksLevels DEF Ctx
    <2>3. Tree(e) /\ EarnedBy(e, n) /\ Cardinality(Levels(e)) = 0
      <3>1. StartId[n] \in Range(StartId)
        BY <1>1, LevelingAssumption DEF Range
      <3>2. 2 \in Nat /\ 2 >= 1
        OBVIOUS
      <3>3. Blank(ElementNode(2, StartId[n]))
        <4> HIDE DEF n
        <4> QED BY <3>1, <3>2, ElementBlank
      <3> QED BY <3>3, BlanksOne, BlanksTree, BlanksLevels
    <2> HIDE DEF e, n
    <2>4. /\ Tree(front) /\ EarnedBy(front, n)
          /\ Cardinality(Levels(front)) = Cardinality(Levels(ChoiceNodes(n, m))) + Cardinality(Levels(own.out))
      BY <2>1, <2>2, TreeConcat
    <2> HIDE DEF front
    <2>5. /\ Tree(front \o e) /\ EarnedBy(front \o e, n)
          /\ Cardinality(Levels(front \o e)) = Cardinality(Levels(front)) + Cardinality(Levels(e))
      BY <2>3, <2>4, TreeConcat
    <2> QED BY <2>1, <2>2, <2>3, <2>4, <2>5 DEF e, n
  <1>4. group.d \in Nat /\ group.nodes = written /\ group.after = last
    OBVIOUS
  <1>5. Tree(u) /\ EarnedBy(u, n) /\ LevelOf(u) = n
    <2> DEFINE gone == {last}
               groups == {group}
               extra == 1
    <2> HIDE DEF group, written
    <2>1. /\ gone \in SUBSET DOMAIN t /\ extra \in Nat
          /\ \A i \in DOMAIN t \ Spread(t, gone) : Filled(t[i]) => t[i].lvl =< n
      BY <1>1, <1>2 DEF EarnedBy
    <2>2. Grouped(groups) /\ \A g \in groups : Tree(g.nodes) /\ EarnedBy(g.nodes, n)
      <3>1. IsFiniteSet({group})
        BY FS_Singleton
      <3> QED BY <1>3, <1>4, <3>1 DEF Grouped
    <2>3. \E g \in groups : g.after \in 0 .. Len(t) /\ Cardinality(Levels(g.nodes)) >= extra
      BY <1>2, <1>3, <1>4
    <2>4. Cardinality(Levels(t) \ gone) = n - 1
      <3>1. IsFiniteSet(Levels(t))
        BY <1>1, TreeLevels
      <3> QED BY <1>2, <3>1, FS_RemoveElement DEF LevelOf
    <2>6. TopGroup(groups, group, extra)
      BY <1>3, <1>4 DEF TopGroup
    <2> HIDE DEF n, t, gone, groups
    <2>5. /\ Tree(Graft(t, gone, groups)) /\ EarnedBy(Graft(t, gone, groups), n)
          /\ LevelOf(Graft(t, gone, groups)) \in Nat
          /\ LevelOf(Graft(t, gone, groups)) >= Cardinality(Levels(t) \ gone) + extra
          /\ LevelOf(Graft(t, gone, groups)) =< Cardinality(Levels(t) \ gone) + extra
      <3> HIDE DEF extra
      <3> QED BY <1>1, <2>1, <2>2, <2>3, <2>6, GraftFacts
    <2> QED BY <1>1, <2>4, <2>5 DEF gone, groups
  <1>6. SoundDoc([d EXCEPT !.tree = u, !.sum = sum])
    <2>1. n =< MAX_LEVEL /\ n =< n
      BY <1>1, LevelingAssumption
    <2> HIDE DEF u, sum, n
    <2> QED BY <1>1, <1>5, <2>1, SoundWritten
  <1>7. IsRecord(rec)
    <2>1. Blanks(nodes)
      BY TopBlanks DEF Ctx
    <2> DEFINE none == << >>
    <2>2. IsRun(none) /\ \A k \in DOMAIN none : IsRun(none[k].nodes)
      BY DEF IsRun
    <2> HIDE DEF nodes, ids, n, none
    <2>3. IsRecord(Record(n, m, 1, TRUE, TRUE, ids \cup {StartId[n]}, nodes, none))
      BY <2>1, <2>2, RecordMade
    <2> QED BY <2>3 DEF none
  <1>8. StartWritten(d, m, own) = [ok |-> brings, doc |-> [d EXCEPT !.tree = u, !.sum = sum], rec |-> rec]
    BY DEF StartWritten
  <1> HIDE DEF rec, u, sum
  <1> QED BY <1>6, <1>7, <1>8 DEF Gain

----------------------------------------------------------------------------
(* Taking a level back: what its record finds holds no other level.          *)

\* Answers do not move nodes.
LEMMA SameSpread ==
  ASSUME NEW t, Tree(t), NEW u, Tree(u), Len(u) = Len(t), \A i \in DOMAIN t : u[i].d = t[i].d
  PROVE  /\ \A i \in DOMAIN t : Sub(u, i) = Sub(t, i)
         /\ \A S \in SUBSET DOMAIN t : Spread(u, S) = Spread(t, S)
  <1>1. Len(t) \in Nat /\ DOMAIN t = 1 .. Len(t) /\ DOMAIN u = 1 .. Len(t)
    BY TreeFacts
  <1>2. ASSUME NEW i \in DOMAIN t PROVE End(u, i) = End(t, i)
    <2> DEFINE x == End(t, i)
               y == End(u, i)
               d == t[i].d
    <2>1. i \in 0 .. Len(t) /\ i # 0 /\ Depth(t, i) = d /\ Depth(u, i) = d /\ i \in Nat
      BY <1>1 DEF Depth
    <2>2. /\ x \in i .. Len(t) /\ (x < Len(t) => t[x + 1].d =< d)
          /\ \A k \in i + 1 .. x : t[k].d > d
      BY <2>1, EndFacts
    <2>3. /\ y \in i .. Len(t) /\ (y < Len(t) => u[y + 1].d =< d)
          /\ \A k \in i + 1 .. y : u[k].d > d
      BY <2>1, EndFacts
    <2>4. \A k \in 1 .. Len(t) : t[k].d \in Nat /\ u[k].d = t[k].d
      BY <1>1, TreeFacts, NodeFacts
    <2>5. d \in Nat
      BY <1>1, <2>4
    <2> HIDE DEF x, y, d
    <2>6. ~(x < y)
      <3>1. SUFFICES ASSUME x < y PROVE FALSE
        OBVIOUS
      <3>2. x + 1 \in i + 1 .. y /\ x + 1 \in 1 .. Len(t) /\ x < Len(t)
        BY <1>1, <2>1, <2>2, <2>3, <3>1
      <3> QED BY <2>2, <2>3, <2>4, <2>5, <3>2
    <2>7. ~(y < x)
      <3>1. SUFFICES ASSUME y < x PROVE FALSE
        OBVIOUS
      <3>2. y + 1 \in i + 1 .. x /\ y + 1 \in 1 .. Len(t) /\ y < Len(t)
        BY <1>1, <2>1, <2>2, <2>3, <3>1
      <3> QED BY <2>2, <2>3, <2>4, <2>5, <3>2
    <2>8. x = y
      BY <1>1, <2>1, <2>2, <2>3, <2>6, <2>7
    <2> QED BY <2>8 DEF x, y
  <1>3. \A i \in DOMAIN t : Sub(u, i) = Sub(t, i)
    BY <1>2 DEF Sub
  <1>4. ASSUME NEW S \in SUBSET DOMAIN t PROVE Spread(u, S) = Spread(t, S)
    <2>1. {Sub(u, i) : i \in S} = {Sub(t, i) : i \in S}
      BY <1>3
    <2> QED BY <2>1 DEF Spread
  <1> QED BY <1>3, <1>4

\* The positions that hold no level, and 0 for what was not found.
Content(t) == {0} \cup {i \in DOMAIN t : t[i].kind # "level"}

LocateStep(p, a, i) == LocateAt(p.t, p.class, a, i)
LocateClaim(p, a) == a.found \subseteq Content(p.t) /\ Expected(a.left)
LO == INSTANCE Iteration WITH Step <- LocateStep, P <- LocateClaim

\* What the record of a level finds is content.
LEMMA LocateFacts ==
  ASSUME NEW t, NEW kids, IsRun(kids), \A k \in DOMAIN kids : kids[k] \in DOMAIN t,
         NEW expected, Expected(expected), NEW class
  PROVE  Locate(t, kids, expected, class) \subseteq Content(t)
  <1> DEFINE p == [t |-> t, class |-> class]
             order == Reverse(kids)
             base == [found |-> {}, left |-> expected]
             end == LO!Fold(p, base, order)
  <1>1. Len(kids) \in Nat /\ DOMAIN order = 1 .. Len(kids) /\ \A k \in DOMAIN order : order[k] \in DOMAIN t
    <2>1. \A k \in 1 .. Len(kids) : Len(kids) - k + 1 \in DOMAIN kids
      BY DEF IsRun
    <2>2. DOMAIN order = 1 .. Len(kids) /\ \A k \in 1 .. Len(kids) : order[k] = kids[Len(kids) - k + 1]
      BY DEF Reverse
    <2> QED BY <2>1, <2>2 DEF IsRun
  <1> HIDE DEF order
  <1>2. LocateClaim(p, base)
    BY DEF LocateClaim
  <1>3. ASSUME NEW a, NEW k, k \in DOMAIN order, LocateClaim(p, a)
        PROVE  LocateClaim(p, LocateStep(p, a, order[k]))
    <2> DEFINE i == order[k]
               found == [found |-> a.found \cup {i}, left |-> Front(a.left)]
               lost == [found |-> a.found \cup {0}, left |-> << >>]
    <2>1. i \in DOMAIN t
      BY <1>1, <1>3
    <2>2. a.found \subseteq Content(t) /\ Expected(a.left)
      BY <1>3 DEF LocateClaim
    <2>3. PICK N : a.left \in Seq(N) /\ \A n \in N : n.kind # "level"
      BY <2>2 DEF Expected
    <2> HIDE DEF i
    <2>4. LocateClaim(p, lost)
      <3>1. Expected(<< >>)
        BY BlanksEmpty, ExpectedBlanks
      <3> QED BY <2>2, <3>1 DEF LocateClaim, Content
    <2>5. ASSUME a.left # << >>, SameNode(Last(a.left), t[i]) PROVE LocateClaim(p, found)
      <3>1. Len(a.left) \in Nat /\ Len(a.left) >= 1
        BY <2>3, <2>5
      <3>2. Last(a.left) \in N
        BY <2>3, <3>1 DEF Last
      <3>3. t[i].kind # "level"
        BY <2>3, <2>5, <3>2 DEF SameNode
      <3>4. Front(a.left) \in Seq(N)
        BY <2>3, <3>1 DEF Front
      <3>5. Expected(Front(a.left))
        BY <2>3, <3>4 DEF Expected
      <3> QED BY <2>1, <2>2, <3>3, <3>5 DEF LocateClaim, Content
    <2>6. LocateStep(p, a, i)
            = IF a.left = << >> THEN a
              ELSE IF SameNode(Last(a.left), t[i]) THEN found
              ELSE IF Reconciled(class, t[i]) THEN a
              ELSE lost
      BY DEF LocateStep, LocateAt
    <2> HIDE DEF found, lost, p
    <2> QED BY <1>3, <2>4, <2>5, <2>6 DEF i
  <1> HIDE DEF base
  <1>4. LocateClaim(p, end)
    <2> HIDE DEF p
    <2> QED BY <1>1, <1>2, <1>3, LO!FoldKeeps
  <1>5. Locate(t, kids, expected, class) = IF end.left = << >> THEN end.found ELSE end.found \cup {0}
    BY DEF Locate, FoldLeft, MapThenFoldSet, Max, LO!Max, LO!Fold, LO!Folded, LocateStep, order, base
  <1> HIDE DEF end
  <1> QED BY <1>4, <1>5 DEF LocateClaim, Content

\* So is a run of children.
LEMMA RunFacts ==
  ASSUME NEW t, Tree(t), NEW i \in DOMAIN t, NEW g, IsRun(g.nodes), Runs(t, i, g) # {}
  PROVE  RunIn(t, i, g).nodes \subseteq Content(t)
  <1> DEFINE runs == Runs(t, i, g)
             from == IF g.index \in runs THEN g.index ELSE Min(runs)
             kids == InOrder(Kids(t, i))
  <1>1. i \in 0 .. Len(t) /\ i # 0 /\ Len(t) \in Nat /\ DOMAIN t = 1 .. Len(t)
    BY TreeFacts
  <1>2. Kids(t, i) \subseteq DOMAIN t /\ IsFiniteSet(Kids(t, i)) /\ \A k \in Kids(t, i) : t[k].kind # "level"
    BY <1>1, KidsFacts
  <1>3. Len(kids) \in Nat /\ DOMAIN kids = 1 .. Len(kids) /\ \A k \in DOMAIN kids : kids[k] \in Kids(t, i)
    <2>1. Kids(t, i) \in SUBSET (0 .. Len(t))
      BY <1>1, <1>2
    <2> QED BY <1>1, <2>1, InOrderFacts
  <1>4. runs \in SUBSET Nat /\ \A x \in runs : x >= 1 /\ RunAt(t, i, g.nodes, x)
    <2>1. Cardinality(Kids(t, i)) \in Nat
      BY <1>2, FS_CardinalityType
    <2> QED BY <2>1 DEF Runs
  <1>5. from \in runs
    <2> HIDE DEF runs
    <2>1. Min(runs) \in runs
      BY <1>4, LeastIn DEF runs
    <2> QED BY <2>1
  <1> HIDE DEF from, runs
  <1>6. from \in Nat /\ from >= 1 /\ from + Len(g.nodes) - 1 =< Len(kids)
    BY <1>4, <1>5 DEF RunAt
  <1>7. RunIn(t, i, g).nodes = {kids[from + k - 1] : k \in DOMAIN g.nodes}
    BY DEF RunIn, RunFrom, from, runs
  <1> HIDE DEF kids
  <1>8. ASSUME NEW k \in DOMAIN g.nodes PROVE kids[from + k - 1] \in Content(t)
    <2>1. from + k - 1 \in DOMAIN kids
      BY <1>3, <1>6 DEF IsRun
    <2> QED BY <1>2, <1>3, <2>1 DEF Content
  <1> QED BY <1>7, <1>8

\* And a nested group, wherever it is found.
LEMMA ResolveFacts ==
  ASSUME NEW t, Tree(t), NEW g, IsRun(g.nodes)
  PROVE  Resolve(t, g).nodes \subseteq Content(t)
  <1> DEFINE parents == {i \in DOMAIN t : Runs(t, i, g) # {}}
             recorded == NodeAt(t, g.path)
  <1>1. CASE parents = {}
    <2>1. Resolve(t, g) = [at |-> 0, nodes |-> {0}]
      BY <1>1 DEF Resolve, RunAmong
    <2> QED BY <2>1 DEF Content
  <1>2. CASE parents # {}
    <2>1. Min(parents) \in parents
      <3>1. parents \in SUBSET Nat
        BY TreeFacts
      <3> HIDE DEF parents
      <3> QED BY <1>2, <3>1, LeastIn
    <2> DEFINE at == IF recorded \in parents THEN recorded ELSE Min(parents)
    <2>2. at \in parents
      BY <2>1
    <2>3. Resolve(t, g) = RunIn(t, at, g)
      BY <1>2 DEF Resolve, RunAmong
    <2>4. at \in DOMAIN t /\ Runs(t, at, g) # {}
      BY <2>2
    <2> HIDE DEF at
    <2> QED BY <2>3, <2>4, RunFacts
  <1> QED BY <1>1, <1>2

RunStep(p, a, g) == WithRun(p, a, Resolve(p, g))
RunClaim(p, a) == a \subseteq Content(p) \cup {LastLevel(p)}
NR == INSTANCE Iteration WITH Step <- RunStep, P <- RunClaim

\* All the groups of a record.
LEMMA NestedNodesFacts ==
  ASSUME NEW t, Tree(t), NEW gone, gone \subseteq Content(t) \cup {LastLevel(t)},
         NEW nested, IsRun(nested), \A k \in DOMAIN nested : IsRun(nested[k].nodes)
  PROVE  NestedNodes(t, gone, nested) \subseteq Content(t) \cup {LastLevel(t)}
  <1>1. RunClaim(t, gone)
    BY DEF RunClaim
  <1>2. ASSUME NEW a, NEW k, k \in DOMAIN nested, RunClaim(t, a)
        PROVE  RunClaim(t, RunStep(t, a, nested[k]))
    <2>1. Resolve(t, nested[k]).nodes \subseteq Content(t)
      BY <1>2, ResolveFacts
    <2> QED BY <1>2, <2>1 DEF RunClaim, RunStep, WithRun
  <1>3. RunClaim(t, NR!Fold(t, gone, nested))
    BY <1>1, <1>2, NR!FoldKeeps DEF IsRun
  <1>4. NestedNodes(t, gone, nested) = NR!Fold(t, gone, nested)
    BY DEF NestedNodes, FoldLeft, MapThenFoldSet, Max, NR!Max, NR!Fold, NR!Folded, RunStep
  <1> QED BY <1>3, <1>4 DEF RunClaim

\* The level's own content, or its node where the level is a choice.
LEMMA OwnNodesFacts ==
  ASSUME NEW t, Tree(t), NEW rec, IsRecord(rec)
  PROVE  OwnNodes(t, rec) \subseteq Content(t) \cup {LastLevel(t)}
  <1> DEFINE i == Container(t, rec.class)
             kids == InOrder(Kids(t, i))
  <1>1. Len(t) \in Nat /\ DOMAIN t = 1 .. Len(t)
    BY TreeFacts
  <1>2. i \in 0 .. Len(t)
    <2> DEFINE S == {j \in DOMAIN t : IsContainer(t[j]) /\ t[j].reg = rec.class}
    <2>1. S # {} => Min(S) \in S
      <3>1. S \in SUBSET Nat
        BY <1>1
      <3> HIDE DEF S
      <3> QED BY <3>1, LeastIn
    <2>2. i = IF S = {} THEN 0 ELSE Min(S)
      BY DEF Container
    <2>3. S \subseteq 1 .. Len(t)
      BY <1>1
    <2> HIDE DEF S, i
    <2> QED BY <1>1, <2>1, <2>2, <2>3
  <1>3. Kids(t, i) \subseteq DOMAIN t
    BY <1>2, KidsFacts
  <1>4. IsRun(kids) /\ \A k \in DOMAIN kids : kids[k] \in DOMAIN t
    <2>1. Kids(t, i) \in SUBSET (0 .. Len(t))
      BY <1>1, <1>3
    <2> QED BY <1>1, <1>3, <2>1, InOrderFacts DEF IsRun
  <1> HIDE DEF kids
  <1>5. Locate(t, kids, rec.nodes, rec.class) \subseteq Content(t)
    BY <1>4, LocateFacts DEF IsRecord
  <1> QED BY <1>5 DEF OwnNodes, kids

\* Pending grants are new content.
LEMMA OutstandingFacts ==
  ASSUME LibrarySorted, NEW d, Tree(d.tree), NEW recs, NEW found
  PROVE  Growths(Outstanding(d, recs, found), DOMAIN d.tree)
  <1> DEFINE all == PendingGrants(d.tree, DOMAIN d.tree, Now(d))
             some == {g \in all : g.at \notin Spread(d.tree, found)}
  <1>1. Growths(all, DOMAIN d.tree)
    <2>1. Ctx(Now(d)) /\ DOMAIN d.tree \in SUBSET DOMAIN d.tree
      BY ContextFacts DEF Now
    <2> QED BY <2>1, PendingFacts
  <1> HIDE DEF all
  <1>2. Growths(some, DOMAIN d.tree)
    <2>1. IsFiniteSet(some)
      BY <1>1, FS_Subset DEF Growths
    <2> QED BY <1>1, <2>1 DEF Growths
  <1>3. Growths({}, DOMAIN d.tree)
    BY FS_EmptySet DEF Growths
  <1>4. Outstanding(d, recs, found) \in {some, {}}
    BY DEF Outstanding, all
  <1> HIDE DEF some
  <1> QED BY <1>2, <1>3, <1>4

\* The answers given at a level that goes are taken out first.
Emptied(t, opened) == [i \in DOMAIN t |-> IF i \in opened THEN [t[i] EXCEPT !.reg = None] ELSE t[i]]

\* A tree with the answers above a level emptied.
LEMMA EmptiedFacts ==
  ASSUME LibrarySorted, NEW t, Tree(t), NEW opened \in SUBSET {i \in DOMAIN t : Filled(t[i])},
         NEW u, u = Emptied(t, opened)
  PROVE  /\ Tree(u) /\ Len(u) = Len(t) /\ DOMAIN u = DOMAIN t /\ Levels(u) = Levels(t)
         /\ \A i \in DOMAIN t : u[i].d = t[i].d /\ u[i].kind = t[i].kind
         /\ \A i \in opened : ~Filled(u[i])
         /\ \A i \in DOMAIN t \ opened : u[i] = t[i]
  <1> DEFINE N == {u[i] : i \in DOMAIN t}
  <1>1. Len(t) \in Nat /\ DOMAIN t = 1 .. Len(t) /\ \A i \in DOMAIN t : IsNode(t[i])
    BY TreeFacts
  <1>2. DOMAIN u = DOMAIN t /\ \A i \in DOMAIN t : u[i] = IF i \in opened THEN [t[i] EXCEPT !.reg = None] ELSE t[i]
    BY DEF Emptied
  <1>3. ASSUME NEW i \in DOMAIN t
        PROVE  /\ IsNode(u[i]) /\ u[i].d = t[i].d /\ u[i].kind = t[i].kind
               /\ i \in opened => ~Filled(u[i])
    <2>1. CASE i \in opened
      <3>1. t[i].kind = "wrapper" /\ None \in Elem \cup {None} /\ IsNode(t[i])
        BY <1>1, <2>1 DEF Filled
      <3>2. u[i] = [t[i] EXCEPT !.reg = None]
        BY <1>2, <2>1
      <3>3. IsNode(u[i]) /\ u[i].kind = "wrapper" /\ u[i].reg = None /\ u[i].d = t[i].d
        BY <3>1, <3>2, NodeAnswered
      <3> QED BY <3>1, <3>3 DEF Filled
    <2>2. CASE i \notin opened
      BY <1>1, <1>2, <2>2
    <2> QED BY <2>1, <2>2
  <1>4. u = [i \in 1 .. Len(t) |-> u[i]]
    BY <1>1 DEF Emptied
  <1>5. u \in Seq(N) /\ Len(u) = Len(t)
    <2>1. \A i \in 1 .. Len(t) : u[i] \in N
      BY <1>1
    <2> HIDE DEF N
    <2>2. u \in Seq(N)
      BY <1>1, <1>4, <2>1, SeqFrom
    <2> QED BY <1>1, <1>2, <2>2
  <1>6. Tree(u)
    <2>1. \A n \in N : IsNode(n)
      BY <1>3
    <2> HIDE DEF N
    <2> QED BY <1>5, <2>1 DEF Tree
  <1>7. Levels(u) = Levels(t)
    BY <1>1, <1>3, <1>5 DEF Levels
  <1> QED BY <1>2, <1>3, <1>5, <1>6, <1>7

\* The newest level is one.
LEMMA LastLevelFacts ==
  ASSUME NEW t, Tree(t), LevelOf(t) > 1
  PROVE  LastLevel(t) \in Levels(t) /\ LastLevel(t) \in DOMAIN t
  <1>1. Len(t) \in Nat /\ DOMAIN t = 1 .. Len(t) /\ IsFiniteSet(Levels(t)) /\ Levels(t) \subseteq DOMAIN t
    BY TreeFacts, TreeLevels
  <1>2. Levels(t) # {}
    BY <1>1, FS_EmptySet DEF LevelOf
  <1>3. Levels(t) \in SUBSET (0 .. Len(t))
    BY <1>1
  <1>4. Max(Levels(t)) \in Levels(t)
    BY <1>1, <1>2, <1>3, GreatestIn
  <1> QED BY <1>1, <1>4 DEF LastLevel

\* One level goes, and with it every answer above what is left.
LEMMA RemovedKeeps ==
  ASSUME LibrarySorted, NEW d, SoundDoc(d), LevelOf(d.tree) > 1, NEW rec, IsRecord(rec),
         NEW found \in SUBSET DOMAIN d.tree,
         found \subseteq Content(d.tree) \cup {LastLevel(d.tree)},
         NEW added, Growths(added, DOMAIN d.tree)
  PROVE  LET r == Removed(d, rec, found, added) IN Gain(r) /\ SoundDoc(r.before)
  <1> DEFINE t == d.tree
             n == LevelOf(t) - 1
             last == LastLevel(t)
             gone == found \cup {last}
             groups == {AtEnd(t, g.at, g.nodes) : g \in added}
             above == WrappersAbove(t, n)
             opened == above \ Spread(t, found)
             ids == rec.ids \cup Shown(t, gone) \cup Shown(t, above)
             u == [i \in DOMAIN t |-> IF i \in opened THEN [t[i] EXCEPT !.reg = None] ELSE t[i]]
             cut == gone \cup (Spread(t, opened) \ opened)
             v == Graft(u, cut, groups)
             sum == AddAll(Drop(d.sum, ids), added)
             b == Graft(t, {}, groups)
             more == AddAll(d.sum, added)
  <1>1. Tree(t) /\ EarnedBy(t, LevelOf(t)) /\ LevelOf(t) \in Nat /\ LevelOf(t) > 1 /\ n \in Nat
    BY SoundFacts
  <1>2. last \in Levels(t) /\ last \in DOMAIN t
    <2> HIDE DEF t
    <2> QED BY <1>1, LastLevelFacts DEF t
  <1>3. Grouped(groups) /\ \A g \in groups : Blanks(g.nodes)
    BY <1>1, GroupedAtEnd
  <1>4. opened \in SUBSET {i \in DOMAIN t : Filled(t[i])}
    BY DEF WrappersAbove
  <1>5. /\ Tree(u) /\ Len(u) = Len(t) /\ DOMAIN u = DOMAIN t /\ Levels(u) = Levels(t)
        /\ \A i \in DOMAIN t : u[i].d = t[i].d /\ u[i].kind = t[i].kind
        /\ \A i \in opened : ~Filled(u[i])
        /\ \A i \in DOMAIN t \ opened : u[i] = t[i]
    <2>1. u = Emptied(t, opened)
      BY DEF Emptied
    <2> HIDE DEF u, opened, t
    <2> QED BY <1>1, <1>4, <2>1, EmptiedFacts
  <1>6. \A i \in DOMAIN t \ Spread(t, found) : Filled(u[i]) => u[i].lvl =< n
    <2>1. ASSUME NEW i \in DOMAIN t \ Spread(t, found), Filled(u[i]) PROVE u[i].lvl =< n
      <3>1. i \notin opened /\ u[i] = t[i]
        BY <1>5, <2>1
      <3>2. i \notin above
        BY <2>1, <3>1
      <3>3. ~(t[i].lvl > n)
        BY <2>1, <3>1, <3>2 DEF WrappersAbove
      <3>4. t[i].lvl \in Nat
        BY <1>1, TreeFacts DEF IsNode
      <3> HIDE DEF u, n, t
      <3> QED BY <1>1, <3>1, <3>3, <3>4
    <2> QED BY <2>1
  <1>7. cut \in SUBSET DOMAIN t /\ \A j \in cut : t[j].kind = "level" => j = last
    <2>1. Spread(t, opened) \subseteq DOMAIN t /\ \A k \in Spread(t, opened) \ opened : t[k].kind # "level"
      <3>1. opened \in SUBSET DOMAIN t
        BY <1>4
      <3> HIDE DEF opened, t
      <3> QED BY <1>1, <3>1, SpreadFacts
    <2>2. \A j \in found : t[j].kind = "level" => j = last
      <3>1. 0 \notin DOMAIN t
        BY <1>1, TreeFacts
      <3> QED BY <3>1 DEF Content
    <2> HIDE DEF opened, last
    <2> QED BY <1>2, <2>1, <2>2
  <1>8. Spread(u, cut) = Spread(t, cut) /\ Spread(t, found) \subseteq Spread(t, cut)
    <2>1. Spread(u, cut) = Spread(t, cut)
      <3> HIDE DEF u, t, cut
      <3> QED BY <1>1, <1>5, <1>7, SameSpread
    <2> QED BY <2>1 DEF Spread
  <1>9. Cardinality(Levels(u) \ cut) = n
    <2>1. IsFiniteSet(Levels(t)) /\ Cardinality(Levels(t)) = LevelOf(t) /\ Levels(t) \subseteq DOMAIN t
      BY <1>1, TreeLevels DEF LevelOf
    <2>2. Cardinality(Levels(t) \ {last}) = n
      <3> HIDE DEF last
      <3> QED BY <1>2, <2>1, FS_RemoveElement
    <2>3. Levels(t) \ {last} = Levels(t) \ cut
      BY <1>7, <2>1 DEF Levels
    <2> HIDE DEF u, cut, t, last
    <2> QED BY <1>5, <2>2, <2>3
  <1>10. Tree(v) /\ EarnedBy(v, n) /\ LevelOf(v) = n
    <2>1. cut \in SUBSET DOMAIN u /\ 0 \in Nat
      BY <1>5, <1>7
    <2>2. \A i \in DOMAIN u \ Spread(u, cut) : Filled(u[i]) => u[i].lvl =< n
      BY <1>5, <1>6, <1>8
    <2>3. \A g \in groups : Tree(g.nodes) /\ EarnedBy(g.nodes, n)
      BY <1>3, BlanksTree
    <2>6. TopGroup(groups, None, 0)
      BY <1>3, BlanksLevels DEF TopGroup
    <2> HIDE DEF u, cut, groups, n
    <2>4. /\ Tree(v) /\ EarnedBy(v, n) /\ LevelOf(v) \in Nat
          /\ LevelOf(v) >= Cardinality(Levels(u) \ cut) + 0 /\ LevelOf(v) =< Cardinality(Levels(u) \ cut) + 0
      BY <1>1, <1>3, <1>5, <2>1, <2>2, <2>3, <2>6, GraftFacts
    <2> HIDE DEF v
    <2> QED BY <1>1, <1>9, <2>4
  <1>11. SoundDoc([d EXCEPT !.tree = v, !.sum = sum])
    <2>1. n =< n /\ n =< MAX_LEVEL
      BY <1>1, SoundFacts, LevelingAssumption
    <2> HIDE DEF v, sum, n
    <2> QED BY <1>1, <1>10, <2>1, SoundWritten
  <1>12. SoundTree(b)
    <2> DEFINE none == {}
               m == LevelOf(t)
    <2>1. /\ none \in SUBSET DOMAIN t /\ (\A i \in none : t[i].kind # "level") /\ m \in Nat /\ LevelOf(t) = m
          /\ EarnedBy(t, m) /\ m =< MAX_LEVEL
      BY <1>1, SoundFacts
    <2> HIDE DEF none, m, t, groups
    <2>2. SoundTree(Graft(t, none, groups))
      BY <1>1, <1>3, <2>1, GraftKeeps
    <2> QED BY <2>2 DEF none
  <1>13. SoundDoc([d EXCEPT !.tree = b, !.sum = more])
    <2> HIDE DEF b, more
    <2> QED BY <1>12, SoundFacts, DocWith
  <1>14. Removed(d, rec, found, added)
           = [ok |-> TRUE, rec |-> rec, doc |-> [d EXCEPT !.tree = v, !.sum = sum],
              before |-> [d EXCEPT !.tree = b, !.sum = more]]
    BY DEF Removed
  <1> HIDE DEF v, sum, b, more
  <1> QED BY <1>11, <1>13, <1>14 DEF Gain

\* The removal of the newest level, and the document undo puts back.
LEMMA DelevelKeeps ==
  ASSUME LibrarySorted, NEW d, SoundDoc(d), LevelOf(d.tree) > 1, NEW recs, Records(recs), recs # << >>
  PROVE  Gain(Delevel(d, recs)) /\ SoundDoc(Delevel(d, recs).before)
  <1> DEFINE rec == Last(recs)
             t == d.tree
             found == NestedNodes(t, OwnNodes(t, rec), rec.nested)
             failed == [ok |-> FALSE, doc |-> d, rec |-> rec, before |-> d]
             groups == Outstanding(d, recs, found)
  <1>1. IsRecord(rec)
    <2>1. PICK R : recs \in Seq(R) /\ \A r \in R : IsRecord(r)
      BY DEF Records
    <2>2. Len(recs) \in 1 .. Len(recs)
      BY <2>1
    <2>3. rec \in R
      BY <2>1, <2>2 DEF Last
    <2> QED BY <2>1, <2>3
  <1>2. Tree(t)
    BY SoundFacts
  <1>3. found \subseteq Content(t) \cup {LastLevel(t)}
    <2>1. OwnNodes(t, rec) \subseteq Content(t) \cup {LastLevel(t)}
      BY <1>1, <1>2, OwnNodesFacts
    <2>2. IsRun(rec.nested) /\ \A k \in DOMAIN rec.nested : IsRun(rec.nested[k].nodes)
      BY <1>1 DEF IsRecord
    <2> HIDE DEF t, rec
    <2> QED BY <1>2, <2>1, <2>2, NestedNodesFacts
  <1>4. Delevel(d, recs) = DelevelWithout(d, recs, found)
    BY DEF Delevel
  <1> DEFINE fails == 0 \in found \/ Overlapping(t, found)
  <1> HIDE DEF found, rec
  <1>5. CASE fails
    <2>1. Delevel(d, recs) = failed
      BY <1>4, <1>5 DEF DelevelWithout, rec
    <2> QED BY <1>1, <2>1 DEF Gain
  <1>6. CASE ~fails
    <2>1. Delevel(d, recs) = Removed(d, rec, found, groups)
      BY <1>4, <1>6 DEF DelevelWithout, rec
    <2>2. Growths(groups, DOMAIN t)
      BY <1>2, OutstandingFacts
    <2>3. found \in SUBSET DOMAIN t
      BY <1>2, <1>3, <1>6, LastLevelFacts DEF Content
    <2> HIDE DEF groups
    <2> QED BY <1>1, <1>3, <2>1, <2>2, <2>3, RemovedKeeps
  <1> QED BY <1>5, <1>6

----------------------------------------------------------------------------
(* The operations on levels, each under the condition it is tried on.        *)

\* A class's wrapper is a node of the tree.
LEMMA ContainerFacts ==
  ASSUME NEW t, Tree(t), NEW class
  PROVE  Container(t, class) \in 0 .. Len(t) /\ (Container(t, class) # 0 => Container(t, class) \in DOMAIN t)
  <1> DEFINE S == {i \in DOMAIN t : IsContainer(t[i]) /\ t[i].reg = class}
  <1>1. Len(t) \in Nat /\ DOMAIN t = 1 .. Len(t)
    BY TreeFacts
  <1>2. S \in SUBSET Nat /\ S \subseteq DOMAIN t
    BY <1>1
  <1>3. Container(t, class) = IF S = {} THEN 0 ELSE Min(S)
    BY DEF Container
  <1> HIDE DEF S
  <1>4. S # {} => Min(S) \in S
    BY <1>2, LeastIn
  <1>5. CASE S = {}
    BY <1>1, <1>3, <1>5
  <1>6. CASE S # {}
    <2>1. Container(t, class) \in DOMAIN t
      BY <1>2, <1>3, <1>4, <1>6
    <2> QED BY <1>1, <2>1
  <1> QED BY <1>5, <1>6

\* A level of a class.
LEMMA GainLevelKeeps ==
  ASSUME LibrarySorted, NEW d, SoundDoc(d), NEW class, CanGain(d, class)
  PROVE  Gain(GainLevel(d, class))
  <1> DEFINE t == d.tree
             at == Container(t, class)
             own == LevelContent(d, class)
             nested == NestedRules(d, own.new, at, class, ClassLevel(t, class) + 1, LevelOf(t) + 1)
  <1>1. Tree(t)
    BY SoundFacts
  <1>2. at \in 0 .. Len(t) /\ at \in DOMAIN t /\ LevelOf(t) < MAX_LEVEL
    BY <1>1, ContainerFacts DEF CanGain
  <1>3. t[at].d + 1 \in Nat \ {0}
    BY <1>1, <1>2, TreeFacts, NodeFacts
  <1>4. Ctx(own)
    <2> DEFINE of == IF IsVariant(class) THEN ClassOf(class) ELSE class
               level == ClassLevel(t, class) + 1
               variant == IF IsVariant(class) THEN class ELSE None
               depth == t[at].d + 1
    <2>1. own = ApplyClassLevel(d, of, level, variant, depth)
      BY DEF LevelContent
    <2>2. depth \in Nat \ {0}
      BY <1>3
    <2> HIDE DEF of, level, variant, depth, own
    <2> QED BY <2>1, <2>2, ClassLevelKeeps
  <1> HIDE DEF own
  <1>5. NestedGroups(nested)
    <2> DEFINE fresh == own.new
               level == ClassLevel(t, class) + 1
               total == LevelOf(t) + 1
    <2> HIDE DEF fresh, level, total, at
    <2>1. NestedGroups(NestedRules(d, fresh, at, class, level, total))
      BY <1>1, <1>2, NestedFacts
    <2> QED BY <2>1 DEF fresh, level, total
  <1>6. GainLevel(d, class) = LevelWritten(d, class, own, nested)
    BY DEF GainLevel, LevelWith, own
  <1> HIDE DEF nested
  <1> QED BY <1>2, <1>4, <1>5, <1>6, LevelWrittenKeeps

\* An open choice.
LEMMA OpenKeeps ==
  ASSUME LibrarySorted, NEW d, SoundDoc(d), CanOpenMulticlass(d)
  PROVE  Gain(OpenMulticlass(d))
  <1> DEFINE none == {}
             nested == NestedRules(d, none, 0, None, 0, LevelOf(d.tree) + 1)
  <1>1. Tree(d.tree) /\ Len(d.tree) \in Nat
    BY SoundFacts, TreeFacts
  <1>2. 0 \in 0 .. Len(d.tree)
    BY <1>1
  <1>3. NestedGroups(nested)
    <2> DEFINE total == LevelOf(d.tree) + 1
               zero == 0
    <2> HIDE DEF none, total
    <2> QED BY <1>1, <1>2, NestedFacts DEF total
  <1>4. OpenMulticlass(d) = OpenWritten(d, nested)
    BY DEF OpenMulticlass
  <1>5. LevelOf(d.tree) < MAX_LEVEL
    BY DEF CanOpenMulticlass
  <1> HIDE DEF nested
  <1> QED BY <1>3, <1>4, <1>5, OpenWrittenKeeps

\* An open choice answered.
LEMMA StartKeeps ==
  ASSUME LibrarySorted, NEW d, SoundDoc(d), NEW m, CanStartMulticlass(d, m)
  PROVE  StartMulticlass(d, m).ok => Gain(StartMulticlass(d, m))
  <1> DEFINE of == ClassOf(m)
             own == ApplyClassLevel(d, of, 1, m, 3)
  <1>1. m \in Elem /\ LevelOf(d.tree) > 1
    BY DEF CanStartMulticlass, IsVariant, LibrarySorted
  <1>2. Ctx(own)
    <2> DEFINE depth == 3
               level == 1
    <2>1. depth \in Nat \ {0}
      OBVIOUS
    <2> HIDE DEF depth, level, of
    <2>2. Ctx(ApplyClassLevel(d, of, level, m, depth))
      BY <2>1, ClassLevelKeeps
    <2> QED BY <2>2 DEF depth, level
  <1>3. StartMulticlass(d, m) = StartWritten(d, m, own)
    BY DEF StartMulticlass
  <1> HIDE DEF own
  <1> QED BY <1>1, <1>2, <1>3, StartWrittenKeeps

----------------------------------------------------------------------------
(* The steps the service takes from a document and its records to the next.  *)

Kept(s) == s = [ok |-> s.ok, doc |-> s.doc, recs |-> s.recs] /\ SoundDoc(s.doc) /\ Records(s.recs)

\* One record more, and one fewer.
LEMMA RecordsFacts ==
  ASSUME NEW recs, Records(recs)
  PROVE  /\ \A r : IsRecord(r) => Records(Append(recs, r))
         /\ Records(Front(recs)) /\ (recs # << >> => IsRecord(Last(recs)))
  <1>1. PICK R : recs \in Seq(R) /\ \A r \in R : IsRecord(r)
    BY DEF Records
  <1>2. ASSUME NEW r, IsRecord(r) PROVE Records(Append(recs, r))
    <2>1. recs \in Seq(R \cup {r})
      BY <1>1
    <2>2. Append(recs, r) \in Seq(R \cup {r}) /\ \A x \in R \cup {r} : IsRecord(x)
      BY <1>1, <1>2, <2>1
    <2> QED BY <2>2 DEF Records
  <1>3. Records(Front(recs))
    <2>1. Front(recs) = SubSeq(recs, 1, Len(recs) - 1)
      BY DEF Front
    <2>2. SubSeq(recs, 1, Len(recs) - 1) \in Seq(R)
      <3>1. \A i \in 1 .. Len(recs) - 1 : recs[i] \in R
        BY <1>1
      <3> QED BY <1>1, <3>1
    <2> QED BY <1>1, <2>1, <2>2 DEF Records
  <1>4. ASSUME recs # << >> PROVE IsRecord(Last(recs))
    <2>1. Len(recs) \in 1 .. Len(recs) /\ Last(recs) = recs[Len(recs)]
      BY <1>1, <1>4 DEF Last
    <2>2. recs[Len(recs)] \in R
      BY <1>1, <2>1
    <2> QED BY <1>1, <2>1, <2>2
  <1> QED BY <1>2, <1>3, <1>4

\* A document and records make a state.
LEMMA Stated ==
  ASSUME NEW d, SoundDoc(d), NEW recs, Records(recs)
  PROVE  Kept(At2(d, recs))
  BY DEF Kept, At2

\* A step that throws.
LEMMA FailedKeeps ==
  ASSUME NEW s, Kept(s)
  PROVE  Kept(Failed(s))
  <1> DEFINE no == FALSE
  <1>1. PICK x, y, z : s = [ok |-> x, doc |-> y, recs |-> z] /\ SoundDoc(y) /\ Records(z)
    BY DEF Kept
  <1>2. Failed(s) = [s EXCEPT !.ok = no]
    BY DEF Failed
  <1> HIDE DEF no
  <1>3. [s EXCEPT !.ok = no] = [ok |-> no, doc |-> y, recs |-> z]
    BY <1>1
  <1>4. Kept([ok |-> no, doc |-> y, recs |-> z])
    BY <1>1 DEF Kept
  <1> QED BY <1>2, <1>3, <1>4

\* A step that does not: the sweep settles what it wrote.
LEMMA GainedKeeps ==
  ASSUME LibrarySorted, NEW s, Kept(s), NEW r
  PROVE  /\ Gain(r) => Kept(Gained(s, r))
         /\ (r.ok => Gain(r)) => Kept(Answered(s, r)) /\ Kept(Lowered(s, r)) /\ Kept(Begun(s, r))
  <1>1. Gain(r) => SoundDoc(r.doc) /\ SoundDoc(Settle(r.doc)) /\ IsRecord(r.rec)
    BY SettleKeeps DEF Gain
  <1>2. Records(s.recs) /\ Records(Front(s.recs)) /\ Kept(Failed(s))
    BY RecordsFacts, FailedKeeps DEF Kept
  <1>3. Gain(r) => Kept(Gained(s, r))
    BY <1>1, <1>2, RecordsFacts, Stated DEF Gained
  <1>4. CASE ~r.ok
    BY <1>2, <1>3, <1>4 DEF Answered, Lowered, Begun
  <1>5. CASE r.ok /\ ~Gain(r)
    BY <1>3, <1>5
  <1>6. CASE r.ok /\ Gain(r)
    <2>1. Kept(Begun(s, r))
      BY <1>1, <1>2, <1>6, RecordsFacts, Stated DEF Begun
    <2>2. Kept(Answered(s, r))
      <3> DEFINE ids == r.rec.ids \cup Last(s.recs).ids
                 rec == [r.rec EXCEPT !.ids = ids]
      <3>1. IsRecord(rec)
        <4> HIDE DEF ids
        <4>1. PICK a, b, c, e, f, g, h, i :
                r.rec = [total |-> a, class |-> b, level |-> c, multi |-> e, start |-> f, ids |-> g, nodes |-> h, nested |-> i]
          BY <1>1, <1>6 DEF IsRecord
        <4>2. rec = [total |-> a, class |-> b, level |-> c, multi |-> e, start |-> f, ids |-> ids, nodes |-> h, nested |-> i]
          BY <4>1
        <4>3. Expected(h) /\ IsRun(i) /\ \A k \in DOMAIN i : IsRun(i[k].nodes)
          BY <1>1, <1>6, <4>1 DEF IsRecord
        <4> HIDE DEF rec
        <4> QED BY <4>2, <4>3 DEF IsRecord
      <3>2. Answered(s, r) = At2(Settle(r.doc), Append(Front(s.recs), rec))
        BY <1>6 DEF Answered
      <3> HIDE DEF rec
      <3> QED BY <1>1, <1>2, <1>6, <3>1, <3>2, RecordsFacts, Stated
    <2>3. Kept(Lowered(s, r))
      BY <1>1, <1>2, <1>6, Stated DEF Lowered
    <2> QED BY <1>3, <1>6, <2>1, <2>2, <2>3
  <1> QED BY <1>4, <1>5, <1>6

\* Gaining, opening, answering, losing, restarting: tested or thrown.
LEMMA StepsKeep ==
  ASSUME LibrarySorted, NEW s, Kept(s)
  PROVE  /\ \A class : Kept(GainedBy(s, class))
         /\ Kept(OpenedBy(s)) /\ Kept(LoweredBy(s))
         /\ \A m : Kept(AnsweredBy(s, m)) /\ Kept(Restart(s, m))
  <1>1. SoundDoc(s.doc) /\ Records(s.recs) /\ Kept(Failed(s))
    BY FailedKeeps DEF Kept
  <1>2. ASSUME NEW class PROVE Kept(GainedBy(s, class))
    <2>1. CASE CanGain(s.doc, class)
      <3>1. Gain(GainLevel(s.doc, class))
        BY <1>1, <2>1, GainLevelKeeps
      <3>2. Kept(Gained(s, GainLevel(s.doc, class)))
        BY <3>1, GainedKeeps
      <3> QED BY <2>1, <3>2 DEF GainedBy
    <2>2. CASE ~CanGain(s.doc, class)
      BY <1>1, <2>2 DEF GainedBy
    <2> QED BY <2>1, <2>2
  <1>3. Kept(OpenedBy(s))
    <2>1. CASE CanOpenMulticlass(s.doc)
      <3>1. Gain(OpenMulticlass(s.doc))
        BY <1>1, <2>1, OpenKeeps
      <3>2. Kept(Gained(s, OpenMulticlass(s.doc)))
        BY <3>1, GainedKeeps
      <3> QED BY <2>1, <3>2 DEF OpenedBy
    <2>2. CASE ~CanOpenMulticlass(s.doc)
      BY <1>1, <2>2 DEF OpenedBy
    <2> QED BY <2>1, <2>2
  <1>4. CanLevelDown(s.doc, s.recs) => Gain(Delevel(s.doc, s.recs))
    <2>1. CanLevelDown(s.doc, s.recs) => LevelOf(s.doc.tree) > 1 /\ s.recs # << >>
      BY DEF CanLevelDown
    <2> QED BY <1>1, <2>1, DelevelKeeps
  <1>5. Kept(LoweredBy(s))
    <2>1. CASE CanLevelDown(s.doc, s.recs)
      <3>1. Kept(Lowered(s, Delevel(s.doc, s.recs)))
        BY <1>4, <2>1, GainedKeeps
      <3> QED BY <2>1, <3>1 DEF LoweredBy
    <2>2. CASE ~CanLevelDown(s.doc, s.recs)
      BY <1>1, <2>2 DEF LoweredBy
    <2> QED BY <2>1, <2>2
  <1>6. ASSUME NEW m PROVE Kept(AnsweredBy(s, m))
    <2>1. CASE CanStartMulticlass(s.doc, m)
      <3>1. StartMulticlass(s.doc, m).ok => Gain(StartMulticlass(s.doc, m))
        BY <1>1, <2>1, StartKeeps
      <3>2. Kept(Answered(s, StartMulticlass(s.doc, m)))
        BY <3>1, GainedKeeps
      <3> QED BY <2>1, <3>2 DEF AnsweredBy
    <2>2. CASE ~CanStartMulticlass(s.doc, m)
      BY <1>1, <2>2 DEF AnsweredBy
    <2> QED BY <2>1, <2>2
  <1>7. ASSUME NEW m PROVE Kept(Restart(s, m))
    <2> DEFINE down == Delevel(s.doc, s.recs)
               open == OpenMulticlass(down.doc)
    <2>1. CASE CanLevelDown(s.doc, s.recs)
      <3>1. SoundDoc(down.doc)
        BY <1>4, <2>1 DEF Gain
      <3>2. Restart(s, m) = ReopenedOn(s, down, m)
        BY <2>1 DEF Restart
      <3> HIDE DEF down
      <3>3. CASE CanOpenMulticlass(down.doc) /\ CanStartMulticlass(open.doc, m)
        <4>1. SoundDoc(open.doc)
          BY <3>1, <3>3, OpenKeeps DEF Gain
        <4> HIDE DEF open
        <4>2. StartMulticlass(open.doc, m).ok => Gain(StartMulticlass(open.doc, m))
          BY <3>3, <4>1, StartKeeps
        <4>3. Kept(Begun(s, StartMulticlass(open.doc, m)))
          BY <4>2, GainedKeeps
        <4>4. Kept(StartedOn(s, open, m))
          BY <3>3, <4>3 DEF StartedOn
        <4>5. ReopenedOn(s, down, m) \in {StartedOn(s, open, m), Failed(s)}
          BY DEF ReopenedOn, open
        <4> QED BY <1>1, <3>2, <4>4, <4>5
      <3>4. CASE ~(CanOpenMulticlass(down.doc) /\ CanStartMulticlass(open.doc, m))
        BY <1>1, <3>2, <3>4 DEF ReopenedOn, StartedOn
      <3> QED BY <3>3, <3>4
    <2>2. CASE ~CanLevelDown(s.doc, s.recs)
      BY <1>1, <2>2 DEF Restart
    <2> QED BY <2>1, <2>2
  <1> QED BY <1>2, <1>3, <1>5, <1>6, <1>7

\* Levels taken back down to one, and the ones above it gained again.
UnwindStep(p, r, k) == IF r.ok /\ LevelOf(r.doc.tree) >= p THEN LoweredBy(r) ELSE r
ReplayStep(p, s, entry) == Replayed(s, entry)
KeptClaim(p, s) == Kept(s)
UW == INSTANCE Iteration WITH Step <- UnwindStep, P <- KeptClaim
RP == INSTANCE Iteration WITH Step <- ReplayStep, P <- KeptClaim

\* Levels taken back.
LEMMA UnwoundKeeps ==
  ASSUME LibrarySorted, NEW s, Kept(s), NEW total
  PROVE  Kept(Unwound(s, total))
  <1> DEFINE n == LevelOf(s.doc.tree)
  <1>1. n \in Nat
    BY SoundFacts DEF Kept
  <1>2. ASSUME NEW r, NEW k, KeptClaim(total, r) PROVE KeptClaim(total, UnwindStep(total, r, k))
    BY <1>2, StepsKeep DEF KeptClaim, UnwindStep
  <1>3. KeptClaim(total, s)
    BY DEF KeptClaim
  <1>4. Unwound(s, total) = UW!Run(total, s)[n]
    BY DEF Unwound, Repeat, UW!Run, UnwindStep
  <1> HIDE DEF n
  <1>5. KeptClaim(total, UW!Run(total, s)[n])
    BY <1>1, <1>2, <1>3, UW!RunKeeps
  <1> QED BY <1>4, <1>5 DEF KeptClaim

\* One level gained again.
LEMMA ReplayedKeeps ==
  ASSUME LibrarySorted, NEW s, Kept(s), NEW entry
  PROVE  Kept(Replayed(s, entry))
  <1>1. Kept(Reopened(OpenedBy(s), entry))
    <2> DEFINE open == OpenedBy(s)
    <2>1. Kept(open)
      BY StepsKeep
    <2> HIDE DEF open
    <2>2. Kept(AnsweredBy(open, entry.class))
      BY <2>1, StepsKeep
    <2>3. Kept(Reopened(open, entry))
      BY <2>1, <2>2 DEF Reopened
    <2> QED BY <2>3 DEF open
  <1>2. \A class : Kept(GainedBy(s, class))
    BY StepsKeep
  <1>3. Replayed(s, entry) \in {s, Reopened(OpenedBy(s), entry)} \/ \E class : Replayed(s, entry) = GainedBy(s, class)
    BY DEF Replayed
  <1> QED BY <1>1, <1>2, <1>3

\* All of them.
LEMMA ReplayKeeps ==
  ASSUME LibrarySorted, NEW s, Kept(s), NEW entries, IsRun(entries)
  PROVE  Kept(FoldLeft(Replayed, s, entries))
  <1>1. KeptClaim(0, s)
    BY DEF KeptClaim
  <1>2. ASSUME NEW a, NEW k, k \in DOMAIN entries, KeptClaim(0, a)
        PROVE  KeptClaim(0, ReplayStep(0, a, entries[k]))
    BY <1>2, ReplayedKeeps DEF KeptClaim, ReplayStep
  <1>3. KeptClaim(0, RP!Fold(0, s, entries))
    BY <1>1, <1>2, RP!FoldKeeps DEF IsRun
  <1>4. FoldLeft(Replayed, s, entries) = RP!Fold(0, s, entries)
    BY DEF FoldLeft, MapThenFoldSet, Max, RP!Max, RP!Fold, RP!Folded, ReplayStep
  <1> QED BY <1>3, <1>4 DEF KeptClaim

----------------------------------------------------------------------------
(* The choices made again after a replay.                                    *)

ListOfChoices(s) == \E C : s \in Seq(C)
Again(a) ==
  /\ a = [s |-> a.s, taken |-> a.taken, left |-> a.left, done |-> a.done]
  /\ Kept(a.s) /\ ListOfChoices(a.left)

\* Lists of choices.
LEMMA ChoicesFacts ==
  /\ ListOfChoices(<< >>)
  /\ \A s : ListOfChoices(s) => Len(s) \in Nat /\ DOMAIN s = 1 .. Len(s) /\ \A x : ListOfChoices(Append(s, x))
  <1>1. ListOfChoices(<< >>)
    <2> DEFINE C == {}
    <2>1. << >> \in Seq(C)
      OBVIOUS
    <2> HIDE DEF C
    <2> QED BY <2>1 DEF ListOfChoices
  <1>2. ASSUME NEW s, ListOfChoices(s), NEW x
        PROVE  Len(s) \in Nat /\ DOMAIN s = 1 .. Len(s) /\ ListOfChoices(Append(s, x))
    <2>1. PICK C : s \in Seq(C)
      BY <1>2 DEF ListOfChoices
    <2>2. s \in Seq(C \cup {x})
      BY <2>1
    <2>3. Append(s, x) \in Seq(C \cup {x})
      BY <2>2
    <2> QED BY <2>1, <2>3 DEF ListOfChoices
  <1> QED BY <1>1, <1>2

\* The edits the state of a restoring takes.
LEMMA AgainWith ==
  ASSUME NEW a, Again(a)
  PROVE  /\ \A left : ListOfChoices(left) => Again([a EXCEPT !.left = left])
         /\ \A left, taken : ListOfChoices(left) => Again([a EXCEPT !.left = left, !.taken = taken])
         /\ \A s : Kept(s) => Again([a EXCEPT !.s = s])
         /\ \A done : Again([a EXCEPT !.done = done])
  <1>1. PICK s0, t0, l0, d0 : a = [s |-> s0, taken |-> t0, left |-> l0, done |-> d0] /\ Kept(s0) /\ ListOfChoices(l0)
    BY DEF Again
  <1>2. ASSUME NEW left, ListOfChoices(left)
        PROVE  Again([a EXCEPT !.left = left]) /\ \A taken : Again([a EXCEPT !.left = left, !.taken = taken])
    <2> DEFINE r == [s |-> s0, taken |-> t0, left |-> left, done |-> d0]
    <2>1. [a EXCEPT !.left = left] = r /\ Again(r)
      BY <1>1, <1>2 DEF Again
    <2>2. ASSUME NEW taken PROVE Again([a EXCEPT !.left = left, !.taken = taken])
      <3> DEFINE u == [s |-> s0, taken |-> taken, left |-> left, done |-> d0]
      <3>1. [a EXCEPT !.left = left, !.taken = taken] = [[a EXCEPT !.left = left] EXCEPT !.taken = taken]
        OBVIOUS
      <3>2. [r EXCEPT !.taken = taken] = u
        OBVIOUS
      <3>3. Again(u)
        BY <1>1, <1>2 DEF Again
      <3> HIDE DEF r, u
      <3> QED BY <2>1, <3>1, <3>2, <3>3
    <2> HIDE DEF r
    <2> QED BY <2>1, <2>2
  <1>3. ASSUME NEW s, Kept(s) PROVE Again([a EXCEPT !.s = s])
    <2> DEFINE v == [s |-> s, taken |-> t0, left |-> l0, done |-> d0]
    <2>1. [a EXCEPT !.s = s] = v /\ Again(v)
      BY <1>1, <1>3 DEF Again
    <2> HIDE DEF v
    <2> QED BY <2>1
  <1>4. ASSUME NEW done PROVE Again([a EXCEPT !.done = done])
    <2> DEFINE w == [s |-> s0, taken |-> t0, left |-> l0, done |-> done]
    <2>1. [a EXCEPT !.done = done] = w /\ Again(w)
      BY <1>1 DEF Again
    <2> HIDE DEF w
    <2> QED BY <2>1
  <1> QED BY <1>2, <1>3, <1>4

\* The wrapper found is a wrapper.
LEMMA MatchFacts ==
  ASSUME NEW t, Tree(t), NEW choice, NEW taken
  PROVE  LET w == MatchPending(t, choice, taken) IN w # 0 => w \in DOMAIN t /\ t[w].kind = "wrapper"
  <1> DEFINE free == {w \in DOMAIN t : t[w].kind = "wrapper" /\ t[w].reg = None /\ Path(t, w) \notin taken}
             same == {w \in free : t[w].rule = choice.rule}
             alike == {w \in free : /\ OwnerId(t, w) = choice.owner
                                    /\ t[w].name = choice.name /\ t[w].lvl = choice.lvl}
             named == {w \in free : t[w].name = choice.name /\ choice.name # "Multiclass"}
             S == IF same # {} THEN same ELSE IF alike # {} THEN alike ELSE IF named # {} THEN named ELSE {0}
  <1>1. same \subseteq free /\ alike \subseteq free /\ named \subseteq free
    OBVIOUS
  <1>2. free \subseteq DOMAIN t /\ free \in SUBSET Nat /\ \A w \in free : t[w].kind = "wrapper"
    BY TreeFacts
  <1>3. MatchPending(t, choice, taken) = Min(S)
    BY DEF MatchPending
  <1> HIDE DEF free, same, alike, named
  <1>4. (S \subseteq free /\ S # {}) \/ S = {0}
    BY <1>1
  <1> HIDE DEF S
  <1>5. S \in SUBSET Nat /\ S # {}
    BY <1>2, <1>4
  <1>6. Min(S) \in S
    BY <1>5, LeastIn
  <1> QED BY <1>2, <1>3, <1>4, <1>6

\* A state with another document.
LEMMA DocReplaced ==
  ASSUME NEW s, Kept(s), NEW d, SoundDoc(d)
  PROVE  Kept([s EXCEPT !.doc = d])
  <1>1. PICK x, y, z : s = [ok |-> x, doc |-> y, recs |-> z] /\ Records(z)
    BY DEF Kept
  <1>2. [s EXCEPT !.doc = d] = [ok |-> x, doc |-> d, recs |-> z]
    BY <1>1
  <1>3. Kept([ok |-> x, doc |-> d, recs |-> z])
    BY <1>1 DEF Kept
  <1> QED BY <1>2, <1>3

\* A choice made again.
LEMMA ChosenKeeps ==
  ASSUME LibrarySorted, NEW s, Kept(s), NEW w \in DOMAIN s.doc.tree, s.doc.tree[w].kind = "wrapper",
         NEW choice
  PROVE  Kept(Chosen(s, w, choice))
  <1>1. SoundDoc(s.doc)
    BY DEF Kept
  <1> SUFFICES ASSUME CanChoose(s, w, choice) PROVE Kept(Chosen(s, w, choice))
    BY FailedKeeps DEF Chosen
  <1>2. CASE s.doc.tree[w].name = "Multiclass"
    <2>1. Kept(AnsweredBy(s, choice.pick))
      BY StepsKeep
    <2> QED BY <1>2, <2>1 DEF Chosen
  <1>3. CASE s.doc.tree[w].name # "Multiclass"
    <2> DEFINE pick == choice.pick
               planned == PlanSelection(s.doc, w, pick)
               d == Settle(planned)
    <2>1. pick \in Pool(s.doc.tree[w]) /\ s.doc.tree[w].lvl =< LevelOf(s.doc.tree)
      BY <1>3 DEF CanChoose, CanSelect
    <2> HIDE DEF pick
    <2>2. SoundDoc(planned)
      BY <1>1, <2>1, PlanKeeps
    <2> HIDE DEF planned
    <2>3. SoundDoc(d)
      BY <2>2, SettleKeeps
    <2>4. Chosen(s, w, choice) = [s EXCEPT !.doc = d]
      BY <1>3 DEF Chosen, planned, pick
    <2> HIDE DEF d
    <2> QED BY <2>3, <2>4, DocReplaced
  <1> QED BY <1>2, <1>3

\* One choice tried.
LEMMA RestoreChoiceKeeps ==
  ASSUME LibrarySorted, NEW a, Again(a), NEW choice
  PROVE  Again(RestoreChoice(a, choice))
  <1> DEFINE w == MatchPending(a.s.doc.tree, choice, a.taken)
             left == Append(a.left, choice)
             taken == a.taken \cup {Path(a.s.doc.tree, w)}
             s == Chosen(a.s, w, choice)
  <1>1. Kept(a.s) /\ Tree(a.s.doc.tree) /\ ListOfChoices(left)
    BY ChoicesFacts, SoundFacts DEF Again, Kept
  <1>2. w # 0 => w \in DOMAIN a.s.doc.tree /\ a.s.doc.tree[w].kind = "wrapper"
    BY <1>1, MatchFacts
  <1>3. RestoreChoice(a, choice) = RestoreAt(a, w, choice)
    BY DEF RestoreChoice
  <1> HIDE DEF w
  <1>4. w # 0 => Kept(s)
    BY <1>1, <1>2, ChosenKeeps
  <1>5. CASE w = 0
    <2>1. RestoreAt(a, w, choice) = [a EXCEPT !.left = left]
      BY <1>5 DEF RestoreAt
    <2> HIDE DEF left
    <2>2. Again([a EXCEPT !.left = left])
      BY <1>1, AgainWith
    <2> QED BY <1>3, <2>1, <2>2
  <1>6. CASE w # 0 /\ ~s.ok
    <2>1. RestoreAt(a, w, choice) = [a EXCEPT !.left = left, !.taken = taken]
      BY <1>6 DEF RestoreAt, RestoredBy
    <2> HIDE DEF left, taken
    <2>2. Again([a EXCEPT !.left = left, !.taken = taken])
      BY <1>1, AgainWith
    <2> QED BY <1>3, <2>1, <2>2
  <1>7. CASE w # 0 /\ s.ok
    <2>1. RestoreAt(a, w, choice) = [a EXCEPT !.s = s]
      BY <1>7 DEF RestoreAt, RestoredBy
    <2>2. Kept(s)
      BY <1>4, <1>7
    <2> HIDE DEF s
    <2>3. Again([a EXCEPT !.s = s])
      BY <2>2, AgainWith
    <2> QED BY <1>3, <2>1, <2>3
  <1> QED BY <1>5, <1>6, <1>7

RestoreStep(p, a, choice) == RestoreChoice(a, choice)
RestoreRun(p, a, k) == RestorePass(a)
AgainClaim(p, a) == Again(a)
RC == INSTANCE Iteration WITH Step <- RestoreStep, P <- AgainClaim
RR == INSTANCE Iteration WITH Step <- RestoreRun, P <- AgainClaim

\* All the choices left, tried once.
LEMMA RestorePassKeeps ==
  ASSUME LibrarySorted, NEW a, Again(a)
  PROVE  Again(RestorePass(a))
  <1> DEFINE none == << >>
             start == [a EXCEPT !.left = none]
             next == FoldLeft(RestoreChoice, start, a.left)
             done == next.left \in {<< >>, a.left}
  <1>1. ListOfChoices(a.left) /\ Kept(a.s) /\ ListOfChoices(none)
    BY ChoicesFacts DEF Again
  <1>2. Again(start)
    <2> HIDE DEF none
    <2> QED BY <1>1, AgainWith
  <1>3. RestorePass(a) = IF a.done THEN a ELSE [next EXCEPT !.done = done]
    BY DEF RestorePass, Restoring
  <1> HIDE DEF start
  <1>4. Again(next)
    <2> DEFINE left == a.left
    <2>1. Len(left) \in Nat /\ DOMAIN left = 1 .. Len(left)
      BY <1>1, ChoicesFacts
    <2> HIDE DEF left
    <2>2. AgainClaim(0, start)
      BY <1>2 DEF AgainClaim
    <2>3. ASSUME NEW b, NEW k, k \in DOMAIN left, AgainClaim(0, b)
          PROVE  AgainClaim(0, RestoreStep(0, b, left[k]))
      BY <2>3, RestoreChoiceKeeps DEF AgainClaim, RestoreStep
    <2>4. AgainClaim(0, RC!Fold(0, start, left))
      BY <2>1, <2>2, <2>3, RC!FoldKeeps
    <2>5. FoldLeft(RestoreChoice, start, left) = RC!Fold(0, start, left)
      BY DEF FoldLeft, MapThenFoldSet, Max, RC!Max, RC!Fold, RC!Folded, RestoreStep
    <2>6. next = FoldLeft(RestoreChoice, start, left)
      BY DEF left
    <2> HIDE DEF next
    <2> QED BY <2>4, <2>5, <2>6 DEF AgainClaim
  <1> HIDE DEF next, done
  <1>5. Again([next EXCEPT !.done = done])
    BY <1>1, <1>4, AgainWith
  <1> QED BY <1>3, <1>5

\* The choices of a tree are a list.
LEMMA ChoicesMadeFacts ==
  ASSUME NEW t, Tree(t)
  PROVE  ListOfChoices(ChoicesMade(t))
  <1> DEFINE S == {i \in DOMAIN t : Filled(t[i])}
             order == InOrder(S)
             made == ChoicesMade(t)
             C == {made[k] : k \in 1 .. Len(order)}
  <1>1. Len(t) \in Nat /\ S \in SUBSET (0 .. Len(t))
    BY TreeFacts
  <1>2. Len(order) \in Nat /\ DOMAIN order = 1 .. Len(order)
    <2> HIDE DEF S
    <2> QED BY <1>1, InOrderFacts
  <1>3. made = [k \in 1 .. Len(order) |-> made[k]]
    BY <1>2 DEF ChoicesMade
  <1> HIDE DEF made, order
  <1>4. made \in Seq(C)
    BY <1>2, <1>3, SeqFrom
  <1> HIDE DEF C
  <1> QED BY <1>4 DEF ListOfChoices, made

\* All the passes.
LEMMA RestoreKeeps ==
  ASSUME LibrarySorted, NEW s, Kept(s), NEW choices, ListOfChoices(choices)
  PROVE  Kept(Restore(s, choices))
  <1> DEFINE none == {}
             no == FALSE
             start == [s |-> s, taken |-> none, left |-> choices, done |-> no]
  <1>1. AgainClaim(0, start)
    <2> HIDE DEF none, no
    <2> QED BY DEF AgainClaim, Again
  <1>2. ASSUME NEW a, NEW k, AgainClaim(0, a) PROVE AgainClaim(0, RestoreRun(0, a, k))
    BY <1>2, RestorePassKeeps DEF AgainClaim, RestoreRun
  <1> HIDE DEF start
  <1>3. AgainClaim(0, RR!Run(0, start)[MAX_RESTORE_PASSES])
    BY <1>1, <1>2, RR!RunKeeps DEF MAX_RESTORE_PASSES
  <1>4. Restore(s, choices) = RR!Run(0, start)[MAX_RESTORE_PASSES].s
    BY DEF Restore, Repeat, RR!Run, RestoreRun, start
  <1> QED BY <1>3, <1>4 DEF AgainClaim, Again

----------------------------------------------------------------------------
(* The requests that leave the levels alone.                                 *)

\* A graft of content where content was cut out.
LEMMA PlainGraft ==
  ASSUME NEW d, SoundDoc(d), NEW gone \in SUBSET DOMAIN d.tree, \A i \in gone : d.tree[i].kind # "level",
         NEW groups, Grouped(groups), \A g \in groups : Blanks(g.nodes), NEW sum
  PROVE  SoundDoc([d EXCEPT !.tree = Graft(d.tree, gone, groups), !.sum = sum])
  <1> DEFINE t == d.tree
             n == LevelOf(t)
             u == Graft(t, gone, groups)
  <1>1. /\ d = [tree |-> d.tree, sum |-> d.sum, on |-> d.on]
        /\ Tree(t) /\ EarnedBy(t, n) /\ n \in Nat /\ n =< MAX_LEVEL /\ LevelOf(t) = n
    BY SoundFacts
  <1>2. gone \in SUBSET DOMAIN t /\ \A i \in gone : t[i].kind # "level"
    OBVIOUS
  <1> HIDE DEF t, n
  <1>3. SoundTree(u)
    BY <1>1, <1>2, GraftKeeps
  <1> HIDE DEF u
  <1>4. SoundDoc([d EXCEPT !.tree = u, !.sum = sum])
    BY <1>1, <1>3, DocWith
  <1> QED BY <1>4 DEF u, t

\* No groups.
LEMMA GroupedNone == Grouped({}) /\ \A g \in {} : Blanks(g.nodes)
  BY FS_EmptySet DEF Grouped

\* An optional rule's node, put among the others of its kind.
LEMMA OptionKeeps ==
  ASSUME LibrarySorted, NEW d, SoundDoc(d), NEW o \in OptionIds, NEW sum, NEW after,
         NEW node, node = [ElementNode(1, o) EXCEPT !.kind = "option"]
  PROVE  /\ SoundDoc([d EXCEPT !.tree = Graft(d.tree, {}, {[after |-> after, d |-> 1, nodes |-> <<node>>]}), !.sum = sum])
         /\ \A gone \in SUBSET {i \in DOMAIN d.tree : d.tree[i].kind = "option"} :
              SoundDoc([d EXCEPT !.tree = Graft(d.tree, gone, {}), !.sum = sum])
  <1> DEFINE g == [after |-> after, d |-> 1, nodes |-> <<node>>]
             groups == {g}
             none == {}
  <1>1. Blank(node)
    <2>1. o \in Elem /\ o \notin LevelIds /\ None \notin LevelIds
      BY DEF LibrarySorted
    <2>2. node = [d |-> 1, kind |-> "option", id |-> o, name |-> None, lvl |-> 0, rule |-> << >>, reg |-> None]
      BY DEF ElementNode
    <2> QED BY <2>1, <2>2 DEF Blank, IsNode
  <1>2. Grouped(groups) /\ \A h \in groups : Blanks(h.nodes)
    <2>1. g.d \in Nat /\ Blanks(g.nodes)
      BY <1>1, BlanksOne
    <2> HIDE DEF g
    <2> QED BY <2>1, FS_Singleton DEF Grouped
  <1>3. none \in SUBSET DOMAIN d.tree /\ \A i \in none : d.tree[i].kind # "level"
    OBVIOUS
  <1>4. Grouped(none) /\ \A h \in none : Blanks(h.nodes)
    BY GroupedNone
  <1>5. SoundDoc([d EXCEPT !.tree = Graft(d.tree, none, groups), !.sum = sum])
    <2> HIDE DEF none, groups
    <2> QED BY <1>2, <1>3, PlainGraft
  <1>6. ASSUME NEW gone \in SUBSET {i \in DOMAIN d.tree : d.tree[i].kind = "option"}
        PROVE  SoundDoc([d EXCEPT !.tree = Graft(d.tree, gone, none), !.sum = sum])
    <2>1. gone \in SUBSET DOMAIN d.tree /\ \A i \in gone : d.tree[i].kind # "level"
      OBVIOUS
    <2> HIDE DEF none
    <2> QED BY <1>4, <2>1, PlainGraft
  <1> QED BY <1>5, <1>6

\* An element granted outright, with what it registers.
LEMMA GrantKeeps ==
  ASSUME LibrarySorted, NEW d, SoundDoc(d), NEW e \in Grantable, NEW sum,
         NEW own, own = IF Holds(Needs[e], Now(d)) THEN Register(e, 2, Now(d)) ELSE Now(d)
  PROVE  SoundDoc([d EXCEPT !.tree = d.tree \o <<ElementNode(1, e)>> \o own.out, !.sum = sum])
  <1> DEFINE c == Now(d)
             node == ElementNode(1, e)
             t == d.tree
             n == LevelOf(t)
             added == <<node>> \o own.out
             u == t \o <<node>> \o own.out
  <1>1. e \in Elem
    BY DEF LibrarySorted
  <1>2. Ctx(own)
    <2> DEFINE two == 2
    <2>1. Ctx(c)
      BY ContextFacts DEF Now
    <2>2. two \in Nat \ {0}
      OBVIOUS
    <2> HIDE DEF c, two
    <2>3. Ctx(Register(e, two, c))
      BY <1>1, <2>1, <2>2, RegisterKeeps
    <2> QED BY <2>1, <2>3 DEF c, two
  <1>3. Blanks(<<node>>) /\ Blanks(own.out)
    <2> DEFINE one == 1
    <2>1. one \in Nat /\ one >= 1 /\ e \in Elem \cup Range(StartId)
      BY <1>1
    <2>2. Blank(ElementNode(one, e))
      <3> HIDE DEF one
      <3> QED BY <2>1, ElementBlank
    <2> QED BY <1>2, <2>2, BlanksOne DEF Ctx
  <1> HIDE DEF node
  <1>4. Blanks(added)
    BY <1>3, BlanksConcat
  <1>5. u = t \o added
    <2>1. \E N : t \in Seq(N) /\ <<node>> \in Seq(N) /\ own.out \in Seq(N)
      <3>1. PICK N1 : t \in Seq(N1)
        BY SoundFacts DEF Tree
      <3>2. PICK N2 : own.out \in Seq(N2)
        BY <1>3 DEF Blanks
      <3> DEFINE N == N1 \cup N2 \cup {node}
      <3>3. t \in Seq(N) /\ <<node>> \in Seq(N) /\ own.out \in Seq(N)
        BY <3>1, <3>2
      <3> HIDE DEF N
      <3> QED BY <3>3
    <2>2. PICK N : t \in Seq(N) /\ <<node>> \in Seq(N) /\ own.out \in Seq(N)
      BY <2>1
    <2> DEFINE one == <<node>>
    <2> HIDE DEF one, t
    <2>3. (t \o one) \o own.out = t \o (one \o own.out)
      <3> DEFINE rest == own.out
      <3>1. t \in Seq(N) /\ one \in Seq(N) /\ rest \in Seq(N)
        BY <2>2 DEF one
      <3> HIDE DEF rest
      <3>2. (t \o one) \o rest = t \o (one \o rest)
        BY <3>1
      <3> QED BY <3>2 DEF rest
    <2> QED BY <2>3 DEF one, t
  <1> HIDE DEF added, u
  <1>6. /\ d = [tree |-> d.tree, sum |-> d.sum, on |-> d.on]
        /\ Tree(t) /\ EarnedBy(t, n) /\ n \in Nat /\ n =< MAX_LEVEL
    BY SoundFacts
  <1>7. Tree(u) /\ EarnedBy(u, n) /\ LevelOf(u) = n
    <2>1. Tree(added) /\ EarnedBy(added, n) /\ Cardinality(Levels(added)) = 0
      BY <1>4, BlanksTree, BlanksLevels
    <2>2. Cardinality(Levels(t \o added)) = Cardinality(Levels(t)) + Cardinality(Levels(added))
          /\ Tree(t \o added) /\ Cardinality(Levels(t)) \in Nat
          /\ (EarnedBy(t, n) /\ EarnedBy(added, n) => EarnedBy(t \o added, n))
      <3> HIDE DEF n, t
      <3> QED BY <1>6, <2>1, TreeConcat
    <2> QED BY <1>5, <1>6, <2>1, <2>2 DEF LevelOf
  <1>8. SoundTree(u)
    BY <1>6, <1>7 DEF SoundTree
  <1>9. SoundDoc([d EXCEPT !.tree = u, !.sum = sum])
    BY <1>6, <1>8, DocWith
  <1> QED BY <1>9 DEF u, node

\* A granted element taken away is none of the levels.
LEMMA TakenAwayKeeps ==
  ASSUME LibrarySorted, NEW d, SoundDoc(d), NEW e \in Grantable,
         NEW at, at = {i \in Kids(d.tree, 0) : d.tree[i].id = e}, at # {}, NEW sum
  PROVE  SoundDoc([d EXCEPT !.tree = Graft(d.tree, {Min(at)}, {}), !.sum = sum])
  <1> DEFINE i == Min(at)
             gone == {i}
             none == {}
  <1>1. Tree(d.tree) /\ e \in Elem
    BY SoundFacts DEF LibrarySorted
  <1>2. 0 \in 0 .. Len(d.tree) /\ Len(d.tree) \in Nat /\ DOMAIN d.tree = 1 .. Len(d.tree)
    BY <1>1, TreeFacts
  <1>3. Kids(d.tree, 0) \subseteq DOMAIN d.tree
    <2> DEFINE zero == 0
    <2> HIDE DEF zero
    <2>1. zero \in 0 .. Len(d.tree)
      BY <1>2 DEF zero
    <2>2. Kids(d.tree, zero) \subseteq DOMAIN d.tree
      BY <1>1, <2>1, KidsFacts
    <2> QED BY <2>2 DEF zero
  <1>4. at \in SUBSET Nat
    BY <1>2, <1>3
  <1>5. i \in at
    BY <1>4, LeastIn
  <1>6. i \in DOMAIN d.tree /\ d.tree[i].id = e
    BY <1>3, <1>5
  <1> HIDE DEF i
  <1>7. d.tree[i].kind # "level"
    <2>1. IsNode(d.tree[i])
      BY <1>1, <1>6, TreeFacts
    <2> QED BY <1>1, <1>6, <2>1 DEF IsNode, LibrarySorted
  <1>8. gone \in SUBSET DOMAIN d.tree /\ \A j \in gone : d.tree[j].kind # "level"
    BY <1>6, <1>7
  <1>9. Grouped(none) /\ \A g \in none : Blanks(g.nodes)
    BY GroupedNone
  <1> HIDE DEF gone, none
  <1>10. SoundDoc([d EXCEPT !.tree = Graft(d.tree, gone, none), !.sum = sum])
    BY <1>8, <1>9, PlainGraft
  <1> QED BY <1>10 DEF gone, none, i

\* The switch is read by rules alone.
LEMMA SwitchKeeps ==
  ASSUME NEW d, SoundDoc(d)
  PROVE  SoundDoc([d EXCEPT !.on = ~d.on])
  <1>1. PICK t, s, o : d = [tree |-> t, sum |-> s, on |-> o] /\ SoundTree(t)
    BY DEF SoundDoc
  <1> DEFINE on == ~d.on
  <1> HIDE DEF on
  <1>2. [d EXCEPT !.on = on] = [tree |-> t, sum |-> s, on |-> on]
    BY <1>1
  <1>3. SoundDoc([tree |-> t, sum |-> s, on |-> on])
    BY <1>1 DEF SoundDoc
  <1>4. SoundDoc([d EXCEPT !.on = on])
    BY <1>2, <1>3
  <1> QED BY <1>4 DEF on

----------------------------------------------------------------------------
(* Every request.                                                            *)

Sound == SoundDoc(doc) /\ Records(levelRegistrations)
SnapshotSound == delevelSnapshot # NoSnapshot => SoundDoc(delevelSnapshot.doc) /\ Records(delevelSnapshot.recs)
CharacterInv == Sound /\ SnapshotSound

\* What CharacterAssumption says of the characters to start from.
StartsSound == \A s \in Starts : SoundTree(s.tree) /\ Records(s.recs)

\* The assumption in the form the proofs use.
LEMMA StartsGiven ==
  LibrarySorted /\ StartsSound
  <1>1. ASSUME NEW s \in Starts PROVE SoundTree(s.tree)
    <2> DEFINE t == s.tree
               N == Range(t)
    <2>1. t \in Seq(N) /\ \A i \in DOMAIN t : IsNode(t[i])
      BY CharacterAssumption DEF StartsProper
    <2>2. \A n \in N : IsNode(n)
      BY <2>1 DEF Range
    <2> HIDE DEF N
    <2>3. Tree(t)
      BY <2>1, <2>2 DEF Tree
    <2> QED BY <2>3, CharacterAssumption DEF StartsProper, SoundTree
  <1>2. ASSUME NEW r, ProperRecord(r) PROVE IsRecord(r)
    <2> DEFINE N == Range(r.nodes)
    <2>1. r.nodes \in Seq(N) /\ \A n \in N : n.kind # "level"
      BY <1>2 DEF ProperRecord, Range
    <2> HIDE DEF N
    <2>2. Expected(r.nodes)
      BY <2>1 DEF Expected
    <2> QED BY <1>2, <2>2 DEF ProperRecord, IsRecord, Record
  <1>3. ASSUME NEW s \in Starts PROVE Records(s.recs)
    <2> DEFINE recs == s.recs
               R == Range(recs)
    <2>1. recs \in Seq(R) /\ \A k \in DOMAIN recs : ProperRecord(recs[k])
      BY CharacterAssumption DEF StartsProper
    <2>2. \A r \in R : IsRecord(r)
      BY <1>2, <2>1 DEF Range
    <2> HIDE DEF R
    <2> QED BY <2>1, <2>2 DEF Records
  <1> QED BY <1>1, <1>3, CharacterAssumption DEF StartsSound

\* At the start there is nothing to undo.
LEMMA InitSound ==
  ASSUME StartsSound, Init
  PROVE  CharacterInv
  <1>1. PICK s \in Starts :
          /\ doc = [tree |-> s.tree, sum |-> SetToBag(Shown(s.tree, DOMAIN s.tree)), on |-> FALSE]
          /\ levelRegistrations = s.recs
    BY DEF Init
  <1>2. SoundTree(s.tree) /\ Records(s.recs)
    BY DEF StartsSound
  <1>3. Sound
    BY <1>1, <1>2 DEF Sound, SoundDoc
  <1> QED BY <1>3 DEF Init, CharacterInv, SnapshotSound

\* A request that edits the document settles it.
LEMMA EditKeeps ==
  ASSUME LibrarySorted, CharacterInv, NEW next, SoundDoc(next), Edit(next)
  PROVE  CharacterInv'
  <1>1. doc' = Settle(next) /\ levelRegistrations' = levelRegistrations /\ delevelSnapshot' = delevelSnapshot
    BY DEF Edit
  <1>2. SoundDoc(Settle(next))
    BY SettleKeeps
  <1>3. SoundDoc(doc')
    BY <1>1, <1>2
  <1> QED BY <1>1, <1>3 DEF CharacterInv, Sound, SnapshotSound

\* A request that takes steps.
LEMMA BecomesKeeps ==
  ASSUME NEW s, Kept(s), Becomes(s)
  PROVE  Sound'
  <1>1. doc' = s.doc /\ levelRegistrations' = s.recs
    BY DEF Becomes
  <1>2. SoundDoc(s.doc) /\ Records(s.recs)
    BY DEF Kept
  <1> QED BY <1>1, <1>2 DEF Sound

\* One that leaves the document for undo alone.
LEMMA BecomesInv ==
  ASSUME CharacterInv, NEW s, Kept(s), Becomes(s), UNCHANGED delevelSnapshot
  PROVE  CharacterInv'
  <1>1. Sound'
    BY BecomesKeeps
  <1> QED BY <1>1 DEF CharacterInv, SnapshotSound

\* The steps start from the state there is.
LEMMA StateKept ==
  ASSUME CharacterInv
  PROVE  Kept(State)
  BY Stated DEF CharacterInv, Sound, State

\* Request by request: a pick tests the choice's level.
LEMMA ChoosingKeeps ==
  ASSUME LibrarySorted, CharacterInv, SetSelection \/ ClearSelection
  PROVE  CharacterInv'
  <1>1. SoundDoc(doc)
    BY DEF CharacterInv, Sound
  <1>2. CASE SetSelection
    <2>1. PICK w \in Wrappers : \E pick \in Pool(doc.tree[w]) :
            CanSelect(doc, w, pick) /\ Edit(PlanSelection(doc, w, pick))
      BY <1>2 DEF SetSelection
    <2>2. PICK pick \in Pool(doc.tree[w]) : CanSelect(doc, w, pick) /\ Edit(PlanSelection(doc, w, pick))
      BY <2>1
    <2>3. w \in DOMAIN doc.tree /\ doc.tree[w].kind = "wrapper" /\ doc.tree[w].lvl =< LevelOf(doc.tree)
      BY <2>2 DEF Wrappers, CanSelect
    <2>4. SoundDoc(PlanSelection(doc, w, pick))
      BY <1>1, <2>3, PlanKeeps
    <2> QED BY <2>2, <2>4, EditKeeps
  <1>3. CASE ClearSelection
    <2> DEFINE none == None
    <2>1. PICK w \in Wrappers : Edit(PlanSelection(doc, w, none))
      BY <1>3 DEF ClearSelection
    <2>2. w \in DOMAIN doc.tree /\ doc.tree[w].kind = "wrapper" /\ none = None
      BY DEF Wrappers
    <2> HIDE DEF none
    <2>3. SoundDoc(PlanSelection(doc, w, none))
      BY <1>1, <2>2, PlanKeeps
    <2> QED BY <2>1, <2>3, EditKeeps
  <1> QED BY <1>2, <1>3

\* An optional rule's node is no level's.
LEMMA OptionsKeep ==
  ASSUME LibrarySorted, CharacterInv, SetCharacterOption
  PROVE  CharacterInv'
  <1> DEFINE t == doc.tree
             at == {i \in DOMAIN t : t[i].kind = "option"}
             node(o) == [ElementNode(1, o) EXCEPT !.kind = "option"]
             gone(o) == {i \in at : t[i].id = o}
             after == Max(at \cup {0})
             off(o) == [doc EXCEPT !.tree = Graft(t, gone(o), {}), !.sum = Drop(doc.sum, {o})]
             on(o) == [doc EXCEPT !.tree = Graft(t, {}, {[after |-> after, d |-> 1, nodes |-> <<node(o)>>]}),
                                  !.sum = doc.sum (+) SetToBag({o})]
  <1>1. PICK o \in OptionIds : Edit(off(o)) \/ Edit(on(o))
    BY DEF SetCharacterOption
  <1>2. SoundDoc(doc)
    BY DEF CharacterInv, Sound
  <1>3. SoundDoc(off(o))
    <2> DEFINE sum == Drop(doc.sum, {o})
               n == node(o)
               S == gone(o)
    <2>1. S \in SUBSET {i \in DOMAIN doc.tree : doc.tree[i].kind = "option"}
      OBVIOUS
    <2>2. n = [ElementNode(1, o) EXCEPT !.kind = "option"]
      OBVIOUS
    <2> HIDE DEF sum, n, S, after
    <2>3. SoundDoc([doc EXCEPT !.tree = Graft(doc.tree, S, {}), !.sum = sum])
      BY <1>2, <2>1, <2>2, OptionKeeps
    <2> QED BY <2>3 DEF sum, S
  <1>4. SoundDoc(on(o))
    <2> DEFINE sum == doc.sum (+) SetToBag({o})
               n == node(o)
    <2>1. n = [ElementNode(1, o) EXCEPT !.kind = "option"]
      OBVIOUS
    <2> HIDE DEF sum, n, after
    <2>2. SoundDoc([doc EXCEPT !.tree = Graft(doc.tree, {}, {[after |-> after, d |-> 1, nodes |-> <<n>>]}), !.sum = sum])
      BY <1>2, <2>1, OptionKeeps
    <2> QED BY <2>2 DEF sum, n
  <1> HIDE DEF off, on
  <1> QED BY <1>1, <1>3, <1>4, EditKeeps

\* A granted element and the switch.
LEMMA GrantingKeeps ==
  ASSUME LibrarySorted, CharacterInv, AddGrantedElement \/ RemoveGrantedElement \/ SetResourceSwitch
  PROVE  CharacterInv'
  <1>1. SoundDoc(doc)
    BY DEF CharacterInv, Sound
  <1>2. CASE AddGrantedElement
    <2> DEFINE own(e) == IF Holds(Needs[e], Now(doc)) THEN Register(e, 2, Now(doc)) ELSE Now(doc)
               sum(e) == doc.sum (+) SetToBag(own(e).new \cup {e})
               next(e) == [doc EXCEPT !.tree = doc.tree \o <<ElementNode(1, e)>> \o own(e).out, !.sum = sum(e)]
    <2>1. PICK e \in Grantable : Edit(next(e))
      BY <1>2 DEF AddGrantedElement
    <2>2. SoundDoc(next(e))
      <3> DEFINE o == own(e)
                 s == sum(e)
      <3>1. o = IF Holds(Needs[e], Now(doc)) THEN Register(e, 2, Now(doc)) ELSE Now(doc)
        OBVIOUS
      <3> HIDE DEF o, s
      <3>2. SoundDoc([doc EXCEPT !.tree = doc.tree \o <<ElementNode(1, e)>> \o o.out, !.sum = s])
        BY <1>1, <3>1, GrantKeeps
      <3> QED BY <3>2 DEF o, s
    <2> HIDE DEF next
    <2> QED BY <2>1, <2>2, EditKeeps
  <1>3. CASE RemoveGrantedElement
    <2> DEFINE at(e) == {i \in Kids(doc.tree, 0) : doc.tree[i].id = e}
               sum(e) == doc.sum (-) SetToBag(Shown(doc.tree, {Min(at(e))}))
               next(e) == [doc EXCEPT !.tree = Graft(doc.tree, {Min(at(e))}, {}), !.sum = sum(e)]
    <2>1. PICK e \in Grantable : at(e) # {} /\ Edit(next(e))
      BY <1>3 DEF RemoveGrantedElement
    <2>2. SoundDoc(next(e))
      <3> DEFINE S == at(e)
                 s == sum(e)
      <3>1. S = {i \in Kids(doc.tree, 0) : doc.tree[i].id = e} /\ S # {}
        BY <2>1
      <3> HIDE DEF S, s
      <3>2. SoundDoc([doc EXCEPT !.tree = Graft(doc.tree, {Min(S)}, {}), !.sum = s])
        BY <1>1, <3>1, TakenAwayKeeps
      <3> QED BY <3>2 DEF S, s
    <2> HIDE DEF next
    <2> QED BY <2>1, <2>2, EditKeeps
  <1>4. CASE SetResourceSwitch
    <2> DEFINE next == [doc EXCEPT !.on = ~doc.on]
    <2>1. Edit(next)
      BY <1>4 DEF SetResourceSwitch
    <2>2. SoundDoc(next)
      BY <1>1, SwitchKeeps
    <2> HIDE DEF next
    <2> QED BY <2>1, <2>2, EditKeeps
  <1> QED BY <1>2, <1>3, <1>4

\* Levels gained and choices opened and answered.
LEMMA GainingKeeps ==
  ASSUME LibrarySorted, CharacterInv,
         LevelUp \/ LevelUpMulticlass \/ NewMulticlass \/ ResolveMulticlass
  PROVE  CharacterInv'
  <1>1. SoundDoc(doc) /\ Kept(State)
    BY StateKept DEF CharacterInv, Sound
  <1>2. ASSUME NEW class, CanGain(doc, class), Becomes(Gained(State, GainLevel(doc, class))), UNCHANGED delevelSnapshot
        PROVE  CharacterInv'
    <2>1. Gain(GainLevel(doc, class))
      BY <1>1, <1>2, GainLevelKeeps
    <2>2. Kept(Gained(State, GainLevel(doc, class)))
      BY <1>1, <2>1, GainedKeeps
    <2> QED BY <1>2, <2>2, BecomesInv
  <1>3. CASE LevelUp \/ LevelUpMulticlass
    <2>1. \E class : /\ CanGain(doc, class) /\ Becomes(Gained(State, GainLevel(doc, class)))
                     /\ UNCHANGED delevelSnapshot
      BY <1>3 DEF LevelUp, LevelUpMulticlass
    <2> QED BY <1>2, <2>1
  <1>4. CASE NewMulticlass
    <2>1. Gain(OpenMulticlass(doc))
      BY <1>1, <1>4, OpenKeeps DEF NewMulticlass
    <2>2. Kept(Gained(State, OpenMulticlass(doc)))
      BY <1>1, <2>1, GainedKeeps
    <2> QED BY <1>4, <2>2, BecomesInv DEF NewMulticlass
  <1>5. CASE ResolveMulticlass
    <2>1. PICK m : Becomes(AnsweredBy(State, m)) /\ UNCHANGED delevelSnapshot
      BY <1>5 DEF ResolveMulticlass, Accepted
    <2>2. Kept(AnsweredBy(State, m))
      BY StateKept, StepsKeep
    <2> QED BY <2>1, <2>2, BecomesInv
  <1> QED BY <1>3, <1>4, <1>5

\* The newest level restarted as another class.
LEMMA RestartingKeeps ==
  ASSUME LibrarySorted, CharacterInv, ChangeMulticlass \/ ConvertToMulticlass
  PROVE  CharacterInv'
  <1>1. PICK m : Becomes(Restart(State, m)) /\ UNCHANGED delevelSnapshot
    BY DEF ChangeMulticlass, ConvertToMulticlass, Accepted
  <1>2. Kept(Restart(State, m))
    BY StateKept, StepsKeep
  <1> QED BY <1>1, <1>2, BecomesInv

\* The newest level taken back, with the document for undo.
LEMMA TakingBackKeeps ==
  ASSUME LibrarySorted, CharacterInv, LevelDown \/ RemoveMulticlass
  PROVE  CharacterInv'
  <1> DEFINE r == Delevel(doc, levelRegistrations)
  <1>1. /\ CanLevelDown(doc, levelRegistrations)
        /\ Becomes(Lowered(State, r))
        /\ delevelSnapshot' = [doc |-> r.before, recs |-> levelRegistrations, gone |-> r.rec.total]
    BY DEF LevelDown, RemoveMulticlass, TakeBack, Taken, Snapshot
  <1>2. SoundDoc(doc) /\ Records(levelRegistrations) /\ Kept(State)
    BY StateKept DEF CharacterInv, Sound
  <1>3. Gain(r) /\ SoundDoc(r.before)
    <2>1. LevelOf(doc.tree) > 1 /\ levelRegistrations # << >>
      BY <1>1 DEF CanLevelDown
    <2> QED BY <1>2, <2>1, DelevelKeeps
  <1> HIDE DEF r
  <1>4. Kept(Lowered(State, r))
    BY <1>2, <1>3, GainedKeeps
  <1>5. Sound'
    BY <1>1, <1>4, BecomesKeeps
  <1>6. SoundDoc(delevelSnapshot'.doc) /\ Records(delevelSnapshot'.recs)
    BY <1>1, <1>2, <1>3
  <1> QED BY <1>5, <1>6 DEF CharacterInv, SnapshotSound

\* Undo settles the document it puts back.
LEMMA UndoKeeps ==
  ASSUME LibrarySorted, CharacterInv, UndoDelevel
  PROVE  CharacterInv'
  <1> DEFINE d == delevelSnapshot.doc
  <1>1. SoundDoc(d) /\ Records(delevelSnapshot.recs)
    BY DEF UndoDelevel, CharacterInv, SnapshotSound
  <1>2. doc' = Settle(d) /\ levelRegistrations' = delevelSnapshot.recs /\ delevelSnapshot' = NoSnapshot
    BY DEF UndoDelevel
  <1> HIDE DEF d
  <1>3. SoundDoc(Settle(d))
    BY <1>1, SettleKeeps
  <1>4. Sound'
    BY <1>1, <1>2, <1>3 DEF Sound
  <1> QED BY <1>2, <1>4 DEF CharacterInv, SnapshotSound

\* The levels above one are a list.
LEMMA HistoryRun ==
  ASSUME NEW t, Tree(t), NEW n \in 2 .. Len(History(t)) - 1
  PROVE  IsRun(SubSeq(History(t), n + 1, Len(History(t))))
  <1> DEFINE at == InOrder(Levels(t))
             h == History(t)
             C == {h[k] : k \in 1 .. Len(at)}
  <1>1. Len(at) \in Nat /\ DOMAIN at = 1 .. Len(at)
    <2>1. Len(t) \in Nat /\ Levels(t) \in SUBSET (0 .. Len(t))
      BY TreeFacts DEF Levels
    <2> QED BY <2>1, InOrderFacts
  <1>2. h = [k \in 1 .. Len(at) |-> h[k]]
    BY <1>1 DEF History, HistoryAt, HistoryOf
  <1> HIDE DEF h, at
  <1>3. h \in Seq(C)
    BY <1>1, <1>2, SeqFrom
  <1> HIDE DEF C
  <1>4. n + 1 \in 1 .. Len(h) /\ Len(h) \in Nat
    BY <1>3 DEF h
  <1>5. SubSeq(h, n + 1, Len(h)) \in Seq(C)
    BY <1>3, <1>4
  <1> QED BY <1>5 DEF IsRun, h

\* A class lowered: levels taken back, gained again, choices made again.
LEMMA LowerClassKeeps ==
  ASSUME LibrarySorted, CharacterInv, LowerClass
  PROVE  CharacterInv'
  <1> DEFINE h == History(doc.tree)
             entries(n) == SubSeq(h, n + 1, Len(h))
             up(n) == FoldLeft(Replayed, Unwound(State, n), entries(n))
             choices == ChoicesMade(doc.tree)
  <1>1. PICK n \in 2 .. Len(h) - 1 :
          /\ Becomes(Restore(up(n), choices))
          /\ delevelSnapshot' = [doc |-> doc, recs |-> levelRegistrations, gone |-> n]
    BY DEF LowerClass, Lowers, Snapshot
  <1>2. SoundDoc(doc) /\ Records(levelRegistrations) /\ Kept(State) /\ Tree(doc.tree)
    BY StateKept, SoundFacts DEF CharacterInv, Sound
  <1>3. IsRun(entries(n)) /\ ListOfChoices(choices)
    BY <1>2, HistoryRun, ChoicesMadeFacts
  <1>4. Kept(up(n))
    <2> DEFINE s == Unwound(State, n)
               replayed == entries(n)
    <2>1. Kept(s)
      BY <1>2, UnwoundKeeps
    <2>2. IsRun(replayed)
      BY <1>3
    <2> HIDE DEF s, replayed
    <2>3. Kept(FoldLeft(Replayed, s, replayed))
      BY <2>1, <2>2, ReplayKeeps
    <2> QED BY <2>3 DEF s, replayed
  <1> HIDE DEF up, choices
  <1>5. Kept(Restore(up(n), choices))
    BY <1>3, <1>4, RestoreKeeps
  <1>6. Sound'
    BY <1>1, <1>5, BecomesKeeps
  <1>7. SoundDoc(delevelSnapshot'.doc) /\ Records(delevelSnapshot'.recs)
    BY <1>1, <1>2
  <1> QED BY <1>6, <1>7 DEF CharacterInv, SnapshotSound

\* The inductive invariant. The document, and the one undo would put back, are
\* trees of nodes whose answers are at levels they have, and a record names only
\* content, so that no request cuts a level out with it or answers above one.
THEOREM CharacterSound == Spec => []CharacterInv
  <1>1. LibrarySorted /\ StartsSound
    BY StartsGiven
  <1>2. Init => CharacterInv
    BY <1>1, InitSound
  <1>3. CharacterInv /\ [Next]_vars => CharacterInv'
    <2> SUFFICES ASSUME CharacterInv, [Next]_vars
                 PROVE  CharacterInv'
      OBVIOUS
    <2>1. CASE SetSelection \/ ClearSelection
      BY <1>1, <2>1, ChoosingKeeps
    <2>2. CASE SetCharacterOption
      BY <1>1, <2>2, OptionsKeep
    <2>3. CASE AddGrantedElement \/ RemoveGrantedElement \/ SetResourceSwitch
      BY <1>1, <2>3, GrantingKeeps
    <2>4. CASE LevelUp \/ LevelUpMulticlass \/ NewMulticlass \/ ResolveMulticlass
      BY <1>1, <2>4, GainingKeeps
    <2>5. CASE ChangeMulticlass \/ ConvertToMulticlass
      BY <1>1, <2>5, RestartingKeeps
    <2>6. CASE LevelDown \/ RemoveMulticlass
      BY <1>1, <2>6, TakingBackKeeps
    <2>7. CASE UndoDelevel
      BY <1>1, <2>7, UndoKeeps
    <2>8. CASE LowerClass
      BY <1>1, <2>8, LowerClassKeeps
    <2>9. CASE UNCHANGED vars
      BY <2>9 DEF vars, CharacterInv, Sound, SnapshotSound
    <2> QED BY <2>1, <2>2, <2>3, <2>4, <2>5, <2>6, <2>7, <2>8, <2>9 DEF Next
  <1> QED BY <1>2, <1>3, PTL DEF Spec

\* No answer to a choice outlives the level that opened it: not when levels are
\* taken back, replayed, restarted as another class or put back by undo
\* (delevel in leveling.ts, lowerClass and undoDelevel in service.ts).
THEOREM NoUnearnedPick == Spec => []EarnedPicks
  <1>1. CharacterInv => EarnedPicks
    BY SoundFacts DEF CharacterInv, Sound, EarnedPicks
  <1> QED BY <1>1, CharacterSound, PTL

\* The levels never outnumber the highest one, whichever request writes the
\* next: the two that gain a level test it, the answer to an open choice writes
\* that choice's level anew, and a replay gains again what was taken back.
THEOREM LevelsBounded == Spec => [](LevelOf(doc.tree) <= MAX_LEVEL)
  <1>1. CharacterInv => LevelOf(doc.tree) <= MAX_LEVEL
    BY SoundFacts DEF CharacterInv, Sound
  <1> QED BY <1>1, CharacterSound, PTL
=============================================================================
