---------------------------- MODULE Registration ----------------------------
(* The tree of registered elements in a character document, and the rules    *)
(* that grow and shrink it: what registering an element adds, which pending  *)
(* grants a pick releases, what clearing a pick takes away, and the sweep    *)
(* that settles the rules whose requirements have flipped                    *)
(* (selection/selection.ts, selection/reconcile-rules.ts).                   *)
(*                                                                           *)
(* A tree is the sequence of its nodes in document order, each with its      *)
(* depth. A wrapper is the slot of one select rule, named by its checksum    *)
(* <<owner, rule, slot>>; a filled one has the picked element in reg and     *)
(* that element's content beneath it. The sum is a bag of element ids.       *)
EXTENDS Integers, Bags, SequencesExt

CONSTANTS
  Elem,        \* elements of the content library
  Rules,       \* the select and grant rules of each element, in order
  Needs,       \* the requirements of each element
  Duplicable,  \* elements that may be registered more than once
  BasePool,    \* what the wrappers that no element authors may hold, by name
  None

ASSUME ElementsAssumption ==
  /\ Elem = DOMAIN Rules /\ Elem = DOMAIN Needs
  /\ Duplicable \subseteq Elem /\ None \notin Elem

\* A step taken n times over.
Repeat(Step(_), x, n) ==
  LET run[k \in Nat] == IF k = 0 THEN x ELSE Step(run[k - 1]) IN run[n]

OnePass == 1
MAX_RULE_RECONCILE_PASSES == 8

----------------------------------------------------------------------------
(* Rules. A requirement is a set of clauses, one of which must hold. A level *)
(* of 0 is a rule that names none. "switched" marks a grant of the builder's *)
(* own content whose condition names a switch.                               *)

Always == {[has |-> {}, not |-> {}, lvl |-> 0]}
Having(ids) == {[has |-> ids, not |-> {}, lvl |-> 0]}
Without(ids) == {[has |-> {}, not |-> ids, lvl |-> 0]}

Select(name, pool, level, req, number) ==
  [kind |-> "select", name |-> name, pool |-> pool, level |-> level, req |-> req,
   number |-> number, switched |-> FALSE]
Grant(target, level, req, switched) ==
  [kind |-> "grant", name |-> target, pool |-> {target}, level |-> level, req |-> req,
   number |-> 1, switched |-> switched]

RulesOf(id) == IF id \in Elem THEN Rules[id] ELSE << >>

\* What requirements are read against: the ids registered before the
\* operation and during it, the level, the switch; out collects the nodes.
Context(doc, extra, level) ==
  [has |-> BagToSet(doc.sum) \cup extra, new |-> {}, lvl |-> level, on |-> doc.on, out |-> << >>]

Holds(req, c) == \E k \in req : k.has \subseteq c.has /\ k.not \cap c.has = {} /\ k.lvl <= c.lvl

Eligible(rule, c) == rule.level <= c.lvl /\ (rule.switched => c.on) /\ Holds(rule.req, c)

----------------------------------------------------------------------------
(* The tree.                                                                 *)

ElementNode(d, e) ==
  [d |-> d, kind |-> "element", id |-> e, name |-> None, lvl |-> 0, rule |-> << >>, reg |-> None]
WrapperNode(d, name, level, rule, reg) ==
  [d |-> d, kind |-> "wrapper", id |-> None, name |-> name, lvl |-> level, rule |-> rule, reg |-> reg]

\* The element a node stands for.
Holder(n) == IF n.id # None THEN n.id ELSE n.reg
Filled(n) == n.kind = "wrapper" /\ n.reg # None

\* 0 stands above the top-level nodes.
Depth(t, i) == IF i = 0 THEN 0 ELSE t[i].d
End(t, i) ==
  LET d == Depth(t, i)
  IN CHOOSE j \in i .. Len(t) : /\ j < Len(t) => t[j + 1].d <= d
                                /\ \A k \in i + 1 .. j : t[k].d > d
Sub(t, i) == i .. End(t, i)
Kids(t, i) == LET d == Depth(t, i) + 1 IN {j \in i + 1 .. End(t, i) : t[j].d = d}
Parent(t, j) ==
  CHOOSE i \in 0 .. j - 1 : Depth(t, i) < t[j].d /\ \A k \in i + 1 .. j - 1 : t[k].d >= t[j].d
Spread(t, S) == UNION {Sub(t, i) : i \in S}
Outermost(t, S) == {i \in S : \A j \in S : i \in Sub(t, j) => i = j}
IdsAt(t, S) == ({t[i].id : i \in S} \cup {t[i].reg : i \in S}) \ {None}
Shown(t, S) == IdsAt(t, Spread(t, S))
Drop(sum, ids) == [x \in DOMAIN sum \ ids |-> sum[x]]

\* The tree without the subtrees of gone and with each group's nodes put
\* after a position; of the groups at one position the deepest comes first.
DeepestFirst(groups) ==
  CHOOSE s \in [1 .. Cardinality(groups) -> groups] :
    IsInjective(s) /\ \A j, k \in DOMAIN s : j < k => s[j].d >= s[k].d
NodesOf(order) == FlattenSeq([k \in DOMAIN order |-> order[k].nodes])
Piece(t, cut, groups, i) ==
  (IF i = 0 \/ i \in cut THEN << >> ELSE <<t[i]>>) \o NodesOf(DeepestFirst({g \in groups : g.after = i}))
GraftAt(t, cut, groups) == FlattenSeq([k \in 1 .. Len(t) + 1 |-> Piece(t, cut, groups, k - 1)])
Graft(t, gone, groups) == GraftAt(t, Spread(t, gone), groups)

\* A group of nodes put at the end of parent i.
AtEnd(t, i, nodes) == [after |-> End(t, i), d |-> Depth(t, i) + 1, nodes |-> nodes]

\* The positions of S from the first on, and what stands there.
InOrder(S) ==
  LET upto[i \in Nat] == IF i = 0 THEN << >> ELSE IF i \in S THEN Append(upto[i - 1], i) ELSE upto[i - 1]
  IN upto[Max(S \cup {0})]
InPlaces(s, S) == LET order == InOrder(S) IN [k \in DOMAIN order |-> s[order[k]]]

Levels(t) == {i \in 1 .. Len(t) : t[i].kind = "level"}

----------------------------------------------------------------------------
(* Registering an element.                                                   *)

Slots(owner, i, d) ==
  LET r == Rules[owner][i]
  IN [s \in 1 .. r.number |->
       WrapperNode(d, r.name, IF r.level = 0 THEN 1 ELSE r.level, <<owner, i, s>>, None)]

SlotsOf(owner, S, d) ==
  LET order == InOrder(S) IN FlattenSeq([k \in DOMAIN order |-> Slots(owner, order[k], d)])

\* What is left to register, grants of grants ahead of the next grant: an
\* element already registered by this operation keeps its node but brings
\* nothing; what it grants is judged as it is registered, before its grants are.
Todo(e, d) == [e |-> e, d |-> d]
Entering(e, d, rest, c) ==
  IF e \in c.new THEN [todo |-> rest, ctx |-> c]
  ELSE LET in == [c EXCEPT !.has = @ \cup {e}, !.new = @ \cup {e}]
           open == {i \in DOMAIN Rules[e] : Eligible(Rules[e][i], in)}
           kind(k) == {i \in open : Rules[e][i].kind = k}
           grants == InPlaces(Rules[e], kind("grant"))
       IN [todo |-> [k \in DOMAIN grants |-> Todo(grants[k].name, d)] \o rest,
           ctx |-> [in EXCEPT !.out = @ \o SlotsOf(e, kind("select"), d)]]
Adding(e, d, rest, c) ==
  IF Holds(Needs[e], c) THEN Entering(e, d + 1, rest, [c EXCEPT !.out = Append(@, ElementNode(d, e))])
  ELSE [todo |-> rest, ctx |-> c]
RegisterNext(m) == IF m.todo = << >> THEN m ELSE Adding(Head(m.todo).e, Head(m.todo).d, Tail(m.todo), m.ctx)

\* An element brings what it grants once: more steps than there are rules are
\* never needed.
AllRules == UNION {{<<e, i>> : i \in DOMAIN Rules[e]} : e \in Elem}
Registered(m) == Repeat(RegisterNext, m, Cardinality(AllRules) + 1).ctx
Register(e, d, c) == Registered(Entering(e, d, << >>, c))
AddChild(e, d, c) == Registered([todo |-> <<Todo(e, d)>>, ctx |-> c])

\* A walk over the tree: the context so far and the groups of new nodes, each
\* with the node it goes under and the ids it registers.
Grown(i, before, c) ==
  [at |-> i, nodes |-> SubSeq(c.out, Len(before.out) + 1, Len(c.out)), ids |-> c.new \ before.new]
NewGroup(g) == IF g.nodes = << >> THEN {} ELSE {g}
Visited(a, i, c) == [ctx |-> c, groups |-> a.groups \cup NewGroup(Grown(i, a.ctx, c))]

\* The grants of the registered elements at keep that have become eligible, in
\* tree order. Of the filled wrappers only a race's is read as an owner here.
PendingOwner(n) == IF n.id = None /\ n.name = "Race" THEN n.reg ELSE n.id
Released(r, d, c) ==
  IF r.kind = "grant" /\ r.name \notin c.has \cup c.new /\ Eligible(r, c) THEN AddChild(r.name, d, c) ELSE c
ReleasedUnder(t, i, start) ==
  FoldLeft(LAMBDA c, r : Released(r, t[i].d + 1, c), start, RulesOf(PendingOwner(t[i])))
PendingGrants(t, keep, start) ==
  FoldLeft(LAMBDA a, i : Visited(a, i, ReleasedUnder(t, i, a.ctx)),
           [ctx |-> start, groups |-> {}],
           InOrder({i \in keep : RulesOf(PendingOwner(t[i])) # << >>})).groups

IdsOf(groups) == UNION {g.ids : g \in groups}
\* Group by group, as the code appends them: an id two groups share counts twice.
AddAll(sum, groups) ==
  [x \in DOMAIN sum \cup IdsOf(groups) |-> (IF x \in DOMAIN sum THEN sum[x] ELSE 0) + Cardinality({g \in groups : x \in g.ids})]
=============================================================================
