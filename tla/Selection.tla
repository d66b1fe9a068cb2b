------------------------------ MODULE Selection ------------------------------
(* What a pick does to a character document: the state a pick or its removal *)
(* asks for, the edits that write it (selection/selection.ts), and the sweep *)
(* that settles the rules whose requirements have flipped                    *)
(* (selection/reconcile-rules.ts).                                           *)
(*                                                                           *)
(* A document is [tree, sum, on]: the elements tree, the sum and the switch. *)
EXTENDS Registration

----------------------------------------------------------------------------
(* The levels, read off the level nodes: a plain level belongs to the main   *)
(* class, a multiclass level names its class, and the level of a multiclass  *)
(* choice that has no answer yet belongs to none.                            *)

IsContainer(n) == Filled(n) /\ n.name \in {"Class", "Multiclass"}
MainClass(t) ==
  LET S == {i \in 1 .. Len(t) : t[i].name = "Class" /\ Filled(t[i])}
  IN IF S = {} THEN None ELSE t[Min(S)].reg

LevelOf(t) == Cardinality(Levels(t))

OpenChoice(t, i) == \E k \in Kids(t, i) : t[k].name = "Multiclass" /\ t[k].reg = None
LevelClass(t, i) == IF OpenChoice(t, i) THEN None ELSE IF t[i].name # None THEN t[i].name ELSE MainClass(t)
ClassLevel(t, class) == Cardinality({i \in Levels(t) : LevelClass(t, i) = class})

\* The history, of the levels at these positions, that are open and of these classes.
HistoryOf(t, at, open, class) ==
  [n \in DOMAIN at |->
    [total |-> n, class |-> class[n], multi |-> open[n] \/ t[at[n]].name # None, pending |-> open[n],
     level |-> IF open[n] THEN 0 ELSE Cardinality({m \in 1 .. n : ~open[m] /\ class[m] = class[n]}),
     start |-> IF t[at[n]].name # None THEN \E k \in Kids(t, at[n]) : t[k].name = "Multiclass" /\ Filled(t[k])
               ELSE n = 1 /\ ~open[n]]]
HistoryAt(t, at) ==
  HistoryOf(t, at, [n \in DOMAIN at |-> OpenChoice(t, at[n])], [n \in DOMAIN at |-> LevelClass(t, at[n])])
History(t) == HistoryAt(t, InOrder(Levels(t)))

\* The innermost class around a node, itself included; 0 when there is none.
ContainerOf(t, i) == Max({0} \cup {j \in 1 .. i : IsContainer(t[j]) /\ i \in Sub(t, j)})
LevelAt(t, i) ==
  IF ContainerOf(t, i) = 0 THEN LevelOf(t) ELSE ClassLevel(t, t[ContainerOf(t, i)].reg)

Now(doc) == Context(doc, {}, LevelOf(doc.tree))

----------------------------------------------------------------------------
(* Which elements a wrapper takes.                                           *)

RuleOf(w) == Rules[w.rule[1]][w.rule[2]]
Authored(w) == w.rule[1] \in Elem
Pool(w) == IF Authored(w) THEN RuleOf(w).pool ELSE BasePool[w.name]

\* An empty choice is judged as of the level that granted it, a filled one as of now.
GrantPoint(doc, w) ==
  LET t == doc.tree
      h == History(t)
      in == ContainerOf(t, Parent(t, w))
      reached == {n \in DOMAIN h : h[n].class = t[in].reg /\ h[n].level >= t[w].lvl}
      level == IF in = 0 THEN t[w].lvl ELSE IF reached = {} THEN 0 ELSE Min(reached)
  IN IF Filled(t[w]) \/ level < 1 \/ level >= LevelOf(t) THEN Now(doc) ELSE Context(doc, {}, level)

TakesPick(doc, w, pick, point) ==
  /\ pick \in Pool(doc.tree[w])
  /\ Holds(Needs[pick], point)
  /\ pick \in point.has => pick \in Duplicable
  /\ Authored(doc.tree[w]) => Eligible(RuleOf(doc.tree[w]), Now(doc))

----------------------------------------------------------------------------
(* Clearing a pick. The sum loses every id under the wrapper, then the       *)
(* children no grant of their owner holds any more go, until none is left.   *)

\* keep holds the positions that survive; the tree itself is left alone.
Pruning(b) ==
  LET t == b.tree
      c == Now(b)
      Granting(i) == SelectSeq(RulesOf(Holder(t[Parent(t, i)])),
                               LAMBDA r : r.kind = "grant" /\ r.name = Holder(t[i]))
      orphan(i) == /\ Parent(t, i) # 0 /\ Holder(t[i]) # None
                   /\ Granting(i) # << >>
                   /\ \A k \in DOMAIN Granting(i) : ~Eligible(Granting(i)[k], c)
      stale == IdsAt(t, Spread(t, {i \in b.keep : orphan(i)}) \cap b.keep)
  IN [b EXCEPT !.keep = @ \ Spread(t, {i \in @ : Holder(t[i]) \in stale}),
               !.sum = Drop(@, stale), !.done = stale = {}]
PrunePass(b) == IF b.done THEN b ELSE Pruning(b)
Pruned(b) == Repeat(PrunePass, b, Len(b.tree) + 1)

WithKeep(doc, keep) == [tree |-> doc.tree, sum |-> doc.sum, on |-> doc.on, keep |-> keep, done |-> FALSE]
Cleared(doc, w) ==
  LET t == doc.tree
      b == WithKeep(doc, DOMAIN t \ (Sub(t, w) \ {w}))
  IN Pruned([b EXCEPT !.tree[w].reg = None, !.sum = Drop(@, Shown(t, {w}))])

\* The state a pick starts from: a filled wrapper is cleared first.
Base(doc, w) == IF Filled(doc.tree[w]) THEN Cleared(doc, w) ELSE WithKeep(doc, DOMAIN doc.tree)

CanSelect(doc, w, pick) ==
  LET b == Base(doc, w)
  IN doc.tree[w].lvl <= LevelOf(doc.tree) /\ TakesPick(b, w, pick, GrantPoint(b, w))

----------------------------------------------------------------------------
(* The state a pick asks for: its content, the pending grants it releases,   *)
(* the sum. It registers at today's level, wherever the wrapper stands.      *)

Holding(b, own, groups) ==
  [keep |-> b.keep, content |-> own.out, groups |-> groups,
   sum |-> AddAll(b.sum (+) SetToBag(own.new), groups)]
Releasing(b, own) == Holding(b, own, PendingGrants(b.tree, b.keep, own))
Desired(b, d, pick) ==
  Releasing(b, IF Holds(Needs[pick], Now(b)) THEN Register(pick, d + 1, Now(b)) ELSE Now(b))
\* Clearing asks for the base state alone.
Bare(b) == [keep |-> b.keep, content |-> << >>, groups |-> {}, sum |-> b.sum]

Asked(doc, w, pick) ==
  IF pick = None THEN Bare(Cleared(doc, w)) ELSE Desired(Base(doc, w), doc.tree[w].d, pick)

Groups(t, w, want) ==
  {AtEnd(t, g.at, g.nodes) : g \in want.groups}
    \cup {[after |-> w, d |-> t[w].d + 1, nodes |-> want.content]}

\* The edits that write it. The wrapper is replaced; a node elsewhere whose id
\* has left the sum is cut out; a group goes to the end of its parent, unless
\* the parent lost a child or shows the same element already, and is written
\* anew from the desired state.
StaleNodesKept(doc, w, want) == {}
StaleNodes(doc, w, want) ==
  LET gone == BagToSet(doc.sum) \ BagToSet(want.sum)
  IN Outermost(doc.tree, {j \in DOMAIN doc.tree \ Sub(doc.tree, w) : Holder(doc.tree[j]) \in gone})

WrittenAnew(doc, w, want) ==
  LET t == doc.tree
      Shows(p, ids) == \E k \in Kids(t, p) : t[k].id \in ids \ {None}
  IN {g \in want.groups :
        \/ \E j \in StaleNodes(doc, w, want) : j \in Sub(t, g.at)
        \/ Shows(g.at, {g.nodes[k].id : k \in {n \in DOMAIN g.nodes : g.nodes[n].d = t[g.at].d + 1}})}

Edits(doc, w, pick, want) ==
  LET t == [doc.tree EXCEPT ![w].reg = pick]
      parents == {g.at : g \in want.groups}
      inside == (Sub(t, w) \ {w})
                  \cup UNION {Sub(t, g.at) \ want.keep : g \in WrittenAnew(doc, w, want)}
      stale == StaleNodes(doc, w, want) \ Spread(t, parents)
  IN [doc EXCEPT !.tree = Graft(t, inside \cup stale, Groups(t, w, want)),
                 !.sum = want.sum]
PlanSelection(doc, w, pick) == Edits(doc, w, pick, Asked(doc, w, pick))

----------------------------------------------------------------------------
(* The sweep. In scope are the rules that name no level and have a           *)
(* requirement or a switch; a rule is not switched off for want of a level.  *)

Reconcilable(r) == r.level = 0 /\ (r.req # Always \/ r.switched)
Lapsed(r, c) == ~Eligible(r, c) /\ ((r.switched /\ ~c.on) \/ ~Holds(r.req, [c EXCEPT !.lvl = 99]))

\* The nodes whose element has such a rule.
InScope(t) ==
  {i \in DOMAIN t : \E n \in DOMAIN RulesOf(Holder(t[i])) : Reconcilable(Rules[Holder(t[i])][n])}

At(doc, i) == Context(doc, {}, LevelAt(doc.tree, i))

\* What an owner's grants still hold up, whichever rule says so.
HeldTargets(owner, c) ==
  {Rules[owner][k].name : k \in {n \in DOMAIN RulesOf(owner) :
     LET r == Rules[owner][n] IN r.kind = "grant" /\ r.level = 0 /\ Eligible(r, c)}}

RemovedUnder(t, i, c) ==
  LET rules == Rules[Holder(t[i])]
      off == {n \in DOMAIN rules : Reconcilable(rules[n]) /\ Lapsed(rules[n], c)}
      lost == {rules[n].name : n \in {m \in off : rules[m].kind = "grant"}} \ HeldTargets(Holder(t[i]), c)
  IN {j \in Kids(t, i) : t[j].kind = "wrapper" /\ \E n \in off : rules[n].kind = "select"
                          /\ SubSeq(t[j].rule, 1, 2) = <<Holder(t[i]), n>>}
     \cup {j \in Kids(t, i) : t[j].id \in lost /\ \A k \in Kids(t, i) : t[k].id = t[j].id => j <= k}
Removals(doc) == Outermost(doc.tree, UNION {RemovedUnder(doc.tree, i, At(doc, i)) : i \in InScope(doc.tree)})

\* The element that already offers a choice of this name and level.
Claimant(t, name, level) ==
  LET S == {i \in DOMAIN t : \E k \in Kids(t, i) : t[k].kind = "wrapper" /\ t[k].name = name /\ t[k].lvl = level}
  IN IF S = {} THEN None ELSE Holder(t[Min(S)])

Missing(t, i, n) ==
  LET slots == Slots(Holder(t[i]), n, t[i].d + 1)
  IN InPlaces(slots, {m \in DOMAIN slots : /\ \A k \in Kids(t, i) : t[k].rule # slots[m].rule
                                          /\ Claimant(t, slots[m].name, slots[m].lvl) \in {None, Holder(t[i])}})

\* Rule n of the node at i, switched on where it holds and is not there yet.
SwitchedOn(t, i, c, n) ==
  LET r == Rules[Holder(t[i])][n]
  IN IF ~Reconcilable(r) \/ ~Eligible(r, c) THEN c
     ELSE IF r.kind = "select" THEN [c EXCEPT !.out = @ \o Missing(t, i, n)]
     ELSE IF r.name \in c.has \cup c.new \/ \E k \in Kids(t, i) : t[k].id = r.name THEN c
     ELSE AddChild(r.name, t[i].d + 1, c)

SwitchedUnder(t, i, start) ==
  FoldLeft(LAMBDA c, n : SwitchedOn(t, i, c, n), start, InOrder(DOMAIN RulesOf(Holder(t[i]))))

\* One context per level: what a class's level registers, another's does not see.
VisitedAt(a, i, l, c) ==
  [ctx |-> [a.ctx EXCEPT ![l] = c], groups |-> a.groups \cup NewGroup(Grown(i, a.ctx[l], c))]
Additions(doc, gone) ==
  LET t == doc.tree
      stale == Shown(t, gone)
      start == [l \in 0 .. LevelOf(t) |->
                 LET c == Context(doc, {}, l) IN [c EXCEPT !.has = @ \ stale]]
  IN FoldLeft(LAMBDA a, i : VisitedAt(a, i, LevelAt(t, i), SwitchedUnder(t, i, a.ctx[LevelAt(t, i)])),
              [ctx |-> start, groups |-> {}], InOrder(InScope(t) \ Spread(t, gone))).groups

\* What a sweep flipped, for the repeat check.
Flips(t, gone, added) ==
  {<<"off", Holder(t[Parent(t, j)]), t[j].rule, t[j].id>> : j \in gone}
    \cup UNION {{<<"on", Holder(t[g.at]), g.nodes[k].rule, g.nodes[k].id>> : k \in DOMAIN g.nodes} : g \in added}

Sweep(doc, gone, added) ==
  LET t == doc.tree
  IN [doc EXCEPT !.tree = Graft(t, gone, {AtEnd(t, g.at, g.nodes) : g \in added}),
                 !.sum = AddAll(Drop(@, Shown(t, gone)), added)]

\* The sweep runs until it changes nothing, repeats itself or has run 8 times.
Settling(s, gone, added) ==
  LET flips == Flips(s.doc.tree, gone, added)
  IN IF (gone = {} /\ added = {}) \/ flips \in s.seen THEN [s EXCEPT !.done = TRUE]
     ELSE [s EXCEPT !.doc = Sweep(@, gone, added), !.seen = @ \cup {flips}]
SettlingWithout(s, gone) == Settling(s, gone, Additions(s.doc, gone))
SettlePass(s) == IF s.done THEN s ELSE SettlingWithout(s, Removals(s.doc))
Settle(doc) == Repeat(SettlePass, [doc |-> doc, seen |-> {}, done |-> FALSE], MAX_RULE_RECONCILE_PASSES).doc
Settled(doc) == Removals(doc) = {} /\ Additions(doc, {}) = {}
=============================================================================
