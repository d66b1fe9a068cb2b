------------------------------ MODULE Leveling ------------------------------
(* Gaining and losing levels (progression/leveling.ts): the content one class *)
(* level adds, the level-gated rules of elements registered earlier, the     *)
(* record a level leaves behind, and the removal of the newest level by that *)
(* record.                                                                   *)
(*                                                                           *)
(* An operation on a document yields [ok, doc, rec]: ok is FALSE where the   *)
(* code throws "internal", for a record that no longer fits the tree, and    *)
(* where overlapping edits leave a text that does not parse.                 *)
EXTENDS Selection

CONSTANTS
  MAX_LEVEL,   \* 20 in the code
  Variant,     \* the multiclass variant of each class that has one
  LevelId,     \* the id of level n
  StartId,     \* the id of the grants a multiclass start at level n brings
  OPTION_MULTICLASSING,
  PREREQUISITE \* the grant by which a class asks for its multiclass prerequisites

ASSUME LevelingAssumption ==
  /\ MAX_LEVEL \in Nat \ {0}
  /\ DOMAIN LevelId = 1 .. MAX_LEVEL /\ DOMAIN StartId = 1 .. MAX_LEVEL
  /\ OPTION_MULTICLASSING \in Elem

Classes == DOMAIN Variant
ClassOf(m) == CHOOSE c \in Classes : Variant[c] = m
IsVariant(m) == \E c \in Classes : Variant[c] = m

LevelNode(n, class) ==
  [d |-> 1, kind |-> "level", id |-> LevelId[n], name |-> class, lvl |-> 0, rule |-> << >>, reg |-> None]
LastLevel(t) == Max(Levels(t))

\* The wrapper a class's content goes to: the main class's, or that of one variant.
Container(t, class) ==
  LET S == {i \in DOMAIN t : IsContainer(t[i]) /\ t[i].reg = class} IN IF S = {} THEN 0 ELSE Min(S)

\* Where a node stands, as child positions from the root; paths are what a record keeps.
Path(t, i) ==
  [k \in 1 .. t[i].d |->
    LET at == Max({j \in 1 .. i : t[j].d = k}) IN Cardinality({j \in Kids(t, Parent(t, at)) : j <= at})]
NodeAt(t, path) == LET S == {i \in DOMAIN t : Path(t, i) = path} IN IF S = {} THEN 0 ELSE Min(S)

Top(nodes) == InPlaces(nodes, {k \in DOMAIN nodes : nodes[k].d = nodes[1].d})

----------------------------------------------------------------------------
(* One class level's content. A multiclass start takes the class's level-1   *)
(* rules and the variant's own block, and then the class's grants once more, *)
(* for the requirements the block has met; the prerequisite is not granted.  *)

OfKind(owner, k) == {i \in DOMAIN RulesOf(owner) : RulesOf(owner)[i].kind = k}
GrantsOf(owner, S) == InPlaces(RulesOf(owner), OfKind(owner, "grant") \cap S)
GrantAll(b, grants, d) ==
  FoldLeft(LAMBDA a, r : IF ~Holds(r.req, a) \/ r.name \in a.new THEN a ELSE AddChild(r.name, d, a), b, grants)

ApplyClassLevel(doc, class, level, variant, d) ==
  LET c == Context(doc, {variant} \ {None}, level)
      atLevel == {i \in DOMAIN RulesOf(class) :
                    level = IF RulesOf(class)[i].level = 0 THEN 1 ELSE RulesOf(class)[i].level}
      now == {i \in atLevel : Holds(RulesOf(class)[i].req, c)}
      held == {i \in DOMAIN RulesOf(variant) : Holds(RulesOf(variant)[i].req, c)}
      starting == variant # None /\ level = 1
      block == IF starting THEN SlotsOf(variant, OfKind(variant, "select") \cap held, d) ELSE << >>
      wrapped == [c EXCEPT !.out = SlotsOf(class, OfKind(class, "select") \cap now, d) \o block]
      again == GrantsOf(class, {i \in atLevel : RulesOf(class)[i].name # PREREQUISITE})
      grants == IF starting THEN again \o GrantsOf(variant, held) \o again ELSE GrantsOf(class, now)
  IN GrantAll(wrapped, grants, d)

----------------------------------------------------------------------------
(* The level-gated rules of elements that were registered before. Inside the *)
(* levelled class "level" is the class level, outside every class it is the  *)
(* character level.                                                          *)

InClass(t, i) == \E j \in 1 .. i : t[j].kind = "wrapper" /\ t[j].name \in {"Class", "Multiclass"} /\ i \in Sub(t, j)

\* Wrappers go among the wrappers, by level; grants alone go to the end.
SplicePoint(t, i, match, spawns) ==
  LET higher == {k \in Kids(t, i) : t[k].kind = "wrapper" /\ t[k].lvl >= match}
      plain == {k \in Kids(t, i) : t[k].kind # "wrapper"}
  IN IF ~spawns \/ higher \cup plain = {} THEN End(t, i)
     ELSE Min(IF higher # {} THEN higher ELSE plain) - 1

NestedSlots(t, i, match, c, n) ==
  LET r == RulesOf(Holder(t[i]))[n]
  IN IF r.kind = "select" /\ r.level = match /\ Holds(r.req, c)
     THEN LET slots == Slots(Holder(t[i]), n, t[i].d + 1)
          IN [c EXCEPT !.out = @ \o InPlaces(slots, {m \in DOMAIN slots : \A k \in Kids(t, i) : t[k].rule # slots[m].rule})]
     ELSE c
NestedGrant(t, i, match, c, n) ==
  LET r == RulesOf(Holder(t[i]))[n]
  IN IF /\ r.kind = "grant" /\ r.level = match /\ Eligible(r, c)
        /\ r.name \notin c.new \cup c.has
        /\ \A k \in Kids(t, i) : t[k].id # r.name
     THEN AddChild(r.name, t[i].d + 1, c) ELSE c

PutAt(g, after, d) == [at |-> g.at, nodes |-> g.nodes, ids |-> g.ids, after |-> after, d |-> d]

\* The choices of a node first, then its grants.
NestedVisited(t, a, i, match, spawned, c) ==
  LET g == Grown(i, a.ctx, c)
  IN [ctx |-> c,
      groups |-> a.groups \o IF g.nodes = << >> THEN << >>
                 ELSE << PutAt(g, SplicePoint(t, i, match, spawned.out # a.ctx.out), t[i].d + 1) >>]
NestedVisit(t, a, i, match, rules, spawned) ==
  NestedVisited(t, a, i, match, spawned,
                FoldLeft(LAMBDA c, n : NestedGrant(t, i, match, c, n), spawned, rules))
NestedFrom(t, a, i, match, rules) ==
  NestedVisit(t, a, i, match, rules, FoldLeft(LAMBDA c, n : NestedSlots(t, i, match, c, n), a.ctx, rules))
NestedIn(t, S, match, start, fresh) ==
  FoldLeft(LAMBDA a, i : NestedFrom(t, a, i, match,
             InOrder(IF Holder(t[i]) \in fresh THEN {} ELSE DOMAIN RulesOf(Holder(t[i])))),
           [ctx |-> start, groups |-> << >>], InOrder(S)).groups

\* container is 0 for the level of an open multiclass choice.
NestedRules(doc, fresh, container, class, classLevel, total) ==
  LET t == doc.tree
      extra == fresh \cup (IF IsVariant(class) THEN {class} ELSE {})
      gated == {i \in DOMAIN t : \E n \in DOMAIN RulesOf(Holder(t[i])) : RulesOf(Holder(t[i]))[n].level = total}
  IN (IF container = 0 THEN << >>
      ELSE NestedIn(t, Sub(t, container) \ {container}, classLevel, Context(doc, extra, classLevel), fresh))
     \o NestedIn(t, {i \in gated : ~InClass(t, i)}, total, Context(doc, extra, total), fresh)

\* The recorded form: the parent's path as it will be once the level's own
\* node stands after the last level, the position, the nodes.
Recorded(t, g) ==
  LET path == Path(t, g.at)
      levels == Cardinality({i \in Kids(t, 0) : i <= LastLevel(t)})
  IN [path |-> IF path[1] > levels THEN [path EXCEPT ![1] = @ + 1] ELSE path,
      index |-> Cardinality({k \in Kids(t, g.at) : k <= g.after}) + 1,
      nodes |-> Top(g.nodes)]

Record(total, class, level, multi, start, ids, nodes, nested) ==
  [total |-> total, class |-> class, level |-> level, multi |-> multi, start |-> start,
   ids |-> ids, nodes |-> nodes, nested |-> nested]

----------------------------------------------------------------------------
(* Gaining a level. The level's node follows the last level, its content     *)
(* goes to the end of the class's wrapper.                                   *)

CanGain(doc, class) ==
  /\ LevelOf(doc.tree) < MAX_LEVEL
  /\ class # None /\ Container(doc.tree, class) # 0
  /\ Kids(doc.tree, Container(doc.tree, class)) # {}

LevelContent(doc, class) ==
  ApplyClassLevel(doc, IF IsVariant(class) THEN ClassOf(class) ELSE class, ClassLevel(doc.tree, class) + 1,
                  IF IsVariant(class) THEN class ELSE None, doc.tree[Container(doc.tree, class)].d + 1)

LevelWritten(doc, class, own, nested) ==
  LET t == doc.tree
      total == LevelOf(t) + 1
      multi == IsVariant(class)
      ids == {LevelId[total]} \cup own.new
      last == [after |-> End(t, LastLevel(t)), d |-> 1, nodes |-> <<LevelNode(total, IF multi THEN class ELSE None)>>]
  IN [ok |-> TRUE,
      doc |-> [doc EXCEPT !.tree = Graft(t, {}, {last, AtEnd(t, Container(t, class), own.out)} \cup Range(nested)),
                          !.sum = AddAll(@ (+) SetToBag(ids), Range(nested))],
      rec |-> Record(total, class, ClassLevel(t, class) + 1, multi, FALSE, ids,
                     IF own.out = << >> THEN << >> ELSE Top(own.out),
                     [k \in DOMAIN nested |-> Recorded(t, nested[k])])]
LevelWith(doc, class, own) ==
  LevelWritten(doc, class, own,
               NestedRules(doc, own.new, Container(doc.tree, class), class,
                           ClassLevel(doc.tree, class) + 1, LevelOf(doc.tree) + 1))
GainLevel(doc, class) == LevelWith(doc, class, LevelContent(doc, class))

----------------------------------------------------------------------------
(* A multiclass level starts as an open choice; answering it writes the      *)
(* level's node anew, with the class's content under the choice.             *)

MeetsOwnPrerequisite(doc) ==
  LET main == MainClass(doc.tree) IN main \in Classes => Holds(Needs[Variant[main]], Now(doc))

CanOpenMulticlass(doc) ==
  LET h == History(doc.tree)
  IN /\ OPTION_MULTICLASSING \in BagToSet(doc.sum)
     /\ LevelOf(doc.tree) < MAX_LEVEL
     /\ \A n \in DOMAIN h : ~h[n].pending
     /\ MainClass(doc.tree) # None
     /\ MeetsOwnPrerequisite(doc)

ChoiceNodes(n, class) ==
  <<LevelNode(n, class), WrapperNode(2, "Multiclass", n, <<LevelId[n], 1, 1>>, class)>>

OpenWritten(doc, nested) ==
  LET t == doc.tree
      total == LevelOf(t) + 1
      added == [after |-> End(t, LastLevel(t)), d |-> 1,
                nodes |-> ChoiceNodes(total, None) \o <<ElementNode(2, StartId[total])>>]
      ids == {LevelId[total], StartId[total]}
  IN [ok |-> TRUE,
      doc |-> [doc EXCEPT !.tree = Graft(t, {}, {added} \cup Range(nested)),
                          !.sum = AddAll(@ (+) SetToBag(ids), Range(nested))],
      rec |-> Record(total, None, 0, TRUE, FALSE, ids, << >>, [k \in DOMAIN nested |-> Recorded(t, nested[k])])]
OpenMulticlass(doc) == OpenWritten(doc, NestedRules(doc, {}, 0, None, 0, LevelOf(doc.tree) + 1))

CanStartMulticlass(doc, m) ==
  LET h == History(doc.tree)
  IN /\ OPTION_MULTICLASSING \in BagToSet(doc.sum)
     /\ LevelOf(doc.tree) > 1
     /\ IsVariant(m) /\ Holds(Needs[m], Now(doc)) /\ MeetsOwnPrerequisite(doc)
     /\ \A n \in DOMAIN h : h[n].class # m

\* The record says nothing of the nested rules the open choice's level applied.
\* A start that brings nothing is written without an end, and does not parse.
StartWritten(doc, m, own) ==
  LET t == doc.tree
      total == LevelOf(t)
      last == LastLevel(t)
      ids == {m} \cup own.new
      before == IF StartId[total] \in Shown(t, {last}) THEN {} ELSE {StartId[total]}
      written == ChoiceNodes(total, m) \o own.out \o <<ElementNode(2, StartId[total])>>
  IN [ok |-> own.out # << >>,
      doc |-> [doc EXCEPT !.tree = Graft(t, {last}, {[after |-> last, d |-> 1, nodes |-> written]}),
                          !.sum = @ (+) SetToBag(ids \cup before)],
      rec |-> Record(total, m, 1, TRUE, TRUE, ids \cup {StartId[total]},
                     Top(own.out), << >>)]
StartMulticlass(doc, m) == StartWritten(doc, m, ApplyClassLevel(doc, ClassOf(m), 1, m, 3))

----------------------------------------------------------------------------
(* Losing the newest level, by its record.                                   *)

Matches(rec, entry) ==
  /\ rec.total = entry.total /\ rec.class = entry.class /\ rec.level = entry.level
  /\ rec.multi = entry.multi /\ rec.start = entry.start

CanLevelDown(doc, recs) ==
  /\ LevelOf(doc.tree) > 1 /\ recs # << >>
  /\ Matches(Last(recs), Last(History(doc.tree)))

SameNode(x, n) == x.kind = n.kind /\ x.id = n.id /\ x.rule = n.rule

\* What the sweep may have added under a class since a level filled it.
ReconciledNever(class, n) == FALSE
Reconciled(class, n) ==
  \E k \in DOMAIN RulesOf(class) :
    LET r == RulesOf(class)[k]
    IN r.level = 0 /\ r.req # Always /\ r.name = (IF n.id # None THEN n.id ELSE n.name)

\* The positions of the expected nodes among kids, from the last;
\* 0 is among them when something else stands between.
LocateAt(t, class, a, i) ==
  IF a.left = << >> THEN a
  ELSE IF SameNode(Last(a.left), t[i]) THEN [found |-> a.found \cup {i}, left |-> Front(a.left)]
  ELSE IF Reconciled(class, t[i]) THEN a
  ELSE [found |-> a.found \cup {0}, left |-> << >>]
Locate(t, kids, expected, class) ==
  LET end == FoldLeft(LAMBDA a, i : LocateAt(t, class, a, i), [found |-> {}, left |-> expected], Reverse(kids))
  IN IF end.left = << >> THEN end.found ELSE end.found \cup {0}

\* A nested group is a run of children, of the recorded parent or else of the
\* first that has such a run: at the recorded place, or else at its first.
RunAt(t, i, nodes, from) ==
  LET kids == InOrder(Kids(t, i))
  IN /\ from + Len(nodes) - 1 <= Len(kids)
     /\ \A k \in DOMAIN nodes : SameNode(nodes[k], t[kids[from + k - 1]])
Runs(t, i, g) == {from \in 1 .. Cardinality(Kids(t, i)) : RunAt(t, i, g.nodes, from)}
RunFrom(t, i, g, runs) ==
  LET from == IF g.index \in runs THEN g.index ELSE Min(runs)
  IN [at |-> i, nodes |-> {InOrder(Kids(t, i))[from + k - 1] : k \in DOMAIN g.nodes}]
RunIn(t, i, g) == RunFrom(t, i, g, Runs(t, i, g))
RunAmong(t, g, parents, recorded) ==
  IF parents = {} THEN [at |-> 0, nodes |-> {0}]
  ELSE RunIn(t, IF recorded \in parents THEN recorded ELSE Min(parents), g)
Resolve(t, g) == RunAmong(t, g, {i \in DOMAIN t : Runs(t, i, g) # {}}, NodeAt(t, g.path))

\* Groups inside what goes away already are passed over.
WithRun(t, gone, r) == IF r.at \in Spread(t, gone \ {0}) THEN gone ELSE gone \cup r.nodes
NestedNodesLeft(t, gone, nested) == gone
NestedNodes(t, gone, nested) ==
  FoldLeft(LAMBDA a, g : WithRun(t, a, Resolve(t, g)), gone, nested)

\* Choices that need a level above this one: they lose their answer.
WrappersFarAbove(t, level) == {i \in DOMAIN t : Filled(t[i]) /\ t[i].lvl > level + 1}
WrappersAbove(t, level) == {i \in DOMAIN t : Filled(t[i]) /\ t[i].lvl > level}

\* Where the level's own content stands.
OwnNodes(t, rec) ==
  LET kids == InOrder(Kids(t, Container(t, rec.class)))
  IN IF (rec.multi /\ rec.start) \/ Last(History(t)).pending THEN {LastLevel(t)}
     ELSE Locate(t, kids, rec.nodes, rec.class)

\* Grants that were pending outside what goes, where every level has its record.
Outstanding(doc, recs, found) ==
  IF /\ Len(recs) = LevelOf(doc.tree) - 1
     /\ \A n \in DOMAIN recs : recs[n].total = n + 1
  THEN {g \in PendingGrants(doc.tree, DOMAIN doc.tree, Now(doc)) : g.at \notin Spread(doc.tree, found)}
  ELSE {}

Removed(doc, rec, found, groups) ==
  LET t == doc.tree
      gone == found \cup {LastLevel(t)}
      added == {AtEnd(t, g.at, g.nodes) : g \in groups}
      above == WrappersAbove(t, LevelOf(t) - 1)
      opened == above \ Spread(t, found)
      ids == rec.ids \cup Shown(t, gone) \cup Shown(t, above)
      emptied == [i \in DOMAIN t |-> IF i \in opened THEN [t[i] EXCEPT !.reg = None] ELSE t[i]]
  IN [ok |-> TRUE, rec |-> rec,
      doc |-> [doc EXCEPT !.tree = Graft(emptied, gone \cup (Spread(t, opened) \ opened), added),
                          !.sum = AddAll(Drop(@, ids), groups)],
      before |-> [doc EXCEPT !.tree = Graft(t, {}, added), !.sum = AddAll(@, groups)]]
\* Of two choices to empty, one inside the other, the edits overlap.
Overlapping(t, found) ==
  LET opened == WrappersAbove(t, LevelOf(t) - 1) \ Spread(t, found)
  IN \E i \in opened : (Sub(t, i) \ {i}) \cap opened # {}
DelevelWithout(doc, recs, found) ==
  IF 0 \in found \/ Overlapping(doc.tree, found) THEN [ok |-> FALSE, doc |-> doc, rec |-> Last(recs), before |-> doc]
  ELSE Removed(doc, Last(recs), found, Outstanding(doc, recs, found))
Delevel(doc, recs) ==
  DelevelWithout(doc, recs, NestedNodes(doc.tree, OwnNodes(doc.tree, Last(recs)), Last(recs).nested))
=============================================================================
