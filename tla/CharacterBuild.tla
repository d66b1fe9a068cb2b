--------------------------- MODULE CharacterBuild ---------------------------
(* One character as the character service keeps it between requests          *)
(* (character/service.ts): the document, one registration record per level   *)
(* gained, and the document before the last level that was taken back. Each  *)
(* request runs to its end before the next; one that throws changes nothing. *)
EXTENDS Leveling

CONSTANTS
  OptionIds,   \* optional rules a user may switch on and off
  Grantable,   \* elements a user may grant outright
  Starts,      \* [tree, recs] of characters as they are created, or opened from a file
  MaxRequests  \* bound: requests made to the character

VARIABLES
  doc,
  levelRegistrations,
  delevelSnapshot,  \* [doc, recs, gone], or None: what undo puts back
  requests

vars == <<doc, levelRegistrations, delevelSnapshot, requests>>

NoSnapshot == [doc |-> None]
Snapshot(before, n) == [doc |-> before, recs |-> levelRegistrations, gone |-> n]

Ready == requests < MaxRequests
Counted == requests' = requests + 1

Init ==
  /\ \E s \in Starts :
       /\ doc = [tree |-> s.tree, sum |-> SetToBag(Shown(s.tree, DOMAIN s.tree)), on |-> FALSE]
       /\ levelRegistrations = s.recs
  /\ delevelSnapshot = NoSnapshot
  /\ requests = 0

Wrappers == {w \in DOMAIN doc.tree : doc.tree[w].kind = "wrapper"}
PendingLevel == Last(History(doc.tree)).pending

\* A request that edits the document and leaves the levels alone.
Edit(next) ==
  /\ Counted
  /\ doc' = Settle(next)
  /\ UNCHANGED <<levelRegistrations, delevelSnapshot>>

----------------------------------------------------------------------------
(* What the service is given. An id of the library is no level's, and its    *)
(* rules speak of its elements. A character it starts from is a tree of      *)
(* nodes whose answers are at levels it has, and its records are of content. *)

LevelIds == Range(LevelId)
LibrarySorted ==
  /\ IsFiniteSet(Elem)
  /\ None \notin LevelIds /\ Elem \cap LevelIds = {} /\ Range(StartId) \cap LevelIds = {}
  /\ \A e \in Elem :
       /\ Len(Rules[e]) \in Nat /\ DOMAIN Rules[e] = 1 .. Len(Rules[e])
       /\ \A n \in DOMAIN Rules[e] :
            LET r == Rules[e][n]
            IN /\ r.kind \in {"select", "grant"} /\ r.level \in Nat /\ r.number \in Nat
               /\ r.pool \subseteq Elem /\ (r.kind = "grant" => r.name \in Elem)
  /\ BasePool["Multiclass"] \subseteq Elem
  /\ \A c \in Classes : Variant[c] \in Elem
  /\ Grantable \subseteq Elem /\ OptionIds \subseteq Elem

\* Level nodes stand at the top, and no other node names a level; a wrapper takes
\* elements.
IsNode(n) ==
  /\ n = [d |-> n.d, kind |-> n.kind, id |-> n.id, name |-> n.name, lvl |-> n.lvl, rule |-> n.rule, reg |-> n.reg]
  /\ n.d \in Nat /\ n.d >= 1 /\ n.lvl \in Nat
  /\ n.kind = "level" => n.d = 1 /\ n.reg = None /\ n.id \in LevelIds
  /\ n.kind # "level" => n.id \notin LevelIds /\ n.reg \notin LevelIds
  /\ n.kind = "wrapper" => Pool(n) \subseteq Elem

\* Every answered choice is one of a level up to n.
EarnedBy(t, n) == \A i \in DOMAIN t : Filled(t[i]) => t[i].lvl <= n

IsRun(s) == Len(s) \in Nat /\ DOMAIN s = 1 .. Len(s)
ProperRecord(r) ==
  /\ r = Record(r.total, r.class, r.level, r.multi, r.start, r.ids, r.nodes, r.nested)
  /\ r.nodes \in Seq(Range(r.nodes)) /\ \A k \in DOMAIN r.nodes : r.nodes[k].kind # "level"
  /\ IsRun(r.nested) /\ \A k \in DOMAIN r.nested : IsRun(r.nested[k].nodes)
StartsProper ==
  \A s \in Starts :
    /\ s.tree \in Seq(Range(s.tree)) /\ \A i \in DOMAIN s.tree : IsNode(s.tree[i])
    /\ EarnedBy(s.tree, LevelOf(s.tree)) /\ LevelOf(s.tree) <= MAX_LEVEL
    /\ s.recs \in Seq(Range(s.recs)) /\ \A k \in DOMAIN s.recs : ProperRecord(s.recs[k])

ASSUME CharacterAssumption == LibrarySorted /\ StartsProper

----------------------------------------------------------------------------
(* Choices.                                                                  *)

SetSelection ==
  /\ Ready
  /\ \E w \in Wrappers : \E pick \in Pool(doc.tree[w]) :
       /\ doc.tree[w].name # "Multiclass"
       /\ CanSelect(doc, w, pick)
       /\ Edit(PlanSelection(doc, w, pick))

ClearSelection ==
  /\ Ready
  /\ \E w \in Wrappers :
       /\ Filled(doc.tree[w]) /\ doc.tree[w].name # "Multiclass"
       /\ Edit(PlanSelection(doc, w, None))

SetCharacterOption ==
  /\ Ready
  /\ \E o \in OptionIds :
       LET t == doc.tree
           at == {i \in DOMAIN t : t[i].kind = "option"}
           node == [ElementNode(1, o) EXCEPT !.kind = "option"]
       IN Edit(IF \E i \in at : t[i].id = o
               THEN [doc EXCEPT !.tree = Graft(t, {i \in at : t[i].id = o}, {}), !.sum = Drop(@, {o})]
               ELSE [doc EXCEPT !.tree = Graft(t, {}, {[after |-> Max(at \cup {0}), d |-> 1, nodes |-> <<node>>]}),
                                !.sum = @ (+) SetToBag({o})])

\* A granted element stands at the top level with all it registers; an element
\* that is registered already is granted only where duplicates are allowed.
AddGrantedElement ==
  /\ Ready
  /\ \E e \in Grantable :
       LET own == IF Holds(Needs[e], Now(doc)) THEN Register(e, 2, Now(doc)) ELSE Now(doc)
       IN /\ e \in BagToSet(doc.sum) => e \in Duplicable
          /\ Edit([doc EXCEPT !.tree = @ \o <<ElementNode(1, e)>> \o own.out,
                              !.sum = @ (+) SetToBag(own.new \cup {e})])

\* Each id it registered leaves the sum once, not every copy.
RemoveGrantedElement ==
  /\ Ready
  /\ \E e \in Grantable :
       LET at == {i \in Kids(doc.tree, 0) : doc.tree[i].id = e}
       IN /\ at # {}
          /\ Edit([doc EXCEPT !.tree = Graft(@, {Min(at)}, {}), !.sum = @ (-) SetToBag(Shown(doc.tree, {Min(at)}))])

SetResourceSwitch == Ready /\ Edit([doc EXCEPT !.on = ~@])

----------------------------------------------------------------------------
(* Levels. A step takes a document and its records to the next ones.         *)

At2(d, recs) == [ok |-> TRUE, doc |-> d, recs |-> recs]
Failed(s) == [s EXCEPT !.ok = FALSE]
Gained(s, r) == At2(Settle(r.doc), Append(s.recs, r.rec))
\* The answered choice's record takes the place of the open one's.
Answered(s, r) ==
  IF r.ok THEN At2(Settle(r.doc), Append(Front(s.recs), [r.rec EXCEPT !.ids = @ \cup Last(s.recs).ids]))
  ELSE Failed(s)
LoweredKeepingRecord(s, r) == IF r.ok THEN At2(Settle(r.doc), s.recs) ELSE Failed(s)
Lowered(s, r) == IF r.ok THEN At2(Settle(r.doc), Front(s.recs)) ELSE Failed(s)
LoweredBy(s) ==
  IF CanLevelDown(s.doc, s.recs) THEN Lowered(s, Delevel(s.doc, s.recs)) ELSE Failed(s)

State == At2(doc, levelRegistrations)

Becomes(s) ==
  /\ Counted
  /\ doc' = s.doc
  /\ levelRegistrations' = s.recs

Accepted(s) == s.ok /\ Becomes(s)

GainedBy(s, class) ==
  IF CanGain(s.doc, class) THEN Gained(s, GainLevel(s.doc, class)) ELSE Failed(s)
OpenedBy(s) == IF CanOpenMulticlass(s.doc) THEN Gained(s, OpenMulticlass(s.doc)) ELSE Failed(s)
AnsweredBy(s, m) ==
  IF CanStartMulticlass(s.doc, m) THEN Answered(s, StartMulticlass(s.doc, m)) ELSE Failed(s)

LevelUp ==
  LET class == MainClass(doc.tree)
  IN /\ Ready /\ CanGain(doc, class)
     /\ Becomes(Gained(State, GainLevel(doc, class)))
     /\ UNCHANGED delevelSnapshot

LevelUpMulticlass ==
  /\ Ready
  /\ \E class \in {m \in Elem : IsVariant(m)} :
       /\ ClassLevel(doc.tree, class) > 0
       /\ CanGain(doc, class)
       /\ Becomes(Gained(State, GainLevel(doc, class)))
       /\ UNCHANGED delevelSnapshot

NewMulticlass ==
  /\ Ready /\ CanOpenMulticlass(doc)
  /\ Becomes(Gained(State, OpenMulticlass(doc)))
  /\ UNCHANGED delevelSnapshot

\* The open choice, answered.
ResolveMulticlass ==
  /\ Ready
  /\ \E w \in Wrappers : \E m \in Pool(doc.tree[w]) :
       /\ doc.tree[w].name = "Multiclass" /\ PendingLevel
       /\ TakesPick(doc, w, m, GrantPoint(doc, w))
       /\ Accepted(AnsweredBy(State, m))
       /\ UNCHANGED delevelSnapshot

IsNewestStart(class) ==
  LET entry == Last(History(doc.tree))
  IN /\ entry.class = class /\ entry.multi /\ entry.start
     /\ levelRegistrations # << >> /\ Last(levelRegistrations).class = class
     /\ Last(levelRegistrations).multi /\ Last(levelRegistrations).start

\* The newest level is removed and started again as another class, all in one
\* plan. Nothing settles here: only the magic region is derived again.
Begun(s, r) == IF r.ok THEN At2(r.doc, Append(Front(s.recs), r.rec)) ELSE Failed(s)
StartedOn(s, open, m) ==
  IF CanStartMulticlass(open.doc, m) THEN Begun(s, StartMulticlass(open.doc, m)) ELSE Failed(s)
ReopenedOn(s, down, m) ==
  IF down.ok /\ CanOpenMulticlass(down.doc) THEN StartedOn(s, OpenMulticlass(down.doc), m) ELSE Failed(s)
Restart(s, m) == IF CanLevelDown(s.doc, s.recs) THEN ReopenedOn(s, Delevel(s.doc, s.recs), m) ELSE Failed(s)

ChangeMulticlass ==
  /\ Ready
  /\ \E w \in Wrappers : \E m \in Pool(doc.tree[w]) \ {doc.tree[w].reg} :
       /\ doc.tree[w].name = "Multiclass" /\ Filled(doc.tree[w]) /\ ~PendingLevel
       /\ TakesPick(doc, w, m, Now(doc))
       /\ IsNewestStart(doc.tree[w].reg)
       /\ Accepted(Restart(State, m))
       /\ UNCHANGED delevelSnapshot

\* The same for any newest level, an open choice aside.
ConvertToMulticlass ==
  /\ Ready
  /\ \E m \in {c \in Elem : IsVariant(c)} :
       /\ LevelOf(doc.tree) > 1 /\ ~PendingLevel
       /\ Accepted(Restart(State, m))
       /\ UNCHANGED delevelSnapshot

\* Removing the newest level keeps the document as it was, its pending grants
\* registered, for undo.
Taken(r) ==
  /\ r.ok
  /\ Becomes(Lowered(State, r))
  /\ delevelSnapshot' = Snapshot(r.before, r.rec.total)
TakeBack ==
  /\ Ready /\ CanLevelDown(doc, levelRegistrations)
  /\ Taken(Delevel(doc, levelRegistrations))

LevelDown == TakeBack

RemoveMulticlass ==
  /\ Ready
  /\ \E w \in Wrappers :
       /\ doc.tree[w].name = "Multiclass" /\ Filled(doc.tree[w])
       /\ IsNewestStart(doc.tree[w].reg)
       /\ TakeBack

UndoDelevel ==
  /\ Ready /\ delevelSnapshot # NoSnapshot
  /\ Counted
  /\ doc' = Settle(delevelSnapshot.doc)
  /\ levelRegistrations' = delevelSnapshot.recs
  /\ delevelSnapshot' = NoSnapshot

----------------------------------------------------------------------------
(* Lowering a class whose newest level has others above it: the levels are   *)
(* taken back down to it, the ones above are gained again, and the choices   *)
(* made before are made again wherever the same question is still open.      *)

MAX_RESTORE_PASSES == 20

OwnerId(t, w) == IF Parent(t, w) = 0 THEN None ELSE Holder(t[Parent(t, w)])
ChoicesMade(t) ==
  LET S == InOrder({i \in DOMAIN t : Filled(t[i])})
  IN [k \in DOMAIN S |-> [owner |-> OwnerId(t, S[k]), name |-> t[S[k]].name, lvl |-> t[S[k]].lvl,
                          rule |-> t[S[k]].rule, pick |-> t[S[k]].reg]]

\* The open wrapper that asks an earlier choice's question: the same rule, or
\* the same owner's question of that name and level, or one of that name.
MatchPending(t, choice, taken) ==
  LET free == {w \in DOMAIN t : t[w].kind = "wrapper" /\ t[w].reg = None /\ Path(t, w) \notin taken}
      same == {w \in free : t[w].rule = choice.rule}
      alike == {w \in free : /\ OwnerId(t, w) = choice.owner
                             /\ t[w].name = choice.name /\ t[w].lvl = choice.lvl}
      named == {w \in free : t[w].name = choice.name /\ choice.name # "Multiclass"}
  IN Min(IF same # {} THEN same ELSE IF alike # {} THEN alike ELSE IF named # {} THEN named ELSE {0})

\* A choice that cannot be made again leaves its wrapper taken.
RestoreChoiceLate(a, choice) == [a EXCEPT !.left = Append(@, choice)]
CanChoose(s, w, choice) ==
  IF s.doc.tree[w].name = "Multiclass"
  THEN TakesPick(s.doc, w, choice.pick, GrantPoint(s.doc, w))
  ELSE choice.pick \in Pool(s.doc.tree[w]) /\ CanSelect(s.doc, w, choice.pick)
Chosen(s, w, choice) ==
  IF ~CanChoose(s, w, choice) THEN Failed(s)
  ELSE IF s.doc.tree[w].name = "Multiclass" THEN AnsweredBy(s, choice.pick)
  ELSE [s EXCEPT !.doc = Settle(PlanSelection(s.doc, w, choice.pick))]
RestoredBy(a, w, choice, s) ==
  IF s.ok THEN [a EXCEPT !.s = s]
  ELSE [a EXCEPT !.left = Append(@, choice), !.taken = @ \cup {Path(a.s.doc.tree, w)}]
RestoreAt(a, w, choice) ==
  IF w = 0 THEN [a EXCEPT !.left = Append(@, choice)]
  ELSE RestoredBy(a, w, choice, Chosen(a.s, w, choice))
RestoreChoice(a, choice) == RestoreAt(a, MatchPending(a.s.doc.tree, choice, a.taken), choice)

\* A pass over the choices left that makes none of them is the last.
Restoring(a, next) == [next EXCEPT !.done = next.left \in {<< >>, a.left}]
RestorePass(a) == IF a.done THEN a ELSE Restoring(a, FoldLeft(RestoreChoice, [a EXCEPT !.left = << >>], a.left))
Restore(s, choices) ==
  Repeat(RestorePass, [s |-> s, taken |-> {}, left |-> choices, done |-> FALSE], MAX_RESTORE_PASSES).s

Unwound(s, total) ==
  Repeat(LAMBDA r : IF r.ok /\ LevelOf(r.doc.tree) >= total THEN LoweredBy(r) ELSE r, s, LevelOf(s.doc.tree))

ReplayedAsMain(s, entry) == IF s.ok THEN GainedBy(s, MainClass(s.doc.tree)) ELSE s
Reopened(open, entry) == IF open.ok /\ ~entry.pending THEN AnsweredBy(open, entry.class) ELSE open
Replayed(s, entry) ==
  IF ~s.ok THEN s
  ELSE IF entry.pending \/ (entry.multi /\ entry.start) THEN Reopened(OpenedBy(s), entry)
  ELSE GainedBy(s, IF entry.multi THEN entry.class ELSE MainClass(s.doc.tree))

Lowers(up, n) ==
  /\ up.ok
  /\ Becomes(Restore(up, ChoicesMade(doc.tree)))
  /\ delevelSnapshot' = Snapshot(doc, n)
LowerClass ==
  LET h == History(doc.tree)
  IN /\ Ready
     /\ \E n \in 2 .. Len(h) - 1 :
          /\ ~h[n].pending /\ \A k \in n + 1 .. Len(h) : h[k].class # h[n].class
          /\ Lowers(FoldLeft(Replayed, Unwound(State, n), SubSeq(h, n + 1, Len(h))), n)

Next ==
  \/ SetSelection \/ ClearSelection \/ SetCharacterOption
  \/ AddGrantedElement \/ RemoveGrantedElement \/ SetResourceSwitch
  \/ LevelUp \/ LevelUpMulticlass \/ NewMulticlass \/ ResolveMulticlass
  \/ ChangeMulticlass \/ ConvertToMulticlass
  \/ LevelDown \/ RemoveMulticlass \/ LowerClass \/ UndoDelevel

Spec == Init /\ [][Next]_vars

----------------------------------------------------------------------------
(* Properties.                                                               *)

WellFormed(t) ==
  /\ t[1].d = 1 /\ \A i \in 2 .. Len(t) : t[i].d \in 1 .. t[i - 1].d + 1
  /\ [n \in 1 .. LevelOf(t) |-> t[InOrder(Levels(t))[n]].id] = SubSeq(LevelId, 1, LevelOf(t))
  /\ \A w \in DOMAIN t : t[w].kind = "wrapper" => t[w].reg \in Pool(t[w]) \cup {None}

\* The tree is a tree whose levels run from 1 without a gap, the sum names only
\* elements and levels, and there are never more records than levels gained.
TypeOK ==
  /\ WellFormed(doc.tree)
  /\ IsABag(doc.sum) /\ BagToSet(doc.sum) \subseteq Elem \cup Range(LevelId) \cup Range(StartId)
  /\ Len(levelRegistrations) < LevelOf(doc.tree)
  /\ delevelSnapshot # NoSnapshot => WellFormed(delevelSnapshot.doc.tree)

\* The sum, which requirements are read against, and the tree, which the sheet
\* is read from, are edited apart. After every request the sum names nothing
\* the tree does not hold, and an id that leaves the sum has left the tree,
\* unless it stood there twice or several elements may bring it.
Bringers(id) == {e \in Elem : \E k \in DOMAIN Rules[e] : id \in Rules[e][k].pool}
ShownTwice(t, id) == \E i, j \in DOMAIN t : i # j /\ id \in {t[i].id, t[i].reg} /\ id \in {t[j].id, t[j].reg}
SumFollowsTree ==
  [][/\ BagToSet(doc'.sum) \subseteq Shown(doc'.tree, DOMAIN doc'.tree)
     /\ \A id \in (Shown(doc'.tree, DOMAIN doc'.tree) \ BagToSet(doc'.sum)) \cap BagToSet(doc.sum) :
          ShownTwice(doc.tree, id) \/ Cardinality(Bringers(id)) > 1]_vars

\* No answer to a choice outlives the level that opened it, whatever levels
\* were gained, taken back, replayed or undone meanwhile.
EarnedPicks == EarnedBy(doc.tree, LevelOf(doc.tree))

\* A newest level that can be taken back stays so: its record is found in the
\* tree again after any later choice, grant, switch, sweep or undo. Excepted
\* are the class picked anew and an element of the record's cleared away.
CanTakeBack(d, recs) == CanLevelDown(d, recs) => Delevel(d, recs).ok
NestedNodesOf(recs) == UNION {UNION {Range(g.nodes) : g \in Range(recs[k].nested)} : k \in DOMAIN recs}
StillRemovable ==
  [][CanTakeBack(doc, levelRegistrations) =>
       \/ CanTakeBack(doc', levelRegistrations')
       \/ MainClass(doc'.tree) # None /\ SetSelection
       \/ \E n \in NestedNodesOf(levelRegistrations') : \A i \in DOMAIN doc'.tree : ~SameNode(n, doc'.tree[i])]_vars

\* Gaining a level of any class and taking it back leaves the document and the
\* records exactly as they were, level-gated rules of races and feats included.
\* The character is settled, and the level brings nothing registered already.
IsBack(s) == s.ok /\ s.doc = doc /\ s.recs = levelRegistrations
BackFrom(up) == up.ok /\ Last(up.recs).ids \cap BagToSet(doc.sum) = {} => IsBack(LoweredBy(up))
RoundTrip ==
  \A class \in {MainClass(doc.tree)} \cup {m \in Elem : IsVariant(m) /\ ClassLevel(doc.tree, m) > 0} :
    Settled(doc) => BackFrom(GainedBy(State, class))

\* After a request every conditional rule agrees with what is registered: the
\* bounded sweep has reached its end. The two requests that restart a level as
\* another class do not run it.
SettledAfter ==
  [][Settled(doc') \/ ChangeMulticlass \/ ConvertToMulticlass]_vars

\* Lowering a class takes exactly one level of that class and none of another,
\* although every level above it is taken back and gained again. Excepted is a
\* multiclass start right under an open choice, which takes the same answer.
Lowering == delevelSnapshot' \notin {delevelSnapshot, NoSnapshot} /\ delevelSnapshot'.gone < LevelOf(doc.tree)
OneLevelOff ==
  [][Lowering =>
       LET n == delevelSnapshot'.gone
           h == History(doc.tree)
       IN ~(h[n].start /\ h[n + 1].pending) =>
          /\ LevelOf(doc'.tree) = LevelOf(doc.tree) - 1
          /\ \A c \in {h[k].class : k \in DOMAIN h} \ {None} :
               ClassLevel(doc'.tree, c) = ClassLevel(doc.tree, c) - (IF c = h[n].class THEN 1 ELSE 0)]_vars

\* Lowering a class keeps every answer whose question is still asked at a level
\* the character has, also the ones lost while the levels above were replayed.
PicksKept ==
  [][Lowering =>
       \A w \in DOMAIN doc.tree, v \in DOMAIN doc'.tree :
         /\ Filled(doc.tree[w]) /\ doc.tree[w].name # "Multiclass"
         /\ doc'.tree[v].rule = doc.tree[w].rule /\ doc'.tree[v].lvl <= LevelOf(doc'.tree)
         => doc'.tree[v].reg = doc.tree[w].reg]_vars
=============================================================================
