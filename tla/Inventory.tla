------------------------------ MODULE Inventory ------------------------------
(* The items a character holds (inventory/inventory.ts), and what each of    *)
(* them registers (inventory/item-registration.ts). One inventory record is  *)
(* kept in three places of the document: the item, the flat sum of           *)
(* registered ids, and the top-level nodes of the elements tree. The base, a *)
(* weapon or armor, is registered by the operation that puts it to use; the  *)
(* record's own content, a magic item, by a sweep that follows every         *)
(* operation. A request that throws changes nothing.                         *)
EXTENDS SequencesExt

CONSTANTS
  Catalogue,   \* element -> what the library says of it; weapons and armor grant markers only
  Elsewhere,   \* the ids the rest of the character registers, its class first
  Offered,     \* the elements a user may add
  Batches,     \* the amounts added at once
  Containers,  \* the storage containers the character has
  MaxAttuned,  \* attunement:max, 3 by default
  MaxAmount,   \* bound: units in one record
  Starts,      \* [doc, requests]: a character as created, or saved in a file; bound: requests made
  Excluded,    \* requests left out: "bonded", "twin", "part"
  None

VARIABLES
  inv,     \* [items, sum, nodes]: identifier -> record, ids in order, ids of top-level nodes
  rows,    \* the records that have an attack row
  minted,  \* identifiers given out
  left     \* requests still made

vars == <<inv, rows, minted, left>>

Element == DOMAIN Catalogue
LOCATIONS == {"primary", "secondary", "armor", "primary-twohanded", "worn"}

ASSUME InventoryAssumption ==
  /\ Offered \subseteq Element /\ Batches \subseteq 1 .. MaxAmount
  /\ MaxAmount \in Nat \ {0} /\ MaxAttuned \in Nat
  /\ None \notin LOCATIONS \cup Containers \cup Element
  /\ \A e \in Element :
       /\ Catalogue[e].kind \in {"weapon", "armor", "gear"}
       /\ Catalogue[e].slots \in {<< >>, <<"primary", "secondary">>, <<"primary-twohanded">>, <<"secondary">>, <<"armor">>}
       /\ Catalogue[e].bases \subseteq Element /\ Catalogue[e].auto \in Element \cup {None}
       /\ Catalogue[e].pack \in Seq([item : Element, amount : 1 .. MaxAmount])
       /\ Catalogue[e].choice \subseteq [item : Element, amount : 1 .. MaxAmount]

----------------------------------------------------------------------------
(* What a record is. at is where it is equipped, None when it is not.        *)

Record(item, adorner, amount, at, storage) ==
  [item |-> item, adorner |-> adorner, amount |-> amount, at |-> at, attuned |-> FALSE, storage |-> storage]

Records ==
  [item : Element, adorner : Element \cup {None}, amount : 1 .. MaxAmount,
   at : LOCATIONS \cup {None}, attuned : BOOLEAN, storage : Containers \cup {None}]

Slots(e) == Catalogue[e].slots
Slotted(e) == Slots(e) # << >>
Overlay(e) == Catalogue[e].bases # {}
Wearable(e) == ~Slotted(e) /\ ~Overlay(e) /\ ~Catalogue[e].stackable

\* A versatile weapon may also be held in both hands.
Requestable(r) ==
  ToSet(Slots(r.item))
    \cup (IF Catalogue[r.item].kind = "weapon" /\ \E e \in {r.item, r.adorner} \ {None} : Catalogue[e].versatile
          THEN {"primary-twohanded"} ELSE {})

Equipped(r) == r.at # None
Wielded(r) == Equipped(r) /\ Catalogue[r.item].kind = "weapon"
Effective(r) == IF r.adorner = None THEN r.item ELSE r.adorner
Attunable(r) == Catalogue[Effective(r)].attunable

\* The magic a record carries: its adorner, or itself when it is worn. No weapon
\* or armor of the catalogue grants more than markers: none is its own content.
Content(r) == IF r.adorner = None /\ ~Wearable(r.item) THEN None ELSE Effective(r)
IsContent(e) == e \in Element /\ Catalogue[e].kind = "gear"

Active(r) ==
  /\ r.storage = None
  /\ r.adorner = None => ~Overlay(r.item)
  /\ IF Slotted(r.item) THEN Equipped(r) /\ (Attunable(r) => r.attuned)
     ELSE IF Attunable(r) THEN r.attuned
     ELSE Wearable(r.item) => Equipped(r)

\* Whether the base is registered, as its flags tell.
Registered(r) == r.storage = None /\ Slotted(r.item) /\ (Equipped(r) \/ r.attuned)
NeverShared(items, i) == FALSE
Shared(items, i) == \E j \in DOMAIN items \ {i} : items[j].item = items[i].item /\ Registered(items[j])
BaseEntries(r) ==
  <<r.item>> \o Catalogue[r.item].grants \o (IF r.adorner = None THEN << >> ELSE <<r.adorner>>)

Hands(at) == IF at = "primary-twohanded" THEN {"primary", "secondary"} ELSE {at} \ {None, "worn"}
SameLocation(items, key) == {i \in DOMAIN items : items[i].at = key}
Occupants(items, key) == {i \in DOMAIN items : key \in Hands(items[i].at)}
\* What stands in any of the hands a location takes.
Vacated(items, at) == UNION {Occupants(items, key) : key \in Hands(at)}

OneEach(items) ==
  \A i, j \in DOMAIN items : i # j => Hands(items[i].at) \cap Hands(items[j].at) = {}

\* The records that can absorb another copy: identical plain stacks.
MergeTargets(items, item, storage) ==
  {i \in DOMAIN items :
     /\ items[i].item = item /\ items[i].adorner = None /\ items[i].storage = storage
     /\ ~Equipped(items[i]) /\ ~items[i].attuned /\ ~Attunable(items[i])
     /\ Catalogue[item].stackable}

\* The bonds that count, those of stowed items too.
BondsCarried(items) == {i \in DOMAIN items : items[i].attuned /\ Attunable(items[i]) /\ items[i].storage = None}
Bonds(items) == {i \in DOMAIN items : items[i].attuned /\ Attunable(items[i])}

With(items, i, r) == [k \in DOMAIN items \cup {i} |-> IF k = i THEN r ELSE items[k]]
But(items, i) == [k \in DOMAIN items \ {i} |-> items[k]]

\* A file the program wrote: one place for a thing, one thing for a place.
ASSUME StartsAssumption ==
  \A s \in Starts :
    /\ s.requests \in Nat /\ s.doc.items \in Seq(Records) /\ OneEach(s.doc.items)
    /\ \A i \in DOMAIN s.doc.items : s.doc.items[i].storage # None => ~Equipped(s.doc.items[i])
    /\ Cardinality(Bonds(s.doc.items)) <= MaxAttuned

----------------------------------------------------------------------------
(* The sum and the base nodes. An edit is planned on the document as it was: *)
(* one instance of each id that goes, then what comes, ahead of the class.   *)

IndexOf(sum, id) == SelectInSeq(sum, LAMBDA x : x = id)
Spliced(sum, at, ids) == SubSeq(sum, 1, at) \o ids \o SubSeq(sum, at + 1, Len(sum))
LevelAnchor(sum) == IndexOf(sum, Head(Elsewhere)) - 1
Missing(ids, there) == FoldLeft(LAMBDA s, x : IF x \in there THEN s ELSE Append(s, x), << >>, ids)
WithoutEvery(sum, ids) == Missing(sum, ToSet(ids))
WithoutEach(sum, ids) == FoldLeft(RemoveFirst, sum, ids)
WithoutBases(sum, items, out) == FoldSet(LAMBDA i, s : WithoutEach(s, BaseEntries(items[i])), sum, out)
WithBases(sum, items, into) ==
  FoldSet(LAMBDA i, s : Spliced(s, LevelAnchor(s), BaseEntries(items[i])), sum, into)

\* The base registrations of out go, those of the records into come. Armor has
\* a node, which all records of that base share.
Rewritten(doc, items, out, into) ==
  [items |-> items,
   sum |-> WithBases(WithoutBases(doc.sum, doc.items, out), items, into),
   nodes |-> (doc.nodes \ {doc.items[i].item : i \in {j \in out : ~Shared(doc.items, j)}})
               \cup {e \in {items[i].item : i \in into} \ doc.nodes : Catalogue[e].kind = "armor"}]
Holding(doc, items) == [items |-> items, sum |-> doc.sum, nodes |-> doc.nodes]

----------------------------------------------------------------------------
(* The sweep: what content is wanted, and whose sum entry a base owns.       *)

Wanted(items) == {Content(items[i]) : i \in {j \in DOMAIN items : Active(items[j])}} \ {None}
Owned(items, e) == \E i \in DOMAIN items : Content(items[i]) = e /\ Registered(items[i])

\* An element with nothing to grant or choose is a sum entry only.
RegistersAsNode(e) == Catalogue[e].node

\* The entries right after an id that its element grants: a registration
\* written without a node.
RunAfter(sum, at, e) ==
  LET Run(n) == SubSeq(sum, at + 1, at + n)
  IN Run(Max({n \in 0 .. Len(sum) - at :
                ToSet(Run(n)) \subseteq ToSet(Catalogue[e].grants) /\ IsInjective(Run(n))}))

\* What no record conveys any more: with its node, or as a sum entry alone. The
\* ids of content are registered by items alone.
Stale(doc, want) == {e \in doc.nodes : IsContent(e)} \ want
Unregistered(doc, want) ==
  LET Own(e) == IF Owned(doc.items, e) THEN << >> ELSE <<e>>
      sum == FoldSet(LAMBDA e, s : WithoutEach(s, Own(e) \o Catalogue[e].brings), doc.sum, Stale(doc, want))
      flat == {e \in ToSet(sum) : IsContent(e) /\ e \notin doc.nodes} \ want
      Flat(e, s) == WithoutEach(s, RunAfter(s, IndexOf(s, e), e) \o Own(e))
  IN MapThenFoldSet(Flat, sum, LAMBDA i : sum[i], LAMBDA P : Max(P), {IndexOf(sum, e) : e \in flat})

\* What is conveyed and has no node yet: its entries are completed, after the
\* run that may be there, and it gets its node.
Completed(doc, want, sum) ==
  LET First(e) == Min({i \in DOMAIN doc.items : Content(doc.items[i]) = e})
      Take(e, s) ==
        LET at == IndexOf(s, e)
            run == IF at = 0 THEN << >> ELSE RunAfter(s, at, e)
            there == ToSet(run) \cup (IF at = 0 THEN {} ELSE {e})
        IN Spliced(s, IF at = 0 THEN LevelAnchor(s) ELSE at + Len(run),
                   Missing(<<e>> \o Catalogue[e].brings, there))
  IN MapThenFoldSet(Take, sum, LAMBDA i : Content(doc.items[i]), LAMBDA P : Max(P),
                    {First(e) : e \in want \ doc.nodes})

Swept(doc) ==
  LET want == Wanted(doc.items)
  IN [items |-> doc.items,
      sum |-> Completed(doc, want, Unregistered(doc, want)),
      nodes |-> (doc.nodes \ Stale(doc, want)) \cup {e \in want : RegistersAsNode(e)}]

----------------------------------------------------------------------------
(* Requests.                                                                 *)

\* A file that is opened is swept as well: an older one has no content nodes.
Init ==
  /\ \E s \in Starts :
       /\ inv = Swept(s.doc)
       /\ rows = {i \in DOMAIN s.doc.items : Wielded(s.doc.items[i])}
       /\ minted = Len(s.doc.items)
       /\ left = s.requests

Becomes(doc) ==
  /\ left > 0 /\ left' = left - 1
  /\ inv' = Swept(doc)
Mint(n) == minted' = minted + n

\* The attack row of a weapon that is put in a hand.
AttackRowOfMagic(r, i) == IF Catalogue[Effective(r)].kind = "weapon" THEN {i} ELSE {}
AttackRow(r, i) == IF Catalogue[r.item].kind = "weapon" THEN {i} ELSE {}

\* A magic weapon or armor goes onto the base that is chosen, or onto the one
\* it names; what can be equipped is, where its first location is free; a
\* plain carried copy joins a stack.
AddItem ==
  \E e \in Offered, n \in Batches : \E chosen \in Catalogue[e].bases \cup {None} :
    LET over == IF chosen = None THEN Catalogue[e].auto ELSE chosen
        base == IF over = None THEN e ELSE over
        at == IF Slotted(base) /\ Vacated(inv.items, Head(Slots(base))) = {} THEN Head(Slots(base)) ELSE None
        new == minted + 1
        record == Record(base, IF over = None THEN None ELSE e, n, at, None)
        stacks == IF at = None /\ over = None THEN MergeTargets(inv.items, base, None) ELSE {}
        total == inv.items[Min(stacks)].amount + n
        items == With(inv.items, new, record)
    IN \/ /\ stacks # {} /\ total <= MaxAmount
          /\ Becomes(Holding(inv, [inv.items EXCEPT ![Min(stacks)].amount = total]))
          /\ UNCHANGED <<rows, minted>>
       \/ /\ stacks = {} /\ Mint(1)
          /\ Becomes(Rewritten(inv, items, {}, IF at = None THEN {} ELSE {new}))
          /\ rows' = rows \cup (IF at = None THEN {} ELSE AttackRow(record, new))

DroppedKept(doc, i) == Rewritten(doc, doc.items, {j \in {i} : Registered(doc.items[j])}, {})
Dropped(doc, i) == Rewritten(doc, But(doc.items, i), {j \in {i} : Registered(doc.items[j])}, {})

\* Any removal takes the attack row along, that of a part of a stack too.
RemoveItem ==
  \E i \in DOMAIN inv.items : \E n \in 1 .. inv.items[i].amount :
    /\ n < inv.items[i].amount /\ "part" \in Excluded => i \notin rows
    /\ Becomes(IF n < inv.items[i].amount THEN Holding(inv, [inv.items EXCEPT ![i].amount = @ - n])
               ELSE Dropped(inv, i))
    /\ rows' = rows \ {i}
    /\ UNCHANGED minted

SetItemAmount ==
  \E i \in DOMAIN inv.items, n \in 1 .. MaxAmount :
    /\ n # inv.items[i].amount
    /\ Becomes(Holding(inv, [inv.items EXCEPT ![i].amount = n]))
    /\ UNCHANGED <<rows, minted>>

\* Taking a location evicts whatever is there; the evicted lose their bond.
Put(doc, i, at) ==
  LET out == Vacated(doc.items, at) \ {i}
      Moved(r) == [r EXCEPT !.at = at, !.storage = None]
      Evicted(r) == [r EXCEPT !.at = None, !.attuned = FALSE]
      items == [j \in DOMAIN doc.items |->
                 IF j = i THEN Moved(doc.items[j])
                 ELSE IF j \in out THEN Evicted(doc.items[j]) ELSE doc.items[j]]
  IN Rewritten(doc, items, {j \in out : Registered(doc.items[j])}, {j \in {i} : ~Registered(doc.items[j])})

\* An armor that takes the place of another of the same base.
Twin(items, i, at) ==
  /\ Catalogue[items[i].item].kind = "armor" /\ ~Registered(items[i])
  /\ \E j \in Vacated(items, at) \ {i} : items[j].item = items[i].item

\* The eviction runs once for each hand taken. What another record holds in both
\* is cut out of the text twice: what follows goes with it, and the request throws.
EvictedTwice(items, i, at) ==
  \E key, other \in Hands(at) :
    key # other /\ (Occupants(items, key) \cap Occupants(items, other)) \ {i} # {}

EquipItem ==
  \E i \in DOMAIN inv.items : \E at \in Requestable(inv.items[i]) :
    /\ ~EvictedTwice(inv.items, i, at)
    /\ "twin" \in Excluded => ~Twin(inv.items, i, at)
    /\ UNCHANGED minted
    /\ rows' = rows \cup AttackRow(inv.items[i], i)
    /\ Becomes(Put(inv, i, at))

WearItem ==
  \E i \in DOMAIN inv.items :
    /\ Wearable(inv.items[i].item)
    /\ UNCHANGED <<rows, minted>>
    /\ Becomes(Holding(inv, [inv.items EXCEPT ![i].at = "worn", ![i].storage = None]))

\* Unequipping ends the bond as well.
UnequipItem ==
  \E i \in DOMAIN inv.items :
    LET r == inv.items[i]
    IN /\ Equipped(r) \/ r.attuned
       /\ UNCHANGED <<rows, minted>>
       /\ Becomes(Rewritten(inv, With(inv.items, i, [r EXCEPT !.at = None, !.attuned = FALSE]),
                            {j \in {i} : Registered(r)}, {}))

\* Stowing unequips and unregisters, and keeps the bond. Taking out writes no
\* registration.
StowedInHand(doc, i, storage) ==
  Rewritten(doc, With(doc.items, i, [doc.items[i] EXCEPT !.storage = storage]), {}, {})
Stowed(doc, i, storage) ==
  LET r == doc.items[i]
      items == With(doc.items, i, [r EXCEPT !.at = IF storage = None THEN @ ELSE None, !.storage = storage])
  IN Rewritten(doc, items, {j \in {i} : storage # None /\ Registered(r)}, {})

SetItemStorage ==
  \E i \in DOMAIN inv.items, storage \in Containers \cup {None} : \E n \in 1 .. inv.items[i].amount :
    LET r == inv.items[i]
        whole == n = r.amount
        stacks == IF whole /\ r.attuned THEN {} ELSE MergeTargets(inv.items, r.item, storage) \ {i}
        to == Min(stacks)
        Merged(items) == [items EXCEPT ![to].amount = @ + n]
        split == With(inv.items, minted + 1, Record(r.item, r.adorner, n, None, storage))
    IN /\ storage # r.storage
       /\ "bonded" \in Excluded => ~(r.attuned /\ Slotted(r.item) /\ whole /\ storage = None)
       /\ stacks # {} => inv.items[to].amount + n <= MaxAmount
       /\ UNCHANGED rows
       /\ IF whole \/ stacks # {} THEN UNCHANGED minted ELSE Mint(1)
       /\ Becomes(IF whole /\ stacks = {} THEN Stowed(inv, i, storage)
                  ELSE IF whole THEN LET d == Dropped(inv, i) IN Holding(d, Merged(d.items))
                  ELSE IF stacks # {} THEN Holding(inv, [Merged(inv.items) EXCEPT ![i].amount = @ - n])
                  ELSE Holding(inv, [split EXCEPT ![i].amount = @ - n]))

AttuneItem ==
  \E i \in DOMAIN inv.items :
    LET r == inv.items[i]
        base == {j \in {i} : r.storage = None /\ ~Equipped(r) /\ Slotted(r.item)}
        items == With(inv.items, i, [r EXCEPT !.attuned = ~@])
    IN /\ ~r.attuned /\ Attunable(r) => Cardinality(Bonds(inv.items)) < MaxAttuned
       /\ UNCHANGED <<rows, minted>>
       /\ Becomes(IF r.attuned THEN Rewritten(inv, items, base, {}) ELSE Rewritten(inv, items, {}, base))

\* One unit of a pack becomes the records of its contents; then the first
\* body armor and the first shield of them are put on, where there is room.
PutOn(doc, new, at) ==
  LET fit == {i \in new : Catalogue[doc.items[i].item].kind = "armor" /\ Head(Slots(doc.items[i].item)) = at}
  IN IF fit = {} \/ Vacated(doc.items, at) # {} THEN doc ELSE Put(doc, Min(fit), at)

ExtractItem ==
  \E i \in DOMAIN inv.items :
    LET r == inv.items[i]
        kit == Catalogue[Effective(r)]
    IN \E picked \in {<< >>} \cup {<<c>> : c \in kit.choice} :
         LET got == kit.pack \o picked
             new == minted + 1 .. minted + Len(got)
             rest == IF r.amount > 1 THEN [inv.items EXCEPT ![i].amount = @ - 1] ELSE But(inv.items, i)
             items == [k \in DOMAIN rest \cup new |->
                        IF k \in new THEN Record(got[k - minted].item, None, got[k - minted].amount, None, None)
                        ELSE rest[k]]
         IN /\ kit.pack # << >> \/ kit.choice # {}
            /\ Mint(Len(got))
            /\ Becomes(PutOn(PutOn(Holding(inv, items), new, "armor"), new, "secondary"))
            /\ UNCHANGED rows

Next ==
  \/ AddItem \/ RemoveItem \/ SetItemAmount \/ EquipItem \/ WearItem \/ UnequipItem
  \/ SetItemStorage \/ AttuneItem \/ ExtractItem

Spec == Init /\ [][Next]_vars

----------------------------------------------------------------------------
(* Properties.                                                               *)

Held == DOMAIN inv.items

\* Every record is an item of the catalogue in at least one unit, an adorned
\* one is a magic weapon or armor over a base, one in a container is not
\* equipped, and identifiers are those given out.
TypeOK ==
  /\ Held \subseteq 1 .. minted /\ rows \subseteq 1 .. minted
  /\ minted \in Nat /\ left \in Nat
  /\ inv.items \in [Held -> Records]
  /\ \A i \in Held : inv.items[i].storage # None => ~Equipped(inv.items[i])

\* No two equipped records share a hand or the armor: a two-handed grip, the
\* first free place of a new item, a pack's armor and an eviction respect it. A
\* grip over another two-handed one throws, and is no step.
OneThingPerPlace == OneEach(inv.items)

\* The bonds that count never exceed the maximum: stowing an item keeps its
\* bond, and so its place among them.
BondsWithinLimit == Cardinality({i \in Held : inv.items[i].attuned /\ Attunable(inv.items[i])}) <= MaxAttuned

\* The sum holds what the character registers elsewhere, each base in use with
\* its grants and its adorner, and each content conveyed with all it brings,
\* once each and no more: whatever was added, evicted (from one hand or from each
\* of two), stowed, bonded or split by requests that do not throw.
Due(items) ==
  FoldSet(LAMBDA i, s : s \o BaseEntries(items[i]),
          FoldSet(LAMBDA e, s : s \o ((IF Owned(items, e) THEN << >> ELSE <<e>>) \o Catalogue[e].brings),
                  << >>, Wanted(items)),
          {i \in DOMAIN items : Registered(items[i])})
SumFollowsItems == ToBag(inv.sum) = ToBag(Elsewhere \o Due(inv.items))

\* The elements tree has a node for each content conveyed that grants anything,
\* and one for each armor base in use, also while several records share it.
NodesFollowItems ==
  inv.nodes = {e \in Wanted(inv.items) : Catalogue[e].node}
                \cup {inv.items[i].item : i \in {j \in Held : /\ Registered(inv.items[j])
                                                             /\ Catalogue[inv.items[j].item].kind = "armor"}}

\* Equipping, wearing, stowing, splitting, joining and bonding never make or
\* lose a unit of anything.
Kinds(items) == {<<items[i].item, items[i].adorner>> : i \in DOMAIN items}
Units(items, kind) ==
  MapThenSumSet(LAMBDA i : items[i].amount, {i \in DOMAIN items : <<items[i].item, items[i].adorner>> = kind})
Conserved ==
  \A kind \in Kinds(inv.items) \cup Kinds(inv'.items) : Units(inv'.items, kind) = Units(inv.items, kind)
MovesConserve ==
  [][Conserved \/ ~(EquipItem \/ WearItem \/ UnequipItem \/ SetItemStorage \/ AttuneItem)]_vars

\* A wielded weapon has an attack row, and no row outlives its record.
RowsFollowWeapons ==
  /\ rows \subseteq Held
  /\ \A i \in Held : Wielded(inv.items[i]) => i \in rows
=============================================================================
