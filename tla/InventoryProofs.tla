-------------------------- MODULE InventoryProofs --------------------------
(* What holds of the records whatever is registered for them, and of the     *)
(* rows and nodes registered: theorems for every catalogue, file, container  *)
(* and maximum.                                                              *)
EXTENDS Inventory, FiniteSetTheorems, NaturalsInduction, SequenceTheorems, WellFoundedInduction, TLAPS

\* What every request keeps of the items.
Fine(items) ==
  /\ items \in [DOMAIN items -> Records]
  /\ \A i \in DOMAIN items : items[i].storage # None => ~Equipped(items[i])
  /\ OneEach(items)

InvItems ==
  /\ Fine(inv.items)
  /\ DOMAIN inv.items \subseteq 1 .. minted /\ rows \subseteq 1 .. minted
  /\ minted \in Nat /\ left \in Nat

\* A request may end bonds but not make one.
NoNewBond(items, next) == Bonds(next) \subseteq Bonds(items)

----------------------------------------------------------------------------
(* The parts requests are built from.                                        *)

\* A place nobody equips anything at is no hand and not the armor.
LEMMA NoHands == Hands(None) = {} /\ Hands("worn") = {}
  BY InventoryAssumption DEF Hands, LOCATIONS

\* A record can be replaced by one of the same kind that takes no place.
LEMMA ReplaceIdle ==
  ASSUME NEW items, Fine(items), NEW i \in DOMAIN items, NEW r \in Records,
         \/ r.at = None
         \/ r.at = "worn" /\ r.storage = None
         \/ r.at = items[i].at /\ r.storage \in {items[i].storage, None}
  PROVE  Fine([items EXCEPT ![i] = r]) /\ Fine(With(items, i, r))
  <1>1. [items EXCEPT ![i] = r] = With(items, i, r)
    BY DEF Fine, With
  <1>2. DOMAIN With(items, i, r) = DOMAIN items
        /\ \A k \in DOMAIN items : With(items, i, r)[k] = IF k = i THEN r ELSE items[k]
    BY DEF With
  <1>3. With(items, i, r) \in [DOMAIN items -> Records]
    BY DEF Fine, With
  <1>4. \A k \in DOMAIN items : With(items, i, r)[k].storage # None => ~Equipped(With(items, i, r)[k])
    BY <1>2 DEF Fine, Equipped
  <1>5. OneEach(With(items, i, r))
    BY <1>2, NoHands DEF Fine, OneEach
  <1> QED BY <1>1, <1>2, <1>3, <1>4, <1>5 DEF Fine

\* A new record that is put where nothing else is.
LEMMA AddFree ==
  ASSUME NEW items, Fine(items), NEW i, i \notin DOMAIN items, NEW r \in Records,
         r.storage # None => r.at = None,
         \A j \in DOMAIN items : Hands(items[j].at) \cap Hands(r.at) = {}
  PROVE  Fine(With(items, i, r))
  <1>1. DOMAIN With(items, i, r) = DOMAIN items \cup {i}
        /\ \A k \in DOMAIN items \cup {i} : With(items, i, r)[k] = IF k = i THEN r ELSE items[k]
    BY DEF With
  <1>2. With(items, i, r) \in [DOMAIN items \cup {i} -> Records]
    BY DEF Fine, With
  <1>3. \A k \in DOMAIN items \cup {i} :
           With(items, i, r)[k].storage # None => ~Equipped(With(items, i, r)[k])
    BY <1>1 DEF Fine, Equipped
  <1>4. OneEach(With(items, i, r))
    BY <1>1 DEF Fine, OneEach
  <1> QED BY <1>1, <1>2, <1>3, <1>4 DEF Fine

\* Taking a record away.
LEMMA TakeAway ==
  ASSUME NEW items, Fine(items), NEW i
  PROVE  /\ Fine(But(items, i))
         /\ DOMAIN But(items, i) = DOMAIN items \ {i}
         /\ NoNewBond(items, But(items, i))
  <1> DEFINE next == But(items, i)
  <1>1. DOMAIN next = DOMAIN items \ {i} /\ \A k \in DOMAIN items \ {i} : next[k] = items[k]
    BY DEF But
  <1>2. next \in [DOMAIN items \ {i} -> Records]
    BY DEF Fine, But
  <1> HIDE DEF next
  <1>3. OneEach(next)
    BY <1>1 DEF Fine, OneEach
  <1>4. NoNewBond(items, next)
    BY <1>1 DEF NoNewBond, Bonds
  <1>5. \A k \in DOMAIN next : next[k].storage # None => ~Equipped(next[k])
    BY <1>1 DEF Fine
  <1>6. next \in [DOMAIN next -> Records]
    BY <1>1, <1>2
  <1>7. Fine(next)
    BY <1>3, <1>5, <1>6 DEF Fine
  <1> QED BY <1>1, <1>4, <1>7 DEF next

\* An amount is all that changes.
LEMMA AmountOnly ==
  ASSUME NEW items, Fine(items), NEW i, NEW n, i \in DOMAIN items => n \in 1 .. MaxAmount
  PROVE  /\ Fine([items EXCEPT ![i].amount = n])
         /\ DOMAIN [items EXCEPT ![i].amount = n] = DOMAIN items
         /\ NoNewBond(items, [items EXCEPT ![i].amount = n])
  <1> DEFINE next == [items EXCEPT ![i].amount = n]
  <1>1. DOMAIN next = DOMAIN items
    OBVIOUS
  <1>2. \A k \in DOMAIN items : next[k] = IF k = i THEN [items[k] EXCEPT !.amount = n] ELSE items[k]
    BY DEF Fine
  <1>3. \A k \in DOMAIN items : items[k] \in Records
    BY DEF Fine
  <1>4. \A k \in DOMAIN items : /\ next[k] \in Records /\ next[k].at = items[k].at
                                /\ next[k].storage = items[k].storage /\ next[k].attuned = items[k].attuned
                                /\ next[k].item = items[k].item /\ next[k].adorner = items[k].adorner
    BY <1>2, <1>3 DEF Records
  <1> HIDE DEF next
  <1>5. next \in [DOMAIN items -> Records]
    <2>1. next = [k \in DOMAIN items |-> next[k]]
      BY <1>1 DEF next
    <2> QED BY <2>1, <1>4
  <1>6. OneEach(next)
    BY <1>1, <1>4 DEF Fine, OneEach
  <1>7. NoNewBond(items, next)
    BY <1>1, <1>4 DEF NoNewBond, Bonds, Attunable, Effective
  <1>8. Fine(next)
    BY <1>1, <1>4, <1>5, <1>6 DEF Fine, Equipped
  <1> QED BY <1>1, <1>7, <1>8 DEF next

\* A record with no more of a bond than the one it replaces, or a new one.
LEMMA NoBondMade ==
  ASSUME NEW items, NEW i, NEW r,
         r.attuned => i \in DOMAIN items /\ items[i].attuned /\ (Attunable(r) <=> Attunable(items[i])),
         r.attuned \in BOOLEAN
  PROVE  NoNewBond(items, With(items, i, r))
  BY DEF NoNewBond, Bonds, With

\* Where an element of the catalogue can be equipped.
LEMMA Places ==
  ASSUME NEW e \in Element
  PROVE  /\ ToSet(Slots(e)) \subseteq LOCATIONS \ {"worn"}
         /\ Slotted(e) => Head(Slots(e)) \in LOCATIONS \ {"worn"}
  <1>1. Slots(e) \in {<< >>, <<"primary", "secondary">>, <<"primary-twohanded">>, <<"secondary">>, <<"armor">>}
    BY InventoryAssumption DEF Slots
  <1>2. CASE Slots(e) = << >>
    BY <1>2 DEF ToSet, Slotted
  <1>3. CASE Slots(e) = <<"primary", "secondary">>
    BY <1>3 DEF ToSet, LOCATIONS
  <1>4. CASE Slots(e) = <<"primary-twohanded">>
    BY <1>4 DEF ToSet, LOCATIONS
  <1>5. CASE Slots(e) = <<"secondary">>
    BY <1>5 DEF ToSet, LOCATIONS
  <1>6. CASE Slots(e) = <<"armor">>
    BY <1>6 DEF ToSet, LOCATIONS
  <1> QED BY <1>1, <1>2, <1>3, <1>4, <1>5, <1>6

\* What a location vacates is what shares a hand with it.
LEMMA VacatedAre ==
  ASSUME NEW items, NEW at
  PROVE  Vacated(items, at) = {i \in DOMAIN items : Hands(items[i].at) \cap Hands(at) # {}}
  BY DEF Vacated, Occupants

\* Equipping evicts whatever shares the place, so the place is then one's own.
LEMMA PutKeeps ==
  ASSUME NEW doc, Fine(doc.items), NEW i, NEW at \in LOCATIONS
  PROVE  /\ Fine(Put(doc, i, at).items)
         /\ DOMAIN Put(doc, i, at).items = DOMAIN doc.items
         /\ NoNewBond(doc.items, Put(doc, i, at).items)
  <1> DEFINE items == doc.items
             out == Vacated(items, at) \ {i}
             next == Put(doc, i, at).items
  <1>1. next = [j \in DOMAIN items |->
                  IF j = i THEN [items[j] EXCEPT !.at = at, !.storage = None]
                  ELSE IF j \in out THEN [items[j] EXCEPT !.at = None, !.attuned = FALSE] ELSE items[j]]
    BY DEF Put, Rewritten
  <1> HIDE DEF next
  <1>2. \A j \in DOMAIN items : items[j] \in Records
    BY DEF Fine
  <1>3. DOMAIN next = DOMAIN items
    BY <1>1
  <1>4. \A j \in DOMAIN items :
           /\ next[j] \in Records
           /\ next[j].item = items[j].item /\ next[j].adorner = items[j].adorner
           /\ next[j].attuned => items[j].attuned
           /\ next[j].at = IF j = i THEN at ELSE IF j \in out THEN None ELSE items[j].at
           /\ next[j].storage = IF j = i THEN None ELSE items[j].storage
    BY <1>1, <1>2 DEF Records
  <1>5. next \in [DOMAIN next -> Records]
    <2>1. next = [j \in DOMAIN items |-> next[j]]
      BY <1>1
    <2> QED BY <2>1, <1>3, <1>4
  <1>6. \A j \in DOMAIN next : next[j].storage # None => ~Equipped(next[j])
    BY <1>3, <1>4 DEF Fine, Equipped
  <1>7. OneEach(next)
    <2> SUFFICES ASSUME NEW j \in DOMAIN items, NEW k \in DOMAIN items, j # k
                 PROVE  Hands(next[j].at) \cap Hands(next[k].at) = {}
      BY <1>3 DEF OneEach
    <2>1. \A n \in DOMAIN items \ {i} : Hands(next[n].at) \cap Hands(at) = {}
      BY <1>4, NoHands, VacatedAre
    <2>2. \A n \in DOMAIN items \ {i} : Hands(next[n].at) \subseteq Hands(items[n].at)
      BY <1>4, NoHands
    <2>3. CASE j = i \/ k = i
      BY <2>1, <2>3, <1>4
    <2>4. CASE j # i /\ k # i
      BY <2>2, <2>4 DEF Fine, OneEach
    <2> QED BY <2>3, <2>4
  <1>8. NoNewBond(items, next)
    BY <1>3, <1>4 DEF NoNewBond, Bonds, Attunable, Effective
  <1>9. Fine(next)
    BY <1>5, <1>6, <1>7 DEF Fine
  <1> QED BY <1>3, <1>8, <1>9 DEF next

LEMMA PutOnKeeps ==
  ASSUME NEW doc, Fine(doc.items), NEW new, NEW at \in LOCATIONS
  PROVE  /\ Fine(PutOn(doc, new, at).items)
         /\ DOMAIN PutOn(doc, new, at).items = DOMAIN doc.items
         /\ NoNewBond(doc.items, PutOn(doc, new, at).items)
  <1> DEFINE fit == {i \in new : /\ Catalogue[doc.items[i].item].kind = "armor"
                                 /\ Head(Slots(doc.items[i].item)) = at}
  <1>1. PutOn(doc, new, at) = doc \/ PutOn(doc, new, at) = Put(doc, Min(fit), at)
    BY DEF PutOn
  <1>2. NoNewBond(doc.items, doc.items)
    BY DEF NoNewBond
  <1> QED BY <1>1, <1>2, PutKeeps

----------------------------------------------------------------------------
(* One request each. The sweep that ends it leaves the items alone.          *)

LEMMA SweepKeepsItems ==
  ASSUME NEW doc, Becomes(doc), left \in Nat
  PROVE  inv'.items = doc.items /\ left' \in Nat
  BY DEF Becomes, Swept

\* What a request leaves: sound items, and no bond made.
Keeps == InvItems' /\ NoNewBond(inv.items, inv'.items)

LEMMA KeepsFrom ==
  ASSUME InvItems, NEW doc, Becomes(doc), Fine(doc.items), NoNewBond(inv.items, doc.items),
         DOMAIN doc.items \subseteq 1 .. minted', minted' \in Nat, rows' \subseteq 1 .. minted'
  PROVE  Keeps
  BY SweepKeepsItems DEF Keeps, InvItems

LEMMA RowOfOne == \A r, i : AttackRow(r, i) \subseteq {i}
  BY DEF AttackRow

LEMMA AddKeeps == ASSUME InvItems, AddItem PROVE Keeps
  <1> DEFINE Over(e, c) == IF c = None THEN Catalogue[e].auto ELSE c
             Base(e, c) == IF Over(e, c) = None THEN e ELSE Over(e, c)
             At(e, c) == IF Slotted(Base(e, c)) /\ Vacated(inv.items, Head(Slots(Base(e, c)))) = {}
                         THEN Head(Slots(Base(e, c))) ELSE None
             Made(e, n, c) == Record(Base(e, c), IF Over(e, c) = None THEN None ELSE e, n, At(e, c), None)
             Stacks(e, c) == IF At(e, c) = None /\ Over(e, c) = None
                             THEN MergeTargets(inv.items, Base(e, c), None) ELSE {}
             Total(e, n, c) == inv.items[Min(Stacks(e, c))].amount + n
             new == minted + 1
             Joins(e, n, c) ==
               /\ Stacks(e, c) # {} /\ Total(e, n, c) <= MaxAmount
               /\ Becomes(Holding(inv, [inv.items EXCEPT ![Min(Stacks(e, c))].amount = Total(e, n, c)]))
               /\ UNCHANGED <<rows, minted>>
             Appends(e, n, c) ==
               /\ Stacks(e, c) = {} /\ Mint(1)
               /\ Becomes(Rewritten(inv, With(inv.items, new, Made(e, n, c)), {},
                                    IF At(e, c) = None THEN {} ELSE {new}))
               /\ rows' = rows \cup (IF At(e, c) = None THEN {} ELSE AttackRow(Made(e, n, c), new))
  <1>0. PICK e \in Offered, n \in Batches :
          \E c \in Catalogue[e].bases \cup {None} : Joins(e, n, c) \/ Appends(e, n, c)
    BY DEF AddItem
  <1>1. PICK c \in Catalogue[e].bases \cup {None} : Joins(e, n, c) \/ Appends(e, n, c)
    BY <1>0
  <1>2. e \in Element /\ n \in 1 .. MaxAmount /\ MaxAmount \in Nat
    BY InventoryAssumption
  <1>3. Base(e, c) \in Element
    BY <1>2, InventoryAssumption
  <1> HIDE DEF Stacks, Over
  <1>4. CASE Joins(e, n, c)
    <2> DEFINE i == Min(Stacks(e, c))
               next == [inv.items EXCEPT ![i].amount = Total(e, n, c)]
    <2> HIDE DEF i
    <2>1. i \in DOMAIN inv.items => inv.items[i].amount \in 1 .. MaxAmount
      BY DEF InvItems, Fine, Records
    <2>2. i \in DOMAIN inv.items => Total(e, n, c) \in 1 .. MaxAmount
      BY <1>2, <1>4, <2>1 DEF i
    <2>3. Fine(next) /\ DOMAIN next = DOMAIN inv.items /\ NoNewBond(inv.items, next)
      BY <2>2, AmountOnly DEF InvItems
    <2>4. Becomes(Holding(inv, next)) /\ Holding(inv, next).items = next
      BY <1>4 DEF Holding, i
    <2> HIDE DEF next
    <2> QED BY <1>4, <2>3, <2>4, KeepsFrom DEF InvItems
  <1>5. CASE Appends(e, n, c)
    <2> DEFINE r == Made(e, n, c)
               next == With(inv.items, new, r)
    <2>1. new \notin DOMAIN inv.items /\ minted' = new /\ new \in Nat
      BY <1>5 DEF Mint, InvItems
    <2>2. /\ At(e, c) \in LOCATIONS \cup {None}
          /\ \A j \in DOMAIN inv.items : Hands(inv.items[j].at) \cap Hands(At(e, c)) = {}
      BY <1>3, Places, NoHands, VacatedAre
    <2>3. /\ r \in Records /\ r.at = At(e, c) /\ r.attuned = FALSE /\ r.storage = None
      BY <1>2, <1>3, <2>2 DEF Record, Records
    <2>4. Fine(next)
      BY <2>1, <2>2, <2>3, AddFree DEF InvItems
    <2>5. NoNewBond(inv.items, next)
      BY <2>3, NoBondMade
    <2>6. DOMAIN next \subseteq 1 .. minted'
      BY <2>1 DEF With, InvItems
    <2>7. rows' \subseteq 1 .. minted'
      <3>1. rows' \subseteq rows \cup {new}
        BY <1>5, RowOfOne
      <3> QED BY <2>1, <3>1 DEF InvItems
    <2> DEFINE doc == Rewritten(inv, next, {}, IF At(e, c) = None THEN {} ELSE {new})
    <2>8. Becomes(doc)
      BY <1>5
    <2>9. doc.items = next
      BY DEF Rewritten
    <2> HIDE DEF next, doc
    <2> QED BY <2>1, <2>4, <2>5, <2>6, <2>7, <2>8, <2>9, KeepsFrom
  <1> QED BY <1>1, <1>4, <1>5

LEMMA RemoveKeeps == ASSUME InvItems, RemoveItem PROVE Keeps
  <1>0. PICK i \in DOMAIN inv.items : \E n \in 1 .. inv.items[i].amount :
          /\ Becomes(IF n < inv.items[i].amount
                     THEN Holding(inv, [inv.items EXCEPT ![i].amount = @ - n]) ELSE Dropped(inv, i))
          /\ rows' = rows \ {i}
          /\ UNCHANGED minted
    BY DEF RemoveItem
  <1>1. PICK n \in 1 .. inv.items[i].amount :
          /\ Becomes(IF n < inv.items[i].amount
                     THEN Holding(inv, [inv.items EXCEPT ![i].amount = @ - n]) ELSE Dropped(inv, i))
          /\ rows' = rows \ {i}
          /\ UNCHANGED minted
    BY <1>0
  <1>2. inv.items[i].amount \in 1 .. MaxAmount /\ MaxAmount \in Nat
    BY InventoryAssumption DEF InvItems, Fine, Records
  <1>3. CASE n < inv.items[i].amount
    <2> DEFINE next == [inv.items EXCEPT ![i].amount = inv.items[i].amount - n]
    <2>1. inv.items[i].amount - n \in 1 .. MaxAmount
      BY <1>2, <1>3
    <2>2. Fine(next) /\ DOMAIN next = DOMAIN inv.items /\ NoNewBond(inv.items, next)
      BY <2>1, AmountOnly DEF InvItems
    <2>3. Becomes(Holding(inv, next)) /\ Holding(inv, next).items = next
      BY <1>1, <1>3 DEF Holding
    <2> HIDE DEF next
    <2> QED BY <1>1, <2>2, <2>3, KeepsFrom DEF InvItems
  <1>4. CASE ~(n < inv.items[i].amount)
    <2>1. Becomes(Dropped(inv, i)) /\ Dropped(inv, i).items = But(inv.items, i)
      BY <1>1, <1>4 DEF Dropped, Rewritten
    <2>2. /\ Fine(But(inv.items, i)) /\ DOMAIN But(inv.items, i) \subseteq DOMAIN inv.items
          /\ NoNewBond(inv.items, But(inv.items, i))
      BY TakeAway DEF InvItems
    <2> QED BY <1>1, <2>1, <2>2, KeepsFrom DEF InvItems
  <1> QED BY <1>3, <1>4

LEMMA SetAmountKeeps == ASSUME InvItems, SetItemAmount PROVE Keeps
  <1>1. PICK i \in DOMAIN inv.items, n \in 1 .. MaxAmount :
          Becomes(Holding(inv, [inv.items EXCEPT ![i].amount = n])) /\ UNCHANGED <<rows, minted>>
    BY DEF SetItemAmount
  <1> DEFINE next == [inv.items EXCEPT ![i].amount = n]
  <1>2. Fine(next) /\ DOMAIN next = DOMAIN inv.items /\ NoNewBond(inv.items, next)
    BY AmountOnly DEF InvItems
  <1>3. Becomes(Holding(inv, next)) /\ Holding(inv, next).items = next
    BY <1>1 DEF Holding
  <1> HIDE DEF next
  <1> QED BY <1>1, <1>2, <1>3, KeepsFrom DEF InvItems

LEMMA EquipKeeps == ASSUME InvItems, EquipItem PROVE Keeps
  <1>1. PICK i \in DOMAIN inv.items : \E at \in Requestable(inv.items[i]) :
          /\ UNCHANGED minted /\ rows' = rows \cup AttackRow(inv.items[i], i)
          /\ Becomes(Put(inv, i, at))
    BY DEF EquipItem
  <1>2. inv.items[i].item \in Element
    BY DEF InvItems, Fine, Records
  <1>3. PICK at \in LOCATIONS :
          /\ UNCHANGED minted /\ rows' = rows \cup AttackRow(inv.items[i], i)
          /\ Becomes(Put(inv, i, at))
    BY <1>1, <1>2, Places DEF Requestable, LOCATIONS
  <1>4. rows' \subseteq 1 .. minted'
    BY <1>3 DEF InvItems, AttackRow
  <1> QED BY <1>3, <1>4, PutKeeps, KeepsFrom DEF InvItems

LEMMA WearKeeps == ASSUME InvItems, WearItem PROVE Keeps
  <1>1. PICK i \in DOMAIN inv.items :
          /\ UNCHANGED <<rows, minted>>
          /\ Becomes(Holding(inv, [inv.items EXCEPT ![i].at = "worn", ![i].storage = None]))
    BY DEF WearItem
  <1> DEFINE r == [inv.items[i] EXCEPT !.at = "worn", !.storage = None]
             next == With(inv.items, i, r)
  <1>2. inv.items[i] \in Records
    BY DEF InvItems, Fine
  <1>3. r \in Records /\ r.at = "worn" /\ r.storage = None /\ r.attuned = inv.items[i].attuned
        /\ (Attunable(r) <=> Attunable(inv.items[i])) /\ r.attuned \in BOOLEAN
    BY <1>2 DEF Records, LOCATIONS, Attunable, Effective
  <1>4. next = [inv.items EXCEPT ![i].at = "worn", ![i].storage = None]
    BY DEF With, InvItems, Fine
  <1> HIDE DEF r
  <1>5. Fine(next)
    BY <1>3, ReplaceIdle DEF InvItems
  <1>6. NoNewBond(inv.items, next)
    BY <1>3, NoBondMade
  <1>7. DOMAIN next = DOMAIN inv.items
    BY DEF With
  <1>8. Becomes(Holding(inv, next)) /\ Holding(inv, next).items = next
    BY <1>1, <1>4 DEF Holding
  <1> HIDE DEF next
  <1> QED BY <1>1, <1>5, <1>6, <1>7, <1>8, KeepsFrom DEF InvItems

LEMMA UnequipKeeps == ASSUME InvItems, UnequipItem PROVE Keeps
  <1> DEFINE R(i) == [inv.items[i] EXCEPT !.at = None, !.attuned = FALSE]
             Doc(i) == Rewritten(inv, With(inv.items, i, R(i)), {j \in {i} : Registered(inv.items[i])}, {})
  <1>1. PICK i \in DOMAIN inv.items : UNCHANGED <<rows, minted>> /\ Becomes(Doc(i))
    BY DEF UnequipItem
  <1> DEFINE next == With(inv.items, i, R(i))
  <1>2. inv.items[i] \in Records
    BY DEF InvItems, Fine
  <1>3. R(i) \in Records /\ R(i).at = None /\ R(i).attuned = FALSE
    BY <1>2 DEF Records
  <1>4. Doc(i).items = next
    BY DEF Rewritten
  <1> HIDE DEF R, Doc
  <1>5. Fine(next)
    BY <1>3, ReplaceIdle DEF InvItems
  <1>6. NoNewBond(inv.items, next)
    BY <1>3, NoBondMade
  <1>7. DOMAIN next = DOMAIN inv.items
    BY DEF With
  <1> HIDE DEF next
  <1> QED BY <1>1, <1>4, <1>5, <1>6, <1>7, KeepsFrom DEF InvItems


\* Part of a stack: joined to another stack, or a record of its own.
LEMMA StorageKeeps == ASSUME InvItems, SetItemStorage PROVE Keeps
  <1> DEFINE amount(i) == inv.items[i].amount
             Stacks(i, s, n) == IF n = amount(i) /\ inv.items[i].attuned THEN {}
                                ELSE MergeTargets(inv.items, inv.items[i].item, s) \ {i}
             To(i, s, n) == Min(Stacks(i, s, n))
             Merged(i, s, n, items) == [items EXCEPT ![To(i, s, n)].amount = @ + n]
             Part(i, s, n) == Record(inv.items[i].item, inv.items[i].adorner, n, None, s)
             Split(i, s, n) == With(inv.items, minted + 1, Part(i, s, n))
             Step(i, s, n) ==
               /\ s # inv.items[i].storage
               /\ "bonded" \in Excluded =>
                    ~(inv.items[i].attuned /\ Slotted(inv.items[i].item) /\ n = amount(i) /\ s = None)
               /\ Stacks(i, s, n) # {} => amount(To(i, s, n)) + n <= MaxAmount
               /\ UNCHANGED rows
               /\ IF n = amount(i) \/ Stacks(i, s, n) # {} THEN UNCHANGED minted ELSE Mint(1)
               /\ Becomes(IF n = amount(i) /\ Stacks(i, s, n) = {} THEN Stowed(inv, i, s)
                          ELSE IF n = amount(i)
                          THEN LET d == Dropped(inv, i) IN Holding(d, Merged(i, s, n, d.items))
                          ELSE IF Stacks(i, s, n) # {}
                          THEN Holding(inv, [Merged(i, s, n, inv.items) EXCEPT ![i].amount = @ - n])
                          ELSE Holding(inv, [Split(i, s, n) EXCEPT ![i].amount = @ - n]))
  <1>1. PICK i \in DOMAIN inv.items, s \in Containers \cup {None} :
          \E n \in 1 .. amount(i) : Step(i, s, n)
    BY DEF SetItemStorage
  <1>2. PICK n \in 1 .. amount(i) : Step(i, s, n)
    BY <1>1
  <1> DEFINE to == To(i, s, n)
             r == inv.items[i]
  <1>3. /\ r \in Records /\ amount(i) \in 1 .. MaxAmount /\ MaxAmount \in Nat /\ n \in 1 .. MaxAmount
        /\ \A k \in DOMAIN inv.items : amount(k) \in 1 .. MaxAmount
    BY InventoryAssumption DEF InvItems, Fine, Records
  <1>8. /\ Stacks(i, s, n) # {} => amount(to) + n <= MaxAmount
        /\ n # amount(i) => amount(i) - n \in 1 .. MaxAmount
    <2>1. Stacks(i, s, n) # {} => amount(to) + n <= MaxAmount
      BY <1>2
    <2>2. n # amount(i) => amount(i) - n \in 1 .. MaxAmount
      <3> HIDE DEF Step
      <3> QED BY <1>3
    <2> QED BY <2>1, <2>2
  <1>4. CASE n = amount(i) /\ Stacks(i, s, n) = {}
    <2> DEFINE moved == [r EXCEPT !.at = IF s = None THEN r.at ELSE None, !.storage = s]
               next == With(inv.items, i, moved)
    <2>1. /\ moved \in Records /\ moved.storage = s /\ moved.attuned = r.attuned
          /\ moved.at = IF s = None THEN r.at ELSE None
          /\ (Attunable(moved) <=> Attunable(r)) /\ moved.attuned \in BOOLEAN
      BY <1>3 DEF Records, Attunable, Effective
    <2> HIDE DEF moved
    <2>2. Fine(next)
      BY <2>1, ReplaceIdle DEF InvItems
    <2>3. NoNewBond(inv.items, next)
      BY <2>1, NoBondMade
    <2>4. DOMAIN next = DOMAIN inv.items
      BY DEF With
    <2>5. Stowed(inv, i, s).items = next
      BY DEF Stowed, Rewritten, moved
    <2>6. Becomes(Stowed(inv, i, s)) /\ UNCHANGED <<rows, minted>>
      BY <1>2, <1>4
    <2> HIDE DEF next
    <2> QED BY <2>2, <2>3, <2>4, <2>5, <2>6, KeepsFrom DEF InvItems
  <1>5. CASE n = amount(i) /\ Stacks(i, s, n) # {}
    <2> DEFINE rest == But(inv.items, i)
               next == [rest EXCEPT ![to].amount = rest[to].amount + n]
               doc == Holding(Dropped(inv, i), next)
    <2>1. Becomes(doc) /\ doc.items = next /\ UNCHANGED <<rows, minted>>
      <3>1. Dropped(inv, i).items = rest
        BY DEF Dropped, Rewritten
      <3> QED BY <1>2, <1>5, <3>1 DEF Holding
    <2>2. to \in DOMAIN rest => rest[to].amount + n \in 1 .. MaxAmount
      <3> HIDE DEF To, Stacks
      <3> QED BY <1>3, <1>5, <1>8 DEF But
    <2>3. Fine(rest) /\ DOMAIN rest \subseteq DOMAIN inv.items /\ NoNewBond(inv.items, rest)
      BY TakeAway DEF InvItems
    <2> HIDE DEF rest, Stacks, doc
    <2>4. Fine(next) /\ DOMAIN next \subseteq DOMAIN inv.items /\ NoNewBond(inv.items, next)
      <3> HIDE DEF To
      <3> QED BY <2>2, <2>3, AmountOnly DEF NoNewBond
    <2> HIDE DEF next
    <2> QED BY <2>1, <2>4, KeepsFrom DEF InvItems
  <1>6. CASE n # amount(i) /\ Stacks(i, s, n) # {}
    <2> DEFINE joined == Merged(i, s, n, inv.items)
               next == [joined EXCEPT ![i].amount = joined[i].amount - n]
    <2>1. Becomes(Holding(inv, next)) /\ Holding(inv, next).items = next /\ UNCHANGED <<rows, minted>>
      BY <1>2, <1>6 DEF Holding
    <2>2. to \in DOMAIN inv.items => amount(to) + n \in 1 .. MaxAmount
      <3> HIDE DEF To, Stacks
      <3> QED BY <1>3, <1>6, <1>8
    <2> HIDE DEF Stacks, To
    <2>3. Fine(joined) /\ DOMAIN joined = DOMAIN inv.items /\ NoNewBond(inv.items, joined)
      BY <2>2, AmountOnly DEF InvItems
    <2>4. joined[i].amount - n \in 1 .. MaxAmount
      <3>1. joined[i].amount = IF i = to THEN amount(i) + n ELSE amount(i)
        BY <1>3 DEF InvItems, Fine, Records
      <3> QED BY <1>3, <1>6, <1>8, <3>1
    <2> HIDE DEF joined
    <2>5. Fine(next) /\ DOMAIN next = DOMAIN joined /\ NoNewBond(joined, next)
      BY <2>3, <2>4, AmountOnly
    <2>6. NoNewBond(inv.items, next)
      BY <2>3, <2>5 DEF NoNewBond
    <2> HIDE DEF next
    <2> QED BY <2>1, <2>3, <2>5, <2>6, KeepsFrom DEF InvItems
  <1>7. CASE n # amount(i) /\ Stacks(i, s, n) = {}
    <2> DEFINE split == Split(i, s, n)
               next == [split EXCEPT ![i].amount = split[i].amount - n]
    <2>1. Becomes(Holding(inv, next)) /\ Holding(inv, next).items = next /\ rows' = rows /\ minted' = minted + 1
      BY <1>2, <1>7 DEF Holding, Mint
    <2>2. minted + 1 \notin DOMAIN inv.items /\ minted + 1 \in Nat /\ minted \in Nat
      BY DEF InvItems
    <2>3. /\ Part(i, s, n) \in Records /\ Part(i, s, n).at = None /\ Part(i, s, n).attuned = FALSE
      BY <1>3 DEF Record, Records
    <2>4. Fine(split)
      BY <2>2, <2>3, NoHands, AddFree DEF InvItems
    <2>5. NoNewBond(inv.items, split)
      BY <2>3, NoBondMade
    <2>6. DOMAIN split = DOMAIN inv.items \cup {minted + 1} /\ split[i] = r
      BY <2>2 DEF With
    <2>7. split[i].amount - n \in 1 .. MaxAmount
      BY <1>7, <1>8, <2>6
    <2> HIDE DEF split
    <2>8. Fine(next) /\ DOMAIN next = DOMAIN split /\ NoNewBond(split, next)
      BY <2>4, <2>7, AmountOnly
    <2>9. NoNewBond(inv.items, next)
      BY <2>5, <2>8 DEF NoNewBond
    <2>10. DOMAIN next \subseteq 1 .. minted' /\ rows' \subseteq 1 .. minted' /\ minted' \in Nat
      BY <2>1, <2>2, <2>6, <2>8 DEF InvItems
    <2> HIDE DEF next
    <2> QED BY <2>1, <2>8, <2>9, <2>10, KeepsFrom
  <1> QED BY <1>4, <1>5, <1>6, <1>7


\* The bonds are finitely many, so an invariant can count them.
LEMMA BondsCounted ==
  ASSUME NEW items, NEW n \in Nat, DOMAIN items \subseteq 1 .. n
  PROVE  IsFiniteSet(Bonds(items)) /\ Cardinality(Bonds(items)) \in Nat
  <1>1. IsFiniteSet(1 .. n)
    BY FS_Interval
  <1>2. Bonds(items) \subseteq 1 .. n
    BY DEF Bonds
  <1> QED BY <1>1, <1>2, FS_Subset, FS_CardinalityType

LEMMA FewerBonds ==
  ASSUME InvItems, NEW next, NoNewBond(inv.items, next), Cardinality(Bonds(inv.items)) <= MaxAttuned
  PROVE  Cardinality(Bonds(next)) <= MaxAttuned
  <1>1. IsFiniteSet(Bonds(inv.items)) /\ Cardinality(Bonds(inv.items)) \in Nat
    BY BondsCounted DEF InvItems
  <1>2. Cardinality(Bonds(next)) <= Cardinality(Bonds(inv.items)) /\ Cardinality(Bonds(next)) \in Nat
    BY <1>1, FS_Subset, FS_CardinalityType DEF NoNewBond
  <1> QED BY <1>1, <1>2, InventoryAssumption

\* The one request that makes a bond counts those there are first.
LEMMA AttuneKeeps ==
  ASSUME InvItems, AttuneItem
  PROVE  /\ InvItems'
         /\ Cardinality(Bonds(inv.items)) <= MaxAttuned => Cardinality(Bonds(inv'.items)) <= MaxAttuned
  <1> DEFINE R(i) == [inv.items[i] EXCEPT !.attuned = ~inv.items[i].attuned]
             Base(i) == {j \in {i} : /\ inv.items[i].storage = None /\ ~Equipped(inv.items[i])
                                     /\ Slotted(inv.items[i].item)}
             Next1(i) == With(inv.items, i, R(i))
  <1>1. PICK i \in DOMAIN inv.items :
          /\ ~inv.items[i].attuned /\ Attunable(inv.items[i]) => Cardinality(Bonds(inv.items)) < MaxAttuned
          /\ UNCHANGED <<rows, minted>>
          /\ Becomes(IF inv.items[i].attuned THEN Rewritten(inv, Next1(i), Base(i), {})
                     ELSE Rewritten(inv, Next1(i), {}, Base(i)))
    BY DEF AttuneItem
  <1> DEFINE r == R(i)
             next == Next1(i)
  <1>2. inv.items[i] \in Records
    BY DEF InvItems, Fine
  <1>3. /\ r \in Records /\ r.at = inv.items[i].at /\ r.storage = inv.items[i].storage
        /\ r.attuned = ~inv.items[i].attuned /\ (Attunable(r) <=> Attunable(inv.items[i]))
    BY <1>2 DEF Records, Attunable, Effective
  <1>4. inv'.items = next /\ left' \in Nat
    <2>1. \A out, into : Rewritten(inv, next, out, into).items = next
      BY DEF Rewritten
    <2> HIDE DEF Next1, Base
    <2>2. \E out, into : Becomes(Rewritten(inv, next, out, into))
      BY <1>1
    <2> QED BY <2>1, <2>2, SweepKeepsItems DEF InvItems
  <1> HIDE DEF R
  <1>5. Fine(next)
    BY <1>3, ReplaceIdle DEF InvItems
  <1>6. DOMAIN next = DOMAIN inv.items
    BY DEF With
  <1>7. \A k \in DOMAIN next : next[k] = IF k = i THEN r ELSE inv.items[k]
    BY DEF With
  <1> HIDE DEF Next1
  <1>8. InvItems'
    BY <1>1, <1>4, <1>5, <1>6 DEF InvItems
  <1>9. ASSUME Cardinality(Bonds(inv.items)) <= MaxAttuned
        PROVE  Cardinality(Bonds(next)) <= MaxAttuned
    <2>1. CASE inv.items[i].attuned \/ ~Attunable(inv.items[i])
      <3>1. NoNewBond(inv.items, next)
        BY <1>3, <1>6, <1>7, <2>1 DEF NoNewBond, Bonds
      <3> QED BY <1>9, <3>1, FewerBonds
    <2>2. CASE ~inv.items[i].attuned /\ Attunable(inv.items[i])
      <3>1. Bonds(next) \subseteq Bonds(inv.items) \cup {i}
        BY <1>6, <1>7 DEF Bonds
      <3>2. IsFiniteSet(Bonds(inv.items)) /\ Cardinality(Bonds(inv.items)) \in Nat
        BY BondsCounted DEF InvItems
      <3>3. i \notin Bonds(inv.items)
        BY <2>2 DEF Bonds
      <3>4. /\ IsFiniteSet(Bonds(inv.items) \cup {i})
            /\ Cardinality(Bonds(inv.items) \cup {i}) = Cardinality(Bonds(inv.items)) + 1
        BY <3>2, <3>3, FS_AddElement
      <3>5. Cardinality(Bonds(next)) <= Cardinality(Bonds(inv.items)) + 1 /\ Cardinality(Bonds(next)) \in Nat
        BY <3>1, <3>4, FS_Subset, FS_CardinalityType
      <3> QED BY <1>1, <2>2, <3>2, <3>5, InventoryAssumption
    <2> QED BY <2>1, <2>2
  <1> QED BY <1>4, <1>8, <1>9

\* The contents of a pack are nobody's hand or armor until they are put on.
LEMMA ExtractKeeps == ASSUME InvItems, ExtractItem PROVE Keeps
  <1> DEFINE kit(i) == Catalogue[Effective(inv.items[i])]
             Got(i, p) == kit(i).pack \o p
             New(i, p) == minted + 1 .. minted + Len(Got(i, p))
             Rest(i) == IF inv.items[i].amount > 1
                        THEN [inv.items EXCEPT ![i].amount = inv.items[i].amount - 1] ELSE But(inv.items, i)
             Items(i, p) == [k \in DOMAIN Rest(i) \cup New(i, p) |->
                              IF k \in New(i, p)
                              THEN Record(Got(i, p)[k - minted].item, None, Got(i, p)[k - minted].amount, None, None)
                              ELSE Rest(i)[k]]
             Doc(i, p) == PutOn(PutOn(Holding(inv, Items(i, p)), New(i, p), "armor"), New(i, p), "secondary")
  <1>1. PICK i \in DOMAIN inv.items : \E p \in {<< >>} \cup {<<c>> : c \in kit(i).choice} :
          Mint(Len(Got(i, p))) /\ Becomes(Doc(i, p)) /\ UNCHANGED rows
    BY DEF ExtractItem
  <1>2. PICK p \in {<< >>} \cup {<<c>> : c \in kit(i).choice} :
          Mint(Len(Got(i, p))) /\ Becomes(Doc(i, p)) /\ UNCHANGED rows
    BY <1>1
  <1> DEFINE Thing == [item : Element, amount : 1 .. MaxAmount]
             got == Got(i, p)
             new == New(i, p)
             rest == Rest(i)
             items == Items(i, p)
  <1>3. inv.items[i] \in Records /\ Effective(inv.items[i]) \in Element
    BY DEF InvItems, Fine, Records, Effective
  <1>4. got \in Seq(Thing)
    <2>1. kit(i).pack \in Seq(Thing) /\ kit(i).choice \subseteq Thing
      BY <1>3, InventoryAssumption
    <2> HIDE DEF kit, Thing
    <2>2. p \in Seq(Thing)
      <3>1. CASE p = << >>
        BY <3>1
      <3>2. CASE p \in {<<c>> : c \in kit(i).choice}
        <4>1. PICK c \in kit(i).choice : p = <<c>>
          BY <3>2
        <4>2. c \in Thing
          BY <2>1
        <4> QED BY <4>1, <4>2
      <3> QED BY <3>1, <3>2
    <2> QED BY <2>1, <2>2
  <1> HIDE DEF Got, Thing
  <1>5. Len(got) \in Nat /\ minted \in Nat /\ minted' = minted + Len(got)
    BY <1>2, <1>4 DEF Mint, InvItems
  <1>6. Fine(rest) /\ DOMAIN rest \subseteq DOMAIN inv.items /\ NoNewBond(inv.items, rest)
    <2>1. CASE inv.items[i].amount > 1
      <3>1. inv.items[i].amount - 1 \in 1 .. MaxAmount
        BY <1>3, <2>1, InventoryAssumption DEF Records
      <3> QED BY <2>1, <3>1, AmountOnly DEF InvItems
    <2>2. CASE ~(inv.items[i].amount > 1)
      BY <2>2, TakeAway DEF InvItems
    <2> QED BY <2>1, <2>2
  <1> HIDE DEF Rest
  <1>7. \A k \in new : /\ items[k] \in Records /\ items[k].at = None
                       /\ items[k].attuned = FALSE /\ items[k].storage = None
    <2> SUFFICES ASSUME NEW k \in new
                 PROVE  Record(got[k - minted].item, None, got[k - minted].amount, None, None) \in Records
      BY DEF Record
    <2>1. got[k - minted] \in Thing
      BY <1>4, <1>5
    <2> QED BY <2>1 DEF Thing, Record, Records
  <1>8. /\ DOMAIN items = DOMAIN rest \cup new
        /\ \A k \in DOMAIN rest : items[k] = rest[k]
    BY <1>5, <1>6 DEF InvItems
  <1>9. items = [k \in DOMAIN rest \cup new |-> items[k]]
    OBVIOUS
  <1> HIDE DEF New, Items
  <1>10. items \in [DOMAIN items -> Records]
    BY <1>6, <1>7, <1>8, <1>9 DEF Fine
  <1>11. OneEach(items)
    BY <1>6, <1>7, <1>8, NoHands DEF Fine, OneEach
  <1>12. Fine(items)
    BY <1>6, <1>7, <1>8, <1>10, <1>11 DEF Fine, Equipped
  <1>13. NoNewBond(inv.items, items)
    BY <1>6, <1>7, <1>8 DEF NoNewBond, Bonds
  <1>14. DOMAIN items \subseteq 1 .. minted' /\ minted' \in Nat /\ rows' \subseteq 1 .. minted'
    BY <1>2, <1>5, <1>6, <1>8 DEF InvItems, New
  <1> DEFINE held == Holding(inv, items)
             armed == PutOn(held, new, "armor")
             doc == PutOn(armed, new, "secondary")
  <1>15. held.items = items
    BY DEF Holding
  <1> HIDE DEF held
  <1>16. Fine(armed.items) /\ DOMAIN armed.items = DOMAIN items /\ NoNewBond(items, armed.items)
    BY <1>12, <1>15, PutOnKeeps DEF LOCATIONS
  <1> HIDE DEF armed
  <1>17. Fine(doc.items) /\ DOMAIN doc.items = DOMAIN items /\ NoNewBond(armed.items, doc.items)
    BY <1>16, PutOnKeeps DEF LOCATIONS
  <1>18. NoNewBond(inv.items, doc.items)
    BY <1>13, <1>16, <1>17 DEF NoNewBond
  <1>19. Becomes(doc)
    BY <1>2 DEF armed, held
  <1> HIDE DEF doc
  <1> QED BY <1>14, <1>17, <1>18, <1>19, KeepsFrom


----------------------------------------------------------------------------
(* The theorems.                                                             *)

\* The inductive invariant: TypeOK and OneThingPerPlace hold each other up, as
\* an eviction reads where the records say they are.
IInv == InvItems /\ Cardinality(Bonds(inv.items)) <= MaxAttuned

LEMMA StartsFine == Init => IInv
  <1> SUFFICES ASSUME Init PROVE IInv
    OBVIOUS
  <1>1. PICK s \in Starts : /\ inv = Swept(s.doc)
                            /\ rows = {i \in DOMAIN s.doc.items : Wielded(s.doc.items[i])}
                            /\ minted = Len(s.doc.items)
                            /\ left = s.requests
    BY DEF Init
  <1>2. inv.items = s.doc.items
    BY <1>1 DEF Swept
  <1>3. /\ s.requests \in Nat /\ inv.items \in Seq(Records) /\ OneEach(inv.items)
        /\ \A i \in DOMAIN inv.items : inv.items[i].storage # None => ~Equipped(inv.items[i])
        /\ Cardinality(Bonds(inv.items)) <= MaxAttuned
    BY <1>2, StartsAssumption
  <1>4. Fine(inv.items)
    BY <1>3 DEF Fine
  <1>5. DOMAIN inv.items = 1 .. minted /\ minted \in Nat
    BY <1>1, <1>2, <1>3
  <1> QED BY <1>1, <1>2, <1>3, <1>4, <1>5 DEF IInv, InvItems

LEMMA StepsKeep == IInv /\ [Next]_vars => IInv'
  <1> SUFFICES ASSUME IInv, [Next]_vars PROVE IInv'
    OBVIOUS
  <1>1. InvItems
    BY DEF IInv
  <1>2. ASSUME Keeps PROVE IInv'
    BY <1>1, <1>2, FewerBonds DEF IInv, Keeps
  <1>3. CASE AddItem
    BY <1>1, <1>2, <1>3, AddKeeps
  <1>4. CASE RemoveItem
    BY <1>1, <1>2, <1>4, RemoveKeeps
  <1>5. CASE SetItemAmount
    BY <1>1, <1>2, <1>5, SetAmountKeeps
  <1>6. CASE EquipItem
    BY <1>1, <1>2, <1>6, EquipKeeps
  <1>7. CASE WearItem
    BY <1>1, <1>2, <1>7, WearKeeps
  <1>8. CASE UnequipItem
    BY <1>1, <1>2, <1>8, UnequipKeeps
  <1>9. CASE SetItemStorage
    BY <1>1, <1>2, <1>9, StorageKeeps
  <1>10. CASE AttuneItem
    BY <1>1, <1>10, AttuneKeeps DEF IInv
  <1>11. CASE ExtractItem
    BY <1>1, <1>2, <1>11, ExtractKeeps
  <1>12. CASE UNCHANGED vars
    BY <1>12 DEF IInv, InvItems, vars
  <1> QED BY <1>3, <1>4, <1>5, <1>6, <1>7, <1>8, <1>9, <1>10, <1>11, <1>12 DEF Next

LEMMA Invariant == Spec => []IInv
  BY StartsFine, StepsKeep, PTL DEF Spec

\* Whatever is added, stowed, split or extracted, the document's records stay
\* items of the catalogue in at least one unit, a stowed one is not equipped,
\* and identifiers and attack rows are of records that were made.
THEOREM TypeCorrect == Spec => []TypeOK
  <1>1. IInv => TypeOK
    BY DEF IInv, InvItems, Fine, TypeOK, Held
  <1> QED BY <1>1, Invariant, PTL

\* No two records are ever equipped in the same hand or as the armor: not by
\* the first free place of a new item, an eviction from one hand or from each of
\* two, or the unpacking of armor and shield, for every catalogue and character.
\* A two-handed grip over another one throws, and puts nothing anywhere.
THEOREM PlacesRespected == Spec => []OneThingPerPlace
  <1>1. IInv => OneThingPerPlace
    BY DEF IInv, InvItems, Fine, OneThingPerPlace
  <1> QED BY <1>1, Invariant, PTL

\* The bonds that count never exceed the maximum, those of stowed items
\* counted: only attuning makes one, and splitting or joining copies none.
THEOREM BondsLimited == Spec => []BondsWithinLimit
  <1>1. IInv => BondsWithinLimit
    BY DEF IInv, Bonds, BondsWithinLimit, Held
  <1> QED BY <1>1, Invariant, PTL

----------------------------------------------------------------------------
(* Sums over the records: what MapThenSumSet computes.                       *)

TotalOf(items, T) == MapThenSumSet(LAMBDA i : items[i].amount, T)
APick(s) == CHOOSE x \in s : TRUE
SumsOf(items, T, g) ==
  g = [s \in SUBSET T |-> IF s = {} THEN 0 ELSE items[APick(s)].amount + g[s \ {APick(s)}]]

LEMMA SumIsChosen ==
  ASSUME NEW items, NEW T
  PROVE  TotalOf(items, T) = (CHOOSE g : SumsOf(items, T, g))[T]
  BY DEF TotalOf, SumsOf, APick, MapThenSumSet, MapThenFoldSet

\* Of the sets some of whose subsets fail, one is smallest: what holds of a set
\* when it holds of its parts, holds.
LEMMA SmallestSet ==
  ASSUME NEW T, IsFiniteSet(T), NEW U \in SUBSET SUBSET T, U # {}
  PROVE  \E s \in U : IsFiniteSet(s) /\ \A u \in U : u \subseteq s => u = s
  <1>1. U \subseteq FiniteSubsetsOf(T)
    BY FS_Subset DEF FiniteSubsetsOf
  <1>2. PICK s \in U : \A u \in U : <<u, s>> \notin StrictSubsetOrdering(T)
    BY <1>1, FS_StrictSubsetOrderingWellFounded, WFMin
  <1> QED BY <1>1, <1>2 DEF StrictSubsetOrdering, FiniteSubsetsOf

LEMMA SumsUnique ==
  ASSUME NEW items, NEW T, IsFiniteSet(T), NEW g, NEW h, SumsOf(items, T, g), SumsOf(items, T, h)
  PROVE  g = h
  <1> DEFINE U == {s \in SUBSET T : g[s] # h[s]}
  <1>1. /\ DOMAIN g = SUBSET T /\ DOMAIN h = SUBSET T
        /\ g = [s \in SUBSET T |-> g[s]] /\ h = [s \in SUBSET T |-> h[s]]
    BY DEF SumsOf
  <1>2. ASSUME U # {} PROVE FALSE
    <2>1. PICK s \in U : \A u \in U : u \subseteq s => u = s
      <3>1. U \in SUBSET SUBSET T
        OBVIOUS
      <3> HIDE DEF U
      <3> QED BY <1>2, <3>1, SmallestSet
    <2> DEFINE c == APick(s)
    <2>2. s # {} => c \in s
      BY DEF APick
    <2>3. s # {} => g[s \ {c}] = h[s \ {c}]
      <3> HIDE DEF c
      <3> QED BY <2>1, <2>2
    <2>4. /\ g[s] = IF s = {} THEN 0 ELSE items[APick(s)].amount + g[s \ {APick(s)}]
          /\ h[s] = IF s = {} THEN 0 ELSE items[APick(s)].amount + h[s \ {APick(s)}]
      BY DEF SumsOf
    <2> QED BY <2>3, <2>4
  <1> QED BY <1>1, <1>2

LEMMA SumsPart ==
  ASSUME NEW items, NEW T, NEW S \in SUBSET T, NEW g, SumsOf(items, T, g),
         NEW part, part = [s \in SUBSET S |-> g[s]]
  PROVE  SumsOf(items, S, part)
  <1>1. \A s \in SUBSET S : g[s] = IF s = {} THEN 0 ELSE items[APick(s)].amount + g[s \ {APick(s)}]
    BY DEF SumsOf
  <1> QED BY <1>1 DEF SumsOf

LEMMA SumsExist ==
  ASSUME NEW items, NEW T, IsFiniteSet(T)
  PROVE  SumsOf(items, T, CHOOSE g : SumsOf(items, T, g))
  <1> DEFINE U == {S \in SUBSET T : ~\E g : SumsOf(items, S, g)}
             G(S) == CHOOSE g : SumsOf(items, S, g)
  <1>1. ASSUME U # {} PROVE FALSE
    <2>1. PICK S \in U : \A u \in U : u \subseteq S => u = S
      <3>1. U \in SUBSET SUBSET T
        OBVIOUS
      <3> HIDE DEF U
      <3> QED BY <1>1, <3>1, SmallestSet
    <2>2. \A R \in SUBSET S : R # S => SumsOf(items, R, G(R))
      BY <2>1
    <2>3. \A R \in SUBSET S : IsFiniteSet(R)
      BY FS_Subset
    <2> DEFINE whole == IF S = {} THEN 0 ELSE items[APick(S)].amount + G(S \ {APick(S)})[S \ {APick(S)}]
               h == [s \in SUBSET S |-> IF s = S THEN whole ELSE G(s)[s]]
    <2> HIDE DEF U, G, whole
    <2>4. ASSUME NEW s \in SUBSET S
          PROVE  h[s] = IF s = {} THEN 0 ELSE items[APick(s)].amount + h[s \ {APick(s)}]
      <3> DEFINE c == APick(s)
                 t == s \ {c}
      <3>1. s # {} => c \in s /\ t # S /\ t \in SUBSET S /\ t # s
        BY DEF APick
      <3> HIDE DEF c
      <3>2. s # {} => h[t] = G(t)[t]
        BY <3>1
      <3>3. CASE s = S
        BY <3>2, <3>3 DEF whole, c
      <3>4. CASE s # S
        <4>1. SumsOf(items, s, G(s)) /\ h[s] = G(s)[s]
          BY <2>2, <3>4
        <4>2. G(s)[s] = IF s = {} THEN 0 ELSE items[c].amount + G(s)[t]
          BY <4>1 DEF SumsOf, c
        <4>3. CASE s = {}
          BY <4>1, <4>2, <4>3
        <4>4. CASE s # {}
          <5>1. SumsOf(items, t, [u \in SUBSET t |-> G(s)[u]])
            <6> DEFINE gs == G(s)
                       part == [u \in SUBSET t |-> gs[u]]
            <6>1. SumsOf(items, s, gs) /\ t \in SUBSET s
              BY <4>1
            <6>2. part = [u \in SUBSET t |-> gs[u]]
              OBVIOUS
            <6> HIDE DEF gs, t, part
            <6>3. SumsOf(items, t, part)
              BY <6>1, <6>2, SumsPart
            <6> QED BY <6>3 DEF gs, part
          <5>2. SumsOf(items, t, G(t)) /\ IsFiniteSet(t)
            BY <2>2, <2>3, <3>1, <4>4
          <5>3. G(t) = [u \in SUBSET t |-> G(s)[u]]
            BY <5>1, <5>2, SumsUnique
          <5>4. G(t)[t] = G(s)[t]
            BY <5>3
          <5> QED BY <3>2, <4>1, <4>2, <4>4, <5>4 DEF c
        <4> QED BY <4>3, <4>4
      <3> QED BY <3>3, <3>4
    <2>5. SumsOf(items, S, h)
      <3>1. h = [s \in SUBSET S |-> h[s]]
        OBVIOUS
      <3> HIDE DEF h
      <3> QED BY <2>4, <3>1 DEF SumsOf
    <2> QED BY <2>1, <2>5 DEF U
  <1>2. \E g : SumsOf(items, T, g)
    BY <1>1
  <1> QED BY <1>2

\* A sum is that of any of its terms and the sum of the others.
LEMMA SumStep ==
  ASSUME NEW items, NEW T, IsFiniteSet(T)
  PROVE  TotalOf(items, T) = IF T = {} THEN 0 ELSE items[APick(T)].amount + TotalOf(items, T \ {APick(T)})
  <1> DEFINE G(S) == CHOOSE g : SumsOf(items, S, g)
             S == T \ {APick(T)}
  <1>1. SumsOf(items, T, G(T))
    BY SumsExist
  <1>2. IsFiniteSet(S) /\ S \in SUBSET T
    BY FS_Subset
  <1>3. SumsOf(items, S, G(S))
    BY <1>2, SumsExist
  <1>4. SumsOf(items, S, [s \in SUBSET S |-> G(T)[s]])
    <2> DEFINE all == G(T)
               part == [s \in SUBSET S |-> all[s]]
    <2>1. SumsOf(items, T, all)
      BY <1>1
    <2>2. part = [s \in SUBSET S |-> all[s]]
      OBVIOUS
    <2> HIDE DEF all, S, part
    <2>3. SumsOf(items, S, part)
      BY <1>2, <2>1, <2>2, SumsPart
    <2> QED BY <2>3 DEF all, part
  <1>5. G(S) = [s \in SUBSET S |-> G(T)[s]]
    BY <1>2, <1>3, <1>4, SumsUnique
  <1>6. G(S)[S] = G(T)[S]
    BY <1>5
  <1>7. G(T)[T] = IF T = {} THEN 0 ELSE items[APick(T)].amount + G(T)[S]
    BY <1>1 DEF SumsOf
  <1>8. TotalOf(items, T) = G(T)[T] /\ TotalOf(items, S) = G(S)[S]
    BY SumIsChosen
  <1> HIDE DEF G
  <1> QED BY <1>6, <1>7, <1>8

LEMMA SumType ==
  ASSUME NEW items, NEW T, IsFiniteSet(T), \A i \in T : items[i].amount \in Nat
  PROVE  TotalOf(items, T) \in Nat
  <1> DEFINE U == {s \in SUBSET T : TotalOf(items, s) \notin Nat}
  <1>1. ASSUME U # {} PROVE FALSE
    <2>1. PICK s \in U : IsFiniteSet(s) /\ \A u \in U : u \subseteq s => u = s
      <3>1. U \in SUBSET SUBSET T
        OBVIOUS
      <3> HIDE DEF U
      <3> QED BY <1>1, <3>1, SmallestSet
    <2> DEFINE c == APick(s)
    <2>2. TotalOf(items, s) = IF s = {} THEN 0 ELSE items[c].amount + TotalOf(items, s \ {c})
      BY <2>1, SumStep
    <2>3. s # {} => c \in s
      BY DEF APick
    <2> HIDE DEF c
    <2>4. s # {} => TotalOf(items, s \ {c}) \in Nat
      BY <2>1, <2>3
    <2>5. s # {} => items[c].amount \in Nat
      BY <2>1, <2>3
    <2>6. TotalOf(items, s) \in Nat
      BY <2>2, <2>4, <2>5
    <2> QED BY <2>1, <2>6
  <1> QED BY <1>1

LEMMA SumWithout ==
  ASSUME NEW items, NEW T, IsFiniteSet(T), \A i \in T : items[i].amount \in Nat, NEW x \in T
  PROVE  TotalOf(items, T) = items[x].amount + TotalOf(items, T \ {x})
  <1> DEFINE a(i) == items[i].amount
             U == {s \in SUBSET T : \E y \in s : TotalOf(items, s) # a(y) + TotalOf(items, s \ {y})}
  <1>1. ASSUME U # {} PROVE FALSE
    <2>1. PICK s \in U : IsFiniteSet(s) /\ \A u \in U : u \subseteq s => u = s
      <3>1. U \in SUBSET SUBSET T
        OBVIOUS
      <3> HIDE DEF U
      <3> QED BY <1>1, <3>1, SmallestSet
    <2>2. PICK y \in s : TotalOf(items, s) # a(y) + TotalOf(items, s \ {y})
      BY <2>1
    <2> DEFINE c == APick(s)
    <2>3. TotalOf(items, s) = a(c) + TotalOf(items, s \ {c}) /\ c \in s
      BY <2>1, <2>2, SumStep DEF APick
    <2> HIDE DEF c
    <2>4. c # y
      BY <2>2, <2>3
    <2>5. TotalOf(items, s \ {c}) = a(y) + TotalOf(items, (s \ {c}) \ {y})
      BY <2>1, <2>2, <2>3, <2>4
    <2>6. TotalOf(items, s \ {y}) = a(c) + TotalOf(items, (s \ {y}) \ {c})
      BY <2>1, <2>2, <2>3, <2>4
    <2>7. (s \ {y}) \ {c} = (s \ {c}) \ {y}
      OBVIOUS
    <2>8. a(c) \in Nat /\ a(y) \in Nat
      BY <2>1, <2>2, <2>3
    <2>9. TotalOf(items, (s \ {c}) \ {y}) \in Nat
      <3>1. IsFiniteSet((s \ {c}) \ {y}) /\ (s \ {c}) \ {y} \subseteq T
        BY <2>1, FS_Subset
      <3> QED BY <3>1, SumType
    <2> DEFINE rest == TotalOf(items, (s \ {c}) \ {y})
    <2>10. TotalOf(items, s \ {y}) = a(c) + rest /\ TotalOf(items, s \ {c}) = a(y) + rest /\ rest \in Nat
      BY <2>5, <2>6, <2>7, <2>9
    <2> HIDE DEF rest, a
    <2> QED BY <2>2, <2>3, <2>8, <2>10
  <1> QED BY <1>1

LEMMA SumSame ==
  ASSUME NEW items, NEW next, NEW T, IsFiniteSet(T), \A i \in T : next[i].amount = items[i].amount
  PROVE  TotalOf(next, T) = TotalOf(items, T)
  <1> DEFINE U == {s \in SUBSET T : TotalOf(next, s) # TotalOf(items, s)}
  <1>1. ASSUME U # {} PROVE FALSE
    <2>1. PICK s \in U : IsFiniteSet(s) /\ \A u \in U : u \subseteq s => u = s
      <3>1. U \in SUBSET SUBSET T
        OBVIOUS
      <3> HIDE DEF U
      <3> QED BY <1>1, <3>1, SmallestSet
    <2> DEFINE c == APick(s)
    <2>2. /\ TotalOf(items, s) = IF s = {} THEN 0 ELSE items[c].amount + TotalOf(items, s \ {c})
          /\ TotalOf(next, s) = IF s = {} THEN 0 ELSE next[c].amount + TotalOf(next, s \ {c})
      BY <2>1, SumStep
    <2>3. s # {} => c \in s
      BY DEF APick
    <2> HIDE DEF c
    <2>4. s # {} => TotalOf(items, s \ {c}) = TotalOf(next, s \ {c})
      BY <2>1, <2>3
    <2>5. s # {} => items[c].amount = next[c].amount
      BY <2>1, <2>3
    <2>6. TotalOf(next, s) = TotalOf(items, s)
      BY <2>2, <2>4, <2>5
    <2> QED BY <2>1, <2>6
  <1> QED BY <1>1

----------------------------------------------------------------------------
(* Folds: what MapThenFoldSet computes.                                      *)

\* A set of numbers has a least one.
LEMMA LeastOf ==
  ASSUME NEW T \in SUBSET Nat, T # {}
  PROVE  Min(T) \in T /\ \A y \in T : Min(T) =< y
  <1> DEFINE below(n) == 0 .. n
             U == {below(n) : n \in T}
  <1>1. U \subseteq FiniteSubsetsOf(Nat) /\ U # {}
    <2>1. \A n \in Nat : IsFiniteSet(0 .. n) /\ 0 .. n \subseteq Nat
      BY FS_Interval
    <2> QED BY <2>1 DEF FiniteSubsetsOf
  <1>2. PICK s \in U : \A u \in U : ~(u \subseteq s /\ u # s)
    <2> HIDE DEF U
    <2>1. PICK s \in U : \A u \in U : <<u, s>> \notin StrictSubsetOrdering(Nat)
      BY <1>1, FS_StrictSubsetOrderingWellFounded, WFMin
    <2> QED BY <1>1, <2>1 DEF StrictSubsetOrdering, FiniteSubsetsOf
  <1>3. PICK x \in T : s = 0 .. x
    OBVIOUS
  <1>4. ASSUME NEW y \in T, ~(x =< y) PROVE FALSE
    <2>1. 0 .. y \subseteq 0 .. x /\ x \in 0 .. x /\ x \notin 0 .. y
      BY <1>4
    <2> QED BY <1>2, <1>3, <2>1
  <1> QED BY <1>4 DEF Min

\* A finite one has a greatest.
LEMMA GreatestOf ==
  ASSUME NEW T, IsFiniteSet(T), T # {}, \A x \in T : x \in Nat
  PROVE  Max(T) \in T /\ \A y \in T : Max(T) >= y
  <1> DEFINE Tops(s, m) == m \in s /\ \A y \in s : m >= y
             U == {s \in SUBSET T : s # {} /\ ~\E m : Tops(s, m)}
  <1>1. ASSUME U # {} PROVE FALSE
    <2>1. PICK s \in U : \A u \in U : u \subseteq s => u = s
      <3>1. U \in SUBSET SUBSET T
        OBVIOUS
      <3> HIDE DEF U
      <3> QED BY <1>1, <3>1, SmallestSet
    <2>2. PICK c \in s : TRUE
      BY <2>1
    <2>3. c \in Nat /\ ~Tops(s, c)
      BY <2>1, <2>2
    <2>4. s \ {c} # {}
      BY <2>3
    <2>5. s \ {c} \notin U
      BY <2>1, <2>2
    <2>6. PICK m : Tops(s \ {c}, m)
      BY <2>1, <2>4, <2>5
    <2>7. m \in Nat /\ \A y \in s : y \in Nat
      BY <2>1, <2>6
    <2>8. Tops(s, IF m >= c THEN m ELSE c)
      BY <2>2, <2>3, <2>6, <2>7
    <2> QED BY <2>1, <2>8
  <1>2. PICK m : Tops(T, m)
    BY <1>1
  <1> QED BY <1>2 DEF Max

\* A fold over the parts of T, as a function: pick says which of a part comes
\* last, step what it does.
FoldsOf(T, base, pick, step, g) ==
  g = [s \in SUBSET T |-> IF s = {} THEN base ELSE step[pick[s]][g[s \ {pick[s]}]]]

\* Every step from a value in A to one in A can be folded.
LEMMA FoldExists ==
  ASSUME NEW T, IsFiniteSet(T), NEW A, NEW base \in A, NEW pick,
         \A s \in SUBSET T : s # {} => pick[s] \in s,
         NEW step, \A x \in T, a \in A : step[x][a] \in A
  PROVE  \E g \in [SUBSET T -> A] : FoldsOf(T, base, pick, step, g)
  <1> DEFINE Value(s, g) == IF s = {} THEN base ELSE step[pick[s]][g[s \ {pick[s]}]]
             Upto(n) == \E g \in [SUBSET T -> A] : \A s \in SUBSET T : Cardinality(s) <= n => g[s] = Value(s, g)
  <1>1. \A s \in SUBSET T : IsFiniteSet(s) /\ Cardinality(s) \in Nat /\ Cardinality(s) <= Cardinality(T)
    BY FS_Subset, FS_CardinalityType
  <1>2. \A s \in SUBSET T : s # {} => /\ pick[s] \in T /\ s \ {pick[s]} \in SUBSET T
                                      /\ Cardinality(s) = Cardinality(s \ {pick[s]}) + 1
    <2> TAKE s \in SUBSET T
    <2> HAVE s # {}
    <2>1. pick[s] \in s /\ IsFiniteSet(s)
      BY <1>1
    <2>2. Cardinality(s \ {pick[s]}) = Cardinality(s) - 1
      BY <2>1, FS_RemoveElement
    <2> QED BY <1>1, <2>1, <2>2
  <1>3. \A g \in [SUBSET T -> A], s \in SUBSET T : Value(s, g) \in A
    BY <1>2
  <1> HIDE DEF Value
  <1>4. \A n \in Nat : Upto(n)
    <2>1. Upto(0)
      <3> DEFINE g == [s \in SUBSET T |-> base]
      <3>1. \A s \in SUBSET T : Cardinality(s) <= 0 => s = {}
        <4> TAKE s \in SUBSET T
        <4> HAVE Cardinality(s) <= 0
        <4>1. Cardinality(s \ {pick[s]}) \in Nat
          BY <1>1
        <4>2. s # {} => Cardinality(s) = Cardinality(s \ {pick[s]}) + 1
          BY <1>2
        <4> QED BY <4>1, <4>2
      <3>2. g \in [SUBSET T -> A] /\ \A s \in SUBSET T : Cardinality(s) <= 0 => g[s] = Value(s, g)
        BY <3>1 DEF Value
      <3> QED BY <3>2
    <2>2. ASSUME NEW n \in Nat, Upto(n) PROVE Upto(n + 1)
      <3>1. PICK g \in [SUBSET T -> A] : \A s \in SUBSET T : Cardinality(s) <= n => g[s] = Value(s, g)
        BY <2>2
      <3> DEFINE h == [s \in SUBSET T |-> Value(s, g)]
      <3>2. h \in [SUBSET T -> A]
        BY <1>3
      <3>3. \A s \in SUBSET T : h[s] = Value(s, g)
        OBVIOUS
      <3> HIDE DEF h
      <3>4. ASSUME NEW s \in SUBSET T, Cardinality(s) <= n + 1 PROVE h[s] = Value(s, h)
        <4>1. CASE s = {}
          BY <3>3, <4>1 DEF Value
        <4>2. CASE s # {}
          <5> DEFINE t == s \ {pick[s]}
          <5>1. t \in SUBSET T /\ Cardinality(t) <= n
            BY <1>1, <1>2, <3>4, <4>2
          <5>2. g[t] = h[t]
            BY <3>1, <3>3, <5>1
          <5> QED BY <3>3, <4>2, <5>2 DEF Value
        <4> QED BY <4>1, <4>2
      <3> QED BY <3>2, <3>4
    <2> DEFINE Fails == {n \in Nat : ~Upto(n)}
    <2> HIDE DEF Upto
    <2>3. ASSUME Fails # {} PROVE FALSE
      <3>1. PICK n \in Fails : \A m \in Fails : n <= m
        <4>1. Fails \in SUBSET Nat
          OBVIOUS
        <4> HIDE DEF Fails
        <4> QED BY <2>3, <4>1, LeastOf
      <3>2. n # 0 /\ n \in Nat
        BY <2>1
      <3>3. Upto(n - 1)
        BY <3>1, <3>2
      <3>4. Upto((n - 1) + 1)
        BY <2>2, <3>2, <3>3
      <3> QED BY <3>2, <3>4
    <2> QED BY <2>3
  <1>5. PICK g \in [SUBSET T -> A] : \A s \in SUBSET T : Cardinality(s) <= Cardinality(T) => g[s] = Value(s, g)
    BY <1>4, FS_CardinalityType
  <1>6. g = [s \in SUBSET T |-> Value(s, g)]
    BY <1>1, <1>5
  <1> QED BY <1>6 DEF FoldsOf, Value
----------------------------------------------------------------------------
(* Sequences as bags: how often an id occurs.                                *)

Count(s, x) == Cardinality({i \in DOMAIN s : s[i] = x})

LEMMA CountType ==
  ASSUME NEW A, NEW s \in Seq(A), NEW x
  PROVE  /\ Count(s, x) \in Nat /\ IsFiniteSet({i \in DOMAIN s : s[i] = x})
         /\ Count(s, x) = 0 <=> x \notin ToSet(s)
  <1> DEFINE at == {i \in DOMAIN s : s[i] = x}
  <1>1. IsFiniteSet(at)
    <2>1. IsFiniteSet(1 .. Len(s)) /\ at \subseteq 1 .. Len(s)
      BY FS_Interval
    <2> QED BY <2>1, FS_Subset
  <1>2. at = {} <=> x \notin ToSet(s)
    BY DEF ToSet
  <1> QED BY <1>1, <1>2, FS_CardinalityType, FS_EmptySet DEF Count

LEMMA CountEmpty == \A x : Count(<< >>, x) = 0
  <1>1. \A x : {i \in DOMAIN << >> : << >>[i] = x} = {}
    OBVIOUS
  <1> QED BY <1>1, FS_EmptySet DEF Count

LEMMA CountOne == \A y, x : Count(<<y>>, x) = IF x = y THEN 1 ELSE 0
  <1> TAKE y, x
  <1>1. {i \in DOMAIN <<y>> : <<y>>[i] = x} = IF x = y THEN {1} ELSE {}
    OBVIOUS
  <1> QED BY <1>1, FS_EmptySet, FS_Singleton DEF Count

LEMMA CountBoth ==
  ASSUME NEW A, NEW s \in Seq(A), NEW t \in Seq(A), NEW x
  PROVE  Count(s \o t, x) = Count(s, x) + Count(t, x)
  <1> DEFINE n == Len(s)
             left1 == {i \in DOMAIN s : s[i] = x}
             right == {i \in DOMAIN t : t[i] = x}
             moved == {i \in n + 1 .. n + Len(t) : t[i - n] = x}
             f == [i \in right |-> i + n]
  <1>1. n \in Nat /\ Len(t) \in Nat /\ DOMAIN s = 1 .. n /\ DOMAIN t = 1 .. Len(t)
    OBVIOUS
  <1>2. {i \in DOMAIN (s \o t) : (s \o t)[i] = x} = left1 \cup moved
    <2>1. DOMAIN (s \o t) = 1 .. n + Len(t)
      OBVIOUS
    <2>2. \A i \in 1 .. n + Len(t) : (s \o t)[i] = IF i =< n THEN s[i] ELSE t[i - n]
      OBVIOUS
    <2> QED BY <1>1, <2>1, <2>2
  <1>3. left1 \cap moved = {}
    BY <1>1
  <1>4. IsFiniteSet(left1) /\ IsFiniteSet(right)
    BY CountType
  <1>5. f \in Bijection(right, moved)
    <2>1. f \in [right -> moved]
      BY <1>1
    <2>2. \A i, j \in right : f[i] = f[j] => i = j
      BY <1>1
    <2>3. \A k \in moved : \E i \in right : f[i] = k
      <3> TAKE k \in moved
      <3>1. k - n \in right /\ f[k - n] = k
        BY <1>1
      <3> QED BY <3>1
    <2> HIDE DEF f, right, moved
    <2> QED BY <2>1, <2>2, <2>3 DEF Bijection, Injection, Surjection, IsInjective
  <1>6. Cardinality(moved) = Cardinality(right) /\ IsFiniteSet(moved)
    BY <1>4, <1>5, FS_Bijection DEF ExistsBijection
  <1> HIDE DEF left1, moved, right
  <1>7. Cardinality(left1 \cup moved) = Cardinality(left1) + Cardinality(moved)
    <2>1. Cardinality(left1 \cap moved) = 0
      BY <1>3, FS_EmptySet
    <2>2. Cardinality(left1) \in Nat /\ Cardinality(moved) \in Nat
      BY <1>4, <1>6, FS_CardinalityType
    <2>3. Cardinality(left1 \cup moved) = Cardinality(left1) + Cardinality(moved) - Cardinality(left1 \cap moved)
      BY <1>4, <1>6, FS_Union
    <2> QED BY <2>1, <2>2, <2>3
  <1> QED BY <1>2, <1>6, <1>7 DEF Count, left1, right

\* Where an id first occurs, if it does.
LEMMA FirstPlace ==
  ASSUME NEW A, NEW s \in Seq(A), NEW x
  PROVE  /\ IndexOf(s, x) \in 0 .. Len(s)
         /\ IndexOf(s, x) = 0 <=> Count(s, x) = 0
         /\ IndexOf(s, x) # 0 => s[IndexOf(s, x)] = x
  <1> DEFINE I == {i \in 1 .. Len(s) : s[i] = x}
  <1>1. IndexOf(s, x) = IF I # {} THEN Min(I) ELSE 0
    BY DEF IndexOf, SelectInSeq
  <1>2. Count(s, x) = 0 <=> I = {}
    <2>1. x \in ToSet(s) <=> I # {}
      BY DEF ToSet
    <2> QED BY <2>1, CountType
  <1>3. I # {} => Min(I) \in I
    <2>1. I \in SUBSET Nat
      OBVIOUS
    <2> HIDE DEF I
    <2> QED BY <2>1, LeastOf
  <1> DEFINE m == Min(I)
  <1> HIDE DEF m
  <1>4. IndexOf(s, x) = (IF I # {} THEN m ELSE 0) /\ (I # {} => m \in I)
    BY <1>1, <1>3 DEF m
  <1> QED BY <1>2, <1>4

\* A sequence in two.
LEMMA CutSeq ==
  ASSUME NEW A, NEW s \in Seq(A), NEW i \in 0 .. Len(s)
  PROVE  /\ SubSeq(s, 1, i) \in Seq(A) /\ SubSeq(s, i + 1, Len(s)) \in Seq(A)
         /\ s = SubSeq(s, 1, i) \o SubSeq(s, i + 1, Len(s))
  <1>1. SubSeq(s, 1, i) \in Seq(A) /\ SubSeq(s, i + 1, Len(s)) \in Seq(A)
    OBVIOUS
  <1>2. Len(s) \in Nat /\ 1 \in 1 .. Len(s) + 1 /\ i \in 1 - 1 .. Len(s) /\ Len(s) \in i .. Len(s)
    OBVIOUS
  <1>3. SubSeq(s, 1, i) \o SubSeq(s, i + 1, Len(s)) = SubSeq(s, 1, Len(s))
    BY <1>2, ConcatAdjacentSubSeq
  <1> QED BY <1>1, <1>3, SubSeqFull

LEMMA SplicedCount ==
  ASSUME NEW A, NEW s \in Seq(A), NEW ids \in Seq(A), NEW at \in 0 .. Len(s), NEW x
  PROVE  /\ Spliced(s, at, ids) \in Seq(A)
         /\ Count(Spliced(s, at, ids), x) = Count(s, x) + Count(ids, x)
  <1> DEFINE a == SubSeq(s, 1, at)
             b == SubSeq(s, at + 1, Len(s))
  <1>1. a \in Seq(A) /\ b \in Seq(A) /\ s = a \o b
    BY CutSeq
  <1>2. Spliced(s, at, ids) = (a \o ids) \o b
    BY DEF Spliced
  <1> HIDE DEF a, b
  <1>3. a \o ids \in Seq(A) /\ (a \o ids) \o b \in Seq(A)
    BY <1>1
  <1>4. Count(s, x) = Count(a, x) + Count(b, x)
    BY <1>1, CountBoth
  <1>5. Count((a \o ids) \o b, x) = Count(a \o ids, x) + Count(b, x) /\ Count(a \o ids, x) = Count(a, x) + Count(ids, x)
    BY <1>1, <1>3, CountBoth
  <1>6. Count(a, x) \in Nat /\ Count(b, x) \in Nat /\ Count(ids, x) \in Nat
    BY <1>1, CountType
  <1> QED BY <1>2, <1>3, <1>4, <1>5, <1>6

LEMMA RemoveFirstCount ==
  ASSUME NEW A, NEW s \in Seq(A), NEW y
  PROVE  /\ RemoveFirst(s, y) \in Seq(A)
         /\ \A x : Count(RemoveFirst(s, y), x) = IF x = y /\ Count(s, x) > 0 THEN Count(s, x) - 1 ELSE Count(s, x)
  <1> DEFINE k == IndexOf(s, y)
  <1>1. k \in 0 .. Len(s) /\ (k = 0 <=> Count(s, y) = 0) /\ (k # 0 => s[k] = y)
    BY FirstPlace
  <1>2. y \in ToSet(s) <=> \E i \in 1 .. Len(s) : s[i] = y
    BY DEF ToSet
  <1>3. \A x : Count(s, x) \in Nat
    BY CountType
  <1>4. CASE k = 0
    <2>1. RemoveFirst(s, y) = s
      BY <1>1, <1>2, <1>4, CountType DEF RemoveFirst
    <2> QED BY <1>1, <1>3, <1>4, <2>1
  <1>5. CASE k # 0
    <2> DEFINE a == SubSeq(s, 1, k - 1)
               b == SubSeq(s, k + 1, Len(s))
    <2>1. \E i \in 1 .. Len(s) : s[i] = y
      BY <1>1, <1>5
    <2>2. RemoveFirst(s, y) = a \o b
      BY <2>1 DEF RemoveFirst, RemoveAt, IndexOf
    <2> HIDE DEF k
    <2>3. a \in Seq(A) /\ b \in Seq(A) /\ <<y>> \in Seq(A)
      BY <1>1, <1>5
    <2>4. s = (a \o <<y>>) \o b
      <3>1. s = SubSeq(s, 1, k) \o b
        BY <1>1, CutSeq
      <3>2. 1 \in 1 .. Len(s) /\ k \in 1 .. Len(s)
        BY <1>1, <1>5
      <3>3. SubSeq(s, 1, k) = a \o <<s[k]>>
        BY <3>2, SubSeqRecursiveSecond
      <3> QED BY <1>1, <1>5, <3>1, <3>3
    <2> HIDE DEF a, b
    <2>5. a \o b \in Seq(A) /\ a \o <<y>> \in Seq(A)
      BY <2>3
    <2>6. ASSUME NEW x PROVE Count(a \o b, x) = IF x = y /\ Count(s, x) > 0 THEN Count(s, x) - 1 ELSE Count(s, x)
      <3>1. /\ Count(a \o b, x) = Count(a, x) + Count(b, x)
            /\ Count(s, x) = Count(a \o <<y>>, x) + Count(b, x)
            /\ Count(a \o <<y>>, x) = Count(a, x) + Count(<<y>>, x)
        BY <2>3, <2>4, <2>5, CountBoth
      <3>2. Count(a, x) \in Nat /\ Count(b, x) \in Nat
        BY <2>3, CountType
      <3> QED BY <3>1, <3>2, CountOne
    <2> QED BY <2>2, <2>5, <2>6
  <1> QED BY <1>4, <1>5

\* One entry of each id goes, as far as there is one.
Less(a, b) == IF a >= b THEN a - b ELSE 0
Removals(sum, ids, g) ==
  g = [s \in SUBSET DOMAIN ids |-> IF s = {} THEN sum ELSE RemoveFirst(g[s \ {Max(s)}], ids[Max(s)])]

LEMMA RemovalIsChosen ==
  \A sum, ids : WithoutEach(sum, ids) = (CHOOSE g : Removals(sum, ids, g))[DOMAIN ids]
  BY DEF WithoutEach, FoldLeft, MapThenFoldSet, Removals

\* The places of a sequence have a last one.
LEMMA LastPlace ==
  ASSUME NEW T, IsFiniteSet(T), \A i \in T : i \in Nat
  PROVE  \A s \in SUBSET T : IsFiniteSet(s) /\ (s # {} => Max(s) \in s)
  <1> TAKE s \in SUBSET T
  <1>1. IsFiniteSet(s)
    BY FS_Subset
  <1> QED BY <1>1, GreatestOf

LEMMA WithoutEachCount ==
  ASSUME NEW A, NEW sum \in Seq(A), NEW ids \in Seq(A)
  PROVE  /\ WithoutEach(sum, ids) \in Seq(A)
         /\ \A x : Count(WithoutEach(sum, ids), x) = Less(Count(sum, x), Count(ids, x))
  <1> DEFINE T == DOMAIN ids
             pick == [s \in SUBSET T |-> Max(s)]
             step == [i \in T |-> [a \in Seq(A) |-> RemoveFirst(a, ids[i])]]
             G == CHOOSE g : Removals(sum, ids, g)
  <1>1. IsFiniteSet(T) /\ \A i \in T : i \in Nat
    BY FS_Interval
  <1>2. \A s \in SUBSET T : IsFiniteSet(s) /\ (s # {} => Max(s) \in s)
    BY <1>1, LastPlace
  <1>3. \A i \in T, a \in Seq(A) : step[i][a] = RemoveFirst(a, ids[i]) /\ step[i][a] \in Seq(A)
    BY RemoveFirstCount
  <1>4. PICK h \in [SUBSET T -> Seq(A)] : FoldsOf(T, sum, pick, step, h)
    <2>1. \A s \in SUBSET T : s # {} => pick[s] \in s
      BY <1>2
    <2> HIDE DEF pick, step, T
    <2> QED BY <1>1, <1>3, <2>1, FoldExists
  <1>5. Removals(sum, ids, h)
    <2>1. \A s \in SUBSET T : s # {} => pick[s] = Max(s) /\ pick[s] \in T /\ s \ {pick[s]} \in SUBSET T
      BY <1>2
    <2> HIDE DEF pick, step
    <2>2. \A s \in SUBSET T : h[s] = IF s = {} THEN sum ELSE step[pick[s]][h[s \ {pick[s]}]]
      BY <1>4, Zenon DEF FoldsOf
    <2>3. \A s \in SUBSET T : s # {} => h[s \ {pick[s]}] \in Seq(A)
      BY <1>4, <2>1
    <2>4. ASSUME NEW s \in SUBSET T
          PROVE  h[s] = IF s = {} THEN sum ELSE RemoveFirst(h[s \ {Max(s)}], ids[Max(s)])
      <3>1. CASE s = {}
        BY <2>2, <3>1
      <3>2. CASE s # {}
        <4> DEFINE i == Max(s)
                   a == h[s \ {i}]
        <4>1. pick[s] = i /\ i \in T /\ a \in Seq(A)
          BY <2>1, <2>3, <3>2
        <4>2. h[s] = step[i][a]
          BY <2>2, <3>2, <4>1
        <4> HIDE DEF i, a
        <4>3. step[i][a] = RemoveFirst(a, ids[i])
          BY <1>3, <4>1
        <4>4. h[s] = RemoveFirst(a, ids[i])
          BY <4>2, <4>3
        <4> QED BY <3>2, <4>4 DEF i, a
      <3> QED BY <3>1, <3>2
    <2>5. h = [s \in SUBSET T |-> h[s]]
      BY <1>4
    <2> QED BY <2>4, <2>5 DEF Removals
  <1>6. Removals(sum, ids, G)
    BY <1>5
  <1> HIDE DEF G, pick, step
  <1>7. \A s \in SUBSET T : G[s] = IF s = {} THEN sum ELSE RemoveFirst(G[s \ {Max(s)}], ids[Max(s)])
    BY <1>6 DEF Removals
  <1> DEFINE Among(s, x) == Cardinality({i \in s : ids[i] = x})
             Right(s) == G[s] \in Seq(A) /\ \A x : Count(G[s], x) = Less(Count(sum, x), Among(s, x))
             U == {s \in SUBSET T : ~Right(s)}
  <1>8. ASSUME U # {} PROVE FALSE
    <2>1. PICK s \in U : \A u \in U : u \subseteq s => u = s
      <3>1. U \in SUBSET SUBSET T
        OBVIOUS
      <3> HIDE DEF U
      <3> QED BY <1>1, <1>8, <3>1, SmallestSet
    <2>2. CASE s = {}
      <3>1. G[s] = sum
        BY <1>7, <2>2
      <3>2. \A x : Among(s, x) = 0
        <4>1. \A x : {i \in s : ids[i] = x} = {}
          BY <2>2
        <4> QED BY <4>1, FS_EmptySet
      <3>3. \A x : Count(sum, x) \in Nat
        BY CountType
      <3> HIDE DEF Among
      <3>4. Right(s)
        BY <3>1, <3>2, <3>3 DEF Less
      <3> QED BY <2>1, <3>4
    <2>3. CASE s # {}
      <3> DEFINE c == Max(s)
                 t == s \ {c}
      <3>1. c \in s /\ t \in SUBSET T /\ t # s /\ t \subseteq s /\ c \notin t
        BY <1>2, <2>1, <2>3
      <3>2. Right(t)
        BY <2>1, <3>1
      <3>3. G[s] = RemoveFirst(G[t], ids[c])
        BY <1>7, <2>1, <2>3
      <3>4. \A x : Among(s, x) = Among(t, x) + (IF x = ids[c] THEN 1 ELSE 0) /\ Among(t, x) \in Nat
        <4> TAKE x
        <4> DEFINE S == {i \in s : ids[i] = x}
                   R == {i \in t : ids[i] = x}
        <4>1. IsFiniteSet(R) /\ c \notin R
          <5>1. IsFiniteSet(t) /\ R \subseteq t
            BY <1>2, <3>1
          <5> QED BY <3>1, <5>1, FS_Subset
        <4>2. S = IF x = ids[c] THEN R \cup {c} ELSE R
          BY <3>1
        <4> HIDE DEF S, R
        <4>3. Cardinality(S) = Cardinality(R) + (IF x = ids[c] THEN 1 ELSE 0) /\ Cardinality(R) \in Nat
          <5>1. Cardinality(R \cup {c}) = Cardinality(R) + 1
            BY <4>1, FS_AddElement
          <5>2. Cardinality(R) \in Nat
            BY <4>1, FS_CardinalityType
          <5> QED BY <4>2, <5>1, <5>2
        <4> QED BY <4>3 DEF S, R
      <3> HIDE DEF c, t
      <3>5. /\ G[s] \in Seq(A)
            /\ \A x : Count(G[s], x) = IF x = ids[c] /\ Count(G[t], x) > 0 THEN Count(G[t], x) - 1 ELSE Count(G[t], x)
        BY <3>2, <3>3, RemoveFirstCount
      <3>6. \A x : Count(sum, x) \in Nat
        BY CountType
      <3> HIDE DEF Among
      <3>7. Right(s)
        BY <3>2, <3>4, <3>5, <3>6 DEF Less
      <3> QED BY <2>1, <3>7
    <2> QED BY <2>2, <2>3
  <1>9. Right(T)
    BY <1>8
  <1> QED BY <1>9, RemovalIsChosen DEF Count, G

\* What is left of a sequence without some ids, when it holds none of them or
\* begins with the only one.
MissingOf(ids, there, g) ==
  g = [s \in SUBSET DOMAIN ids |->
         IF s = {} THEN << >>
         ELSE IF ids[Max(s)] \in there THEN g[s \ {Max(s)}] ELSE Append(g[s \ {Max(s)}], ids[Max(s)])]

LEMMA MissingIsChosen ==
  \A ids, there : Missing(ids, there) = (CHOOSE g : MissingOf(ids, there, g))[DOMAIN ids]
  BY DEF Missing, FoldLeft, MapThenFoldSet, MissingOf

LEMMA MissingCount ==
  ASSUME NEW A, NEW ids \in Seq(A), NEW there
  PROVE  /\ Missing(ids, there) \in Seq(A)
         /\ \A x : Count(Missing(ids, there), x) = IF x \in there THEN 0 ELSE Count(ids, x)
  <1> DEFINE T == DOMAIN ids
             pick == [s \in SUBSET T |-> Max(s)]
             step == [i \in T |-> [a \in Seq(A) |-> IF ids[i] \in there THEN a ELSE Append(a, ids[i])]]
             G == CHOOSE g : MissingOf(ids, there, g)
  <1>1. IsFiniteSet(T) /\ (\A i \in T : i \in Nat) /\ \A i \in T : ids[i] \in A
    BY FS_Interval
  <1>2. \A s \in SUBSET T : IsFiniteSet(s) /\ (s # {} => Max(s) \in s)
    BY <1>1, LastPlace
  <1>3. \A i \in T, a \in Seq(A) : /\ step[i][a] = IF ids[i] \in there THEN a ELSE Append(a, ids[i])
                                   /\ step[i][a] \in Seq(A)
    BY <1>1
  <1>4. PICK h \in [SUBSET T -> Seq(A)] : FoldsOf(T, << >>, pick, step, h)
    <2>1. \A s \in SUBSET T : s # {} => pick[s] \in s
      BY <1>2
    <2>2. << >> \in Seq(A)
      OBVIOUS
    <2> HIDE DEF pick, step, T
    <2> QED BY <1>1, <1>3, <2>1, <2>2, FoldExists
  <1>5. MissingOf(ids, there, h)
    <2>1. \A s \in SUBSET T : s # {} => pick[s] = Max(s) /\ pick[s] \in T /\ s \ {pick[s]} \in SUBSET T
      BY <1>2
    <2> HIDE DEF pick, step
    <2>2. \A s \in SUBSET T : h[s] = IF s = {} THEN << >> ELSE step[pick[s]][h[s \ {pick[s]}]]
      BY <1>4, Zenon DEF FoldsOf
    <2>3. \A s \in SUBSET T : s # {} => h[s \ {pick[s]}] \in Seq(A)
      BY <1>4, <2>1
    <2>4. ASSUME NEW s \in SUBSET T
          PROVE  h[s] = IF s = {} THEN << >>
                        ELSE IF ids[Max(s)] \in there THEN h[s \ {Max(s)}] ELSE Append(h[s \ {Max(s)}], ids[Max(s)])
      <3>1. CASE s = {}
        BY <2>2, <3>1
      <3>2. CASE s # {}
        <4> DEFINE i == Max(s)
                   a == h[s \ {i}]
        <4>1. pick[s] = i /\ i \in T /\ a \in Seq(A)
          BY <2>1, <2>3, <3>2
        <4>2. h[s] = step[i][a]
          BY <2>2, <3>2, <4>1
        <4> HIDE DEF i, a
        <4>3. step[i][a] = IF ids[i] \in there THEN a ELSE Append(a, ids[i])
          BY <1>3, <4>1
        <4>4. h[s] = IF ids[i] \in there THEN a ELSE Append(a, ids[i])
          BY <4>2, <4>3
        <4> QED BY <3>2, <4>4 DEF i, a
      <3> QED BY <3>1, <3>2
    <2>5. h = [s \in SUBSET T |-> h[s]]
      BY <1>4
    <2> QED BY <2>4, <2>5 DEF MissingOf
  <1>6. MissingOf(ids, there, G)
    BY <1>5
  <1> HIDE DEF G, pick, step
  <1>7. \A s \in SUBSET T :
          G[s] = IF s = {} THEN << >>
                 ELSE IF ids[Max(s)] \in there THEN G[s \ {Max(s)}] ELSE Append(G[s \ {Max(s)}], ids[Max(s)])
    BY <1>6 DEF MissingOf
  <1> DEFINE Among(s, x) == Cardinality({i \in s : ids[i] = x})
             Right(s) == /\ G[s] \in Seq(A)
                         /\ \A x : Count(G[s], x) = IF x \in there THEN 0 ELSE Among(s, x)
             U == {s \in SUBSET T : ~Right(s)}
  <1>8. ASSUME U # {} PROVE FALSE
    <2>1. PICK s \in U : \A u \in U : u \subseteq s => u = s
      <3>1. U \in SUBSET SUBSET T
        OBVIOUS
      <3> HIDE DEF U
      <3> QED BY <1>1, <1>8, <3>1, SmallestSet
    <2>2. CASE s = {}
      <3>1. G[s] = << >>
        BY <1>7, <2>2
      <3>2. \A x : Among(s, x) = 0
        <4>1. \A x : {i \in s : ids[i] = x} = {}
          BY <2>2
        <4> QED BY <4>1, FS_EmptySet
      <3> HIDE DEF Among
      <3>4. Right(s)
        BY <3>1, <3>2, CountEmpty
      <3> QED BY <2>1, <3>4
    <2>3. CASE s # {}
      <3> DEFINE c == Max(s)
                 t == s \ {c}
      <3>1. c \in s /\ t \in SUBSET T /\ t # s /\ t \subseteq s /\ c \notin t
        BY <1>2, <2>1, <2>3
      <3>2. Right(t)
        BY <2>1, <3>1
      <3>3. G[s] = IF ids[c] \in there THEN G[t] ELSE Append(G[t], ids[c])
        BY <1>7, <2>1, <2>3
      <3>4. \A x : Among(s, x) = Among(t, x) + (IF x = ids[c] THEN 1 ELSE 0) /\ Among(t, x) \in Nat
        <4> TAKE x
        <4> DEFINE S == {i \in s : ids[i] = x}
                   R == {i \in t : ids[i] = x}
        <4>1. IsFiniteSet(R) /\ c \notin R
          <5>1. IsFiniteSet(t) /\ R \subseteq t
            BY <1>2, <3>1
          <5> QED BY <3>1, <5>1, FS_Subset
        <4>2. S = IF x = ids[c] THEN R \cup {c} ELSE R
          BY <3>1
        <4> HIDE DEF S, R
        <4>3. Cardinality(S) = Cardinality(R) + (IF x = ids[c] THEN 1 ELSE 0) /\ Cardinality(R) \in Nat
          <5>1. Cardinality(R \cup {c}) = Cardinality(R) + 1
            BY <4>1, FS_AddElement
          <5>2. Cardinality(R) \in Nat
            BY <4>1, FS_CardinalityType
          <5> QED BY <4>2, <5>1, <5>2
        <4> QED BY <4>3 DEF S, R
      <3>5. ids[c] \in A /\ G[t] \in Seq(A)
        BY <1>1, <2>1, <3>1, <3>2
      <3> HIDE DEF c, t, Among
      <3>6. /\ Append(G[t], ids[c]) \in Seq(A)
            /\ \A x : Count(Append(G[t], ids[c]), x) = Count(G[t], x) + (IF x = ids[c] THEN 1 ELSE 0)
        <4>1. Append(G[t], ids[c]) = G[t] \o <<ids[c]>> /\ <<ids[c]>> \in Seq(A)
          BY <3>5, AppendIsConcat
        <4>2. \A x : Count(G[t] \o <<ids[c]>>, x) = Count(G[t], x) + Count(<<ids[c]>>, x)
          <5> DEFINE one == <<ids[c]>>
          <5>1. one \in Seq(A)
            BY <4>1
          <5> HIDE DEF one
          <5>2. \A x : Count(G[t] \o one, x) = Count(G[t], x) + Count(one, x)
            BY <3>5, <5>1, CountBoth
          <5> QED BY <5>2 DEF one
        <4> QED BY <3>5, <4>1, <4>2, CountOne
      <3>7. Right(s)
        BY <3>2, <3>3, <3>4, <3>6
      <3> QED BY <2>1, <3>7
    <2> QED BY <2>2, <2>3
  <1>9. Right(T)
    BY <1>8
  <1> QED BY <1>9, MissingIsChosen DEF Count, G

----------------------------------------------------------------------------
(* How often an id occurs in all of some pieces.                             *)

Tally(piece, T, x) == TotalOf([i \in DOMAIN piece |-> [amount |-> Count(piece[i], x)]], T)
Pieces(A, piece, T) == IsFiniteSet(T) /\ T \subseteq DOMAIN piece /\ \A i \in T : piece[i] \in Seq(A)

LEMMA PiecesPart ==
  ASSUME NEW A, NEW piece, NEW T, Pieces(A, piece, T), NEW S \in SUBSET T
  PROVE  Pieces(A, piece, S)
  BY FS_Subset DEF Pieces

LEMMA TallyWeights ==
  ASSUME NEW A, NEW piece, NEW T, Pieces(A, piece, T), NEW x, NEW w,
         w = [i \in DOMAIN piece |-> [amount |-> Count(piece[i], x)]]
  PROVE  /\ \A i \in T : w[i].amount = Count(piece[i], x) /\ w[i].amount \in Nat
         /\ \A S : Tally(piece, S, x) = TotalOf(w, S)
  <1>1. \A i \in T : w[i].amount = Count(piece[i], x)
    BY DEF Pieces
  <1>2. \A i \in T : Count(piece[i], x) \in Nat
    BY CountType DEF Pieces
  <1> QED BY <1>1, <1>2 DEF Tally

LEMMA TallyEmpty == \A piece, x : Tally(piece, {}, x) = 0
  <1> TAKE piece, x
  <1>1. IsFiniteSet({})
    BY FS_EmptySet
  <1> QED BY <1>1, SumStep DEF Tally

LEMMA TallyType ==
  ASSUME NEW A, NEW piece, NEW T, Pieces(A, piece, T), NEW x
  PROVE  Tally(piece, T, x) \in Nat
  <1> DEFINE w == [i \in DOMAIN piece |-> [amount |-> Count(piece[i], x)]]
  <1>1. w = [i \in DOMAIN piece |-> [amount |-> Count(piece[i], x)]]
    OBVIOUS
  <1> HIDE DEF w
  <1>2. (\A i \in T : w[i].amount \in Nat) /\ Tally(piece, T, x) = TotalOf(w, T)
    BY <1>1, TallyWeights
  <1> QED BY <1>2, SumType DEF Pieces

LEMMA TallyWithout ==
  ASSUME NEW A, NEW piece, NEW T, Pieces(A, piece, T), NEW y \in T, NEW x
  PROVE  /\ Tally(piece, T, x) = Count(piece[y], x) + Tally(piece, T \ {y}, x)
         /\ Count(piece[y], x) \in Nat /\ Tally(piece, T \ {y}, x) \in Nat
  <1> DEFINE w == [i \in DOMAIN piece |-> [amount |-> Count(piece[i], x)]]
  <1>1. w = [i \in DOMAIN piece |-> [amount |-> Count(piece[i], x)]]
    OBVIOUS
  <1> HIDE DEF w
  <1>2. /\ \A i \in T : w[i].amount = Count(piece[i], x) /\ w[i].amount \in Nat
        /\ Tally(piece, T, x) = TotalOf(w, T) /\ Tally(piece, T \ {y}, x) = TotalOf(w, T \ {y})
    BY <1>1, TallyWeights
  <1>3. TotalOf(w, T) = w[y].amount + TotalOf(w, T \ {y})
    BY <1>2, SumWithout DEF Pieces
  <1>4. Tally(piece, T \ {y}, x) \in Nat
    BY PiecesPart, TallyType
  <1> QED BY <1>2, <1>3, <1>4

\* Pieces that count the same, for the set they are summed over.
LEMMA TallySame ==
  ASSUME NEW piece, NEW other, NEW T, IsFiniteSet(T), NEW x,
         T \subseteq DOMAIN piece, T \subseteq DOMAIN other,
         \A i \in T : Count(other[i], x) = Count(piece[i], x)
  PROVE  Tally(other, T, x) = Tally(piece, T, x)
  <1> DEFINE w == [i \in DOMAIN piece |-> [amount |-> Count(piece[i], x)]]
             v == [i \in DOMAIN other |-> [amount |-> Count(other[i], x)]]
  <1>1. \A i \in T : v[i].amount = w[i].amount
    OBVIOUS
  <1> HIDE DEF w, v
  <1>2. TotalOf(v, T) = TotalOf(w, T)
    BY <1>1, SumSame
  <1> QED BY <1>2 DEF Tally, w, v

LEMMA TallyZero ==
  ASSUME NEW A, NEW piece, NEW T, Pieces(A, piece, T), NEW x, \A i \in T : Count(piece[i], x) = 0
  PROVE  Tally(piece, T, x) = 0
  <1> DEFINE U == {s \in SUBSET T : Tally(piece, s, x) # 0}
  <1>1. ASSUME U # {} PROVE FALSE
    <2>1. PICK s \in U : \A u \in U : u \subseteq s => u = s
      <3>1. U \in SUBSET SUBSET T
        OBVIOUS
      <3> HIDE DEF U
      <3> QED BY <1>1, <3>1, SmallestSet DEF Pieces
    <2>2. s # {}
      BY <2>1, TallyEmpty
    <2>3. PICK y \in s : TRUE
      BY <2>2
    <2>4. Pieces(A, piece, s)
      BY <2>1, PiecesPart
    <2>5. Tally(piece, s, x) = Count(piece[y], x) + Tally(piece, s \ {y}, x)
      BY <2>4, TallyWithout
    <2>6. Tally(piece, s \ {y}, x) = 0
      BY <2>1, <2>3
    <2> QED BY <2>1, <2>3, <2>5, <2>6
  <1> QED BY <1>1

LEMMA TallyUnion ==
  ASSUME NEW A, NEW piece, NEW S, NEW T, Pieces(A, piece, S), Pieces(A, piece, T), S \cap T = {}, NEW x
  PROVE  Tally(piece, S \cup T, x) = Tally(piece, S, x) + Tally(piece, T, x)
  <1> DEFINE U == {s \in SUBSET S : Tally(piece, s \cup T, x) # Tally(piece, s, x) + Tally(piece, T, x)}
  <1>1. ASSUME U # {} PROVE FALSE
    <2>1. PICK s \in U : \A u \in U : u \subseteq s => u = s
      <3>1. U \in SUBSET SUBSET S
        OBVIOUS
      <3> HIDE DEF U
      <3> QED BY <1>1, <3>1, SmallestSet DEF Pieces
    <2>2. Tally(piece, T, x) \in Nat
      BY TallyType
    <2>3. s # {}
      <3> SUFFICES ASSUME s = {} PROVE FALSE
        OBVIOUS
      <3>1. s \cup T = T
        OBVIOUS
      <3>2. Tally(piece, s \cup T, x) = Tally(piece, T, x)
        BY <3>1
      <3>3. Tally(piece, s, x) = 0
        BY TallyEmpty
      <3> QED BY <2>1, <2>2, <3>2, <3>3
    <2>4. PICK y \in s : TRUE
      BY <2>3
    <2>5. Pieces(A, piece, s) /\ Pieces(A, piece, s \cup T)
      <3>1. Pieces(A, piece, s)
        BY <2>1, PiecesPart
      <3> QED BY <3>1, FS_Union DEF Pieces
    <2>6. Tally(piece, s, x) = Count(piece[y], x) + Tally(piece, s \ {y}, x)
      BY <2>5, TallyWithout
    <2>7. Tally(piece, s \cup T, x) = Count(piece[y], x) + Tally(piece, (s \ {y}) \cup T, x)
      <3>1. y \in s \cup T /\ (s \cup T) \ {y} = (s \ {y}) \cup T
        BY <2>1, <2>4
      <3> DEFINE both == s \cup T
      <3>2. Pieces(A, piece, both) /\ y \in both
        BY <2>5, <3>1
      <3> HIDE DEF both
      <3>3. Tally(piece, both, x) = Count(piece[y], x) + Tally(piece, both \ {y}, x)
        BY <3>2, TallyWithout
      <3> QED BY <3>1, <3>3 DEF both
    <2>8. Tally(piece, (s \ {y}) \cup T, x) = Tally(piece, s \ {y}, x) + Tally(piece, T, x)
      BY <2>1, <2>4
    <2>9. Count(piece[y], x) \in Nat /\ Tally(piece, s \ {y}, x) \in Nat
      BY <2>5, TallyWithout
    <2> QED BY <2>1, <2>2, <2>6, <2>7, <2>8, <2>9
  <1> QED BY <1>1

\* Taking the ids of every piece away.
Purge(base, piece, T, g) ==
  g = [s \in SUBSET T |-> IF s = {} THEN base ELSE WithoutEach(g[s \ {APick(s)}], piece[APick(s)])]

LEMMA PurgeCount ==
  ASSUME NEW A, NEW piece, NEW T, Pieces(A, piece, T), NEW base \in Seq(A)
  PROVE  /\ (CHOOSE g : Purge(base, piece, T, g))[T] \in Seq(A)
         /\ \A x : Count((CHOOSE g : Purge(base, piece, T, g))[T], x) = Less(Count(base, x), Tally(piece, T, x))
  <1> DEFINE pick == [s \in SUBSET T |-> APick(s)]
             step == [i \in T |-> [a \in Seq(A) |-> WithoutEach(a, piece[i])]]
             G == CHOOSE g : Purge(base, piece, T, g)
  <1>1. IsFiniteSet(T) /\ \A i \in T : piece[i] \in Seq(A)
    BY DEF Pieces
  <1>2. \A s \in SUBSET T : s # {} => APick(s) \in s
    BY DEF APick
  <1>3. \A i \in T, a \in Seq(A) : step[i][a] = WithoutEach(a, piece[i]) /\ step[i][a] \in Seq(A)
    BY <1>1, WithoutEachCount
  <1>4. PICK h \in [SUBSET T -> Seq(A)] : FoldsOf(T, base, pick, step, h)
    <2>1. \A s \in SUBSET T : s # {} => pick[s] \in s
      BY <1>2
    <2> HIDE DEF pick, step
    <2> QED BY <1>1, <1>3, <2>1, FoldExists
  <1>5. Purge(base, piece, T, h)
    <2>1. \A s \in SUBSET T : s # {} => pick[s] = APick(s) /\ pick[s] \in T /\ s \ {pick[s]} \in SUBSET T
      BY <1>2
    <2> HIDE DEF pick, step
    <2>2. \A s \in SUBSET T : h[s] = IF s = {} THEN base ELSE step[pick[s]][h[s \ {pick[s]}]]
      BY <1>4, Zenon DEF FoldsOf
    <2>3. \A s \in SUBSET T : s # {} => h[s \ {pick[s]}] \in Seq(A)
      BY <1>4, <2>1
    <2>4. ASSUME NEW s \in SUBSET T
          PROVE  h[s] = IF s = {} THEN base ELSE WithoutEach(h[s \ {APick(s)}], piece[APick(s)])
      <3>1. CASE s = {}
        BY <2>2, <3>1
      <3>2. CASE s # {}
        <4> DEFINE i == APick(s)
                   a == h[s \ {i}]
        <4>1. pick[s] = i /\ i \in T /\ a \in Seq(A)
          BY <2>1, <2>3, <3>2
        <4>2. h[s] = step[i][a]
          BY <2>2, <3>2, <4>1
        <4> HIDE DEF i, a
        <4>3. step[i][a] = WithoutEach(a, piece[i])
          BY <1>3, <4>1
        <4>4. h[s] = WithoutEach(a, piece[i])
          BY <4>2, <4>3
        <4> QED BY <3>2, <4>4 DEF i, a
      <3> QED BY <3>1, <3>2
    <2>5. h = [s \in SUBSET T |-> h[s]]
      BY <1>4
    <2> QED BY <2>4, <2>5 DEF Purge
  <1>6. Purge(base, piece, T, G)
    BY <1>5
  <1> HIDE DEF G, pick, step
  <1>7. \A s \in SUBSET T : G[s] = IF s = {} THEN base ELSE WithoutEach(G[s \ {APick(s)}], piece[APick(s)])
    BY <1>6 DEF Purge
  <1> DEFINE Right(s) == G[s] \in Seq(A) /\ \A x : Count(G[s], x) = Less(Count(base, x), Tally(piece, s, x))
             U == {s \in SUBSET T : ~Right(s)}
  <1>8. ASSUME U # {} PROVE FALSE
    <2>1. PICK s \in U : \A u \in U : u \subseteq s => u = s
      <3>1. U \in SUBSET SUBSET T
        OBVIOUS
      <3> HIDE DEF U
      <3> QED BY <1>1, <1>8, <3>1, SmallestSet
    <2>2. \A x : Count(base, x) \in Nat
      BY CountType
    <2>3. CASE s = {}
      <3>1. G[s] = base /\ \A x : Tally(piece, s, x) = 0
        BY <1>7, <2>3, TallyEmpty
      <3>2. Right(s)
        BY <2>2, <3>1 DEF Less
      <3> QED BY <2>1, <3>2
    <2>4. CASE s # {}
      <3> DEFINE c == APick(s)
                 t == s \ {c}
      <3>1. c \in s /\ c \in T /\ t \in SUBSET T /\ t # s /\ t \subseteq s
        BY <1>2, <2>1, <2>4
      <3>2. Right(t)
        BY <2>1, <3>1
      <3>3. G[s] = WithoutEach(G[t], piece[c])
        BY <1>7, <2>1, <2>4
      <3>4. \A x : /\ Tally(piece, s, x) = Count(piece[c], x) + Tally(piece, t, x)
                   /\ Count(piece[c], x) \in Nat /\ Tally(piece, t, x) \in Nat
        <4>1. Pieces(A, piece, s)
          BY <2>1, PiecesPart
        <4> QED BY <3>1, <4>1, TallyWithout
      <3>5. piece[c] \in Seq(A)
        BY <1>1, <3>1
      <3> HIDE DEF c, t
      <3>6. /\ G[s] \in Seq(A)
            /\ \A x : Count(G[s], x) = Less(Count(G[t], x), Count(piece[c], x))
        BY <3>2, <3>3, <3>5, WithoutEachCount
      <3>7. Right(s)
        BY <2>2, <3>2, <3>4, <3>6 DEF Less
      <3> QED BY <2>1, <3>7
    <2> QED BY <2>3, <2>4
  <1>9. Right(T)
    BY <1>8
  <1> QED BY <1>9 DEF G

\* Putting every piece in ahead of the class.
Insert(base, piece, T, g) ==
  g = [s \in SUBSET T |-> IF s = {} THEN base ELSE Spliced(g[s \ {APick(s)}], LevelAnchor(g[s \ {APick(s)}]), piece[APick(s)])]

LEMMA InsertCount ==
  ASSUME NEW A, NEW piece, NEW T, Pieces(A, piece, T), NEW base \in Seq(A),
         Count(base, Head(Elsewhere)) > 0
  PROVE  /\ (CHOOSE g : Insert(base, piece, T, g))[T] \in Seq(A)
         /\ \A x : Count((CHOOSE g : Insert(base, piece, T, g))[T], x) = Count(base, x) + Tally(piece, T, x)
  <1> DEFINE Anchored == {a \in Seq(A) : Count(a, Head(Elsewhere)) > 0}
             pick == [s \in SUBSET T |-> APick(s)]
             step == [i \in T |-> [a \in Anchored |-> Spliced(a, LevelAnchor(a), piece[i])]]
             G == CHOOSE g : Insert(base, piece, T, g)
  <1>0. \A a \in Anchored, ids \in Seq(A) :
           /\ Spliced(a, LevelAnchor(a), ids) \in Anchored
           /\ \A x : Count(Spliced(a, LevelAnchor(a), ids), x) = Count(a, x) + Count(ids, x)
    <2> TAKE a \in Anchored, ids \in Seq(A)
    <2>1. LevelAnchor(a) \in 0 .. Len(a)
      <3>1. IndexOf(a, Head(Elsewhere)) \in 0 .. Len(a) /\ IndexOf(a, Head(Elsewhere)) # 0
        BY FirstPlace
      <3> QED BY <3>1 DEF LevelAnchor
    <2>2. /\ Spliced(a, LevelAnchor(a), ids) \in Seq(A)
          /\ \A x : Count(Spliced(a, LevelAnchor(a), ids), x) = Count(a, x) + Count(ids, x)
      BY <2>1, SplicedCount
    <2>3. \A x : Count(a, x) \in Nat /\ Count(ids, x) \in Nat
      BY CountType
    <2> QED BY <2>2, <2>3
  <1>1. IsFiniteSet(T) /\ \A i \in T : piece[i] \in Seq(A)
    BY DEF Pieces
  <1>2. \A s \in SUBSET T : s # {} => APick(s) \in s
    BY DEF APick
  <1>3. \A i \in T, a \in Anchored :
          step[i][a] = Spliced(a, LevelAnchor(a), piece[i]) /\ step[i][a] \in Anchored
    <2> SUFFICES ASSUME NEW i \in T, NEW a \in Anchored PROVE Spliced(a, LevelAnchor(a), piece[i]) \in Anchored
      OBVIOUS
    <2> QED BY <1>0, <1>1
  <1>4. PICK h \in [SUBSET T -> Anchored] : FoldsOf(T, base, pick, step, h)
    <2>1. \A s \in SUBSET T : s # {} => pick[s] \in s
      BY <1>2
    <2>2. base \in Anchored
      OBVIOUS
    <2> HIDE DEF pick, step, Anchored
    <2> QED BY <1>1, <1>3, <2>1, <2>2, FoldExists
  <1>5. Insert(base, piece, T, h)
    <2>1. \A s \in SUBSET T : s # {} => pick[s] = APick(s) /\ pick[s] \in T /\ s \ {pick[s]} \in SUBSET T
      BY <1>2
    <2> HIDE DEF pick, step
    <2>2. \A s \in SUBSET T : h[s] = IF s = {} THEN base ELSE step[pick[s]][h[s \ {pick[s]}]]
      BY <1>4, Zenon DEF FoldsOf
    <2>3. \A s \in SUBSET T : s # {} => h[s \ {pick[s]}] \in Anchored
      BY <1>4, <2>1
    <2>4. ASSUME NEW s \in SUBSET T
          PROVE  h[s] = IF s = {} THEN base ELSE Spliced(h[s \ {APick(s)}], LevelAnchor(h[s \ {APick(s)}]), piece[APick(s)])
      <3>1. CASE s = {}
        BY <2>2, <3>1
      <3>2. CASE s # {}
        <4> DEFINE i == APick(s)
                   a == h[s \ {i}]
        <4>1. pick[s] = i /\ i \in T /\ a \in Anchored
          BY <2>1, <2>3, <3>2
        <4>2. h[s] = step[i][a]
          BY <2>2, <3>2, <4>1
        <4> HIDE DEF i, a
        <4>3. step[i][a] = Spliced(a, LevelAnchor(a), piece[i])
          BY <1>3, <4>1
        <4>4. h[s] = Spliced(a, LevelAnchor(a), piece[i])
          BY <4>2, <4>3
        <4> QED BY <3>2, <4>4 DEF i, a
      <3> QED BY <3>1, <3>2
    <2>5. h = [s \in SUBSET T |-> h[s]]
      BY <1>4
    <2> QED BY <2>4, <2>5 DEF Insert
  <1>6. Insert(base, piece, T, G)
    BY <1>5
  <1> HIDE DEF G, pick, step
  <1>7. \A s \in SUBSET T : G[s] = IF s = {} THEN base ELSE Spliced(G[s \ {APick(s)}], LevelAnchor(G[s \ {APick(s)}]), piece[APick(s)])
    BY <1>6 DEF Insert
  <1> DEFINE Right(s) == G[s] \in Anchored /\ \A x : Count(G[s], x) = Count(base, x) + Tally(piece, s, x)
             U == {s \in SUBSET T : ~Right(s)}
  <1>8. ASSUME U # {} PROVE FALSE
    <2>1. PICK s \in U : \A u \in U : u \subseteq s => u = s
      <3>1. U \in SUBSET SUBSET T
        OBVIOUS
      <3> HIDE DEF U
      <3> QED BY <1>1, <1>8, <3>1, SmallestSet
    <2>2. \A x : Count(base, x) \in Nat
      BY CountType
    <2>3. CASE s = {}
      <3>1. G[s] = base /\ \A x : Tally(piece, s, x) = 0
        BY <1>7, <2>3, TallyEmpty
      <3>2. Right(s)
        BY <2>2, <3>1
      <3> QED BY <2>1, <3>2
    <2>4. CASE s # {}
      <3> DEFINE c == APick(s)
                 t == s \ {c}
      <3>1. c \in s /\ c \in T /\ t \in SUBSET T /\ t # s /\ t \subseteq s
        BY <1>2, <2>1, <2>4
      <3>2. Right(t)
        BY <2>1, <3>1
      <3>3. G[s] = Spliced(G[t], LevelAnchor(G[t]), piece[c])
        BY <1>7, <2>1, <2>4
      <3>4. \A x : /\ Tally(piece, s, x) = Count(piece[c], x) + Tally(piece, t, x)
                   /\ Count(piece[c], x) \in Nat /\ Tally(piece, t, x) \in Nat
        <4>1. Pieces(A, piece, s)
          BY <2>1, PiecesPart
        <4> QED BY <3>1, <4>1, TallyWithout
      <3>5. piece[c] \in Seq(A)
        BY <1>1, <3>1
      <3> HIDE DEF c, t
      <3>6. G[s] \in Anchored /\ \A x : Count(G[s], x) = Count(G[t], x) + Count(piece[c], x)
        BY <1>0, <3>2, <3>3, <3>5
      <3>7. Right(s)
        BY <2>2, <3>2, <3>4, <3>6
      <3> QED BY <2>1, <3>7
    <2> QED BY <2>3, <2>4
  <1>9. Right(T)
    BY <1>8
  <1> QED BY <1>9 DEF G

\* One piece after another.
Joined(base, piece, T, g) ==
  g = [s \in SUBSET T |-> IF s = {} THEN base ELSE g[s \ {APick(s)}] \o piece[APick(s)]]

Joint(base, piece, T) == (CHOOSE g : Joined(base, piece, T, g))[T]

LEMMA JoinedCount ==
  ASSUME NEW A, NEW piece, NEW T, Pieces(A, piece, T), NEW base \in Seq(A)
  PROVE  /\ Joint(base, piece, T) \in Seq(A)
         /\ \A x : Count(Joint(base, piece, T), x) = Count(base, x) + Tally(piece, T, x)
  <1> DEFINE pick == [s \in SUBSET T |-> APick(s)]
             step == [i \in T |-> [a \in Seq(A) |-> a \o piece[i]]]
             G == CHOOSE g : Joined(base, piece, T, g)
  <1>1. IsFiniteSet(T) /\ \A i \in T : piece[i] \in Seq(A)
    BY DEF Pieces
  <1>2. \A s \in SUBSET T : s # {} => APick(s) \in s
    BY DEF APick
  <1>3. \A i \in T, a \in Seq(A) : step[i][a] = a \o piece[i] /\ step[i][a] \in Seq(A)
    BY <1>1
  <1>4. PICK h \in [SUBSET T -> Seq(A)] : FoldsOf(T, base, pick, step, h)
    <2>1. \A s \in SUBSET T : s # {} => pick[s] \in s
      BY <1>2
    <2> HIDE DEF pick, step
    <2> QED BY <1>1, <1>3, <2>1, FoldExists
  <1>5. Joined(base, piece, T, h)
    <2>1. \A s \in SUBSET T : s # {} => pick[s] = APick(s) /\ pick[s] \in T /\ s \ {pick[s]} \in SUBSET T
      BY <1>2
    <2> HIDE DEF pick, step
    <2>2. \A s \in SUBSET T : h[s] = IF s = {} THEN base ELSE step[pick[s]][h[s \ {pick[s]}]]
      BY <1>4, Zenon DEF FoldsOf
    <2>3. \A s \in SUBSET T : s # {} => h[s \ {pick[s]}] \in Seq(A)
      BY <1>4, <2>1
    <2>4. ASSUME NEW s \in SUBSET T
          PROVE  h[s] = IF s = {} THEN base ELSE h[s \ {APick(s)}] \o piece[APick(s)]
      <3>1. CASE s = {}
        BY <2>2, <3>1
      <3>2. CASE s # {}
        <4> DEFINE i == APick(s)
                   a == h[s \ {i}]
        <4>1. pick[s] = i /\ i \in T /\ a \in Seq(A)
          BY <2>1, <2>3, <3>2
        <4>2. h[s] = step[i][a]
          BY <2>2, <3>2, <4>1
        <4> HIDE DEF i, a
        <4>3. step[i][a] = a \o piece[i]
          BY <1>3, <4>1
        <4>4. h[s] = a \o piece[i]
          BY <4>2, <4>3
        <4> QED BY <3>2, <4>4 DEF i, a
      <3> QED BY <3>1, <3>2
    <2>5. h = [s \in SUBSET T |-> h[s]]
      BY <1>4
    <2> QED BY <2>4, <2>5 DEF Joined
  <1>6. Joined(base, piece, T, G)
    BY <1>5
  <1> HIDE DEF G, pick, step
  <1>7. \A s \in SUBSET T : G[s] = IF s = {} THEN base ELSE G[s \ {APick(s)}] \o piece[APick(s)]
    BY <1>6 DEF Joined
  <1> DEFINE Right(s) == G[s] \in Seq(A) /\ \A x : Count(G[s], x) = Count(base, x) + Tally(piece, s, x)
             U == {s \in SUBSET T : ~Right(s)}
  <1>8. ASSUME U # {} PROVE FALSE
    <2>1. PICK s \in U : \A u \in U : u \subseteq s => u = s
      <3>1. U \in SUBSET SUBSET T
        OBVIOUS
      <3> HIDE DEF U
      <3> QED BY <1>1, <1>8, <3>1, SmallestSet
    <2>2. \A x : Count(base, x) \in Nat
      BY CountType
    <2>3. CASE s = {}
      <3>1. G[s] = base /\ \A x : Tally(piece, s, x) = 0
        BY <1>7, <2>3, TallyEmpty
      <3>2. Right(s)
        BY <2>2, <3>1
      <3> QED BY <2>1, <3>2
    <2>4. CASE s # {}
      <3> DEFINE c == APick(s)
                 t == s \ {c}
      <3>1. c \in s /\ c \in T /\ t \in SUBSET T /\ t # s /\ t \subseteq s
        BY <1>2, <2>1, <2>4
      <3>2. Right(t)
        BY <2>1, <3>1
      <3>3. G[s] = G[t] \o piece[c]
        BY <1>7, <2>1, <2>4
      <3>4. \A x : /\ Tally(piece, s, x) = Count(piece[c], x) + Tally(piece, t, x)
                   /\ Count(piece[c], x) \in Nat /\ Tally(piece, t, x) \in Nat
        <4>1. Pieces(A, piece, s)
          BY <2>1, PiecesPart
        <4> QED BY <3>1, <4>1, TallyWithout
      <3>5. piece[c] \in Seq(A)
        BY <1>1, <3>1
      <3> HIDE DEF c, t
      <3>6. /\ G[s] \in Seq(A)
            /\ \A x : Count(G[s], x) = Count(G[t], x) + Count(piece[c], x)
        BY <3>2, <3>3, <3>5, CountBoth
      <3>7. Right(s)
        BY <2>2, <3>2, <3>4, <3>6
      <3> QED BY <2>1, <3>7
    <2> QED BY <2>3, <2>4
  <1>9. Right(T)
    BY <1>8
  <1> QED BY <1>9 DEF G, Joint

----------------------------------------------------------------------------
(* What is registered for the items: attack rows and nodes.                  *)

\* What equipLocationsFor, requestableEquipLocations, isAdornerElement and the
\* item editor's validation make of any content: a weapon is held, an armor is
\* worn or held in the second hand, other gear has no location; only gear stacks,
\* holds other things, or is laid over a base, and a base is no gear.
Laid(e) == Overlay(e) \/ Catalogue[e].auto # None
CatalogueSorted ==
  \A e \in Element :
    /\ Catalogue[e].kind = "weapon" =>
         Slots(e) \in {<<"primary", "secondary">>, <<"primary-twohanded">>}
    /\ Catalogue[e].kind = "armor" => Slots(e) \in {<<"secondary">>, <<"armor">>}
    /\ Catalogue[e].kind = "gear" => Slots(e) = << >>
    /\ Catalogue[e].kind # "gear" => ~Catalogue[e].stackable
    /\ Laid(e) => Catalogue[e].kind = "gear"
    /\ \A b \in (Catalogue[e].bases \cup {Catalogue[e].auto}) \ {None} : Catalogue[b].kind # "gear"
    /\ Laid(e) \/ Catalogue[e].kind # "gear" => Catalogue[e].pack = << >> /\ Catalogue[e].choice = {}

\* Armor is where armor goes, and what adorns a record is made to be laid over it.
Proper(items) ==
  \A i \in DOMAIN items :
    /\ items[i].adorner # None => Laid(items[i].adorner) /\ Catalogue[items[i].item].kind # "gear"
    /\ Catalogue[items[i].item].kind = "armor" => items[i].at \in {None, "secondary", "armor"}

\* The rows are those of weapons held, and of weapons that once were.
Armed(items, having) ==
  /\ having \subseteq DOMAIN items
  /\ \A i \in DOMAIN items : Wielded(items[i]) => i \in having
  /\ \A i \in having : Catalogue[items[i].item].kind = "weapon"

StartsProper == \A s \in Starts : Proper(s.doc.items)

\* Records that differ in their amounts only.
Alike(items, next) ==
  /\ DOMAIN next = DOMAIN items
  /\ \A k \in DOMAIN items :
       /\ next[k].item = items[k].item /\ next[k].adorner = items[k].adorner /\ next[k].at = items[k].at
       /\ next[k].attuned = items[k].attuned /\ next[k].storage = items[k].storage

LEMMA AmountAlike ==
  ASSUME NEW items, Fine(items), NEW i, NEW n
  PROVE  Alike(items, [items EXCEPT ![i].amount = n])
  <1> DEFINE next == [items EXCEPT ![i].amount = n]
  <1>1. DOMAIN next = DOMAIN items
    OBVIOUS
  <1>2. \A k \in DOMAIN items : next[k] = IF k = i THEN [items[k] EXCEPT !.amount = n] ELSE items[k]
    BY DEF Fine
  <1>3. \A k \in DOMAIN items : items[k] \in Records
    BY DEF Fine
  <1> HIDE DEF next
  <1> QED BY <1>1, <1>2, <1>3 DEF Alike, Records, next

LEMMA AlikeTwice ==
  ASSUME NEW items, NEW mid, NEW next, Alike(items, mid), Alike(mid, next)
  PROVE  Alike(items, next)
  BY DEF Alike

LEMMA AlikeKeeps ==
  ASSUME NEW items, NEW next, Alike(items, next)
  PROVE  /\ Proper(items) => Proper(next)
         /\ \A having : Armed(items, having) => Armed(next, having)
         /\ \A k \in DOMAIN items : Registered(next[k]) <=> Registered(items[k])
  BY DEF Alike, Proper, Armed, Wielded, Equipped, Registered

\* Where weapons and armor go.
LEMMA PlacesSorted ==
  ASSUME NEW e \in Element, CatalogueSorted
  PROVE  /\ Catalogue[e].kind = "weapon" => Slotted(e)
         /\ Catalogue[e].kind = "armor" =>
              /\ Slotted(e) /\ Head(Slots(e)) \in {"secondary", "armor"}
              /\ ToSet(Slots(e)) = {Head(Slots(e))}
         /\ Slotted(e) => Catalogue[e].kind \in {"weapon", "armor"}
         /\ ToSet(Slots(e)) # {} => Slotted(e)
  <1>1. Catalogue[e].kind \in {"weapon", "armor", "gear"}
    BY InventoryAssumption
  <1>2. CASE Catalogue[e].kind = "weapon"
    BY <1>2 DEF CatalogueSorted, Slotted
  <1>3. CASE Catalogue[e].kind = "armor"
    <2>1. CASE Slots(e) = <<"secondary">>
      BY <1>3, <2>1 DEF Slotted, ToSet
    <2>2. CASE Slots(e) = <<"armor">>
      BY <1>3, <2>2 DEF Slotted, ToSet
    <2> QED BY <1>3, <2>1, <2>2 DEF CatalogueSorted
  <1>4. CASE Catalogue[e].kind = "gear"
    BY <1>4 DEF CatalogueSorted, Slotted, ToSet
  <1> QED BY <1>1, <1>2, <1>3, <1>4

\* What is wanted of proper records is content.
LEMMA WantedIsContent ==
  ASSUME NEW items, CatalogueSorted, Fine(items), Proper(items)
  PROVE  \A e \in Wanted(items) : IsContent(e)
  <1>1. SUFFICES ASSUME NEW i \in DOMAIN items, Content(items[i]) # None
                 PROVE  IsContent(Content(items[i]))
    BY DEF Wanted
  <1>2. items[i] \in Records
    BY DEF Fine
  <1>3. CASE items[i].adorner = None
    <2>1. Wearable(items[i].item) /\ Content(items[i]) = items[i].item /\ items[i].item \in Element
      BY <1>1, <1>2, <1>3 DEF Content, Effective, Records
    <2>2. Slots(items[i].item) = << >>
      BY <2>1 DEF Wearable, Slotted
    <2>3. Catalogue[items[i].item].kind \in {"weapon", "armor", "gear"}
      BY <2>1, InventoryAssumption
    <2>4. Catalogue[items[i].item].kind = "gear"
      <3>1. /\ Catalogue[items[i].item].kind = "weapon" => Slots(items[i].item) # << >>
            /\ Catalogue[items[i].item].kind = "armor" => Slots(items[i].item) # << >>
        BY <2>1 DEF CatalogueSorted
      <3> QED BY <2>2, <2>3, <3>1
    <2> QED BY <2>1, <2>4 DEF IsContent
  <1>4. CASE items[i].adorner # None
    <2>1. Content(items[i]) = items[i].adorner /\ items[i].adorner \in Element
      BY <1>2, <1>4 DEF Content, Effective, Records
    <2>2. Laid(items[i].adorner)
      BY <1>4 DEF Proper
    <2> QED BY <2>1, <2>2 DEF CatalogueSorted, IsContent
  <1> QED BY <1>3, <1>4

----------------------------------------------------------------------------
(* What the sum is made of.                                                  *)

Id == Element \cup ToSet(Elsewhere) \cup UNION {ToSet(Catalogue[e].grants) \cup ToSet(Catalogue[e].brings) : e \in Element}

\* What the sum needs of the library: an item's id is its own, content without
\* a node grants nothing, what is laid over a named base could be laid over a
\* chosen one, and what such an item grants comes from nothing else.
Grants(f) == ToSet(Catalogue[f].grants) \cup ToSet(Catalogue[f].brings)
SumSorted ==
  /\ Elsewhere \in Seq(Id) /\ Elsewhere # << >>
  /\ \A e \in Element :
       /\ Catalogue[e].grants \in Seq(Id) /\ Catalogue[e].brings \in Seq(Id)
       /\ Catalogue[e].auto # None => Overlay(e)
       /\ IsContent(e) =>
            /\ e \notin ToSet(Elsewhere) /\ \A f \in Element : e \notin Grants(f)
            /\ ~Catalogue[e].node => Catalogue[e].grants = << >> /\ Catalogue[e].brings = << >>
       /\ Overlay(e) => \A x \in ToSet(Catalogue[e].grants) :
            x \notin Element \cup ToSet(Elsewhere) /\ \A f \in Element \ {e} : x \notin Grants(f)

Named(r) == r.item \in Element /\ r.adorner \in Element \cup {None}
InUse(items) == {i \in DOMAIN items : Registered(items[i])}
Entries(items) == [i \in DOMAIN items |-> BaseEntries(items[i])]
Conveyed == [e \in Element |-> (IF Overlay(e) THEN << >> ELSE <<e>>) \o Catalogue[e].brings]

\* The sum holds what the character registers elsewhere, what is registered for
\* the records in use, and what the content in want conveys.
Fixed(items, x) == Count(Elsewhere, x) + Tally(Entries(items), InUse(items), x)
SumHolds(items, sum, want) ==
  sum \in Seq(Id) /\ \A x : Count(sum, x) = Fixed(items, x) + Tally(Conveyed, want, x)
Contents(want) == IsFiniteSet(want) /\ \A e \in want : IsContent(e)
Summed(doc, want) ==
  /\ Contents(want) /\ IsFiniteSet(InUse(doc.items))
  /\ \A e : IsContent(e) => (e \in doc.nodes <=> e \in want /\ Catalogue[e].node)
  /\ SumHolds(doc.items, doc.sum, want)

LEMMA EntriesTyped ==
  ASSUME SumSorted, NEW items, \A i \in DOMAIN items : Named(items[i]), NEW T \in SUBSET DOMAIN items, IsFiniteSet(T)
  PROVE  Pieces(Id, Entries(items), T)
  <1>1. ASSUME NEW i \in T PROVE BaseEntries(items[i]) \in Seq(Id)
    <2> DEFINE r == items[i]
    <2>1. r.item \in Element /\ r.adorner \in Element \cup {None}
      BY DEF Named
    <2> HIDE DEF r
    <2>2. Catalogue[r.item].grants \in Seq(Id) /\ r.item \in Id /\ (r.adorner # None => r.adorner \in Id)
      BY <2>1 DEF SumSorted, Id
    <2> HIDE DEF Id
    <2>3. BaseEntries(r) \in Seq(Id)
      <3>1. <<r.item>> \in Seq(Id) /\ << >> \in Seq(Id) /\ (r.adorner # None => <<r.adorner>> \in Seq(Id))
        BY <2>2
      <3> QED BY <2>2, <3>1 DEF BaseEntries
    <2> QED BY <2>3 DEF r
  <1>2. \A i \in T : Entries(items)[i] = BaseEntries(items[i])
    BY DEF Entries
  <1>3. T \subseteq DOMAIN Entries(items)
    BY DEF Entries
  <1> HIDE DEF Id
  <1> QED BY <1>1, <1>2, <1>3 DEF Pieces

LEMMA ConveyedTyped ==
  ASSUME SumSorted, NEW T \in SUBSET Element, IsFiniteSet(T)
  PROVE  Pieces(Id, Conveyed, T)
  <1>1. ASSUME NEW e \in T PROVE (IF Overlay(e) THEN << >> ELSE <<e>>) \o Catalogue[e].brings \in Seq(Id)
    <2>1. Catalogue[e].brings \in Seq(Id) /\ e \in Id
      BY DEF SumSorted, Id
    <2> HIDE DEF Id
    <2> QED BY <2>1
  <1>2. T \subseteq DOMAIN Conveyed
    BY DEF Conveyed
  <1> HIDE DEF Id
  <1> QED BY <1>1, <1>2 DEF Pieces, Conveyed

LEMMA WithoutBasesCount ==
  ASSUME SumSorted, NEW items, \A i \in DOMAIN items : Named(items[i]),
         NEW out \in SUBSET DOMAIN items, IsFiniteSet(out), NEW sum \in Seq(Id)
  PROVE  /\ WithoutBases(sum, items, out) \in Seq(Id)
         /\ \A x : Count(WithoutBases(sum, items, out), x) = Less(Count(sum, x), Tally(Entries(items), out, x))
  <1> DEFINE Direct(g) ==
               g = [s \in SUBSET out |-> IF s = {} THEN sum
                                        ELSE WithoutEach(g[s \ {APick(s)}], BaseEntries(items[APick(s)]))]
             Whole(g) == Purge(sum, Entries(items), out, g)
  <1>1. WithoutBases(sum, items, out) = (CHOOSE g : Direct(g))[out]
    BY DEF WithoutBases, FoldSet, MapThenFoldSet, APick
  <1>2. \A s \in SUBSET out : s # {} => Entries(items)[APick(s)] = BaseEntries(items[APick(s)])
    <2>1. \A s \in SUBSET out : s # {} => APick(s) \in s
      BY DEF APick
    <2> QED BY <2>1 DEF Entries
  <1>3. \A g : Direct(g) <=> Whole(g)
    BY <1>2 DEF Purge
  <1>4. (CHOOSE g : Direct(g)) = (CHOOSE g : Whole(g))
    <2> HIDE DEF Direct, Whole
    <2> QED BY <1>3
  <1>5. Pieces(Id, Entries(items), out)
    BY EntriesTyped
  <1> DEFINE piece == Entries(items)
  <1>6. Pieces(Id, piece, out)
    BY <1>5
  <1> HIDE DEF Direct, piece
  <1>7. /\ (CHOOSE g : Purge(sum, piece, out, g))[out] \in Seq(Id)
        /\ \A x : Count((CHOOSE g : Purge(sum, piece, out, g))[out], x) =
                    Less(Count(sum, x), Tally(piece, out, x))
    BY <1>6, PurgeCount
  <1> QED BY <1>1, <1>4, <1>7 DEF piece

LEMMA WithBasesCount ==
  ASSUME SumSorted, NEW items, \A i \in DOMAIN items : Named(items[i]),
         NEW into \in SUBSET DOMAIN items, IsFiniteSet(into), NEW sum \in Seq(Id),
         Count(sum, Head(Elsewhere)) > 0
  PROVE  /\ WithBases(sum, items, into) \in Seq(Id)
         /\ \A x : Count(WithBases(sum, items, into), x) = Count(sum, x) + Tally(Entries(items), into, x)
  <1> DEFINE Direct(g) ==
               g = [s \in SUBSET into |->
                      IF s = {} THEN sum
                      ELSE Spliced(g[s \ {APick(s)}], LevelAnchor(g[s \ {APick(s)}]), BaseEntries(items[APick(s)]))]
             Whole(g) == Insert(sum, Entries(items), into, g)
  <1>1. WithBases(sum, items, into) = (CHOOSE g : Direct(g))[into]
    BY DEF WithBases, FoldSet, MapThenFoldSet, APick
  <1>2. \A s \in SUBSET into : s # {} => Entries(items)[APick(s)] = BaseEntries(items[APick(s)])
    <2>1. \A s \in SUBSET into : s # {} => APick(s) \in s
      BY DEF APick
    <2> QED BY <2>1 DEF Entries
  <1>3. \A g : Direct(g) <=> Whole(g)
    BY <1>2 DEF Insert
  <1>4. (CHOOSE g : Direct(g)) = (CHOOSE g : Whole(g))
    <2> HIDE DEF Direct, Whole
    <2> QED BY <1>3
  <1>5. Pieces(Id, Entries(items), into)
    BY EntriesTyped
  <1> DEFINE piece == Entries(items)
  <1>6. Pieces(Id, piece, into)
    BY <1>5
  <1> HIDE DEF Direct, piece
  <1>7. /\ (CHOOSE g : Insert(sum, piece, into, g))[into] \in Seq(Id)
        /\ \A x : Count((CHOOSE g : Insert(sum, piece, into, g))[into], x) = Count(sum, x) + Tally(piece, into, x)
    BY <1>6, InsertCount
  <1> QED BY <1>1, <1>4, <1>7 DEF piece

LEMMA CountBase ==
  ASSUME SumSorted, NEW r, Named(r), NEW x
  PROVE  /\ Count(BaseEntries(r), x) =
               (IF x = r.item THEN 1 ELSE 0) + Count(Catalogue[r.item].grants, x)
                 + (IF r.adorner # None /\ x = r.adorner THEN 1 ELSE 0)
         /\ Count(Catalogue[r.item].grants, x) \in Nat
         /\ Count(Catalogue[r.item].grants, x) # 0 => x \in Grants(r.item)
  <1> DEFINE a == <<r.item>>
             b == Catalogue[r.item].grants
             c == IF r.adorner = None THEN << >> ELSE <<r.adorner>>
  <1>1. b \in Seq(Id) /\ r.item \in Id /\ (r.adorner # None => r.adorner \in Id)
    BY DEF Named, SumSorted, Id
  <1>2. a \in Seq(Id) /\ c \in Seq(Id)
    BY <1>1
  <1>3. Count(a, x) = (IF x = r.item THEN 1 ELSE 0) /\ Count(c, x) = (IF r.adorner # None /\ x = r.adorner THEN 1 ELSE 0)
    BY CountOne, CountEmpty
  <1>4. BaseEntries(r) = (a \o b) \o c
    BY DEF BaseEntries
  <1>5. x \in ToSet(b) => x \in Grants(r.item)
    BY DEF Grants
  <1> HIDE DEF a, b, c
  <1>6. a \o b \in Seq(Id)
    BY <1>1, <1>2
  <1>7. Count((a \o b) \o c, x) = Count(a \o b, x) + Count(c, x) /\ Count(a \o b, x) = Count(a, x) + Count(b, x)
    BY <1>1, <1>2, <1>6, CountBoth
  <1>8. Count(b, x) \in Nat /\ (Count(b, x) # 0 => x \in ToSet(b))
    BY <1>1, CountType
  <1> QED BY <1>3, <1>4, <1>5, <1>7, <1>8 DEF b

LEMMA CountConveyed ==
  ASSUME SumSorted, NEW e \in Element, NEW x
  PROVE  /\ Conveyed[e] \in Seq(Id) /\ Catalogue[e].brings \in Seq(Id)
         /\ Count(Conveyed[e], x) = (IF ~Overlay(e) /\ x = e THEN 1 ELSE 0) + Count(Catalogue[e].brings, x)
         /\ Count(Catalogue[e].brings, x) \in Nat
         /\ Count(Catalogue[e].brings, x) # 0 => x \in Grants(e)
  <1> DEFINE a == IF Overlay(e) THEN << >> ELSE <<e>>
             b == Catalogue[e].brings
  <1>1. b \in Seq(Id) /\ e \in Id
    BY DEF SumSorted, Id
  <1>2. Count(a, x) = IF ~Overlay(e) /\ x = e THEN 1 ELSE 0
    BY CountOne, CountEmpty
  <1>3. a \in Seq(Id)
    BY <1>1
  <1>4. Conveyed[e] = a \o b
    BY DEF Conveyed
  <1>5. x \in ToSet(b) => x \in Grants(e)
    BY DEF Grants
  <1> HIDE DEF a, b
  <1>6. a \o b \in Seq(Id) /\ Count(a \o b, x) = Count(a, x) + Count(b, x)
    BY <1>1, <1>3, CountBoth
  <1>7. Count(b, x) \in Nat /\ (Count(b, x) # 0 => x \in ToSet(b))
    BY <1>1, CountType
  <1> QED BY <1>1, <1>2, <1>4, <1>5, <1>6, <1>7 DEF b

\* Whose content is owned by a base.
LEMMA OwnedIsLaid ==
  ASSUME SumSorted, CatalogueSorted, NEW items, Fine(items), Proper(items)
  PROVE  /\ \A i \in InUse(items) : Named(items[i]) /\ ~IsContent(items[i].item)
         /\ \A e : IsContent(e) => (Owned(items, e) <=> \E i \in InUse(items) : items[i].adorner = e /\ e # None)
         /\ \A e : IsContent(e) /\ Owned(items, e) => Overlay(e)
         /\ \A e \in Wanted(items) : Overlay(e) => Owned(items, e)
  <1>1. \A i \in DOMAIN items : items[i] \in Records
    BY DEF Fine
  <1>2. \A i \in DOMAIN items : Named(items[i])
    BY <1>1 DEF Records, Named
  <1>3. \A i \in DOMAIN items : Registered(items[i]) => ~IsContent(items[i].item) /\ ~Wearable(items[i].item)
    BY <1>2 DEF Registered, CatalogueSorted, Slotted, IsContent, Wearable, Named
  <1>4. ASSUME NEW e, IsContent(e)
        PROVE  Owned(items, e) <=> \E i \in InUse(items) : items[i].adorner = e /\ e # None
    <2>1. e # None
      BY <1>4, InventoryAssumption DEF IsContent
    <2>2. \A i \in InUse(items) : Content(items[i]) = e <=> items[i].adorner = e
      BY <1>3, <2>1 DEF InUse, Content, Effective
    <2> QED BY <2>1, <2>2 DEF Owned, InUse
  <1>5. ASSUME NEW e, IsContent(e), Owned(items, e) PROVE Overlay(e)
    <2>1. PICK i \in DOMAIN items : items[i].adorner = e /\ e # None
      BY <1>4, <1>5 DEF InUse
    <2>2. Laid(e) /\ e \in Element
      BY <1>5, <2>1 DEF Proper, IsContent
    <2> QED BY <2>2 DEF Laid, SumSorted
  <1>6. ASSUME NEW e \in Wanted(items), Overlay(e) PROVE Owned(items, e)
    <2>1. PICK i \in DOMAIN items : Active(items[i]) /\ Content(items[i]) = e /\ e # None
      BY <1>6 DEF Wanted
    <2>2. items[i].adorner # None
      BY <1>6, <2>1 DEF Content, Effective, Wearable, Active
    <2>3. Slotted(items[i].item)
      <3>1. items[i].item \in Element /\ Catalogue[items[i].item].kind # "gear"
        BY <1>2, <2>2 DEF Proper, Named
      <3> QED BY <3>1, PlacesSorted, InventoryAssumption
    <2>4. Registered(items[i])
      BY <2>1, <2>3 DEF Active, Registered
    <2> QED BY <2>1, <2>4 DEF Owned
  <1> QED BY <1>2, <1>3, <1>4, <1>5, <1>6 DEF InUse

LEMMA RestCounts ==
  ASSUME SumSorted, CatalogueSorted, NEW items, Fine(items), Proper(items), IsFiniteSet(InUse(items))
  PROVE  /\ \A x : Fixed(items, x) \in Nat
         /\ \A e : IsContent(e) => (Fixed(items, e) > 0 <=> Owned(items, e))
         /\ \A e : IsContent(e) /\ Overlay(e) => \A x \in ToSet(Catalogue[e].grants) : Fixed(items, x) = 0
         /\ Fixed(items, Head(Elsewhere)) > 0
  <1> DEFINE piece == Entries(items)
             T == InUse(items)
  <1>1. Pieces(Id, piece, T)
    <2>1. T \in SUBSET DOMAIN items /\ \A i \in DOMAIN items : Named(items[i])
      BY DEF InUse, Fine, Records, Named
    <2> QED BY <2>1, EntriesTyped
  <1>2. \A i \in T : Named(items[i]) /\ ~IsContent(items[i].item) /\ items[i].item \in Element
    BY OwnedIsLaid DEF Named
  <1>3. \A i \in T : \A x :
          /\ Count(piece[i], x) =
               (IF x = items[i].item THEN 1 ELSE 0) + Count(Catalogue[items[i].item].grants, x)
                 + (IF items[i].adorner # None /\ x = items[i].adorner THEN 1 ELSE 0)
          /\ Count(Catalogue[items[i].item].grants, x) \in Nat
          /\ Count(Catalogue[items[i].item].grants, x) # 0 => x \in Grants(items[i].item)
    <2>1. \A i \in T : piece[i] = BaseEntries(items[i])
      BY DEF Entries, InUse
    <2> HIDE DEF piece, T
    <2> QED BY <1>2, <2>1, CountBase
  <1>4. \A x : Fixed(items, x) = Count(Elsewhere, x) + Tally(piece, T, x)
    BY DEF Fixed
  <1> HIDE DEF piece, T
  <1>5. Elsewhere \in Seq(Id) /\ Elsewhere # << >>
    BY DEF SumSorted
  <1>6. \A x : /\ Count(Elsewhere, x) \in Nat /\ Tally(piece, T, x) \in Nat
               /\ Count(Elsewhere, x) = 0 <=> x \notin ToSet(Elsewhere)
    BY <1>1, <1>5, CountType, TallyType
  <1>7. ASSUME NEW e, IsContent(e) PROVE Fixed(items, e) > 0 <=> Owned(items, e)
    <2>1. e \in Element /\ e \notin ToSet(Elsewhere) /\ \A f \in Element : e \notin Grants(f)
      BY <1>7 DEF SumSorted, IsContent
    <2>2. \A i \in T : Count(piece[i], e) = IF items[i].adorner # None /\ e = items[i].adorner THEN 1 ELSE 0
      <3> TAKE i \in T
      <3>1. items[i].item # e /\ Count(Catalogue[items[i].item].grants, e) = 0
        BY <1>2, <1>3, <1>7, <2>1
      <3> DEFINE n == Count(Catalogue[items[i].item].grants, e)
      <3>2. Count(piece[i], e) = (IF e = items[i].item THEN 1 ELSE 0) + n
                                   + (IF items[i].adorner # None /\ e = items[i].adorner THEN 1 ELSE 0)
        BY <1>3
      <3> QED BY <3>1, <3>2
    <2>3. Owned(items, e) <=> \E i \in T : items[i].adorner = e /\ e # None
      BY <1>7, OwnedIsLaid DEF T
    <2>4. ASSUME Owned(items, e) PROVE Tally(piece, T, e) > 0
      <3>1. PICK i \in T : Count(piece[i], e) = 1
        BY <2>2, <2>3, <2>4
      <3>2. Tally(piece, T, e) = Count(piece[i], e) + Tally(piece, T \ {i}, e) /\ Tally(piece, T \ {i}, e) \in Nat
        BY <1>1, TallyWithout
      <3> QED BY <3>1, <3>2
    <2>5. ASSUME ~Owned(items, e) PROVE Tally(piece, T, e) = 0
      <3>1. \A i \in T : Count(piece[i], e) = 0
        BY <2>2, <2>3, <2>5
      <3> QED BY <1>1, <3>1, TallyZero
    <2> QED BY <1>4, <1>6, <2>1, <2>4, <2>5
  <1>8. ASSUME NEW e, IsContent(e), Overlay(e), NEW x \in ToSet(Catalogue[e].grants) PROVE Fixed(items, x) = 0
    <2>1. x \notin Element \cup ToSet(Elsewhere) /\ \A f \in Element \ {e} : x \notin Grants(f)
      BY <1>8 DEF SumSorted, IsContent
    <2>2. ASSUME NEW i \in T PROVE Count(piece[i], x) = 0
      <3>1. items[i].item \in Element \ {e} /\ x # items[i].item /\ (items[i].adorner # None => x # items[i].adorner)
        BY <1>2, <1>8, <2>1 DEF Named
      <3>2. Count(Catalogue[items[i].item].grants, x) = 0
        BY <1>3, <2>1, <3>1
      <3> QED BY <1>3, <3>1, <3>2
    <2>3. Tally(piece, T, x) = 0
      BY <1>1, <2>2, TallyZero
    <2> QED BY <1>4, <1>6, <2>1, <2>3
  <1>9. Fixed(items, Head(Elsewhere)) > 0
    <2>1. Head(Elsewhere) \in ToSet(Elsewhere)
      BY <1>5 DEF ToSet
    <2> QED BY <1>4, <1>6, <2>1
  <1> QED BY <1>4, <1>6, <1>7, <1>8, <1>9

LEMMA ConveyedCounts ==
  ASSUME SumSorted, NEW U, Contents(U)
  PROVE  /\ Pieces(Id, Conveyed, U)
         /\ \A x : Tally(Conveyed, U, x) \in Nat
         /\ \A e : IsContent(e) => Tally(Conveyed, U, e) = IF e \in U /\ ~Overlay(e) THEN 1 ELSE 0
         /\ \A e : IsContent(e) /\ Overlay(e) /\ e \notin U =>
              \A x \in ToSet(Catalogue[e].grants) : Tally(Conveyed, U, x) = 0
  <1>1. U \in SUBSET Element /\ IsFiniteSet(U)
    BY DEF Contents, IsContent
  <1>2. Pieces(Id, Conveyed, U)
    BY <1>1, ConveyedTyped
  <1>3. \A f \in U : \A x : /\ Count(Conveyed[f], x) = (IF ~Overlay(f) /\ x = f THEN 1 ELSE 0) + Count(Catalogue[f].brings, x)
                            /\ Count(Catalogue[f].brings, x) \in Nat
                            /\ Count(Catalogue[f].brings, x) # 0 => x \in Grants(f)
    BY <1>1, CountConveyed
  <1>4. ASSUME NEW e, IsContent(e) PROVE Tally(Conveyed, U, e) = IF e \in U /\ ~Overlay(e) THEN 1 ELSE 0
    <2>1. \A f \in Element : e \notin Grants(f)
      BY <1>4 DEF SumSorted, IsContent
    <2>2. \A f \in U : Count(Conveyed[f], e) = IF ~Overlay(f) /\ e = f THEN 1 ELSE 0
      <3> TAKE f \in U
      <3>1. Count(Catalogue[f].brings, e) = 0
        BY <1>1, <1>3, <2>1
      <3> QED BY <1>3, <3>1
    <2>3. CASE e \in U
      <3> DEFINE V == U \ {e}
      <3>1. Pieces(Id, Conveyed, V)
        BY <1>2, PiecesPart
      <3>2. \A f \in V : Count(Conveyed[f], e) = 0
        BY <2>2
      <3>3. Tally(Conveyed, U, e) = Count(Conveyed[e], e) + Tally(Conveyed, V, e)
        BY <1>2, <2>3, TallyWithout
      <3> HIDE DEF V
      <3>4. Tally(Conveyed, V, e) = 0
        BY <3>1, <3>2, TallyZero
      <3> QED BY <2>2, <2>3, <3>3, <3>4
    <2>4. CASE e \notin U
      <3>1. \A f \in U : Count(Conveyed[f], e) = 0
        BY <2>2, <2>4
      <3> QED BY <1>2, <2>4, <3>1, TallyZero
    <2> QED BY <2>3, <2>4
  <1>5. ASSUME NEW e, IsContent(e), Overlay(e), e \notin U, NEW x \in ToSet(Catalogue[e].grants)
        PROVE  Tally(Conveyed, U, x) = 0
    <2>1. x \notin Element \cup ToSet(Elsewhere) /\ \A f \in Element \ {e} : x \notin Grants(f)
      BY <1>5 DEF SumSorted, IsContent
    <2>2. ASSUME NEW f \in U PROVE Count(Conveyed[f], x) = 0
      <3>1. f \in Element \ {e} /\ x # f
        BY <1>1, <1>5, <2>1
      <3>2. Count(Catalogue[f].brings, x) = 0
        BY <1>3, <2>1, <3>1
      <3> QED BY <1>3, <3>1, <3>2
    <2> QED BY <1>2, <2>2, TallyZero
  <1> QED BY <1>2, <1>4, <1>5, TallyType

\* The run after an id: nothing, when nothing it grants is in the sum.
LEMMA RunTyped ==
  ASSUME NEW A, NEW s \in Seq(A), NEW at \in 0 .. Len(s), NEW e
  PROVE  /\ RunAfter(s, at, e) \in Seq(A) /\ at + Len(RunAfter(s, at, e)) \in 0 .. Len(s)
         /\ (\A x \in ToSet(Catalogue[e].grants) : Count(s, x) = 0) => RunAfter(s, at, e) = << >>
  <1> DEFINE Run(n) == SubSeq(s, at + 1, at + n)
             N == {n \in 0 .. Len(s) - at : ToSet(Run(n)) \subseteq ToSet(Catalogue[e].grants) /\ IsInjective(Run(n))}
             m == Max(N)
  <1>1. RunAfter(s, at, e) = Run(m)
    BY DEF RunAfter
  <1>2. Run(0) = << >>
    OBVIOUS
  <1>3. 0 \in N
    <2>1. ToSet(<< >>) = {} /\ IsInjective(<< >>)
      BY DEF ToSet, IsInjective
    <2>2. 0 \in 0 .. Len(s) - at
      OBVIOUS
    <2> HIDE DEF Run
    <2> QED BY <1>2, <2>1, <2>2
  <1> DEFINE J == 0 .. Len(s) - at
  <1>4. N \subseteq J /\ IsFiniteSet(J) /\ \A n \in J : n \in Nat
    BY FS_Interval
  <1> HIDE DEF N, J
  <1>5. m \in N
    <2>1. IsFiniteSet(N) /\ \A n \in N : n \in Nat
      BY <1>4, FS_Subset
    <2> QED BY <1>3, <2>1, GreatestOf
  <1> HIDE DEF m
  <1>6. m \in 0 .. Len(s) - at
    BY <1>4, <1>5 DEF J
  <1>7. Run(m) \in Seq(A) /\ Len(Run(m)) = m /\ \A k \in 1 .. m : Run(m)[k] = s[at + k]
    BY <1>6
  <1>8. ASSUME \A x \in ToSet(Catalogue[e].grants) : Count(s, x) = 0, m # 0 PROVE FALSE
    <2>1. 1 \in 1 .. m /\ at + 1 \in 1 .. Len(s)
      BY <1>6, <1>8
    <2>0. 1 \in DOMAIN Run(m) /\ Run(m)[1] = s[at + 1]
      BY <1>6, <1>7, <2>1
    <2>5. Run(m)[1] \in ToSet(Run(m))
      <3> HIDE DEF Run
      <3> QED BY <2>0 DEF ToSet
    <2>2. ToSet(Run(m)) \subseteq ToSet(Catalogue[e].grants)
      BY <1>5 DEF N
    <2>3. s[at + 1] \in ToSet(s)
      BY <2>1 DEF ToSet
    <2> HIDE DEF Run
    <2>4. Count(s, s[at + 1]) = 0
      BY <1>8, <2>0, <2>2, <2>5
    <2> QED BY <2>3, <2>4, CountType
  <1> HIDE DEF Run
  <1>9. (\A x \in ToSet(Catalogue[e].grants) : Count(s, x) = 0) => Run(m) = << >>
    BY <1>2, <1>8
  <1> QED BY <1>1, <1>6, <1>7, <1>9

----------------------------------------------------------------------------
(* What the sweep takes out and puts in, one content at a time.              *)

Owns(items, e) == IF Owned(items, e) THEN << >> ELSE <<e>>
FlatOut(items, s, e) == WithoutEach(s, RunAfter(s, IndexOf(s, e), e) \o Owns(items, e))
Taken(s, e) ==
  LET at == IndexOf(s, e)
      run == IF at = 0 THEN << >> ELSE RunAfter(s, at, e)
      there == ToSet(run) \cup (IF at = 0 THEN {} ELSE {e})
  IN Spliced(s, IF at = 0 THEN LevelAnchor(s) ELSE at + Len(run), Missing(<<e>> \o Catalogue[e].brings, there))

\* The records a sum is swept for.
Sorted(items) == SumSorted /\ CatalogueSorted /\ Fine(items) /\ Proper(items) /\ IsFiniteSet(InUse(items))

LEMMA ContentsPart ==
  ASSUME NEW U, Contents(U)
  PROVE  /\ \A V : Contents(U \ V)
         /\ \A V : Contents(V) => Contents(U \cup V)
         /\ \A e : IsContent(e) => Contents(U \cup {e})
  <1>1. \A V : U \ V \subseteq U
    OBVIOUS
  <1>2. \A V : IsFiniteSet(U \ V)
    BY <1>1, FS_Subset DEF Contents
  <1>3. \A e : IsFiniteSet(U \cup {e})
    BY FS_AddElement DEF Contents
  <1> QED BY <1>2, <1>3, FS_Union DEF Contents

\* What content without a node, or laid over a base, brings into a sum.
LEMMA BareContent ==
  ASSUME SumSorted, NEW e, IsContent(e), ~Catalogue[e].node
  PROVE  /\ ToSet(Catalogue[e].grants) = {} /\ Catalogue[e].brings = << >>
         /\ \A x : Count(Conveyed[e], x) = IF ~Overlay(e) /\ x = e THEN 1 ELSE 0
  <1>1. e \in Element /\ Catalogue[e].grants = << >> /\ Catalogue[e].brings = << >>
    BY DEF SumSorted, IsContent
  <1>2. ASSUME NEW x PROVE Count(Conveyed[e], x) = IF ~Overlay(e) /\ x = e THEN 1 ELSE 0
    <2>1. Count(Conveyed[e], x) = (IF ~Overlay(e) /\ x = e THEN 1 ELSE 0) + Count(Catalogue[e].brings, x)
      BY <1>1, CountConveyed
    <2>2. Count(Catalogue[e].brings, x) = 0
      BY <1>1, CountEmpty
    <2> QED BY <2>1, <2>2
  <1>3. ToSet(Catalogue[e].grants) = {}
    BY <1>1 DEF ToSet
  <1> QED BY <1>1, <1>2, <1>3

\* Nothing that such content grants is in the sum before it is in want.
LEMMA NoRun ==
  ASSUME NEW items, Sorted(items), NEW U, Contents(U), NEW s, SumHolds(items, s, U),
         NEW e, IsContent(e), Catalogue[e].node => Overlay(e) /\ e \notin U, NEW at \in 0 .. Len(s)
  PROVE  RunAfter(s, at, e) = << >>
  <1>1. s \in Seq(Id)
    BY DEF SumHolds
  <1>2. \A x \in ToSet(Catalogue[e].grants) : Count(s, x) = 0
    <2>1. CASE ~Catalogue[e].node
      BY <2>1, BareContent DEF Sorted
    <2>2. CASE Catalogue[e].node
      <3> TAKE x \in ToSet(Catalogue[e].grants)
      <3>1. Fixed(items, x) = 0
        BY <2>2, RestCounts DEF Sorted
      <3>2. Tally(Conveyed, U, x) = 0
        BY <2>2, ConveyedCounts DEF Sorted
      <3>3. Count(s, x) = Fixed(items, x) + Tally(Conveyed, U, x)
        BY DEF SumHolds
      <3> QED BY <3>1, <3>2, <3>3
    <2> QED BY <2>1, <2>2
  <1> QED BY <1>1, <1>2, RunTyped

\* An id whose content is conveyed no more, and that has no node.
LEMMA FlatStep ==
  ASSUME NEW items, Sorted(items), NEW U, Contents(U), NEW s, SumHolds(items, s, U),
         NEW e, IsContent(e), Overlay(e) => Owned(items, e), ~Overlay(e) => e \in U,
         Catalogue[e].node => e \notin U
  PROVE  SumHolds(items, FlatOut(items, s, e), U \ {e})
  <1>1. s \in Seq(Id) /\ \A x : Count(s, x) = Fixed(items, x) + Tally(Conveyed, U, x)
    BY DEF SumHolds
  <1>2. RunAfter(s, IndexOf(s, e), e) = << >>
    <2>1. IndexOf(s, e) \in 0 .. Len(s)
      BY <1>1, FirstPlace
    <2> QED BY <2>1, NoRun
  <1>3. Owns(items, e) \in Seq(Id) /\ Owns(items, e) = (IF Overlay(e) THEN << >> ELSE <<e>>)
    <2>1. Owned(items, e) <=> Overlay(e)
      BY OwnedIsLaid DEF Sorted
    <2>2. e \in Id
      BY DEF Id, IsContent
    <2>3. << >> \in Seq(Id) /\ <<e>> \in Seq(Id)
      BY <2>2
    <2> QED BY <2>1, <2>3 DEF Owns
  <1>4. FlatOut(items, s, e) = WithoutEach(s, Owns(items, e))
    BY <1>2, <1>3 DEF FlatOut
  <1>5. /\ FlatOut(items, s, e) \in Seq(Id)
        /\ \A x : Count(FlatOut(items, s, e), x) = Less(Count(s, x), Count(Owns(items, e), x))
    <2> DEFINE o == Owns(items, e)
    <2>1. o \in Seq(Id) /\ FlatOut(items, s, e) = WithoutEach(s, o)
      BY <1>3, <1>4
    <2> HIDE DEF o
    <2>2. WithoutEach(s, o) \in Seq(Id) /\ \A x : Count(WithoutEach(s, o), x) = Less(Count(s, x), Count(o, x))
      BY <1>1, <2>1, WithoutEachCount
    <2> QED BY <2>1, <2>2 DEF o
  <1>6. \A x : Count(Owns(items, e), x) = IF ~Overlay(e) /\ x = e THEN 1 ELSE 0
    BY <1>3, CountOne, CountEmpty
  <1>7. \A x : /\ Fixed(items, x) \in Nat /\ Tally(Conveyed, U \ {e}, x) \in Nat
              /\ Tally(Conveyed, U, x) = (IF ~Overlay(e) /\ x = e THEN 1 ELSE 0) + Tally(Conveyed, U \ {e}, x)
    <2> TAKE x
    <2>1. Fixed(items, x) \in Nat
      BY RestCounts DEF Sorted
    <2>2. Pieces(Id, Conveyed, U) /\ Tally(Conveyed, U, x) \in Nat
      BY ConveyedCounts DEF Sorted
    <2>3. CASE e \in U
      <3>1. Tally(Conveyed, U, x) = Count(Conveyed[e], x) + Tally(Conveyed, U \ {e}, x) /\ Tally(Conveyed, U \ {e}, x) \in Nat
        BY <2>2, <2>3, TallyWithout
      <3>2. Count(Conveyed[e], x) = IF ~Overlay(e) /\ x = e THEN 1 ELSE 0
        BY <2>3, BareContent DEF Sorted
      <3> QED BY <2>1, <3>1, <3>2
    <2>4. CASE e \notin U
      <3>1. U \ {e} = U
        BY <2>4
      <3>2. Overlay(e) /\ Tally(Conveyed, U \ {e}, x) = Tally(Conveyed, U, x)
        BY <2>4, <3>1
      <3> QED BY <2>1, <2>2, <3>2
    <2> QED BY <2>3, <2>4
  <1>8. ASSUME NEW x PROVE Count(FlatOut(items, s, e), x) = Fixed(items, x) + Tally(Conveyed, U \ {e}, x)
    <2> DEFINE t == Tally(Conveyed, U \ {e}, x)
               o == IF ~Overlay(e) /\ x = e THEN 1 ELSE 0
    <2>1. t \in Nat /\ Fixed(items, x) \in Nat /\ Tally(Conveyed, U, x) = o + t
      BY <1>7
    <2>3. o \in Nat /\ Count(s, x) = Fixed(items, x) + Tally(Conveyed, U, x)
      BY <1>1
    <2>2. Count(FlatOut(items, s, e), x) = Less(Count(s, x), o)
      BY <1>5, <1>6
    <2> HIDE DEF t, o
    <2>4. Count(FlatOut(items, s, e), x) = Fixed(items, x) + t
      BY <2>1, <2>2, <2>3 DEF Less
    <2> QED BY <2>4 DEF t
  <1> QED BY <1>5, <1>8 DEF SumHolds

LEMMA TakenTyped ==
  ASSUME SumSorted, NEW s \in Seq(Id), Count(s, Head(Elsewhere)) > 0, NEW e \in Element
  PROVE  /\ Taken(s, e) \in Seq(Id) /\ Count(Taken(s, e), Head(Elsewhere)) > 0
         /\ IndexOf(s, e) = 0 =>
              \A x : Count(Taken(s, e), x) = Count(s, x) + (IF x = e THEN 1 ELSE 0) + Count(Catalogue[e].brings, x)
         /\ IndexOf(s, e) # 0 /\ RunAfter(s, IndexOf(s, e), e) = << >> =>
              \A x : Count(Taken(s, e), x) = Count(s, x) + (IF x = e THEN 0 ELSE Count(Catalogue[e].brings, x))
  <1> DEFINE at == IndexOf(s, e)
             run == IF at = 0 THEN << >> ELSE RunAfter(s, at, e)
             there == ToSet(run) \cup (IF at = 0 THEN {} ELSE {e})
             ids == <<e>> \o Catalogue[e].brings
             new == Missing(ids, there)
             place == IF at = 0 THEN LevelAnchor(s) ELSE at + Len(run)
  <1>1. Taken(s, e) = Spliced(s, place, new)
    BY DEF Taken
  <1>2. <<e>> \in Seq(Id) /\ Catalogue[e].brings \in Seq(Id)
    <2>1. e \in Id
      BY DEF Id
    <2> QED BY <2>1 DEF SumSorted
  <1>3. /\ ids \in Seq(Id)
        /\ \A x : Count(ids, x) = (IF x = e THEN 1 ELSE 0) + Count(Catalogue[e].brings, x) /\ Count(Catalogue[e].brings, x) \in Nat
    <2> DEFINE one == <<e>>
               b == Catalogue[e].brings
    <2>1. \A x : Count(one, x) = IF x = e THEN 1 ELSE 0
      BY CountOne
    <2>2. one \in Seq(Id) /\ b \in Seq(Id)
      BY <1>2
    <2> HIDE DEF one, b
    <2>3. one \o b \in Seq(Id) /\ \A x : Count(one \o b, x) = Count(one, x) + Count(b, x)
      BY <2>2, CountBoth
    <2>4. \A x : Count(b, x) \in Nat
      BY <2>2, CountType
    <2> QED BY <2>1, <2>3, <2>4 DEF one, b
  <1>4. at \in 0 .. Len(s)
    BY FirstPlace
  <1>5. place \in 0 .. Len(s)
    <2>1. LevelAnchor(s) \in 0 .. Len(s)
      <3>1. IndexOf(s, Head(Elsewhere)) \in 0 .. Len(s) /\ IndexOf(s, Head(Elsewhere)) # 0
        BY FirstPlace
      <3> QED BY <3>1 DEF LevelAnchor
    <2>2. at + Len(RunAfter(s, at, e)) \in 0 .. Len(s)
      BY <1>4, RunTyped
    <2> QED BY <2>1, <2>2
  <1> HIDE DEF ids
  <1>6. new \in Seq(Id) /\ \A x : Count(new, x) = IF x \in there THEN 0 ELSE Count(ids, x)
    BY <1>3, MissingCount
  <1>7. at = 0 => there = {}
    BY DEF ToSet
  <1>8. at # 0 /\ RunAfter(s, at, e) = << >> => there = {e}
    BY DEF ToSet
  <1> HIDE DEF at, there, new, place
  <1>9. Spliced(s, place, new) \in Seq(Id) /\ \A x : Count(Spliced(s, place, new), x) = Count(s, x) + Count(new, x)
    BY <1>5, <1>6, SplicedCount
  <1>10. \A x : Count(s, x) \in Nat /\ Count(new, x) \in Nat
    BY <1>6, CountType
  <1>11. Taken(s, e) \in Seq(Id) /\ Count(Taken(s, e), Head(Elsewhere)) > 0
    BY <1>1, <1>9, <1>10
  <1>12. \A x : Count(Taken(s, e), x) = Count(s, x) + (IF x \in there THEN 0 ELSE Count(ids, x))
    BY <1>1, <1>6, <1>9
  <1>13. at = 0 => \A x : Count(Taken(s, e), x) = Count(s, x) + (IF x = e THEN 1 ELSE 0) + Count(Catalogue[e].brings, x)
    <2> SUFFICES ASSUME at = 0, NEW x
                 PROVE  Count(Taken(s, e), x) = Count(s, x) + (IF x = e THEN 1 ELSE 0) + Count(Catalogue[e].brings, x)
      OBVIOUS
    <2>1. Count(Taken(s, e), x) = Count(s, x) + Count(ids, x)
      BY <1>7, <1>12
    <2> QED BY <1>3, <1>10, <2>1
  <1>14. at # 0 /\ RunAfter(s, at, e) = << >> =>
           \A x : Count(Taken(s, e), x) = Count(s, x) + (IF x = e THEN 0 ELSE Count(Catalogue[e].brings, x))
    <2> SUFFICES ASSUME at # 0, RunAfter(s, at, e) = << >>, NEW x
                 PROVE  Count(Taken(s, e), x) = Count(s, x) + (IF x = e THEN 0 ELSE Count(Catalogue[e].brings, x))
      OBVIOUS
    <2>1. Count(Taken(s, e), x) = Count(s, x) + (IF x = e THEN 0 ELSE Count(ids, x))
      BY <1>8, <1>12
    <2> QED BY <1>3, <1>10, <2>1
  <1> QED BY <1>11, <1>13, <1>14 DEF at

\* Content that is conveyed and has no node.
LEMMA TakeStep ==
  ASSUME NEW items, Sorted(items), NEW U, Contents(U), NEW s, SumHolds(items, s, U),
         NEW e, IsContent(e), Overlay(e) => Owned(items, e), Catalogue[e].node => e \notin U
  PROVE  SumHolds(items, Taken(s, e), U \cup {e})
  <1>1. s \in Seq(Id) /\ e \in Element /\ SumSorted /\ \A x : Count(s, x) = Fixed(items, x) + Tally(Conveyed, U, x)
    BY DEF SumHolds, IsContent, Sorted
  <1>2. \A x : Fixed(items, x) \in Nat /\ Tally(Conveyed, U, x) \in Nat
    BY RestCounts, ConveyedCounts DEF Sorted
  <1>3. Count(s, Head(Elsewhere)) > 0
    <2>1. Fixed(items, Head(Elsewhere)) > 0
      BY RestCounts DEF Sorted
    <2> QED BY <1>1, <1>2, <2>1
  <1>4. IndexOf(s, e) \in 0 .. Len(s) /\ (IndexOf(s, e) = 0 <=> Count(s, e) = 0)
    BY <1>1, FirstPlace
  <1>5. /\ Taken(s, e) \in Seq(Id)
        /\ IndexOf(s, e) = 0 =>
             \A x : Count(Taken(s, e), x) = Count(s, x) + (IF x = e THEN 1 ELSE 0) + Count(Catalogue[e].brings, x)
        /\ IndexOf(s, e) # 0 /\ RunAfter(s, IndexOf(s, e), e) = << >> =>
             \A x : Count(Taken(s, e), x) = Count(s, x) + (IF x = e THEN 0 ELSE Count(Catalogue[e].brings, x))
    BY <1>1, <1>3, TakenTyped
  <1>6. Fixed(items, e) > 0 <=> Overlay(e)
    BY RestCounts, OwnedIsLaid DEF Sorted
  <1>7. Tally(Conveyed, U, e) = IF e \in U /\ ~Overlay(e) THEN 1 ELSE 0
    BY ConveyedCounts DEF Sorted
  <1>8. IndexOf(s, e) = 0 <=> ~Overlay(e) /\ e \notin U
    BY <1>1, <1>2, <1>4, <1>6, <1>7
  <1>9. \A x : /\ Count(Conveyed[e], x) = (IF ~Overlay(e) /\ x = e THEN 1 ELSE 0) + Count(Catalogue[e].brings, x)
              /\ Count(Catalogue[e].brings, x) \in Nat
    BY <1>1, CountConveyed
  <1>10. Count(Catalogue[e].brings, e) = 0
    <2>1. e \notin Grants(e)
      BY <1>1 DEF SumSorted
    <2> QED BY <1>1, <2>1, CountConveyed
  <1>11. CASE e \in U
    <2>1. U \cup {e} = U
      BY <1>11
    <2>2. RunAfter(s, IndexOf(s, e), e) = << >>
      BY <1>4, <1>11, NoRun
    <2>3. \A x : Count(Catalogue[e].brings, x) = 0
      BY <1>1, <1>11, BareContent, CountEmpty
    <2>4. \A x : Count(Taken(s, e), x) = Count(s, x)
      BY <1>1, <1>2, <1>5, <1>8, <1>11, <2>2, <2>3
    <2> QED BY <1>1, <1>5, <2>1, <2>4 DEF SumHolds
  <1>12. CASE e \notin U
    <2>1. \A x : Tally(Conveyed, U \cup {e}, x) = Count(Conveyed[e], x) + Tally(Conveyed, U, x)
      <3> DEFINE V == U \cup {e}
      <3>1. Pieces(Id, Conveyed, V) /\ e \in V /\ V \ {e} = U
        <4>1. Contents(V)
          BY ContentsPart
        <4> HIDE DEF V
        <4>2. Pieces(Id, Conveyed, V)
          BY <1>1, <4>1, ConveyedCounts
        <4> QED BY <1>12, <4>2 DEF V
      <3> HIDE DEF V
      <3>2. \A x : Tally(Conveyed, V, x) = Count(Conveyed[e], x) + Tally(Conveyed, V \ {e}, x)
        BY <3>1, TallyWithout
      <3> QED BY <3>1, <3>2 DEF V
    <2>2. CASE ~Overlay(e)
      <3>1. \A x : Count(Taken(s, e), x) = Count(s, x) + Count(Conveyed[e], x)
        <4> TAKE x
        <4>1. Count(Taken(s, e), x) = Count(s, x) + (IF x = e THEN 1 ELSE 0) + Count(Catalogue[e].brings, x)
          BY <1>5, <1>8, <1>12, <2>2
        <4>2. Count(Conveyed[e], x) = (IF x = e THEN 1 ELSE 0) + Count(Catalogue[e].brings, x)
          BY <1>9, <2>2
        <4>3. Count(s, x) \in Nat /\ Count(Catalogue[e].brings, x) \in Nat
          BY <1>1, <1>2, <1>9
        <4> QED BY <4>1, <4>2, <4>3
      <3>2. \A x : Count(Taken(s, e), x) = Fixed(items, x) + Tally(Conveyed, U \cup {e}, x)
        <4> TAKE x
        <4>1. Count(Conveyed[e], x) \in Nat /\ Fixed(items, x) \in Nat /\ Tally(Conveyed, U, x) \in Nat
          BY <1>2, <1>9, <2>2
        <4>2. Tally(Conveyed, U \cup {e}, x) = Count(Conveyed[e], x) + Tally(Conveyed, U, x)
          BY <2>1
        <4>3. Count(Taken(s, e), x) = Fixed(items, x) + Tally(Conveyed, U, x) + Count(Conveyed[e], x)
          BY <1>1, <3>1
        <4> QED BY <4>1, <4>2, <4>3
      <3> QED BY <1>5, <3>2 DEF SumHolds
    <2>3. CASE Overlay(e)
      <3>1. RunAfter(s, IndexOf(s, e), e) = << >>
        BY <1>4, <1>12, <2>3, NoRun
      <3>2. \A x : Count(Taken(s, e), x) = Count(s, x) + Count(Conveyed[e], x)
        <4> TAKE x
        <4>1. Count(Taken(s, e), x) = Count(s, x) + (IF x = e THEN 0 ELSE Count(Catalogue[e].brings, x))
          BY <1>5, <1>8, <2>3, <3>1
        <4>2. Count(Conveyed[e], x) = Count(Catalogue[e].brings, x) /\ Count(Catalogue[e].brings, x) \in Nat
          BY <1>9, <2>3
        <4> QED BY <1>10, <4>1, <4>2
      <3>3. \A x : Count(Taken(s, e), x) = Fixed(items, x) + Tally(Conveyed, U \cup {e}, x)
        <4> TAKE x
        <4>1. Count(Conveyed[e], x) \in Nat /\ Fixed(items, x) \in Nat /\ Tally(Conveyed, U, x) \in Nat
          BY <1>2, <1>9, <2>3
        <4>2. Tally(Conveyed, U \cup {e}, x) = Count(Conveyed[e], x) + Tally(Conveyed, U, x)
          BY <2>1
        <4>3. Count(Taken(s, e), x) = Fixed(items, x) + Tally(Conveyed, U, x) + Count(Conveyed[e], x)
          BY <1>1, <3>2
        <4> QED BY <4>1, <4>2, <4>3
      <3> QED BY <1>5, <3>3 DEF SumHolds
    <2> QED BY <2>2, <2>3
  <1> QED BY <1>11, <1>12

\* All at once: what has a node.
Dismissed(items, sum, T, g) ==
  g = [s \in SUBSET T |->
         IF s = {} THEN sum ELSE WithoutEach(g[s \ {APick(s)}], Owns(items, APick(s)) \o Catalogue[APick(s)].brings)]

LEMMA StaleCount ==
  ASSUME NEW items, Sorted(items), NEW W, Contents(W), NEW sum, SumHolds(items, sum, W), NEW T \in SUBSET W
  PROVE  SumHolds(items, (CHOOSE g : Dismissed(items, sum, T, g))[T], W \ T)
  <1> DEFINE own == [e \in T |-> Owns(items, e) \o Catalogue[e].brings]
             new == (CHOOSE g : Dismissed(items, sum, T, g))[T]
             Direct(g) == Dismissed(items, sum, T, g)
             Whole(g) == Purge(sum, own, T, g)
  <1>1. new = (CHOOSE g : Direct(g))[T]
    OBVIOUS
  <1>2. \A s \in SUBSET T : s # {} => own[APick(s)] = Owns(items, APick(s)) \o Catalogue[APick(s)].brings
    <2>1. \A s \in SUBSET T : s # {} => APick(s) \in s
      BY DEF APick
    <2> QED BY <2>1
  <1>3. \A g : Direct(g) <=> Whole(g)
    BY <1>2 DEF Purge, Dismissed
  <1>4. (CHOOSE g : Direct(g)) = (CHOOSE g : Whole(g))
    <2> HIDE DEF Direct, Whole
    <2> QED BY <1>3
  <1>5. sum \in Seq(Id) /\ SumSorted /\ \A x : Count(sum, x) = Fixed(items, x) + Tally(Conveyed, W, x)
    BY DEF SumHolds, Sorted
  <1>6. Contents(T) /\ Contents(W \ T) /\ \A e \in W : IsContent(e) /\ e \in Element /\ e \in Id
    <2>1. Contents(T)
      BY FS_Subset DEF Contents
    <2> QED BY <2>1, ContentsPart DEF Contents, IsContent, Id
  <1>7. \A e \in T : /\ own[e] \in Seq(Id)
                     /\ \A x : Count(own[e], x) = (IF ~Owned(items, e) /\ x = e THEN 1 ELSE 0) + Count(Catalogue[e].brings, x)
    <2> TAKE e \in T
    <2> DEFINE a == Owns(items, e)
               b == Catalogue[e].brings
    <2>1. \A x : Count(a, x) = IF ~Owned(items, e) /\ x = e THEN 1 ELSE 0
      BY CountOne, CountEmpty DEF Owns
    <2>2. a \in Seq(Id) /\ b \in Seq(Id)
      <3>1. <<e>> \in Seq(Id) /\ << >> \in Seq(Id)
        BY <1>6
      <3>2. b \in Seq(Id)
        BY <1>5, <1>6 DEF SumSorted
      <3> QED BY <3>1, <3>2 DEF Owns
    <2>3. own[e] = a \o b
      OBVIOUS
    <2> HIDE DEF a, b, own
    <2>4. a \o b \in Seq(Id) /\ \A x : Count(a \o b, x) = Count(a, x) + Count(b, x)
      BY <2>2, CountBoth
    <2> QED BY <2>1, <2>3, <2>4 DEF b
  <1>8. Pieces(Id, own, T)
    BY <1>6, <1>7 DEF Pieces, Contents
  <1>9. T = DOMAIN own
    OBVIOUS
  <1> HIDE DEF own, new
  <1>10. /\ (CHOOSE g : Purge(sum, own, T, g))[T] \in Seq(Id)
         /\ \A x : Count((CHOOSE g : Purge(sum, own, T, g))[T], x) = Less(Count(sum, x), Tally(own, T, x))
    <2>1. sum \in Seq(Id)
      BY <1>5
    <2> HIDE DEF Direct, Whole
    <2> QED BY <1>8, <2>1, PurgeCount
  <1>11. new \in Seq(Id) /\ \A x : Count(new, x) = Less(Count(sum, x), Tally(own, T, x))
    BY <1>1, <1>4, <1>10
  <1> DEFINE V == W \ T
  <1>12. Pieces(Id, Conveyed, T) /\ Pieces(Id, Conveyed, V) /\ Pieces(Id, Conveyed, W) /\ T \cap V = {} /\ W = T \cup V
    BY <1>5, <1>6, ConveyedCounts
  <1> HIDE DEF V
  <1>13. \A x : /\ Tally(Conveyed, W, x) = Tally(Conveyed, T, x) + Tally(Conveyed, V, x)
                /\ Tally(Conveyed, T, x) \in Nat /\ Tally(Conveyed, V, x) \in Nat /\ Fixed(items, x) \in Nat
    <2> TAKE x
    <2>1. Tally(Conveyed, T \cup V, x) = Tally(Conveyed, T, x) + Tally(Conveyed, V, x)
      BY <1>12, TallyUnion
    <2>2. Tally(Conveyed, T, x) \in Nat /\ Tally(Conveyed, V, x) \in Nat
      BY <1>12, TallyType
    <2>3. Fixed(items, x) \in Nat
      BY RestCounts DEF Sorted
    <2> QED BY <1>12, <2>1, <2>2, <2>3
  <1>14. ASSUME NEW x PROVE Count(new, x) = Fixed(items, x) + Tally(Conveyed, V, x)
    <2>1. Tally(own, T, x) \in Nat /\ Count(sum, x) = Fixed(items, x) + Tally(Conveyed, W, x)
      BY <1>5, <1>8, TallyType
    <2>2. CASE IsContent(x) /\ Overlay(x) /\ ~Owned(items, x)
      <3>1. ~(Fixed(items, x) > 0)
        BY <2>2, RestCounts DEF Sorted
      <3>2. Tally(Conveyed, W, x) = 0
        BY <1>5, <2>2, ConveyedCounts
      <3>3. Fixed(items, x) = 0 /\ Tally(Conveyed, V, x) = 0
        BY <1>13, <3>1, <3>2
      <3>4. Less(0, Tally(own, T, x)) = 0
        BY <2>1 DEF Less
      <3>5. Count(sum, x) = 0 /\ Count(new, x) = Less(Count(sum, x), Tally(own, T, x))
        BY <1>11, <2>1, <3>2, <3>3
      <3> QED BY <3>3, <3>4, <3>5
    <2>3. CASE ~(IsContent(x) /\ Overlay(x) /\ ~Owned(items, x))
      <3>1. \A e \in T : Count(own[e], x) = Count(Conveyed[e], x)
        <4> TAKE e \in T
        <4>1. Count(Conveyed[e], x) = (IF ~Overlay(e) /\ x = e THEN 1 ELSE 0) + Count(Catalogue[e].brings, x)
          BY <1>5, <1>6, CountConveyed
        <4>2. x = e => (Owned(items, e) <=> Overlay(e))
          BY <1>6, <2>3, OwnedIsLaid DEF Sorted
        <4> QED BY <1>7, <4>1, <4>2
      <3>2. Tally(own, T, x) = Tally(Conveyed, T, x)
        <4>1. IsFiniteSet(T) /\ T \subseteq DOMAIN own /\ T \subseteq DOMAIN Conveyed
          BY <1>8, <1>12 DEF Pieces
        <4> QED BY <3>1, <4>1, TallySame
      <3>3. Count(new, x) = Less(Fixed(items, x) + Tally(Conveyed, W, x), Tally(Conveyed, T, x))
        BY <1>11, <2>1, <3>2
      <3>4. /\ Tally(Conveyed, W, x) = Tally(Conveyed, T, x) + Tally(Conveyed, V, x)
            /\ Tally(Conveyed, T, x) \in Nat /\ Tally(Conveyed, V, x) \in Nat /\ Fixed(items, x) \in Nat
        BY <1>13
      <3> QED BY <3>3, <3>4 DEF Less
    <2> QED BY <2>2, <2>3
  <1>15. SumHolds(items, new, W \ T)
    BY <1>11, <1>14 DEF SumHolds, V
  <1> QED BY <1>15 DEF new

\* One after another, the last place first: what has none.
Flattened(items, sum, P, g) ==
  g = [s \in SUBSET P |-> IF s = {} THEN sum ELSE FlatOut(items, g[s \ {Max(s)}], sum[Max(s)])]

LEMMA FlatCount ==
  ASSUME NEW items, Sorted(items), NEW U, Contents(U), NEW sum, SumHolds(items, sum, U), NEW F,
         \A e \in F : /\ IsContent(e) /\ e \in ToSet(sum)
                      /\ Overlay(e) => Owned(items, e)
                      /\ ~Overlay(e) => e \in U
                      /\ Catalogue[e].node => e \notin U
  PROVE  \A P : P = {IndexOf(sum, e) : e \in F} => SumHolds(items, (CHOOSE g : Flattened(items, sum, P, g))[P], U \ F)
  <1> DEFINE P == {IndexOf(sum, e) : e \in F}
             pick == [s \in SUBSET P |-> Max(s)]
             step == [i \in P |-> [a \in Seq(Id) |-> FlatOut(items, a, sum[i])]]
             G == CHOOSE g : Flattened(items, sum, P, g)
  <1>2. sum \in Seq(Id) /\ SumSorted
    BY DEF SumHolds, Sorted
  <1>3. \A e \in F : IndexOf(sum, e) \in 1 .. Len(sum) /\ sum[IndexOf(sum, e)] = e
    <2> TAKE e \in F
    <2>1. Count(sum, e) # 0
      BY <1>2, CountType
    <2>2. IndexOf(sum, e) \in 0 .. Len(sum) /\ IndexOf(sum, e) # 0 /\ sum[IndexOf(sum, e)] = e
      BY <1>2, <2>1, FirstPlace
    <2> QED BY <2>2
  <1>4. IsFiniteSet(P) /\ (\A i \in P : i \in Nat) /\ \A i \in P : sum[i] \in F
    <2> DEFINE J == 1 .. Len(sum)
    <2>1. P \subseteq J /\ IsFiniteSet(J) /\ (\A i \in J : i \in Nat) /\ \A i \in P : sum[i] \in F
      BY <1>3, FS_Interval
    <2> HIDE DEF J, P
    <2> QED BY <2>1, FS_Subset
  <1>5. {sum[i] : i \in P} = F
    BY <1>3
  <1>6. \A i, j \in P : sum[i] = sum[j] => i = j
    BY <1>3
  <1> HIDE DEF P
  <1>7. \A s \in SUBSET P : IsFiniteSet(s) /\ (s # {} => Max(s) \in s)
    BY <1>4, LastPlace
  <1>8. \A i \in P, a \in Seq(Id) : step[i][a] = FlatOut(items, a, sum[i]) /\ step[i][a] \in Seq(Id)
    <2> SUFFICES ASSUME NEW i \in P, NEW a \in Seq(Id) PROVE FlatOut(items, a, sum[i]) \in Seq(Id)
      OBVIOUS
    <2> DEFINE e == sum[i]
    <2>1. e \in F /\ e \in Id
      BY <1>4 DEF Id, IsContent
    <2> HIDE DEF e
    <2>2. IndexOf(a, e) \in 0 .. Len(a)
      BY FirstPlace
    <2>3. RunAfter(a, IndexOf(a, e), e) \in Seq(Id)
      BY <2>2, RunTyped
    <2>4. Owns(items, e) \in Seq(Id)
      <3>1. << >> \in Seq(Id) /\ <<e>> \in Seq(Id)
        BY <2>1
      <3> QED BY <3>1 DEF Owns
    <2> DEFINE ids == RunAfter(a, IndexOf(a, e), e) \o Owns(items, e)
    <2>5. ids \in Seq(Id)
      BY <2>3, <2>4
    <2> HIDE DEF ids
    <2>6. WithoutEach(a, ids) \in Seq(Id)
      BY <2>5, WithoutEachCount
    <2> QED BY <2>6 DEF FlatOut, ids, e
  <1>9. PICK h \in [SUBSET P -> Seq(Id)] : FoldsOf(P, sum, pick, step, h)
    <2>1. \A s \in SUBSET P : s # {} => pick[s] \in s
      BY <1>7
    <2> HIDE DEF pick, step
    <2> QED BY <1>2, <1>4, <1>8, <2>1, FoldExists
  <1>10. Flattened(items, sum, P, h)
    <2>1. \A s \in SUBSET P : s # {} => pick[s] = Max(s) /\ pick[s] \in P /\ s \ {pick[s]} \in SUBSET P
      BY <1>7
    <2> HIDE DEF pick, step
    <2>2. \A s \in SUBSET P : h[s] = IF s = {} THEN sum ELSE step[pick[s]][h[s \ {pick[s]}]]
      BY <1>9, Zenon DEF FoldsOf
    <2>3. \A s \in SUBSET P : s # {} => h[s \ {pick[s]}] \in Seq(Id)
      BY <1>9, <2>1
    <2>4. \A s \in SUBSET P : h[s] = IF s = {} THEN sum ELSE FlatOut(items, h[s \ {Max(s)}], sum[Max(s)])
      <3> TAKE s \in SUBSET P
      <3>1. s # {} => /\ pick[s] = Max(s) /\ pick[s] \in P /\ h[s \ {Max(s)}] \in Seq(Id)
                      /\ h[s] = step[Max(s)][h[s \ {Max(s)}]]
        BY <2>1, <2>2, <2>3
      <3>2. s = {} => h[s] = sum
        BY <2>2
      <3> QED BY <1>8, <3>1, <3>2
    <2>5. h = [s \in SUBSET P |-> h[s]]
      BY <1>9
    <2> QED BY <2>4, <2>5 DEF Flattened
  <1>11. Flattened(items, sum, P, G)
    BY <1>10
  <1> HIDE DEF G, pick, step
  <1>12. \A s \in SUBSET P : G[s] = IF s = {} THEN sum ELSE FlatOut(items, G[s \ {Max(s)}], sum[Max(s)])
    BY <1>11 DEF Flattened
  <1> DEFINE Out(s) == {sum[i] : i \in s}
             Right(s) == SumHolds(items, G[s], U \ Out(s))
             Wrong == {s \in SUBSET P : ~Right(s)}
  <1>13. ASSUME Wrong # {} PROVE FALSE
    <2>1. PICK s \in Wrong : \A u \in Wrong : u \subseteq s => u = s
      <3>1. Wrong \in SUBSET SUBSET P
        OBVIOUS
      <3> HIDE DEF Wrong
      <3> QED BY <1>4, <1>13, <3>1, SmallestSet
    <2>2. CASE s = {}
      <3>1. G[s] = sum /\ U \ Out(s) = U
        BY <1>12, <2>2
      <3> QED BY <2>1, <3>1
    <2>3. CASE s # {}
      <3> DEFINE c == Max(s)
                 t == s \ {c}
                 e == sum[c]
                 rest == U \ Out(t)
      <3>1. c \in s /\ c \in P /\ t \in SUBSET P /\ t # s /\ t \subseteq s /\ c \notin t
        BY <1>7, <2>1, <2>3
      <3>2. SumHolds(items, G[t], rest)
        BY <2>1, <3>1
      <3>3. G[s] = FlatOut(items, G[t], e)
        BY <1>12, <2>1, <2>3
      <3>4. e \in F /\ e \notin Out(t) /\ U \ Out(s) = rest \ {e}
        BY <1>4, <1>6, <2>1, <3>1
      <3>5. Contents(rest)
        BY ContentsPart
      <3>6. /\ IsContent(e) /\ (Overlay(e) => Owned(items, e)) /\ (~Overlay(e) => e \in rest)
            /\ Catalogue[e].node => e \notin rest
        BY <3>4
      <3> HIDE DEF c, t, e, rest, Out
      <3>7. SumHolds(items, FlatOut(items, G[t], e), rest \ {e})
        BY <3>2, <3>5, <3>6, FlatStep
      <3> QED BY <2>1, <3>3, <3>4, <3>7
    <2> QED BY <2>2, <2>3
  <1>14. Right(P) /\ Out(P) = F
    BY <1>5, <1>13
  <1> QED BY <1>14 DEF G, P

\* And what has none yet, put in.
Finished(items, sum, Q, g) ==
  g = [s \in SUBSET Q |-> IF s = {} THEN sum ELSE Taken(g[s \ {Max(s)}], Content(items[Max(s)]))]

LEMMA TakeCount ==
  ASSUME NEW items, Sorted(items), NEW U, Contents(U), NEW sum, SumHolds(items, sum, U),
         NEW Q, IsFiniteSet(Q), \A i \in Q : i \in Nat,
         \A i, j \in Q : Content(items[i]) = Content(items[j]) => i = j,
         \A i \in Q : /\ IsContent(Content(items[i]))
                      /\ Overlay(Content(items[i])) => Owned(items, Content(items[i]))
                      /\ Catalogue[Content(items[i])].node => Content(items[i]) \notin U
  PROVE  SumHolds(items, (CHOOSE g : Finished(items, sum, Q, g))[Q], U \cup {Content(items[i]) : i \in Q})
  <1> DEFINE Anchored == {a \in Seq(Id) : Count(a, Head(Elsewhere)) > 0}
             con == [i \in Q |-> Content(items[i])]
             pick == [s \in SUBSET Q |-> Max(s)]
             step == [i \in Q |-> [a \in Anchored |-> Taken(a, Content(items[i]))]]
             G == CHOOSE g : Finished(items, sum, Q, g)
  <1>2. sum \in Seq(Id) /\ SumSorted
    BY DEF SumHolds, Sorted
  <1>3. sum \in Anchored
    <2>1. Fixed(items, Head(Elsewhere)) > 0 /\ Fixed(items, Head(Elsewhere)) \in Nat
      BY RestCounts DEF Sorted
    <2>2. Tally(Conveyed, U, Head(Elsewhere)) \in Nat
      BY <1>2, ConveyedCounts
    <2>3. Count(sum, Head(Elsewhere)) = Fixed(items, Head(Elsewhere)) + Tally(Conveyed, U, Head(Elsewhere))
      BY DEF SumHolds
    <2> QED BY <1>2, <2>1, <2>2, <2>3
  <1>7. \A s \in SUBSET Q : IsFiniteSet(s) /\ (s # {} => Max(s) \in s)
    BY LastPlace
  <1>8. \A i \in Q, a \in Anchored : step[i][a] = Taken(a, Content(items[i])) /\ step[i][a] \in Anchored
    <2> SUFFICES ASSUME NEW i \in Q, NEW a \in Anchored PROVE Taken(a, Content(items[i])) \in Anchored
      OBVIOUS
    <2> DEFINE e == Content(items[i])
    <2>1. e \in Element
      BY DEF IsContent
    <2> HIDE DEF e
    <2>2. Taken(a, e) \in Seq(Id) /\ Count(Taken(a, e), Head(Elsewhere)) > 0
      BY <1>2, <2>1, TakenTyped
    <2> QED BY <2>2 DEF e
  <1>9. PICK h \in [SUBSET Q -> Anchored] : FoldsOf(Q, sum, pick, step, h)
    <2>1. \A s \in SUBSET Q : s # {} => pick[s] \in s
      BY <1>7
    <2> HIDE DEF pick, step, Anchored
    <2> QED BY <1>3, <1>8, <2>1, FoldExists
  <1>10. Finished(items, sum, Q, h)
    <2>1. \A s \in SUBSET Q : s # {} => pick[s] = Max(s) /\ pick[s] \in Q /\ s \ {pick[s]} \in SUBSET Q
      BY <1>7
    <2> HIDE DEF pick, step, Anchored
    <2>2. \A s \in SUBSET Q : h[s] = IF s = {} THEN sum ELSE step[pick[s]][h[s \ {pick[s]}]]
      BY <1>9, Zenon DEF FoldsOf
    <2>3. \A s \in SUBSET Q : s # {} => h[s \ {pick[s]}] \in Anchored
      BY <1>9, <2>1
    <2>4. \A s \in SUBSET Q : h[s] = IF s = {} THEN sum ELSE Taken(h[s \ {Max(s)}], Content(items[Max(s)]))
      <3> TAKE s \in SUBSET Q
      <3>1. s # {} => /\ pick[s] = Max(s) /\ pick[s] \in Q /\ h[s \ {Max(s)}] \in Anchored
                      /\ h[s] = step[Max(s)][h[s \ {Max(s)}]]
        BY <2>1, <2>2, <2>3
      <3>2. s = {} => h[s] = sum
        BY <2>2
      <3> QED BY <1>8, <3>1, <3>2
    <2>5. h = [s \in SUBSET Q |-> h[s]]
      BY <1>9
    <2> QED BY <2>4, <2>5 DEF Finished
  <1>11. Finished(items, sum, Q, G)
    BY <1>10
  <1> HIDE DEF G, pick, step
  <1>12. \A s \in SUBSET Q : G[s] = IF s = {} THEN sum ELSE Taken(G[s \ {Max(s)}], Content(items[Max(s)]))
    BY <1>11 DEF Finished
  <1> DEFINE In(s) == {Content(items[i]) : i \in s}
             Right(s) == SumHolds(items, G[s], U \cup In(s))
             Wrong == {s \in SUBSET Q : ~Right(s)}
  <1>13. ASSUME Wrong # {} PROVE FALSE
    <2>1. PICK s \in Wrong : \A u \in Wrong : u \subseteq s => u = s
      <3>1. Wrong \in SUBSET SUBSET Q
        OBVIOUS
      <3> HIDE DEF Wrong
      <3> QED BY <1>13, <3>1, SmallestSet
    <2>2. CASE s = {}
      <3>1. G[s] = sum /\ U \cup In(s) = U
        BY <1>12, <2>2
      <3> QED BY <2>1, <3>1
    <2>3. CASE s # {}
      <3> DEFINE c == Max(s)
                 t == s \ {c}
                 e == Content(items[c])
                 all == U \cup In(t)
      <3>1. c \in s /\ c \in Q /\ t \in SUBSET Q /\ t # s /\ t \subseteq s /\ c \notin t
        BY <1>7, <2>1, <2>3
      <3>2. SumHolds(items, G[t], all)
        BY <2>1, <3>1
      <3>3. G[s] = Taken(G[t], e)
        BY <1>12, <2>1, <2>3
      <3>4. e \notin In(t) /\ U \cup In(s) = all \cup {e}
        BY <2>1, <3>1
      <3>5. Contents(all)
        <4> DEFINE others == In(t)
        <4>1. IsFiniteSet(others)
          <5>1. IsFiniteSet(t)
            BY <1>7, <3>1
          <5>2. [i \in t |-> Content(items[i])] \in Surjection(t, others)
            BY DEF Surjection
          <5> HIDE DEF t, others
          <5> QED BY <5>1, <5>2, FS_Surjection
        <4>2. Contents(others)
          BY <3>1, <4>1 DEF Contents
        <4> HIDE DEF others
        <4> QED BY <4>2, ContentsPart DEF others
      <3>6. /\ IsContent(e) /\ (Overlay(e) => Owned(items, e))
            /\ Catalogue[e].node => e \notin all
        BY <3>1, <3>4
      <3> HIDE DEF c, t, e, all, In
      <3>7. SumHolds(items, Taken(G[t], e), all \cup {e})
        BY <3>2, <3>5, <3>6, TakeStep
      <3> QED BY <2>1, <3>3, <3>4, <3>7
    <2> QED BY <2>2, <2>3
  <1>14. Right(Q)
    BY <1>13
  <1> QED BY <1>14 DEF G

\* What is wanted of finitely many records.
LEMMA WantedContents ==
  ASSUME NEW items, CatalogueSorted, Fine(items), Proper(items), IsFiniteSet(DOMAIN items)
  PROVE  Contents(Wanted(items))
  <1> DEFINE on == {j \in DOMAIN items : Active(items[j])}
             all == {Content(items[i]) : i \in on}
  <1>1. IsFiniteSet(on)
    BY FS_Subset
  <1>2. [i \in on |-> Content(items[i])] \in Surjection(on, all)
    BY DEF Surjection
  <1>3. IsFiniteSet(all)
    <2> HIDE DEF on, all
    <2> QED BY <1>1, <1>2, FS_Surjection
  <1>4. Wanted(items) \subseteq all
    BY DEF Wanted
  <1> HIDE DEF all
  <1> QED BY <1>3, <1>4, FS_Subset, WantedIsContent DEF Contents

LEMMA UnregisteredSummed ==
  ASSUME NEW doc, Sorted(doc.items), NEW W, Summed(doc, W), NEW want, Contents(want)
  PROVE  SumHolds(doc.items, Unregistered(doc, want), W \cap want)
  <1> DEFINE items == doc.items
             T == Stale(doc, want)
             S == (CHOOSE g : Dismissed(items, doc.sum, T, g))[T]
             F == {e \in ToSet(S) : IsContent(e) /\ e \notin doc.nodes} \ want
             P == {IndexOf(S, e) : e \in F}
             U == W \ T
             V == W \cap want
             L == (U \ F) \ want
  <1>1. Unregistered(doc, want) = (CHOOSE g : Flattened(items, S, P, g))[P]
    BY DEF Unregistered, FoldSet, MapThenFoldSet, Flattened, FlatOut, Owns, Dismissed, APick
  <1>2. /\ Contents(W) /\ SumHolds(items, doc.sum, W) /\ SumSorted
        /\ \A e : IsContent(e) => (e \in doc.nodes <=> e \in W /\ Catalogue[e].node)
    BY DEF Summed, Sorted
  <1>3. T \in SUBSET W /\ \A e : e \in T <=> e \in W /\ Catalogue[e].node /\ e \notin want
    BY <1>2 DEF Stale, Contents
  <1>4. Contents(U)
    BY <1>2, ContentsPart
  <1> HIDE DEF items, S, T, U
  <1>5. SumHolds(items, S, U)
    BY <1>2, <1>3, StaleCount DEF items, S, U
  <1>6. S \in Seq(Id) /\ \A x : Count(S, x) = Fixed(items, x) + Tally(Conveyed, U, x)
    BY <1>5 DEF SumHolds
  <1>7. \A x : Fixed(items, x) \in Nat /\ Tally(Conveyed, U, x) \in Nat
    BY <1>2, <1>4, RestCounts, ConveyedCounts DEF Sorted, items
  <1>8. \A e : IsContent(e) => /\ Count(S, e) # 0 <=> e \in ToSet(S)
                               /\ Fixed(items, e) > 0 <=> Overlay(e) /\ Owned(items, e)
                               /\ Tally(Conveyed, U, e) = IF e \in U /\ ~Overlay(e) THEN 1 ELSE 0
    <2>1. \A e : IsContent(e) => (Fixed(items, e) > 0 <=> Owned(items, e)) /\ (Owned(items, e) => Overlay(e))
      BY RestCounts, OwnedIsLaid DEF Sorted, items
    <2>2. \A e : Count(S, e) # 0 <=> e \in ToSet(S)
      BY <1>6, CountType
    <2> QED BY <1>2, <1>4, <2>1, <2>2, ConveyedCounts
  <1>9. \A e \in F : /\ IsContent(e) /\ e \in ToSet(S)
                     /\ Overlay(e) => Owned(items, e)
                     /\ ~Overlay(e) => e \in U
                     /\ Catalogue[e].node => e \notin U
    <2> TAKE e \in F
    <2>1. IsContent(e) /\ e \in ToSet(S) /\ e \notin doc.nodes
      OBVIOUS
    <2>2. Catalogue[e].node => e \notin U
      BY <1>2, <2>1 DEF U
    <2>3. Count(S, e) # 0 /\ Count(S, e) = Fixed(items, e) + Tally(Conveyed, U, e) /\ Fixed(items, e) \in Nat
      BY <1>6, <1>7, <1>8, <2>1
    <2> QED BY <1>8, <2>1, <2>2, <2>3
  <1>10. SumHolds(items, (CHOOSE g : Flattened(items, S, P, g))[P], U \ F)
    <2>1. Sorted(items)
      BY DEF items
    <2> HIDE DEF F
    <2> QED BY <1>4, <1>5, <1>9, <2>1, FlatCount
  <1>11. \A e \in L : IsContent(e) /\ Overlay(e) /\ ~Catalogue[e].node
    <2> TAKE e \in L
    <2>1. IsContent(e) /\ e \in W /\ e \notin want /\ e \notin T
      BY <1>2 DEF U, Contents
    <2>2. ~Catalogue[e].node /\ e \notin doc.nodes
      BY <1>2, <1>3, <2>1
    <2>3. ASSUME ~Overlay(e) PROVE FALSE
      <3>1. Tally(Conveyed, U, e) = 1 /\ Fixed(items, e) \in Nat
        BY <1>7, <1>8, <2>1, <2>3
      <3>2. e \in ToSet(S)
        BY <1>6, <1>8, <2>1, <3>1
      <3> QED BY <2>1, <2>2, <3>2
    <2> QED BY <2>1, <2>2, <2>3
  <1>12. U \ F = V \cup L /\ V \cap L = {}
    BY <1>3 DEF U
  <1> HIDE DEF F, V, L, P
  <1>13. Contents(V \cup L) /\ Contents(V) /\ Contents(L)
    <2>1. Contents(U \ F)
      BY <1>4, ContentsPart
    <2>2. V \subseteq U \ F /\ L \subseteq U \ F
      BY <1>12
    <2>3. IsFiniteSet(V) /\ IsFiniteSet(L)
      BY <2>1, <2>2, FS_Subset DEF Contents
    <2> QED BY <1>12, <2>1, <2>2, <2>3 DEF Contents
  <1>14. \A x : Tally(Conveyed, V \cup L, x) = Tally(Conveyed, V, x)
    <2> TAKE x
    <2>1. Pieces(Id, Conveyed, V) /\ Pieces(Id, Conveyed, L)
      BY <1>2, <1>13, ConveyedCounts
    <2>2. Tally(Conveyed, V \cup L, x) = Tally(Conveyed, V, x) + Tally(Conveyed, L, x)
      BY <1>12, <2>1, TallyUnion
    <2>3. \A e \in L : Count(Conveyed[e], x) = 0
      BY <1>2, <1>11, BareContent
    <2>4. Tally(Conveyed, L, x) = 0
      BY <2>1, <2>3, TallyZero
    <2>5. Tally(Conveyed, V, x) \in Nat
      BY <2>1, TallyType
    <2> QED BY <2>2, <2>4, <2>5
  <1>15. SumHolds(items, (CHOOSE g : Flattened(items, S, P, g))[P], V)
    BY <1>10, <1>12, <1>14 DEF SumHolds
  <1> QED BY <1>1, <1>15 DEF items, V

LEMMA CompletedSummed ==
  ASSUME NEW doc, Sorted(doc.items), IsFiniteSet(DOMAIN doc.items), \A i \in DOMAIN doc.items : i \in Nat,
         NEW W, Summed(doc, W), NEW sum, SumHolds(doc.items, sum, W \cap Wanted(doc.items))
  PROVE  SumHolds(doc.items, Completed(doc, Wanted(doc.items), sum), Wanted(doc.items))
  <1> DEFINE items == doc.items
             want == Wanted(items)
             V == W \cap want
             First(e) == Min({i \in DOMAIN items : Content(items[i]) = e})
             N == want \ doc.nodes
             Q == {First(e) : e \in N}
  <1>1. Completed(doc, want, sum) = (CHOOSE g : Finished(items, sum, Q, g))[Q]
    BY DEF Completed, MapThenFoldSet, Finished, Taken
  <1>2. /\ SumSorted /\ CatalogueSorted /\ Fine(items) /\ Proper(items)
        /\ \A e : IsContent(e) => (e \in doc.nodes <=> e \in W /\ Catalogue[e].node)
    BY DEF Summed, Sorted
  <1>3. Contents(want)
    BY <1>2, WantedContents
  <1>4. \A e \in want : First(e) \in DOMAIN items /\ Content(items[First(e)]) = e
    <2> TAKE e \in want
    <2> DEFINE I == {i \in DOMAIN items : Content(items[i]) = e}
    <2>1. I # {} /\ I \in SUBSET Nat
      BY DEF Wanted
    <2> HIDE DEF I
    <2>2. Min(I) \in I
      BY <2>1, LeastOf
    <2> QED BY <2>2 DEF I
  <1> HIDE DEF First, want, items
  <1>5. Q \subseteq DOMAIN items /\ {Content(items[i]) : i \in Q} = N
    BY <1>4
  <1>6. \A i \in Q : Content(items[i]) \in N
    BY <1>5
  <1>7. \A i, j \in Q : Content(items[i]) = Content(items[j]) => i = j
    BY <1>4
  <1>8. IsFiniteSet(Q) /\ \A i \in Q : i \in Nat
    <2> HIDE DEF Q
    <2> QED BY <1>5, FS_Subset DEF items
  <1>9. \A e \in N : /\ IsContent(e)
                     /\ Overlay(e) => Owned(items, e)
                     /\ Catalogue[e].node => e \notin V
    <2> TAKE e \in N
    <2>1. IsContent(e) /\ e \notin doc.nodes /\ e \in Wanted(items)
      BY <1>3 DEF Contents, want
    <2>2. Overlay(e) => Owned(items, e)
      BY <1>2, <2>1, OwnedIsLaid
    <2> QED BY <1>2, <2>1, <2>2
  <1>10. Contents(V)
    <2>1. V \subseteq want
      OBVIOUS
    <2> QED BY <1>3, <2>1, FS_Subset DEF Contents
  <1>11. V \cup N = want
    BY <1>2, <1>3 DEF Contents
  <1>12. SumHolds(items, sum, V) /\ Sorted(items)
    BY DEF items, want
  <1>13. \A i \in Q : /\ IsContent(Content(items[i]))
                      /\ Overlay(Content(items[i])) => Owned(items, Content(items[i]))
                      /\ Catalogue[Content(items[i])].node => Content(items[i]) \notin V
    BY <1>6, <1>9
  <1> HIDE DEF V, N, Q
  <1>14. SumHolds(items, (CHOOSE g : Finished(items, sum, Q, g))[Q], V \cup {Content(items[i]) : i \in Q})
    BY <1>7, <1>8, <1>10, <1>12, <1>13, TakeCount
  <1> QED BY <1>1, <1>5, <1>11, <1>14 DEF items, want

\* The sweep leaves the sum as the items have it.
LEMMA SweptSummed ==
  ASSUME SumSorted, CatalogueSorted, NEW doc, Fine(doc.items), Proper(doc.items),
         IsFiniteSet(DOMAIN doc.items), \A i \in DOMAIN doc.items : i \in Nat, NEW W, Summed(doc, W)
  PROVE  Summed(Swept(doc), Wanted(doc.items))
  <1> DEFINE items == doc.items
             want == Wanted(items)
             new == Swept(doc)
  <1>1. Sorted(items)
    BY DEF Summed, Sorted
  <1>2. Contents(want)
    BY WantedContents
  <1>3. SumHolds(items, Unregistered(doc, want), W \cap want)
    BY <1>1, <1>2, UnregisteredSummed
  <1>4. SumHolds(items, Completed(doc, want, Unregistered(doc, want)), want)
    BY <1>1, <1>3, CompletedSummed
  <1>5. /\ new.items = items /\ new.sum = Completed(doc, want, Unregistered(doc, want))
        /\ new.nodes = (doc.nodes \ {e \in doc.nodes : IsContent(e) /\ e \notin want}) \cup {e \in want : Catalogue[e].node}
    BY DEF Swept, Stale, RegistersAsNode
  <1> HIDE DEF want, new
  <1>6. \A e : IsContent(e) => (e \in new.nodes <=> e \in want /\ Catalogue[e].node)
    BY <1>5 DEF Summed
  <1>7. Summed(new, want)
    BY <1>1, <1>2, <1>4, <1>5, <1>6 DEF Summed, Sorted
  <1> QED BY <1>7 DEF new, want

----------------------------------------------------------------------------
(* What the parts of requests do to the sum.                                 *)

LEMMA SameEntries ==
  ASSUME NEW items, NEW next, NEW T, IsFiniteSet(T), T \subseteq DOMAIN items, T \subseteq DOMAIN next,
         \A k \in T : next[k].item = items[k].item /\ next[k].adorner = items[k].adorner
  PROVE  \A x : Tally(Entries(next), T, x) = Tally(Entries(items), T, x)
  <1> TAKE x
  <1> DEFINE a == Entries(items)
             b == Entries(next)
  <1>1. \A k \in T : BaseEntries(next[k]) = BaseEntries(items[k])
    BY DEF BaseEntries
  <1>2. T \subseteq DOMAIN a /\ T \subseteq DOMAIN b /\ \A k \in T : b[k] = a[k]
    BY <1>1 DEF Entries
  <1> HIDE DEF a, b
  <1>3. \A k \in T : Count(b[k], x) = Count(a[k], x)
    BY <1>2
  <1>4. Tally(b, T, x) = Tally(a, T, x)
    BY <1>2, <1>3, TallySame
  <1> QED BY <1>4 DEF a, b

LEMMA HeldSummed ==
  ASSUME NEW doc, NEW W, Summed(doc, W), NEW next,
         \A k \in DOMAIN doc.items : Registered(doc.items[k]) =>
            /\ k \in DOMAIN next /\ Registered(next[k])
            /\ next[k].item = doc.items[k].item /\ next[k].adorner = doc.items[k].adorner,
         \A k \in DOMAIN next : Registered(next[k]) => k \in DOMAIN doc.items /\ Registered(doc.items[k])
  PROVE  Summed(Holding(doc, next), W)
  <1>1. InUse(next) = InUse(doc.items)
    BY DEF InUse
  <1>2. \A x : Fixed(next, x) = Fixed(doc.items, x)
    <2>1. IsFiniteSet(InUse(doc.items)) /\ InUse(doc.items) \subseteq DOMAIN doc.items /\ InUse(next) \subseteq DOMAIN next
      BY DEF Summed, InUse
    <2>2. \A k \in InUse(doc.items) : next[k].item = doc.items[k].item /\ next[k].adorner = doc.items[k].adorner
      BY DEF InUse
    <2>3. \A x : Tally(Entries(next), InUse(doc.items), x) = Tally(Entries(doc.items), InUse(doc.items), x)
      BY <1>1, <2>1, <2>2, SameEntries
    <2> QED BY <1>1, <2>3 DEF Fixed
  <1>3. /\ Holding(doc, next).items = next /\ Holding(doc, next).sum = doc.sum
        /\ Holding(doc, next).nodes = doc.nodes
    BY DEF Holding
  <1> QED BY <1>1, <1>2, <1>3 DEF Summed, SumHolds

LEMMA RewrittenSummed ==
  ASSUME NEW doc, NEW W, Summed(doc, W), SumSorted, CatalogueSorted, NEW next, NEW out, NEW into, IsFiniteSet(into),
         \A k \in DOMAIN doc.items : Named(doc.items[k]),
         \A k \in DOMAIN next : Named(next[k]),
         out \subseteq DOMAIN doc.items, into \subseteq DOMAIN next,
         \A k \in out : Registered(doc.items[k]),
         \A k \in into : Registered(next[k]) /\ ~(k \in DOMAIN doc.items \ out /\ Registered(doc.items[k])),
         \A k \in DOMAIN doc.items \ out : Registered(doc.items[k]) =>
            /\ k \in DOMAIN next /\ Registered(next[k])
            /\ next[k].item = doc.items[k].item /\ next[k].adorner = doc.items[k].adorner,
         \A k \in DOMAIN next \ into : Registered(next[k]) => k \in DOMAIN doc.items \ out /\ Registered(doc.items[k])
  PROVE  Summed(Rewritten(doc, next, out, into), W)
  <1> DEFINE new == Rewritten(doc, next, out, into)
             items == doc.items
             mid == WithoutBases(doc.sum, items, out)
             K == InUse(items) \ out
             Conv(x) == Tally(Conveyed, W, x)
             Old(T, x) == Tally(Entries(items), T, x)
             New(T, x) == Tally(Entries(next), T, x)
             gone == {doc.items[i].item : i \in {j \in out : ~Shared(doc.items, j)}}
             come == {e \in {next[i].item : i \in into} \ doc.nodes : Catalogue[e].kind = "armor"}
  <1>1. new.items = next /\ new.sum = WithBases(mid, next, into) /\ new.nodes = (doc.nodes \ gone) \cup come
    BY DEF Rewritten
  <1>2. \A e \in gone : ~IsContent(e)
    <2>1. \A k \in out : doc.items[k].item \in Element /\ Slotted(doc.items[k].item)
      BY DEF Registered, Named
    <2> QED BY <2>1 DEF IsContent, CatalogueSorted, Slotted
  <1>3. \A e \in come : ~IsContent(e)
    BY DEF IsContent
  <1> HIDE DEF new, gone, come
  <1>4. \A e : IsContent(e) => (e \in new.nodes <=> e \in W /\ Catalogue[e].node)
    BY <1>1, <1>2, <1>3 DEF Summed
  <1>5. /\ InUse(items) = out \cup K /\ out \cap K = {} /\ InUse(next) = K \cup into /\ K \cap into = {}
        /\ out \subseteq DOMAIN items /\ K \subseteq DOMAIN items /\ K \subseteq DOMAIN next
    BY DEF InUse
  <1>6. IsFiniteSet(out) /\ IsFiniteSet(K) /\ IsFiniteSet(InUse(next))
    <2>1. IsFiniteSet(InUse(items))
      BY DEF Summed
    <2> HIDE DEF K
    <2> QED BY <1>5, <2>1, FS_Subset, FS_Union
  <1>7. \A k \in K : next[k].item = items[k].item /\ next[k].adorner = items[k].adorner
    BY DEF InUse
  <1> HIDE DEF K
  <1>8. \A x : New(K, x) = Old(K, x)
    BY <1>5, <1>6, <1>7, SameEntries
  <1>9. doc.sum \in Seq(Id) /\ Contents(W) /\ \A x : Count(doc.sum, x) = Count(Elsewhere, x) + Old(InUse(items), x) + Conv(x)
    BY DEF Summed, SumHolds, Fixed
  <1>10. /\ Pieces(Id, Entries(items), out) /\ Pieces(Id, Entries(items), K)
         /\ Pieces(Id, Entries(next), K) /\ Pieces(Id, Entries(next), into)
    BY <1>5, <1>6, EntriesTyped
  <1> DEFINE was == Entries(items)
             is == Entries(next)
  <1>11. ASSUME NEW x
         PROVE  /\ Old(InUse(items), x) = Old(out, x) + Old(K, x) /\ New(InUse(next), x) = New(K, x) + New(into, x)
                /\ Old(out, x) \in Nat /\ Old(K, x) \in Nat /\ New(into, x) \in Nat
                /\ Conv(x) \in Nat /\ Count(Elsewhere, x) \in Nat
    <2>1. Pieces(Id, was, out) /\ Pieces(Id, was, K) /\ Pieces(Id, is, K) /\ Pieces(Id, is, into)
      BY <1>10
    <2> HIDE DEF was, is
    <2>2. /\ Tally(was, out \cup K, x) = Tally(was, out, x) + Tally(was, K, x)
          /\ Tally(is, K \cup into, x) = Tally(is, K, x) + Tally(is, into, x)
      BY <1>5, <2>1, TallyUnion
    <2>3. Tally(was, out, x) \in Nat /\ Tally(was, K, x) \in Nat /\ Tally(is, into, x) \in Nat
      BY <2>1, TallyType
    <2>4. Conv(x) \in Nat
      BY <1>9, ConveyedCounts
    <2>5. Count(Elsewhere, x) \in Nat
      BY CountType DEF SumSorted
    <2> QED BY <1>5, <2>2, <2>3, <2>4, <2>5 DEF was, is
  <1> HIDE DEF Old, New, Conv, mid, was, is, items
  <1>12. mid \in Seq(Id) /\ \A x : Count(mid, x) = Less(Count(doc.sum, x), Old(out, x))
    BY <1>5, <1>6, <1>9, WithoutBasesCount DEF mid, Old, items
  <1>13. \A x : Count(mid, x) = Count(Elsewhere, x) + Old(K, x) + Conv(x)
    <2> TAKE x
    <2>1. Count(mid, x) = Less(Count(Elsewhere, x) + (Old(out, x) + Old(K, x)) + Conv(x), Old(out, x))
      BY <1>9, <1>11, <1>12
    <2>2. Old(out, x) \in Nat /\ Old(K, x) \in Nat /\ Conv(x) \in Nat /\ Count(Elsewhere, x) \in Nat
      BY <1>11
    <2> QED BY <2>1, <2>2 DEF Less
  <1>14. Count(mid, Head(Elsewhere)) > 0
    <2> DEFINE h == Head(Elsewhere)
    <2>1. Elsewhere \in Seq(Id) /\ h \in ToSet(Elsewhere)
      BY DEF ToSet, SumSorted
    <2> HIDE DEF h
    <2>2. Count(Elsewhere, h) # 0
      BY <2>1, CountType
    <2>3. Count(mid, h) = Count(Elsewhere, h) + Old(K, h) + Conv(h)
      BY <1>13
    <2>4. Old(K, h) \in Nat /\ Conv(h) \in Nat /\ Count(Elsewhere, h) \in Nat
      BY <1>11
    <2>5. Count(mid, h) > 0
      BY <2>2, <2>3, <2>4
    <2> QED BY <2>5 DEF h
  <1>15. WithBases(mid, next, into) \in Seq(Id) /\ \A x : Count(WithBases(mid, next, into), x) = Count(mid, x) + New(into, x)
    BY <1>12, <1>14, WithBasesCount DEF New
  <1>16. ASSUME NEW x PROVE Count(new.sum, x) = Fixed(next, x) + Tally(Conveyed, W, x)
    <2>1. Fixed(next, x) = Count(Elsewhere, x) + New(InUse(next), x)
      BY DEF Fixed, New
    <2>2. New(InUse(next), x) = Old(K, x) + New(into, x)
      BY <1>8, <1>11
    <2>3. Count(new.sum, x) = Count(Elsewhere, x) + Old(K, x) + Conv(x) + New(into, x)
      BY <1>1, <1>13, <1>15
    <2>4. Old(K, x) \in Nat /\ New(into, x) \in Nat /\ Conv(x) \in Nat /\ Count(Elsewhere, x) \in Nat
      BY <1>11
    <2>5. Count(new.sum, x) = Fixed(next, x) + Conv(x)
      BY <2>1, <2>2, <2>3, <2>4
    <2> QED BY <2>5 DEF Conv
  <1>17. SumHolds(next, new.sum, W)
    BY <1>1, <1>15, <1>16 DEF SumHolds
  <1>18. Summed(new, W)
    BY <1>1, <1>4, <1>6, <1>9, <1>17 DEF Summed
  <1> QED BY <1>18 DEF new

\* A sum that holds what is wanted follows the items.
LEMMA DueCount ==
  ASSUME NEW items, Sorted(items), Contents(Wanted(items))
  PROVE  /\ Due(items) \in Seq(Id)
         /\ \A x : Count(Due(items), x) = Tally(Entries(items), InUse(items), x) + Tally(Conveyed, Wanted(items), x)
  <1> DEFINE want == Wanted(items)
             T == InUse(items)
             piece == Entries(items)
             none == << >>
             D == Joint(none, Conveyed, want)
             Inner(g) == g = [s \in SUBSET want |->
                                IF s = {} THEN << >>
                                ELSE g[s \ {APick(s)}] \o (Owns(items, APick(s)) \o Catalogue[APick(s)].brings)]
             Outer(b, g) == g = [s \in SUBSET T |-> IF s = {} THEN b ELSE g[s \ {APick(s)}] \o BaseEntries(items[APick(s)])]
  <1>1. Due(items) = (CHOOSE g : Outer((CHOOSE f : Inner(f))[want], g))[T]
    BY DEF Due, FoldSet, MapThenFoldSet, APick, Owns, InUse
  <1>2. \A s \in SUBSET want : s # {} => Owns(items, APick(s)) \o Catalogue[APick(s)].brings = Conveyed[APick(s)]
    <2> TAKE s \in SUBSET want
    <2> HAVE s # {}
    <2> DEFINE e == APick(s)
    <2>1. e \in want
      BY DEF APick
    <2> HIDE DEF e
    <2>2. IsContent(e) /\ e \in Element
      BY <2>1 DEF Contents, IsContent
    <2>3. Owned(items, e) <=> Overlay(e)
      BY <2>1, <2>2, OwnedIsLaid DEF Sorted
    <2>4. Owns(items, e) \o Catalogue[e].brings = Conveyed[e]
      BY <2>2, <2>3 DEF Owns, Conveyed
    <2> QED BY <2>4 DEF e
  <1>3. \A g : Inner(g) <=> Joined(<< >>, Conveyed, want, g)
    BY <1>2 DEF Joined
  <1>4. (CHOOSE g : Inner(g))[want] = D
    <2> DEFINE Other(g) == Joined(<< >>, Conveyed, want, g)
    <2>1. \A g : Inner(g) <=> Other(g)
      BY <1>3
    <2> HIDE DEF Inner, Other
    <2>2. (CHOOSE g : Inner(g)) = (CHOOSE g : Other(g))
      BY <2>1
    <2> QED BY <2>2 DEF Other, Joint
  <1>5. \A s \in SUBSET T : s # {} => piece[APick(s)] = BaseEntries(items[APick(s)])
    <2>1. \A s \in SUBSET T : s # {} => APick(s) \in s
      BY DEF APick
    <2> QED BY <2>1 DEF Entries, InUse
  <1>6. Due(items) = (CHOOSE g : Outer(D, g))[T]
    <2> HIDE DEF Outer, Inner, D
    <2> QED BY <1>1, <1>4
  <1>7. \A g : Outer(D, g) <=> Joined(D, piece, T, g)
    <2> HIDE DEF D, piece
    <2> QED BY <1>5 DEF Joined
  <1>8. (CHOOSE g : Outer(D, g)) = (CHOOSE g : Joined(D, piece, T, g))
    <2> DEFINE One(g) == Outer(D, g)
               Other(g) == Joined(D, piece, T, g)
    <2>1. \A g : One(g) <=> Other(g)
      BY <1>7
    <2> HIDE DEF One, Other
    <2>2. (CHOOSE g : One(g)) = (CHOOSE g : Other(g))
      BY <2>1
    <2> QED BY <2>2 DEF One, Other
  <1>9. SumSorted /\ Pieces(Id, Conveyed, want)
    BY ConveyedCounts DEF Sorted
  <1>10. Pieces(Id, piece, T)
    <2>1. T \in SUBSET DOMAIN items /\ IsFiniteSet(T) /\ \A i \in DOMAIN items : Named(items[i])
      BY DEF InUse, Sorted, Fine, Records, Named
    <2> QED BY <1>9, <2>1, EntriesTyped
  <1> HIDE DEF Inner, Outer, piece, T, want
  <1>11. D \in Seq(Id) /\ \A x : Count(D, x) = Tally(Conveyed, want, x)
    <2>1. \A x : Count(none, x) = 0
      BY CountEmpty
    <2>2. none \in Seq(Id)
      OBVIOUS
    <2> HIDE DEF none
    <2>3. D \in Seq(Id) /\ \A x : Count(D, x) = Count(none, x) + Tally(Conveyed, want, x)
      BY <1>9, <2>2, JoinedCount
    <2>4. \A x : Tally(Conveyed, want, x) \in Nat
      BY <1>9, TallyType
    <2> HIDE DEF D
    <2> QED BY <2>1, <2>3, <2>4
  <1> HIDE DEF D
  <1>12. D \in Seq(Id)
    BY <1>11
  <1> DEFINE J == Joint(D, piece, T)
  <1>13. J \in Seq(Id) /\ \A x : Count(J, x) = Count(D, x) + Tally(piece, T, x)
    BY <1>10, <1>12, JoinedCount
  <1>14. Due(items) = J
    BY <1>6, <1>8 DEF Joint
  <1> HIDE DEF J
  <1>15. \A x : Tally(Conveyed, want, x) \in Nat /\ Tally(piece, T, x) \in Nat
    BY <1>9, <1>10, TallyType
  <1>16. Due(items) \in Seq(Id) /\ \A x : Count(Due(items), x) = Tally(piece, T, x) + Tally(Conveyed, want, x)
    BY <1>11, <1>13, <1>14, <1>15
  <1> QED BY <1>16 DEF piece, T, want

LEMMA SameBags ==
  ASSUME NEW A, NEW s \in Seq(A), NEW t \in Seq(A), \A x : Count(s, x) = Count(t, x)
  PROVE  ToBag(s) = ToBag(t)
  <1>1. Range(s) = Range(t)
    <2>1. \A x : x \in ToSet(s) <=> x \in ToSet(t)
      BY CountType
    <2>2. ToSet(s) = ToSet(t)
      BY <2>1
    <2>3. ToSet(s) = Range(s) /\ ToSet(t) = Range(t)
      BY DEF ToSet, Range
    <2> QED BY <2>2, <2>3
  <1>2. ToBag(s) = [x \in Range(s) |-> Count(s, x)] /\ ToBag(t) = [x \in Range(t) |-> Count(t, x)]
    BY DEF ToBag, Count
  <1> QED BY <1>1, <1>2

LEMMA SummedFollows ==
  ASSUME NEW doc, Sorted(doc.items), Summed(doc, Wanted(doc.items))
  PROVE  ToBag(doc.sum) = ToBag(Elsewhere \o Due(doc.items))
  <1> DEFINE items == doc.items
             D == Due(items)
  <1>1. /\ Contents(Wanted(items)) /\ doc.sum \in Seq(Id)
        /\ \A x : Count(doc.sum, x) = Count(Elsewhere, x) + Tally(Entries(items), InUse(items), x) + Tally(Conveyed, Wanted(items), x)
    BY DEF Summed, SumHolds, Fixed
  <1>2. /\ D \in Seq(Id)
        /\ \A x : Count(D, x) = Tally(Entries(items), InUse(items), x) + Tally(Conveyed, Wanted(items), x)
    BY <1>1, DueCount
  <1>3. Elsewhere \in Seq(Id) /\ SumSorted
    BY DEF Sorted, SumSorted
  <1>4. \A x : /\ Count(Elsewhere, x) \in Nat /\ Tally(Conveyed, Wanted(items), x) \in Nat
               /\ Tally(Entries(items), InUse(items), x) \in Nat
    <2> TAKE x
    <2>1. Count(Elsewhere, x) \in Nat /\ Tally(Conveyed, Wanted(items), x) \in Nat
      BY <1>1, <1>3, CountType, ConveyedCounts
    <2>2. InUse(items) \in SUBSET DOMAIN items /\ IsFiniteSet(InUse(items)) /\ \A i \in DOMAIN items : Named(items[i])
      BY DEF InUse, Sorted, Fine, Records, Named
    <2>3. Pieces(Id, Entries(items), InUse(items))
      BY <1>3, <2>2, EntriesTyped
    <2> QED BY <2>1, <2>3, TallyType
  <1> HIDE DEF D
  <1>5. Elsewhere \o D \in Seq(Id) /\ \A x : Count(Elsewhere \o D, x) = Count(Elsewhere, x) + Count(D, x)
    BY <1>2, <1>3, CountBoth
  <1>6. \A x : Count(doc.sum, x) = Count(Elsewhere \o D, x)
    BY <1>1, <1>2, <1>4, <1>5
  <1> DEFINE t == Elsewhere \o D
  <1>7. t \in Seq(Id) /\ \A x : Count(doc.sum, x) = Count(t, x)
    BY <1>5, <1>6
  <1> HIDE DEF t
  <1>8. ToBag(doc.sum) = ToBag(t)
    BY <1>1, <1>7, SameBags
  <1> QED BY <1>8 DEF t, D

----------------------------------------------------------------------------
(* What is kept of the registrations.                                        *)

\* The nodes ahead of a sweep: those of the armor in use, and of content that
\* has one.
ArmorInUse(items, e) ==
  \E i \in DOMAIN items : items[i].item = e /\ Registered(items[i]) /\ Catalogue[e].kind = "armor"
Rooted(doc) ==
  /\ \A e \in doc.nodes : IsContent(e) => Catalogue[e].node
  /\ \A e : ~IsContent(e) => (e \in doc.nodes <=> ArmorInUse(doc.items, e))

\* The requests that the tree does not survive are left out.
TreeExact ==
  /\ {"twin", "bonded"} \subseteq Excluded
  /\ \A s \in Starts : Rooted(s.doc)

\* The sum ahead of a sweep holds what some content conveys: that of the items
\* before the request. A file holds as much, or its first sweep sees to it.
Booked(doc) == \E want : Summed(doc, want)
SumExact ==
  /\ "bonded" \in Excluded
  /\ SumSorted
  /\ \A s \in Starts : Booked(s.doc) \/ Summed(Swept(s.doc), Wanted(s.doc.items))

\* What every request keeps of the registrations.
Kept(doc) == (TreeExact => Rooted(doc)) /\ (SumExact => Booked(doc))

----------------------------------------------------------------------------
(* The nodes.                                                                *)

LEMMA HeldRooted ==
  ASSUME NEW doc, Rooted(doc), NEW next,
         \A k \in DOMAIN doc.items : Registered(doc.items[k]) =>
            k \in DOMAIN next /\ Registered(next[k]) /\ next[k].item = doc.items[k].item,
         \A k \in DOMAIN next : Registered(next[k]) =>
            k \in DOMAIN doc.items /\ Registered(doc.items[k]) /\ next[k].item = doc.items[k].item
  PROVE  Rooted(Holding(doc, next))
  <1>1. \A e : ArmorInUse(next, e) <=> ArmorInUse(doc.items, e)
    BY DEF ArmorInUse
  <1>2. Holding(doc, next).items = next /\ Holding(doc, next).nodes = doc.nodes
    BY DEF Holding
  <1> QED BY <1>1, <1>2 DEF Rooted

\* A rewrite that takes the registrations of out away and writes those of into,
\* when no two armors go at once and none comes in the place of its like.
LEMMA RewrittenRooted ==
  ASSUME NEW doc, Rooted(doc), CatalogueSorted, NEW next, NEW out, NEW into,
         \A k \in DOMAIN doc.items : doc.items[k].item \in Element,
         \A k \in DOMAIN next : next[k].item \in Element,
         out \subseteq DOMAIN doc.items, into \subseteq DOMAIN next,
         \A k \in out : Registered(doc.items[k]),
         \A k \in into : Registered(next[k]),
         \A k \in DOMAIN doc.items \ out : Registered(doc.items[k]) =>
            k \in DOMAIN next /\ Registered(next[k]) /\ next[k].item = doc.items[k].item,
         \A k \in DOMAIN next \ into : Registered(next[k]) =>
            k \in DOMAIN doc.items \ out /\ Registered(doc.items[k]) /\ next[k].item = doc.items[k].item,
         \A j, k \in out : Catalogue[doc.items[j].item].kind = "armor"
                           /\ doc.items[k].item = doc.items[j].item => j = k,
         \A j \in out, k \in into : Catalogue[next[k].item].kind = "armor" => doc.items[j].item # next[k].item
  PROVE  Rooted(Rewritten(doc, next, out, into))
  <1> DEFINE new == Rewritten(doc, next, out, into)
             gone == {doc.items[i].item : i \in {j \in out : ~Shared(doc.items, j)}}
             come == {e \in {next[i].item : i \in into} \ doc.nodes : Catalogue[e].kind = "armor"}
  <1>1. new.items = next /\ new.nodes = (doc.nodes \ gone) \cup come
    BY DEF Rewritten
  <1>2. \A e \in gone : ~IsContent(e)
    <2>1. \A k \in out : doc.items[k].item \in Element /\ Slotted(doc.items[k].item)
      BY DEF Registered
    <2> QED BY <2>1 DEF IsContent, CatalogueSorted, Slotted
  <1>3. \A e \in come : ~IsContent(e)
    BY DEF IsContent
  <1> HIDE DEF new
  <1>4. \A e \in new.nodes : IsContent(e) => Catalogue[e].node
    BY <1>1, <1>3 DEF Rooted
  <1>5. ASSUME NEW e, ~IsContent(e), e \in new.nodes PROVE ArmorInUse(next, e)
    <2>1. CASE e \in come
      BY <2>1 DEF ArmorInUse
    <2>2. CASE e \in doc.nodes \ gone
      <3>1. PICK k \in DOMAIN doc.items : /\ doc.items[k].item = e /\ Registered(doc.items[k])
                                          /\ Catalogue[e].kind = "armor"
        BY <1>5, <2>2 DEF Rooted, ArmorInUse
      <3>2. CASE k \notin out
        BY <3>1, <3>2 DEF ArmorInUse
      <3>3. CASE k \in out
        <4>1. Shared(doc.items, k)
          BY <2>2, <3>1, <3>3
        <4>2. PICK j \in DOMAIN doc.items \ {k} : doc.items[j].item = e /\ Registered(doc.items[j])
          BY <3>1, <4>1 DEF Shared
        <4>3. j \notin out
          BY <3>1, <3>3, <4>2
        <4> QED BY <3>1, <4>2, <4>3 DEF ArmorInUse
      <3> QED BY <3>2, <3>3
    <2> QED BY <1>1, <1>5, <2>1, <2>2
  <1>6. ASSUME NEW e, ~IsContent(e), ArmorInUse(next, e) PROVE e \in new.nodes
    <2>1. PICK k \in DOMAIN next : next[k].item = e /\ Registered(next[k]) /\ Catalogue[e].kind = "armor"
      BY <1>6 DEF ArmorInUse
    <2>2. CASE k \in into
      <3>1. e \notin gone
        BY <2>1, <2>2
      <3>2. e \in doc.nodes \/ e \in come
        BY <2>1, <2>2
      <3> QED BY <1>1, <3>1, <3>2
    <2>3. CASE k \notin into
      <3>1. k \in DOMAIN doc.items \ out /\ Registered(doc.items[k]) /\ doc.items[k].item = e
        BY <2>1, <2>3
      <3>2. e \in doc.nodes
        BY <1>6, <2>1, <3>1 DEF Rooted, ArmorInUse
      <3>3. e \notin gone
        <4>1. \A j \in out : doc.items[j].item = e => Shared(doc.items, j)
          BY <3>1 DEF Shared
        <4> QED BY <4>1
      <3> QED BY <1>1, <3>2, <3>3
    <2> QED BY <2>2, <2>3
  <1>7. \A e : ~IsContent(e) => (e \in new.nodes <=> ArmorInUse(new.items, e))
    BY <1>1, <1>5, <1>6
  <1>8. Rooted(new)
    BY <1>4, <1>7 DEF Rooted
  <1> QED BY <1>8 DEF new

\* The sweep leaves the tree as the items have it.
LEMMA SweptRooted ==
  ASSUME NEW doc, CatalogueSorted, Fine(doc.items), Proper(doc.items), Rooted(doc)
  PROVE  /\ Rooted(Swept(doc))
         /\ Swept(doc).nodes = {e \in Wanted(doc.items) : Catalogue[e].node}
                                 \cup {doc.items[i].item : i \in {j \in DOMAIN doc.items :
                                         /\ Registered(doc.items[j])
                                         /\ Catalogue[doc.items[j].item].kind = "armor"}}
  <1> DEFINE want == Wanted(doc.items)
             kept == {e \in want : Catalogue[e].node}
             armor == {doc.items[i].item : i \in {j \in DOMAIN doc.items :
                         Registered(doc.items[j]) /\ Catalogue[doc.items[j].item].kind = "armor"}}
             new == Swept(doc)
  <1>1. new.items = doc.items /\ new.nodes = (doc.nodes \ {e \in doc.nodes : IsContent(e) /\ e \notin want}) \cup kept
    BY DEF Swept, Stale, RegistersAsNode
  <1>2. \A e \in want : IsContent(e)
    BY WantedIsContent
  <1>3. \A e : e \in armor <=> ArmorInUse(doc.items, e)
    BY DEF ArmorInUse
  <1>4. \A e \in armor : ~IsContent(e)
    BY DEF IsContent
  <1> HIDE DEF want, armor, new
  <1>5. new.nodes = kept \cup armor
    BY <1>1, <1>2, <1>3, <1>4 DEF Rooted
  <1>6. Rooted(new)
    BY <1>1, <1>2, <1>3, <1>4, <1>5 DEF Rooted
  <1> QED BY <1>5, <1>6 DEF new, armor, want

----------------------------------------------------------------------------
(* Nodes and sum together.                                                   *)

LEMMA FineNamed ==
  ASSUME NEW items, Fine(items)
  PROVE  \A k \in DOMAIN items : Named(items[k])
  BY DEF Fine, Records, Named

LEMMA HeldKept ==
  ASSUME NEW doc, Kept(doc), NEW next,
         \A k \in DOMAIN doc.items : Registered(doc.items[k]) =>
            /\ k \in DOMAIN next /\ Registered(next[k])
            /\ next[k].item = doc.items[k].item /\ next[k].adorner = doc.items[k].adorner,
         \A k \in DOMAIN next : Registered(next[k]) => k \in DOMAIN doc.items /\ Registered(doc.items[k])
  PROVE  Kept(Holding(doc, next))
  <1>1. Rooted(doc) => Rooted(Holding(doc, next))
    BY HeldRooted
  <1>2. \A want : Summed(doc, want) => Summed(Holding(doc, next), want)
    BY HeldSummed
  <1> QED BY <1>1, <1>2 DEF Kept, Booked

LEMMA AlikeKept ==
  ASSUME NEW doc, Kept(doc), NEW next, Alike(doc.items, next)
  PROVE  Kept(Holding(doc, next))
  <1>1. \A k \in DOMAIN doc.items : Registered(next[k]) <=> Registered(doc.items[k])
    BY AlikeKeeps
  <1> QED BY <1>1, HeldKept DEF Alike

\* A rewrite whose registrations go and come as those of the records do.
LEMMA RewrittenKept ==
  ASSUME NEW doc, Kept(doc), CatalogueSorted, NEW next, NEW out, NEW into, IsFiniteSet(into),
         \A k \in DOMAIN doc.items : Named(doc.items[k]),
         \A k \in DOMAIN next : Named(next[k]),
         out \subseteq DOMAIN doc.items, into \subseteq DOMAIN next,
         \A k \in out : Registered(doc.items[k]),
         \A k \in into : Registered(next[k]) /\ ~(k \in DOMAIN doc.items \ out /\ Registered(doc.items[k])),
         \A k \in DOMAIN doc.items \ out : Registered(doc.items[k]) =>
            /\ k \in DOMAIN next /\ Registered(next[k])
            /\ next[k].item = doc.items[k].item /\ next[k].adorner = doc.items[k].adorner,
         \A k \in DOMAIN next \ into : Registered(next[k]) => k \in DOMAIN doc.items \ out /\ Registered(doc.items[k]),
         \A j, k \in out : Catalogue[doc.items[j].item].kind = "armor"
                           /\ doc.items[k].item = doc.items[j].item => j = k,
         TreeExact => \A j \in out, k \in into :
            Catalogue[next[k].item].kind = "armor" => doc.items[j].item # next[k].item
  PROVE  Kept(Rewritten(doc, next, out, into))
  <1>1. ASSUME TreeExact PROVE Rooted(Rewritten(doc, next, out, into))
    <2>1. Rooted(doc)
      BY <1>1 DEF Kept
    <2>2. /\ \A k \in DOMAIN doc.items : doc.items[k].item \in Element
          /\ \A k \in DOMAIN next : next[k].item \in Element
      BY DEF Named
    <2>3. \A k \in DOMAIN next \ into : Registered(next[k]) =>
            k \in DOMAIN doc.items \ out /\ Registered(doc.items[k]) /\ next[k].item = doc.items[k].item
      OBVIOUS
    <2>4. \A j \in out, k \in into : Catalogue[next[k].item].kind = "armor" => doc.items[j].item # next[k].item
      BY <1>1
    <2> QED BY <2>1, <2>2, <2>3, <2>4, RewrittenRooted
  <1>2. ASSUME SumExact PROVE Booked(Rewritten(doc, next, out, into))
    <2>1. PICK want : Summed(doc, want)
      BY <1>2 DEF Kept, Booked
    <2>2. SumSorted
      BY <1>2 DEF SumExact
    <2>3. Summed(Rewritten(doc, next, out, into), want)
      BY <2>1, <2>2, RewrittenSummed
    <2> QED BY <2>3 DEF Booked
  <1> QED BY <1>1, <1>2 DEF Kept

----------------------------------------------------------------------------
(* The parts of requests, again: what they register.                         *)

GInv ==
  /\ IInv
  /\ Proper(inv.items)
  /\ "part" \in Excluded => Armed(inv.items, rows)
  /\ Kept(inv)
  /\ TreeExact => NodesFollowItems
  /\ SumExact => SumFollowsItems

\* What a request leaves for the sweep that ends it.
Follows(doc) ==
  /\ Becomes(doc)
  /\ Proper(doc.items)
  /\ "part" \in Excluded => Armed(doc.items, rows')
  /\ Kept(doc)

LEMMA GInvItems == ASSUME GInv PROVE InvItems /\ Fine(inv.items)
  BY DEF GInv, IInv, InvItems

LEMMA AlikeFollows ==
  ASSUME GInv, NEW next, Alike(inv.items, next), Becomes(Holding(inv, next)), rows' = rows
  PROVE  Follows(Holding(inv, next))
  <1>1. Holding(inv, next).items = next
    BY DEF Holding
  <1>2. Proper(next) /\ \A having : Armed(inv.items, having) => Armed(next, having)
    BY AlikeKeeps DEF GInv
  <1>3. Kept(Holding(inv, next))
    BY AlikeKept DEF GInv
  <1> QED BY <1>1, <1>2, <1>3 DEF Follows, GInv

\* Equipping something at one of its places.
LEMMA PutFollows ==
  ASSUME NEW doc, CatalogueSorted, Fine(doc.items), Proper(doc.items), NEW i \in DOMAIN doc.items,
         NEW at \in Requestable(doc.items[i])
  PROVE  /\ Proper(Put(doc, i, at).items)
         /\ \A having : Armed(doc.items, having) =>
              Armed(Put(doc, i, at).items, having \cup AttackRow(doc.items[i], i))
         /\ Kept(doc) /\ (TreeExact => ~Twin(doc.items, i, at)) => Kept(Put(doc, i, at))
  <1> DEFINE items == doc.items
             occ == Vacated(items, at) \ {i}
             out == {j \in occ : Registered(items[j])}
             into == {j \in {i} : ~Registered(items[j])}
             next == [j \in DOMAIN items |->
                        IF j = i THEN [items[j] EXCEPT !.at = at, !.storage = None]
                        ELSE IF j \in occ THEN [items[j] EXCEPT !.at = None, !.attuned = FALSE] ELSE items[j]]
  <1>1. Put(doc, i, at) = Rewritten(doc, next, out, into)
    BY DEF Put
  <1>2. Rewritten(doc, next, out, into).items = next
    BY DEF Rewritten
  <1>3. \A j \in DOMAIN items : items[j] \in Records
    BY DEF Fine
  <1>4. \A j \in DOMAIN items : items[j].item \in Element /\ items[j].attuned \in BOOLEAN
    BY <1>3 DEF Records
  <1>5. DOMAIN next = DOMAIN items
    OBVIOUS
  <1>6. \A j \in DOMAIN items :
           /\ next[j].item = items[j].item /\ next[j].adorner = items[j].adorner
           /\ next[j].at = IF j = i THEN at ELSE IF j \in occ THEN None ELSE items[j].at
           /\ next[j].storage = IF j = i THEN None ELSE items[j].storage
           /\ next[j].attuned = IF j # i /\ j \in occ THEN FALSE ELSE items[j].attuned
    BY <1>3 DEF Records
  <1> HIDE DEF next
  <1>7. /\ at # None /\ Slotted(items[i].item)
        /\ Catalogue[items[i].item].kind = "armor" => at \in {"secondary", "armor"}
    <2>1. at \in LOCATIONS
      BY <1>4, Places DEF Requestable, LOCATIONS
    <2>2. at # None
      BY <2>1, InventoryAssumption
    <2>3. Catalogue[items[i].item].kind = "weapon" \/ at \in ToSet(Slots(items[i].item))
      BY DEF Requestable
    <2>4. CASE Catalogue[items[i].item].kind = "weapon"
      BY <1>4, <2>2, <2>4, PlacesSorted
    <2>5. CASE Catalogue[items[i].item].kind # "weapon"
      <3>1. at \in ToSet(Slots(items[i].item))
        BY <2>3, <2>5
      <3> QED BY <1>4, <2>2, <3>1, PlacesSorted
    <2> QED BY <2>4, <2>5
  <1>8. Proper(next)
    BY <1>5, <1>6, <1>7 DEF Proper
  <1>9. ASSUME NEW having, Armed(items, having)
        PROVE  Armed(next, having \cup AttackRow(items[i], i))
    <2> DEFINE rowOf == AttackRow(items[i], i)
    <2>1. rowOf \subseteq {i} /\ (Catalogue[items[i].item].kind = "weapon" <=> i \in rowOf)
      BY DEF AttackRow
    <2> HIDE DEF rowOf
    <2>2. \A j \in DOMAIN items : Wielded(next[j]) => j \in having \cup rowOf
      <3> TAKE j \in DOMAIN items
      <3>1. CASE j = i
        BY <1>6, <2>1, <3>1 DEF Wielded
      <3>2. CASE j # i
        <4>1. Wielded(next[j]) => Wielded(items[j])
          BY <1>6, <3>2 DEF Wielded, Equipped
        <4> QED BY <1>9, <4>1 DEF Armed
      <3> QED BY <3>1, <3>2
    <2>3. \A j \in having \cup rowOf : Catalogue[next[j].item].kind = "weapon"
      BY <1>6, <1>9, <2>1 DEF Armed
    <2>4. having \cup rowOf \subseteq DOMAIN next
      BY <1>5, <1>9, <2>1 DEF Armed
    <2>5. Armed(next, having \cup rowOf)
      BY <1>5, <2>2, <2>3, <2>4 DEF Armed
    <2> QED BY <2>5 DEF rowOf
  <1>10. ASSUME Kept(doc), TreeExact => ~Twin(items, i, at) PROVE Kept(Rewritten(doc, next, out, into))
    <2>12. \A k \in DOMAIN items : Named(items[k])
      BY FineNamed
    <2>1. \A k \in DOMAIN next : Named(next[k])
      BY <1>5, <1>6, <2>12 DEF Named
    <2>13. IsFiniteSet(into)
      BY FS_Singleton, FS_Subset
    <2>2. out \subseteq DOMAIN items /\ into \subseteq DOMAIN next /\ into \subseteq {i} /\ i \notin out
      BY <1>5, VacatedAre
    <2>3. Registered(next[i])
      BY <1>6, <1>7 DEF Registered, Equipped
    <2>4. \A k \in DOMAIN items \ {i} : k \notin occ => (Registered(next[k]) <=> Registered(items[k]))
      BY <1>6 DEF Registered, Equipped
    <2>5. \A k \in DOMAIN items \ {i} : k \in occ => ~Registered(next[k])
      BY <1>6 DEF Registered, Equipped
    <2>6. \A k \in into : Registered(next[k]) /\ ~(k \in DOMAIN items \ out /\ Registered(items[k]))
      BY <2>2, <2>3
    <2>7. \A k \in DOMAIN items \ out : Registered(items[k]) =>
             /\ k \in DOMAIN next /\ Registered(next[k])
             /\ next[k].item = items[k].item /\ next[k].adorner = items[k].adorner
      BY <1>5, <1>6, <2>3, <2>4
    <2>8. \A k \in DOMAIN next \ into : Registered(next[k]) => k \in DOMAIN items \ out /\ Registered(items[k])
      BY <1>5, <1>6, <2>2, <2>4, <2>5
    <2>9. ASSUME NEW j \in out, NEW k \in out, Catalogue[items[j].item].kind = "armor",
                 items[k].item = items[j].item
          PROVE  j = k
      <3>1. j \in DOMAIN items /\ k \in DOMAIN items
        BY <2>2
      <3>2. items[j].at \in {None, "secondary", "armor"} /\ items[k].at \in {None, "secondary", "armor"}
        BY <2>9, <3>1 DEF Proper
      <3>3. Hands(items[j].at) \cap Hands(at) # {} /\ Hands(items[k].at) \cap Hands(at) # {}
        BY VacatedAre
      <3>4. Hands("secondary") = {"secondary"} /\ Hands("armor") = {"armor"}
        BY InventoryAssumption DEF Hands, LOCATIONS
      <3>5. ~({"secondary", "armor"} \subseteq Hands(at))
        BY DEF Hands
      <3>6. Hands(items[j].at) \cap Hands(items[k].at) # {}
        BY <3>2, <3>3, <3>4, <3>5, NoHands
      <3> QED BY <3>1, <3>6 DEF Fine, OneEach
    <2>10. TreeExact => \A j \in out, k \in into :
             Catalogue[next[k].item].kind = "armor" => items[j].item # next[k].item
      BY <1>6, <1>10, <2>2 DEF Twin
    <2>11. \A k \in out : Registered(items[k])
      OBVIOUS
    <2> HIDE DEF out, into
    <2> QED BY <1>10, <2>1, <2>2, <2>6, <2>7, <2>8, <2>9, <2>10, <2>11, <2>12, <2>13, RewrittenKept
  <1> QED BY <1>1, <1>2, <1>8, <1>9, <1>10

LEMMA PutOnFollows ==
  ASSUME NEW doc, CatalogueSorted, Fine(doc.items), Proper(doc.items), NEW new \in SUBSET Nat,
         new \subseteq DOMAIN doc.items, NEW at
  PROVE  /\ Proper(PutOn(doc, new, at).items)
         /\ \A having : Armed(doc.items, having) => Armed(PutOn(doc, new, at).items, having)
         /\ Kept(doc) => Kept(PutOn(doc, new, at))
  <1> DEFINE fit == {i \in new : /\ Catalogue[doc.items[i].item].kind = "armor"
                                 /\ Head(Slots(doc.items[i].item)) = at}
             i == Min(fit)
  <1>1. CASE fit = {} \/ Vacated(doc.items, at) # {}
    <2>1. PutOn(doc, new, at) = doc
      BY <1>1 DEF PutOn
    <2> QED BY <2>1
  <1>2. CASE fit # {} /\ Vacated(doc.items, at) = {}
    <2>1. PutOn(doc, new, at) = Put(doc, i, at)
      BY <1>2 DEF PutOn
    <2>2. i \in fit
      BY <1>2, LeastOf
    <2> HIDE DEF i
    <2>3. doc.items[i].item \in Element
      BY <2>2 DEF Fine, Records
    <2>4. at \in Requestable(doc.items[i])
      <3>1. ToSet(Slots(doc.items[i].item)) = {at}
        BY <2>2, <2>3, PlacesSorted
      <3> QED BY <3>1 DEF Requestable
    <2>5. AttackRow(doc.items[i], i) = {}
      BY <2>2 DEF AttackRow
    <2>6. ~Twin(doc.items, i, at)
      BY <1>2 DEF Twin
    <2>7. i \in DOMAIN doc.items
      BY <2>2
    <2>8. \A having : having \cup AttackRow(doc.items[i], i) = having
      BY <2>5
    <2> QED BY <2>1, <2>4, <2>6, <2>7, <2>8, PutFollows
  <1> QED BY <1>1, <1>2

----------------------------------------------------------------------------
(* One request each.                                                         *)

LEMMA AddFollows == ASSUME GInv, CatalogueSorted, AddItem PROVE \E doc : Follows(doc)
  <1> DEFINE Over(e, c) == IF c = None THEN Catalogue[e].auto ELSE c
             Base(e, c) == IF Over(e, c) = None THEN e ELSE Over(e, c)
             At(e, c) == IF Slotted(Base(e, c)) /\ Vacated(inv.items, Head(Slots(Base(e, c)))) = {}
                         THEN Head(Slots(Base(e, c))) ELSE None
             Made(e, n, c) == Record(Base(e, c), IF Over(e, c) = None THEN None ELSE e, n, At(e, c), None)
             Stacks(e, c) == IF At(e, c) = None /\ Over(e, c) = None
                             THEN MergeTargets(inv.items, Base(e, c), None) ELSE {}
             Total(e, n, c) == inv.items[Min(Stacks(e, c))].amount + n
             new == minted + 1
             Joins(e, n, c) ==
               /\ Stacks(e, c) # {} /\ Total(e, n, c) <= MaxAmount
               /\ Becomes(Holding(inv, [inv.items EXCEPT ![Min(Stacks(e, c))].amount = Total(e, n, c)]))
               /\ UNCHANGED <<rows, minted>>
             Appends(e, n, c) ==
               /\ Stacks(e, c) = {} /\ Mint(1)
               /\ Becomes(Rewritten(inv, With(inv.items, new, Made(e, n, c)), {},
                                    IF At(e, c) = None THEN {} ELSE {new}))
               /\ rows' = rows \cup (IF At(e, c) = None THEN {} ELSE AttackRow(Made(e, n, c), new))
  <1>0. PICK e \in Offered, n \in Batches :
          \E c \in Catalogue[e].bases \cup {None} : Joins(e, n, c) \/ Appends(e, n, c)
    BY DEF AddItem
  <1>1. PICK c \in Catalogue[e].bases \cup {None} : Joins(e, n, c) \/ Appends(e, n, c)
    BY <1>0
  <1>2. e \in Element /\ Base(e, c) \in Element
    BY InventoryAssumption
  <1>3. InvItems /\ Fine(inv.items)
    BY GInvItems
  <1>6. Over(e, c) # None => Laid(e) /\ Catalogue[Base(e, c)].kind # "gear"
    <2>1. c # None => Catalogue[e].bases # {}
      OBVIOUS
    <2>2. Over(e, c) # None => Over(e, c) \in (Catalogue[e].bases \cup {Catalogue[e].auto}) \ {None}
      OBVIOUS
    <2>3. Over(e, c) # None => Catalogue[Over(e, c)].kind # "gear"
      <3> HIDE DEF Over
      <3> QED BY <1>2, <2>2 DEF CatalogueSorted
    <2> QED BY <2>1, <2>3 DEF Laid, Overlay
  <1>7. At(e, c) # None => Slotted(Base(e, c)) /\ At(e, c) = Head(Slots(Base(e, c)))
    OBVIOUS
  <1>8. Catalogue[Base(e, c)].kind = "armor" => At(e, c) \in {None, "secondary", "armor"}
    <2> HIDE DEF At, Base
    <2> QED BY <1>2, <1>7, PlacesSorted
  <1>4. CASE Joins(e, n, c)
    <2> DEFINE next == [inv.items EXCEPT ![Min(Stacks(e, c))].amount = Total(e, n, c)]
    <2>1. Alike(inv.items, next)
      <3> HIDE DEF Stacks, Total
      <3> QED BY <1>3, AmountAlike
    <2>2. Becomes(Holding(inv, next)) /\ rows' = rows
      BY <1>4
    <2> HIDE DEF next
    <2> QED BY <2>1, <2>2, AlikeFollows
  <1>5. CASE Appends(e, n, c)
    <2> DEFINE r == Made(e, n, c)
               next == With(inv.items, new, r)
               into == IF At(e, c) = None THEN {} ELSE {new}
               doc == Rewritten(inv, next, {}, into)
    <2>1. new \notin DOMAIN inv.items
      BY <1>3 DEF InvItems
    <2>2. /\ r.item = Base(e, c) /\ r.at = At(e, c) /\ r.attuned = FALSE /\ r.storage = None
          /\ r.adorner = IF Over(e, c) = None THEN None ELSE e
      BY DEF Record
    <2>3. r.adorner # None => Laid(r.adorner) /\ Catalogue[r.item].kind # "gear"
      <3> HIDE DEF Made, At, Over, Base
      <3> QED BY <1>6, <2>2
    <2>4. At(e, c) # None => Slotted(r.item)
      BY <1>7, <2>2
    <2>5. Catalogue[r.item].kind = "armor" => r.at \in {None, "secondary", "armor"}
      <3> HIDE DEF Made, At, Over, Base
      <3> QED BY <1>8, <2>2
    <2>6. Registered(r) <=> At(e, c) # None
      BY <2>2, <2>4 DEF Registered, Equipped
    <2>7. Wielded(r) <=> At(e, c) # None /\ Catalogue[r.item].kind = "weapon"
      BY <2>2 DEF Wielded, Equipped
    <2>8. Becomes(doc) /\ rows' = rows \cup (IF At(e, c) = None THEN {} ELSE AttackRow(r, new))
      BY <1>5
    <2>9. Named(r)
      BY <1>2, <2>2 DEF Named
    <2> HIDE DEF Made, At, Over, Base
    <2>10. DOMAIN next = DOMAIN inv.items \cup {new}
           /\ \A k \in DOMAIN inv.items \cup {new} : next[k] = IF k = new THEN r ELSE inv.items[k]
      BY DEF With
    <2> HIDE DEF next, new
    <2>11. Proper(next)
      BY <2>3, <2>5, <2>10 DEF Proper, GInv
    <2>12. ASSUME Armed(inv.items, rows) PROVE Armed(next, rows')
      <3>1. rows' \subseteq rows \cup {new}
        BY <2>8 DEF AttackRow
      <3>2. new \in rows' <=> Wielded(r)
        BY <2>1, <2>7, <2>8, <2>12 DEF AttackRow, Armed
      <3>3. rows \subseteq rows'
        BY <2>8
      <3>4. Wielded(r) => Catalogue[r.item].kind = "weapon"
        BY DEF Wielded
      <3> QED BY <2>1, <2>10, <2>12, <3>1, <3>2, <3>3, <3>4 DEF Armed
    <2>13. Kept(doc)
      <3>1. \A k \in DOMAIN inv.items : Named(inv.items[k])
        BY <1>3, FineNamed
      <3>2. \A k \in DOMAIN next : Named(next[k])
        BY <2>9, <2>10, <3>1 DEF Named
      <3>3. /\ into \subseteq DOMAIN next /\ IsFiniteSet(into)
            /\ \A k \in into : Registered(next[k]) /\ ~(k \in DOMAIN inv.items \ {} /\ Registered(inv.items[k]))
        <4>1. IsFiniteSet(into)
          BY FS_EmptySet, FS_Singleton
        <4> QED BY <2>1, <2>6, <2>10, <4>1
      <3>4. \A k \in DOMAIN next \ into : Registered(next[k]) =>
              k \in DOMAIN inv.items \ {} /\ Registered(inv.items[k])
        BY <2>6, <2>10
      <3>5. \A k \in DOMAIN inv.items \ {} : Registered(inv.items[k]) =>
              /\ k \in DOMAIN next /\ Registered(next[k])
              /\ next[k].item = inv.items[k].item /\ next[k].adorner = inv.items[k].adorner
        BY <2>1, <2>10
      <3>6. Kept(inv)
        BY DEF GInv
      <3> HIDE DEF into
      <3> QED BY <3>1, <3>2, <3>3, <3>4, <3>5, <3>6, RewrittenKept
    <2>14. doc.items = next
      BY DEF Rewritten
    <2> HIDE DEF doc
    <2>15. Follows(doc)
      BY <2>8, <2>11, <2>12, <2>13, <2>14 DEF Follows, GInv
    <2> QED BY <2>15
  <1> QED BY <1>1, <1>4, <1>5

\* A record goes, and its registration with it.
LEMMA DroppedFollows ==
  ASSUME GInv, CatalogueSorted, NEW i \in DOMAIN inv.items
  PROVE  /\ Dropped(inv, i).items = But(inv.items, i)
         /\ Proper(Dropped(inv, i).items)
         /\ Armed(inv.items, rows) => Armed(Dropped(inv, i).items, rows \ {i})
         /\ Kept(Dropped(inv, i))
  <1> DEFINE next == But(inv.items, i)
             out == {j \in {i} : Registered(inv.items[j])}
  <1>1. Dropped(inv, i) = Rewritten(inv, next, out, {}) /\ Rewritten(inv, next, out, {}).items = next
    BY DEF Dropped, Rewritten
  <1>2. DOMAIN next = DOMAIN inv.items \ {i} /\ \A k \in DOMAIN inv.items \ {i} : next[k] = inv.items[k]
    BY DEF But
  <1> HIDE DEF next
  <1>3. Proper(next)
    BY <1>2 DEF Proper, GInv
  <1>4. Armed(inv.items, rows) => Armed(next, rows \ {i})
    BY <1>2 DEF Armed
  <1>5. Kept(Rewritten(inv, next, out, {}))
    <2>1. \A k \in DOMAIN inv.items : Named(inv.items[k])
      BY GInvItems, FineNamed
    <2>2. \A k \in DOMAIN inv.items \ out : Registered(inv.items[k]) =>
             /\ k \in DOMAIN next /\ Registered(next[k])
             /\ next[k].item = inv.items[k].item /\ next[k].adorner = inv.items[k].adorner
      BY <1>2
    <2>3. \A k \in DOMAIN next \ {} : Registered(next[k]) => k \in DOMAIN inv.items \ out /\ Registered(inv.items[k])
      BY <1>2
    <2>4. \A k \in DOMAIN next : Named(next[k])
      BY <1>2, <2>1
    <2>5. out \subseteq {i} /\ \A k \in out : Registered(inv.items[k])
      OBVIOUS
    <2>6. Kept(inv) /\ IsFiniteSet({})
      BY FS_EmptySet DEF GInv
    <2> HIDE DEF out
    <2> QED BY <2>1, <2>2, <2>3, <2>4, <2>5, <2>6, RewrittenKept
  <1> QED BY <1>1, <1>3, <1>4, <1>5 DEF next

LEMMA RemoveFollows == ASSUME GInv, CatalogueSorted, RemoveItem PROVE \E doc : Follows(doc)
  <1>1. PICK i \in DOMAIN inv.items : \E n \in 1 .. inv.items[i].amount :
          /\ n < inv.items[i].amount /\ "part" \in Excluded => i \notin rows
          /\ Becomes(IF n < inv.items[i].amount
                     THEN Holding(inv, [inv.items EXCEPT ![i].amount = @ - n]) ELSE Dropped(inv, i))
          /\ rows' = rows \ {i}
    BY DEF RemoveItem
  <1>2. PICK n \in 1 .. inv.items[i].amount :
          /\ n < inv.items[i].amount /\ "part" \in Excluded => i \notin rows
          /\ Becomes(IF n < inv.items[i].amount
                     THEN Holding(inv, [inv.items EXCEPT ![i].amount = @ - n]) ELSE Dropped(inv, i))
          /\ rows' = rows \ {i}
    BY <1>1
  <1>3. CASE n < inv.items[i].amount
    <2> DEFINE next == [inv.items EXCEPT ![i].amount = inv.items[i].amount - n]
    <2>1. Alike(inv.items, next)
      BY AmountAlike, GInvItems
    <2>2. Becomes(Holding(inv, next)) /\ Holding(inv, next).items = next
      BY <1>2, <1>3 DEF Holding
    <2> HIDE DEF next
    <2>3. Proper(next) /\ \A having : Armed(inv.items, having) => Armed(next, having)
      BY <2>1, AlikeKeeps DEF GInv
    <2>4. "part" \in Excluded => rows' = rows
      BY <1>2, <1>3
    <2>5. Kept(Holding(inv, next))
      BY <2>1, AlikeKept DEF GInv
    <2>6. Follows(Holding(inv, next))
      BY <2>2, <2>3, <2>4, <2>5 DEF Follows, GInv
    <2> QED BY <2>6
  <1>4. CASE ~(n < inv.items[i].amount)
    <2>1. Becomes(Dropped(inv, i)) /\ rows' = rows \ {i}
      BY <1>2, <1>4
    <2>2. Follows(Dropped(inv, i))
      BY <2>1, DroppedFollows DEF Follows, GInv
    <2> QED BY <2>2
  <1> QED BY <1>3, <1>4

LEMMA SetAmountFollows == ASSUME GInv, SetItemAmount PROVE \E doc : Follows(doc)
  <1>1. PICK i \in DOMAIN inv.items, n \in 1 .. MaxAmount :
          Becomes(Holding(inv, [inv.items EXCEPT ![i].amount = n])) /\ UNCHANGED <<rows, minted>>
    BY DEF SetItemAmount
  <1>2. Alike(inv.items, [inv.items EXCEPT ![i].amount = n])
    BY AmountAlike, GInvItems
  <1> QED BY <1>1, <1>2, AlikeFollows

LEMMA EquipFollows == ASSUME GInv, CatalogueSorted, EquipItem PROVE \E doc : Follows(doc)
  <1>1. PICK i \in DOMAIN inv.items : \E at \in Requestable(inv.items[i]) :
          /\ "twin" \in Excluded => ~Twin(inv.items, i, at)
          /\ rows' = rows \cup AttackRow(inv.items[i], i)
          /\ Becomes(Put(inv, i, at))
    BY DEF EquipItem
  <1>2. PICK at \in Requestable(inv.items[i]) :
          /\ "twin" \in Excluded => ~Twin(inv.items, i, at)
          /\ rows' = rows \cup AttackRow(inv.items[i], i)
          /\ Becomes(Put(inv, i, at))
    BY <1>1
  <1>3. Proper(inv.items) /\ Fine(inv.items)
    BY GInvItems DEF GInv
  <1>4. /\ Proper(Put(inv, i, at).items)
        /\ Armed(inv.items, rows) => Armed(Put(inv, i, at).items, rows')
        /\ Kept(inv) /\ (TreeExact => ~Twin(inv.items, i, at)) => Kept(Put(inv, i, at))
    BY <1>2, <1>3, PutFollows
  <1>5. Follows(Put(inv, i, at))
    BY <1>2, <1>4 DEF Follows, GInv, TreeExact
  <1> QED BY <1>5

\* One record is replaced by another of its item.
LEMMA WithFollows ==
  ASSUME GInv, CatalogueSorted, NEW i \in DOMAIN inv.items, NEW r, NEW out, NEW into,
         r.item = inv.items[i].item, r.adorner = inv.items[i].adorner,
         Catalogue[r.item].kind = "armor" => r.at \in {None, "secondary", "armor"},
         Wielded(r) => Wielded(inv.items[i]),
         rows' = rows,
         Becomes(Rewritten(inv, With(inv.items, i, r), out, into)),
         TreeExact \/ SumExact =>
           /\ out = {j \in {i} : Registered(inv.items[i]) /\ ~Registered(r)}
           /\ into = {j \in {i} : ~Registered(inv.items[i]) /\ Registered(r)}
  PROVE  \E doc : Follows(doc)
  <1> DEFINE next == With(inv.items, i, r)
             doc == Rewritten(inv, next, out, into)
  <1>1. doc.items = next
    BY DEF Rewritten
  <1>2. DOMAIN next = DOMAIN inv.items
        /\ \A k \in DOMAIN inv.items : next[k] = IF k = i THEN r ELSE inv.items[k]
    BY DEF With
  <1> HIDE DEF next
  <1>3. Proper(next)
    BY <1>2 DEF Proper, GInv
  <1>4. Armed(inv.items, rows) => Armed(next, rows)
    BY <1>2 DEF Armed
  <1>5. ASSUME TreeExact \/ SumExact PROVE Kept(doc)
    <2>1. \A k \in DOMAIN inv.items : Named(inv.items[k])
      BY GInvItems, FineNamed
    <2>2. \A k \in DOMAIN next : Named(next[k])
      BY <1>2, <2>1 DEF Named
    <2>3. /\ out \subseteq {i} /\ into \subseteq {i}
          /\ i \in out <=> Registered(inv.items[i]) /\ ~Registered(r)
          /\ i \in into <=> ~Registered(inv.items[i]) /\ Registered(r)
      BY <1>5
    <2>4. \A k \in DOMAIN inv.items \ out : Registered(inv.items[k]) =>
             /\ k \in DOMAIN next /\ Registered(next[k])
             /\ next[k].item = inv.items[k].item /\ next[k].adorner = inv.items[k].adorner
      BY <1>2, <2>3
    <2>5. \A k \in DOMAIN next \ into : Registered(next[k]) => k \in DOMAIN inv.items \ out /\ Registered(inv.items[k])
      BY <1>2, <2>3
    <2>6. \A k \in into : Registered(next[k]) /\ ~(k \in DOMAIN inv.items \ out /\ Registered(inv.items[k]))
      BY <1>2, <2>3
    <2>7. \A k \in out : Registered(inv.items[k])
      BY <2>3
    <2>8. out \subseteq DOMAIN inv.items /\ into \subseteq DOMAIN next
      BY <1>2, <2>3
    <2>9. \A j \in out, k \in into : FALSE
      BY <2>3
    <2>10. Kept(inv)
      BY DEF GInv
    <2>11. IsFiniteSet(into)
      BY <2>3, FS_Singleton, FS_Subset
    <2>12. Kept(doc)
      BY <2>1, <2>2, <2>3, <2>4, <2>5, <2>6, <2>7, <2>8, <2>9, <2>10, <2>11, RewrittenKept
    <2> QED BY <2>12
  <1>8. Kept(doc)
    <2>1. CASE ~(TreeExact \/ SumExact)
      BY <2>1 DEF Kept
    <2> QED BY <1>5, <2>1
  <1> HIDE DEF doc
  <1>6. Becomes(doc)
    BY DEF doc, next
  <1>7. Follows(doc)
    BY <1>1, <1>3, <1>4, <1>6, <1>8 DEF Follows, GInv
  <1> QED BY <1>7

LEMMA WearFollows == ASSUME GInv, CatalogueSorted, WearItem PROVE \E doc : Follows(doc)
  <1>1. PICK i \in DOMAIN inv.items :
          /\ Wearable(inv.items[i].item)
          /\ UNCHANGED <<rows, minted>>
          /\ Becomes(Holding(inv, [inv.items EXCEPT ![i].at = "worn", ![i].storage = None]))
    BY DEF WearItem
  <1> DEFINE r == [inv.items[i] EXCEPT !.at = "worn", !.storage = None]
             next == With(inv.items, i, r)
  <1>2. inv.items[i] \in Records /\ inv.items[i].item \in Element
    BY GInvItems DEF Fine, Records
  <1>3. r.item = inv.items[i].item /\ r.adorner = inv.items[i].adorner
    BY <1>2 DEF Records
  <1>4. next = [inv.items EXCEPT ![i].at = "worn", ![i].storage = None]
    BY GInvItems DEF With, Fine
  <1> HIDE DEF r
  <1>5. DOMAIN next = DOMAIN inv.items
        /\ \A k \in DOMAIN inv.items : next[k] = IF k = i THEN r ELSE inv.items[k]
    BY DEF With
  <1>6. Becomes(Holding(inv, next)) /\ Holding(inv, next).items = next
    BY <1>1, <1>4 DEF Holding
  <1> HIDE DEF next
  <1>7. ~Slotted(r.item) /\ Catalogue[r.item].kind \notin {"armor", "weapon"}
    BY <1>1, <1>2, <1>3, PlacesSorted DEF Wearable
  <1>8. Proper(next)
    BY <1>3, <1>5, <1>7 DEF Proper, GInv
  <1>9. Armed(inv.items, rows) => Armed(next, rows')
    BY <1>1, <1>3, <1>5, <1>7 DEF Armed, Wielded
  <1>10. Kept(Holding(inv, next))
    <2>1. \A k \in DOMAIN inv.items : Registered(inv.items[k]) =>
            /\ k \in DOMAIN next /\ Registered(next[k])
            /\ next[k].item = inv.items[k].item /\ next[k].adorner = inv.items[k].adorner
      BY <1>3, <1>5, <1>7 DEF Registered
    <2>2. \A k \in DOMAIN next : Registered(next[k]) => k \in DOMAIN inv.items /\ Registered(inv.items[k])
      BY <1>3, <1>5, <1>7 DEF Registered
    <2>3. Kept(inv)
      BY DEF GInv
    <2> QED BY <2>1, <2>2, <2>3, HeldKept
  <1>11. Follows(Holding(inv, next))
    BY <1>6, <1>8, <1>9, <1>10 DEF Follows, GInv
  <1> QED BY <1>11

LEMMA UnequipFollows == ASSUME GInv, CatalogueSorted, UnequipItem PROVE \E doc : Follows(doc)
  <1> DEFINE R(i) == [inv.items[i] EXCEPT !.at = None, !.attuned = FALSE]
             Doc(i) == Rewritten(inv, With(inv.items, i, R(i)), {j \in {i} : Registered(inv.items[i])}, {})
  <1>1. PICK i \in DOMAIN inv.items : UNCHANGED <<rows, minted>> /\ Becomes(Doc(i))
    BY DEF UnequipItem
  <1>2. inv.items[i] \in Records
    BY GInvItems DEF Fine
  <1>3. /\ R(i).item = inv.items[i].item /\ R(i).adorner = inv.items[i].adorner
        /\ R(i).at = None /\ R(i).attuned = FALSE
    BY <1>2 DEF Records
  <1> HIDE DEF R
  <1>4. ~Registered(R(i)) /\ ~Wielded(R(i))
    BY <1>3 DEF Registered, Wielded, Equipped
  <1>5. /\ {j \in {i} : Registered(inv.items[i])} = {j \in {i} : Registered(inv.items[i]) /\ ~Registered(R(i))}
        /\ {} = {j \in {i} : ~Registered(inv.items[i]) /\ Registered(R(i))}
    BY <1>4
  <1> QED BY <1>1, <1>3, <1>4, <1>5, WithFollows

LEMMA AttuneFollows == ASSUME GInv, CatalogueSorted, AttuneItem PROVE \E doc : Follows(doc)
  <1> DEFINE R(i) == [inv.items[i] EXCEPT !.attuned = ~inv.items[i].attuned]
             Base(i) == {j \in {i} : /\ inv.items[i].storage = None /\ ~Equipped(inv.items[i])
                                     /\ Slotted(inv.items[i].item)}
             Next1(i) == With(inv.items, i, R(i))
  <1>1. PICK i \in DOMAIN inv.items :
          /\ UNCHANGED <<rows, minted>>
          /\ Becomes(IF inv.items[i].attuned THEN Rewritten(inv, Next1(i), Base(i), {})
                     ELSE Rewritten(inv, Next1(i), {}, Base(i)))
    BY DEF AttuneItem
  <1> DEFINE r == inv.items[i]
             out == IF r.attuned THEN Base(i) ELSE {}
             into == IF r.attuned THEN {} ELSE Base(i)
  <1>2. inv.items[i] \in Records
    BY GInvItems DEF Fine
  <1>3. /\ R(i).item = r.item /\ R(i).adorner = r.adorner /\ R(i).at = r.at /\ R(i).storage = r.storage
        /\ R(i).attuned = ~r.attuned
    BY <1>2 DEF Records
  <1>4. Becomes(Rewritten(inv, With(inv.items, i, R(i)), out, into)) /\ rows' = rows
    BY <1>1
  <1> HIDE DEF R
  <1>5. Wielded(R(i)) <=> Wielded(r)
    BY <1>3 DEF Wielded, Equipped
  <1>6. Catalogue[R(i).item].kind = "armor" => R(i).at \in {None, "secondary", "armor"}
    BY <1>3 DEF GInv, Proper
  <1>7. /\ out = {j \in {i} : Registered(r) /\ ~Registered(R(i))}
        /\ into = {j \in {i} : ~Registered(r) /\ Registered(R(i))}
    BY <1>2, <1>3 DEF Registered, Equipped, Records
  <1> HIDE DEF out, into
  <1> QED BY <1>3, <1>4, <1>5, <1>6, <1>7, WithFollows

LEMMA StorageFollows == ASSUME GInv, CatalogueSorted, SetItemStorage PROVE \E doc : Follows(doc)
  <1> DEFINE amount(i) == inv.items[i].amount
             Stacks(i, s, n) == IF n = amount(i) /\ inv.items[i].attuned THEN {}
                                ELSE MergeTargets(inv.items, inv.items[i].item, s) \ {i}
             To(i, s, n) == Min(Stacks(i, s, n))
             Merged(i, s, n, items) == [items EXCEPT ![To(i, s, n)].amount = @ + n]
             Part(i, s, n) == Record(inv.items[i].item, inv.items[i].adorner, n, None, s)
             Split(i, s, n) == With(inv.items, minted + 1, Part(i, s, n))
             Step(i, s, n) ==
               /\ s # inv.items[i].storage
               /\ "bonded" \in Excluded =>
                    ~(inv.items[i].attuned /\ Slotted(inv.items[i].item) /\ n = amount(i) /\ s = None)
               /\ Stacks(i, s, n) # {} => amount(To(i, s, n)) + n <= MaxAmount
               /\ UNCHANGED rows
               /\ IF n = amount(i) \/ Stacks(i, s, n) # {} THEN UNCHANGED minted ELSE Mint(1)
               /\ Becomes(IF n = amount(i) /\ Stacks(i, s, n) = {} THEN Stowed(inv, i, s)
                          ELSE IF n = amount(i)
                          THEN LET d == Dropped(inv, i) IN Holding(d, Merged(i, s, n, d.items))
                          ELSE IF Stacks(i, s, n) # {}
                          THEN Holding(inv, [Merged(i, s, n, inv.items) EXCEPT ![i].amount = @ - n])
                          ELSE Holding(inv, [Split(i, s, n) EXCEPT ![i].amount = @ - n]))
  <1>1. PICK i \in DOMAIN inv.items, s \in Containers \cup {None} :
          \E n \in 1 .. amount(i) : Step(i, s, n)
    BY DEF SetItemStorage
  <1>2. PICK n \in 1 .. amount(i) : Step(i, s, n)
    BY <1>1
  <1> DEFINE to == To(i, s, n)
             r == inv.items[i]
  <1>3. InvItems /\ Fine(inv.items) /\ r \in Records
    BY GInvItems DEF Fine
  <1>4. CASE n = amount(i) /\ Stacks(i, s, n) = {}
    <2> DEFINE moved == [r EXCEPT !.at = IF s = None THEN r.at ELSE None, !.storage = s]
               out == {j \in {i} : s # None /\ Registered(r)}
    <2>1. /\ moved.item = r.item /\ moved.adorner = r.adorner /\ moved.storage = s
          /\ moved.at = IF s = None THEN r.at ELSE None
          /\ moved.attuned = r.attuned
      BY <1>3 DEF Records
    <2>2. Becomes(Rewritten(inv, With(inv.items, i, moved), out, {})) /\ rows' = rows
      BY <1>2, <1>4 DEF Stowed
    <2> HIDE DEF moved
    <2>3. Wielded(moved) => Wielded(r)
      BY <2>1 DEF Wielded, Equipped
    <2>4. Catalogue[moved.item].kind = "armor" => moved.at \in {None, "secondary", "armor"}
      BY <2>1 DEF GInv, Proper
    <2>5. ASSUME TreeExact \/ SumExact
          PROVE  /\ out = {j \in {i} : Registered(r) /\ ~Registered(moved)}
                 /\ {} = {j \in {i} : ~Registered(r) /\ Registered(moved)}
      <3>1. s # None => ~Registered(moved)
        BY <2>1 DEF Registered
      <3>2. s = None => ~Registered(r) /\ ~Equipped(r)
        BY <1>2, <1>3 DEF Registered, Fine
      <3>3. s = None => ~Registered(moved)
        <4>1. s = None => ~(r.attuned /\ Slotted(r.item))
          BY <1>2, <1>4, <2>5 DEF TreeExact, SumExact
        <4> QED BY <2>1, <3>2, <4>1 DEF Registered, Equipped
      <3> HIDE DEF r
      <3> QED BY <3>1, <3>2, <3>3
    <2> HIDE DEF out
    <2> QED BY <2>1, <2>2, <2>3, <2>4, <2>5, WithFollows
  <1>5. CASE n = amount(i) /\ Stacks(i, s, n) # {}
    <2> DEFINE d == Dropped(inv, i)
               rest == But(inv.items, i)
               next == [rest EXCEPT ![to].amount = rest[to].amount + n]
    <2>1. d.items = rest
      BY DEF Dropped, Rewritten
    <2>2. Becomes(Holding(d, next)) /\ Holding(d, next).items = next /\ rows' = rows
      BY <1>2, <1>5, <2>1 DEF Holding
    <2>3. Fine(rest)
      BY <1>3, TakeAway
    <2>4. Catalogue[r.item].kind # "weapon"
      <3>1. \E k \in DOMAIN inv.items : inv.items[k].item = r.item /\ Catalogue[r.item].stackable
        BY <1>5 DEF MergeTargets
      <3> QED BY <1>3, <3>1 DEF CatalogueSorted, Records
    <2> HIDE DEF rest, To, d
    <2>5. Alike(rest, next)
      BY <2>3, AmountAlike
    <2> HIDE DEF next
    <2>6. Proper(next)
      BY <2>1, <2>5, AlikeKeeps, DroppedFollows DEF d
    <2>7. ASSUME Armed(inv.items, rows) PROVE Armed(next, rows')
      <3>1. rows \ {i} = rows
        BY <2>4, <2>7 DEF Armed
      <3>2. Armed(rest, rows)
        BY <2>1, <2>7, <3>1, DroppedFollows DEF d
      <3> QED BY <2>2, <2>5, <3>2, AlikeKeeps
    <2>8. Kept(Holding(d, next))
      <3>1. Kept(d)
        BY DroppedFollows DEF d
      <3> QED BY <2>1, <2>5, <3>1, AlikeKept
    <2>9. Follows(Holding(d, next))
      BY <2>2, <2>6, <2>7, <2>8 DEF Follows, GInv
    <2> QED BY <2>9
  <1>6. CASE n # amount(i) /\ Stacks(i, s, n) # {}
    <2> DEFINE joined == Merged(i, s, n, inv.items)
               next == [joined EXCEPT ![i].amount = joined[i].amount - n]
    <2>1. Becomes(Holding(inv, next)) /\ rows' = rows
      BY <1>2, <1>6
    <2> HIDE DEF Stacks, To
    <2>2. /\ DOMAIN joined = DOMAIN inv.items
          /\ \A k \in DOMAIN inv.items :
               joined[k] = IF k = to THEN [inv.items[k] EXCEPT !.amount = inv.items[to].amount + n] ELSE inv.items[k]
      BY <1>3 DEF Fine
    <2>3. next = [k \in DOMAIN joined |->
                    IF k = i THEN [joined[k] EXCEPT !.amount = joined[i].amount - n] ELSE joined[k]]
      OBVIOUS
    <2> HIDE DEF joined, next
    <2>4. \A k \in DOMAIN inv.items : inv.items[k] \in Records
      BY <1>3 DEF Fine
    <2>5. Alike(inv.items, joined)
      BY <2>2, <2>4 DEF Alike, Records
    <2>6. \A k \in DOMAIN joined : /\ next[k].item = joined[k].item /\ next[k].adorner = joined[k].adorner
                                   /\ next[k].at = joined[k].at /\ next[k].attuned = joined[k].attuned
                                   /\ next[k].storage = joined[k].storage
      BY <2>2, <2>3, <2>4 DEF Records
    <2>7. Alike(joined, next)
      BY <2>3, <2>6 DEF Alike
    <2>8. Alike(inv.items, next)
      BY <2>5, <2>7, AlikeTwice
    <2> QED BY <2>1, <2>8, AlikeFollows
  <1>7. CASE n # amount(i) /\ Stacks(i, s, n) = {}
    <2> DEFINE new == minted + 1
               part == Part(i, s, n)
               split == Split(i, s, n)
               next == [split EXCEPT ![i].amount = split[i].amount - n]
    <2>1. Becomes(Holding(inv, next)) /\ Holding(inv, next).items = next /\ rows' = rows
      BY <1>2, <1>7 DEF Holding
    <2>2. new \notin DOMAIN inv.items
      BY <1>3 DEF InvItems
    <2>3. /\ part.item = r.item /\ part.adorner = r.adorner /\ part.at = None /\ part.attuned = FALSE
      BY DEF Record
    <2>4. split = [k \in DOMAIN inv.items \cup {new} |-> IF k = new THEN part ELSE inv.items[k]]
      BY DEF With
    <2> HIDE DEF part, split, new
    <2>5. \A k \in DOMAIN inv.items : inv.items[k] \in Records
      BY <1>3 DEF Fine
    <2>6. /\ DOMAIN next = DOMAIN inv.items \cup {new}
          /\ next[new] = part
          /\ \A k \in DOMAIN inv.items :
               /\ next[k].item = inv.items[k].item /\ next[k].adorner = inv.items[k].adorner
               /\ next[k].at = inv.items[k].at /\ next[k].attuned = inv.items[k].attuned
               /\ next[k].storage = inv.items[k].storage
      <3>1. DOMAIN next = DOMAIN inv.items \cup {new}
        BY <2>4
      <3>2. \A k \in DOMAIN inv.items \cup {new} :
              next[k] = IF k = i THEN [split[k] EXCEPT !.amount = split[i].amount - n] ELSE split[k]
        BY <2>4
      <3>3. next[new] = part
        BY <2>2, <2>4, <3>2
      <3>4. \A k \in DOMAIN inv.items : split[k] = inv.items[k]
        BY <2>2, <2>4
      <3> HIDE DEF next
      <3>5. \A k \in DOMAIN inv.items : /\ next[k].item = inv.items[k].item /\ next[k].adorner = inv.items[k].adorner
               /\ next[k].at = inv.items[k].at /\ next[k].attuned = inv.items[k].attuned
               /\ next[k].storage = inv.items[k].storage
        <4> DEFINE less == split[i].amount - n
        <4>1. \A k \in DOMAIN inv.items :
                next[k] = IF k = i THEN [inv.items[k] EXCEPT !.amount = less] ELSE inv.items[k]
          BY <3>2, <3>4
        <4> HIDE DEF less
        <4> QED BY <2>5, <4>1 DEF Records
      <3> QED BY <3>1, <3>3, <3>5
    <2> HIDE DEF next
    <2>7. ~Wielded(part) /\ ~Registered(part)
      BY <2>3 DEF Wielded, Registered, Equipped
    <2>8. Proper(next)
      <3>1. \A k \in DOMAIN inv.items :
              /\ next[k].adorner # None => Laid(next[k].adorner) /\ Catalogue[next[k].item].kind # "gear"
              /\ Catalogue[next[k].item].kind = "armor" => next[k].at \in {None, "secondary", "armor"}
        BY <2>6 DEF Proper, GInv
      <3>2. /\ next[new].adorner # None => Laid(next[new].adorner) /\ Catalogue[next[new].item].kind # "gear"
            /\ Catalogue[next[new].item].kind = "armor" => next[new].at \in {None, "secondary", "armor"}
        BY <2>3, <2>6 DEF Proper, GInv
      <3> QED BY <2>6, <3>1, <3>2 DEF Proper
    <2>9. ASSUME Armed(inv.items, rows) PROVE Armed(next, rows)
      <3>1. \A k \in DOMAIN inv.items : Wielded(next[k]) <=> Wielded(inv.items[k])
        BY <2>6 DEF Wielded, Equipped
      <3> QED BY <2>6, <2>7, <2>9, <3>1 DEF Armed
    <2>10. Kept(Holding(inv, next))
      <3>1. \A k \in DOMAIN inv.items : Registered(next[k]) <=> Registered(inv.items[k])
        BY <2>6 DEF Registered, Equipped
      <3>2. \A k \in DOMAIN inv.items : Registered(inv.items[k]) =>
              /\ k \in DOMAIN next /\ Registered(next[k])
              /\ next[k].item = inv.items[k].item /\ next[k].adorner = inv.items[k].adorner
        BY <2>6, <3>1
      <3>3. \A k \in DOMAIN next : Registered(next[k]) => k \in DOMAIN inv.items /\ Registered(inv.items[k])
        BY <2>6, <2>7, <3>1
      <3>4. Kept(inv)
        BY DEF GInv
      <3> QED BY <3>2, <3>3, <3>4, HeldKept
    <2>11. Follows(Holding(inv, next))
      BY <2>1, <2>8, <2>9, <2>10 DEF Follows, GInv
    <2> QED BY <2>11
  <1> QED BY <1>4, <1>5, <1>6, <1>7

LEMMA ExtractFollows == ASSUME GInv, CatalogueSorted, ExtractItem PROVE \E doc : Follows(doc)
  <1> DEFINE kit(i) == Catalogue[Effective(inv.items[i])]
             Got(i, p) == kit(i).pack \o p
             New(i, p) == minted + 1 .. minted + Len(Got(i, p))
             Rest(i) == IF inv.items[i].amount > 1
                        THEN [inv.items EXCEPT ![i].amount = inv.items[i].amount - 1] ELSE But(inv.items, i)
             Items(i, p) == [k \in DOMAIN Rest(i) \cup New(i, p) |->
                              IF k \in New(i, p)
                              THEN Record(Got(i, p)[k - minted].item, None, Got(i, p)[k - minted].amount, None, None)
                              ELSE Rest(i)[k]]
             Doc(i, p) == PutOn(PutOn(Holding(inv, Items(i, p)), New(i, p), "armor"), New(i, p), "secondary")
  <1>1. PICK i \in DOMAIN inv.items : \E p \in {<< >>} \cup {<<c>> : c \in kit(i).choice} :
          /\ kit(i).pack # << >> \/ kit(i).choice # {}
          /\ Mint(Len(Got(i, p))) /\ Becomes(Doc(i, p)) /\ UNCHANGED rows
    BY DEF ExtractItem
  <1>2. PICK p \in {<< >>} \cup {<<c>> : c \in kit(i).choice} :
          /\ kit(i).pack # << >> \/ kit(i).choice # {}
          /\ Mint(Len(Got(i, p))) /\ Becomes(Doc(i, p)) /\ UNCHANGED rows
    BY <1>1
  <1> DEFINE Thing == [item : Element, amount : 1 .. MaxAmount]
             got == Got(i, p)
             new == New(i, p)
             rest == Rest(i)
             items == Items(i, p)
             r == inv.items[i]
  <1>3. /\ InvItems /\ Fine(inv.items)
        /\ r \in Records /\ r.item \in Element /\ Effective(r) \in Element
    BY GInvItems DEF Fine, Records, Effective
  <1>4. got \in Seq(Thing)
    <2>1. kit(i).pack \in Seq(Thing) /\ kit(i).choice \subseteq Thing
      BY <1>3, InventoryAssumption
    <2> HIDE DEF kit, Thing
    <2>2. p \in Seq(Thing)
      <3>1. CASE p = << >>
        BY <3>1
      <3>2. CASE p \in {<<c>> : c \in kit(i).choice}
        <4>1. PICK c \in kit(i).choice : p = <<c>>
          BY <3>2
        <4>2. c \in Thing
          BY <2>1
        <4> QED BY <4>1, <4>2
      <3> QED BY <3>1, <3>2
    <2> QED BY <2>1, <2>2
  \* What is unpacked is gear, neither registered nor wielded.
  <1>5. ~Slotted(r.item) /\ Catalogue[r.item].kind # "weapon"
    <2>1. kit(i).pack # << >> \/ kit(i).choice # {}
      BY <1>2
    <2>2. Catalogue[Effective(r)].kind = "gear" /\ ~Laid(Effective(r))
      BY <1>3, <2>1 DEF CatalogueSorted
    <2>3. r.adorner = None
      BY <1>3, <2>2 DEF Effective, Proper, GInv
    <2>4. Catalogue[r.item].kind = "gear"
      BY <2>2, <2>3 DEF Effective
    <2> QED BY <1>3, <2>4, PlacesSorted
  <1> HIDE DEF Got, Thing
  <1>6. Len(got) \in Nat /\ minted \in Nat /\ minted' = minted + Len(got)
    BY <1>2, <1>3, <1>4 DEF Mint, InvItems
  \* The rest keeps its registrations.
  <1>7. /\ DOMAIN rest \subseteq DOMAIN inv.items /\ DOMAIN inv.items \subseteq DOMAIN rest \cup {i}
        /\ \A k \in DOMAIN rest : /\ rest[k].item = inv.items[k].item /\ rest[k].adorner = inv.items[k].adorner
                                  /\ rest[k].at = inv.items[k].at /\ rest[k].attuned = inv.items[k].attuned
                                  /\ rest[k].storage = inv.items[k].storage
    <2>1. CASE inv.items[i].amount > 1
      <3>1. Alike(inv.items, [inv.items EXCEPT ![i].amount = inv.items[i].amount - 1])
        BY <1>3, AmountAlike
      <3> QED BY <2>1, <3>1 DEF Alike
    <2>2. CASE ~(inv.items[i].amount > 1)
      <3>1. rest = But(inv.items, i)
        BY <2>2
      <3> QED BY <3>1 DEF But
    <2> QED BY <2>1, <2>2
  <1>8. Fine(rest)
    <2>1. CASE inv.items[i].amount > 1
      <3>1. inv.items[i].amount - 1 \in 1 .. MaxAmount
        BY <1>3, <2>1, InventoryAssumption DEF Records
      <3> QED BY <1>3, <2>1, <3>1, AmountOnly
    <2>2. CASE ~(inv.items[i].amount > 1)
      BY <1>3, <2>2, TakeAway
    <2> QED BY <2>1, <2>2
  <1> HIDE DEF Rest, kit
  <1>9. \A k \in new : /\ items[k] \in Records /\ items[k].at = None /\ items[k].adorner = None
                       /\ items[k].attuned = FALSE /\ items[k].storage = None
    <2> SUFFICES ASSUME NEW k \in new
                 PROVE  Record(got[k - minted].item, None, got[k - minted].amount, None, None) \in Records
      BY DEF Record
    <2>1. got[k - minted] \in Thing
      BY <1>4, <1>6
    <2> QED BY <2>1 DEF Thing, Record, Records
  <1>10. /\ DOMAIN items = DOMAIN rest \cup new
         /\ \A k \in DOMAIN rest : k \notin new /\ items[k] = rest[k]
    BY <1>3, <1>6, <1>7 DEF InvItems
  <1>11. items = [k \in DOMAIN rest \cup new |-> items[k]]
    OBVIOUS
  <1>12. new \in SUBSET Nat
    BY <1>6
  <1> HIDE DEF New, Items
  <1>13. Fine(items)
    <2>1. items \in [DOMAIN items -> Records]
      BY <1>8, <1>9, <1>10, <1>11 DEF Fine
    <2>2. OneEach(items)
      BY <1>8, <1>9, <1>10, NoHands DEF Fine, OneEach
    <2> QED BY <1>8, <1>9, <1>10, <2>1, <2>2 DEF Fine, Equipped
  <1>14. Proper(items)
    <2>1. Proper(rest)
      BY <1>7 DEF Proper, GInv
    <2> QED BY <2>1, <1>9, <1>10 DEF Proper
  <1>15. Armed(inv.items, rows) => Armed(items, rows)
    <2>1. \A k \in DOMAIN rest : Wielded(rest[k]) <=> Wielded(inv.items[k])
      BY <1>7 DEF Wielded, Equipped
    <2>2. \A k \in new : ~Wielded(items[k])
      BY <1>9 DEF Wielded, Equipped
    <2>3. SUFFICES ASSUME Armed(inv.items, rows) PROVE Armed(items, rows)
      OBVIOUS
    <2>4. i \notin rows
      BY <1>5, <2>3 DEF Armed
    <2>5. \A k \in rows : k \in DOMAIN rest /\ Catalogue[rest[k].item].kind = "weapon"
      BY <1>7, <2>3, <2>4 DEF Armed
    <2> QED BY <1>7, <1>10, <2>1, <2>2, <2>3, <2>5 DEF Armed
  <1>16. Kept(Holding(inv, items))
    <2>1. \A k \in DOMAIN rest : Registered(rest[k]) <=> Registered(inv.items[k])
      BY <1>7 DEF Registered, Equipped
    <2>2. \A k \in new : ~Registered(items[k])
      BY <1>9 DEF Registered, Equipped
    <2>3. ~Registered(r)
      BY <1>5 DEF Registered
    <2>4. \A k \in DOMAIN inv.items : Registered(inv.items[k]) =>
            /\ k \in DOMAIN items /\ Registered(items[k])
            /\ items[k].item = inv.items[k].item /\ items[k].adorner = inv.items[k].adorner
      BY <1>7, <1>10, <2>1, <2>3
    <2>5. \A k \in DOMAIN items : Registered(items[k]) => k \in DOMAIN inv.items /\ Registered(inv.items[k])
      BY <1>7, <1>10, <2>1, <2>2
    <2>6. Kept(inv)
      BY DEF GInv
    <2> QED BY <2>4, <2>5, <2>6, HeldKept
  <1> DEFINE held == Holding(inv, items)
             armed == PutOn(held, new, "armor")
             doc == PutOn(armed, new, "secondary")
  <1>17. held.items = items
    BY DEF Holding
  <1>18. Becomes(doc) /\ rows' = rows
    BY <1>2
  <1>19. new \subseteq DOMAIN items
    BY <1>10
  <1> HIDE DEF held
  <1>20. /\ Fine(armed.items) /\ DOMAIN armed.items = DOMAIN items /\ Proper(armed.items)
         /\ \A having : Armed(items, having) => Armed(armed.items, having)
         /\ Kept(held) => Kept(armed)
    <2>1. Fine(armed.items) /\ DOMAIN armed.items = DOMAIN items
      BY <1>13, <1>17, PutOnKeeps DEF LOCATIONS
    <2>2. /\ Proper(armed.items) /\ \A having : Armed(items, having) => Armed(armed.items, having)
          /\ Kept(held) => Kept(armed)
      BY <1>12, <1>13, <1>14, <1>17, <1>19, PutOnFollows
    <2> QED BY <2>1, <2>2
  <1> HIDE DEF armed
  <1>21. /\ Proper(doc.items) /\ \A having : Armed(armed.items, having) => Armed(doc.items, having)
         /\ Kept(armed) => Kept(doc)
    BY <1>12, <1>19, <1>20, PutOnFollows
  <1> HIDE DEF doc
  <1>22. Armed(inv.items, rows) => Armed(doc.items, rows')
    BY <1>15, <1>18, <1>20, <1>21
  <1>23. Kept(doc)
    BY <1>16, <1>20, <1>21 DEF held
  <1>24. Follows(doc)
    BY <1>18, <1>21, <1>22, <1>23 DEF Follows, GInv
  <1> QED BY <1>24

----------------------------------------------------------------------------
(* What is registered, as theorems.                                          *)

\* The records are finitely many, and so the sum follows them once it is swept.
LEMMA SummedExact ==
  ASSUME CatalogueSorted, SumSorted, NEW doc, Fine(doc.items), Proper(doc.items),
         NEW most \in Nat, DOMAIN doc.items \subseteq 1 .. most, Summed(doc, Wanted(doc.items))
  PROVE  Booked(doc) /\ ToBag(doc.sum) = ToBag(Elsewhere \o Due(doc.items))
  <1>1. Sorted(doc.items)
    BY DEF Sorted, Summed
  <1> QED BY <1>1, SummedFollows DEF Booked

LEMMA SweptExact ==
  ASSUME CatalogueSorted, SumSorted, NEW doc, Fine(doc.items), Proper(doc.items),
         NEW most \in Nat, DOMAIN doc.items \subseteq 1 .. most, NEW want, Summed(doc, want),
         NEW new, new = Swept(doc)
  PROVE  Booked(new) /\ ToBag(new.sum) = ToBag(Elsewhere \o Due(new.items))
  <1>1. new.items = doc.items
    BY DEF Swept
  <1>2. IsFiniteSet(DOMAIN doc.items) /\ \A i \in DOMAIN doc.items : i \in Nat
    <2>1. IsFiniteSet(1 .. most)
      BY FS_Interval
    <2>2. \A i \in 1 .. most : i \in Nat
      OBVIOUS
    <2> QED BY <2>1, <2>2, FS_Subset
  <1>3. Summed(new, Wanted(new.items))
    BY <1>1, <1>2, SweptSummed
  <1> QED BY <1>1, <1>3, SummedExact

LEMMA StartsFollow == ASSUME CatalogueSorted, StartsProper, Init PROVE GInv
  <1>1. PICK s \in Starts : /\ inv = Swept(s.doc)
                            /\ rows = {i \in DOMAIN s.doc.items : Wielded(s.doc.items[i])}
    BY DEF Init
  <1>2. inv.items = s.doc.items
    BY <1>1 DEF Swept
  <1>3. IInv
    BY StartsFine
  <1>4. Fine(s.doc.items) /\ Proper(s.doc.items)
    BY <1>2, <1>3 DEF StartsProper, IInv, InvItems
  <1>5. Armed(inv.items, rows)
    BY <1>1, <1>2 DEF Armed, Wielded
  <1>6. ASSUME TreeExact PROVE Rooted(inv) /\ NodesFollowItems
    <2>1. Rooted(s.doc)
      BY <1>6 DEF TreeExact
    <2> QED BY <1>1, <1>2, <1>4, <2>1, SweptRooted DEF NodesFollowItems, Held
  <1>7. ASSUME SumExact PROVE Booked(inv) /\ SumFollowsItems
    <2>1. DOMAIN inv.items \subseteq 1 .. minted /\ minted \in Nat
      BY <1>3 DEF IInv, InvItems
    <2>2. SumSorted
      BY <1>7 DEF SumExact
    <2>3. CASE Booked(s.doc)
      <3>1. PICK want : Summed(s.doc, want)
        BY <2>3 DEF Booked
      <3> QED BY <1>1, <1>2, <1>4, <2>1, <2>2, <3>1, SweptExact DEF SumFollowsItems
    <2>4. CASE Summed(Swept(s.doc), Wanted(s.doc.items))
      <3>1. Summed(inv, Wanted(inv.items))
        BY <1>1, <1>2, <2>4
      <3> QED BY <1>2, <1>4, <2>1, <2>2, <3>1, SummedExact DEF SumFollowsItems
    <2> QED BY <1>7, <2>3, <2>4 DEF SumExact
  <1> QED BY <1>2, <1>3, <1>4, <1>5, <1>6, <1>7 DEF GInv, Kept

LEMMA FollowsOn == ASSUME CatalogueSorted, IInv', NEW doc, Follows(doc) PROVE GInv'
  <1>1. inv' = Swept(doc) /\ inv'.items = doc.items
    BY DEF Follows, Becomes, Swept
  <1>2. Fine(doc.items) /\ Proper(doc.items)
    BY <1>1 DEF Follows, IInv, InvItems
  <1>3. ASSUME TreeExact PROVE Rooted(inv') /\ NodesFollowItems'
    <2>1. Rooted(doc)
      BY <1>3 DEF Follows, Kept
    <2> QED BY <1>1, <1>2, <2>1, SweptRooted DEF NodesFollowItems, Held
  <1>4. ASSUME SumExact PROVE Booked(inv') /\ SumFollowsItems'
    <2>1. DOMAIN doc.items \subseteq 1 .. minted' /\ minted' \in Nat
      BY <1>1 DEF IInv, InvItems
    <2>2. SumSorted
      BY <1>4 DEF SumExact
    <2>3. PICK want : Summed(doc, want)
      BY <1>4 DEF Follows, Kept, Booked
    <2>4. Booked(inv') /\ ToBag(inv'.sum) = ToBag(Elsewhere \o Due(inv'.items))
      BY <1>1, <1>2, <2>1, <2>2, <2>3, SweptExact
    <2> QED BY <2>4 DEF SumFollowsItems
  <1>5. Kept(inv')
    BY <1>3, <1>4 DEF Kept
  <1> QED BY <1>1, <1>2, <1>3, <1>4, <1>5 DEF GInv, Follows, TreeExact, SumExact

LEMMA StepsFollow == ASSUME CatalogueSorted, GInv, [Next]_vars PROVE GInv'
  <1>1. IInv'
    BY StepsKeep DEF GInv
  <1>2. CASE UNCHANGED vars
    BY <1>1, <1>2 DEF GInv, vars, NodesFollowItems, SumFollowsItems, Held, TreeExact, SumExact
  <1>3. CASE Next
    <2>1. \E doc : Follows(doc)
      BY <1>3, AddFollows, RemoveFollows, SetAmountFollows, EquipFollows, WearFollows, UnequipFollows,
         StorageFollows, AttuneFollows, ExtractFollows DEF Next
    <2> QED BY <1>1, <2>1, FollowsOn
  <1> QED BY <1>2, <1>3

LEMMA FollowsAlways == ASSUME CatalogueSorted, StartsProper PROVE Spec => []GInv
  <1>1. Init => GInv
    BY StartsFollow
  <1>2. GInv /\ [Next]_vars => GInv'
    BY StepsFollow
  <1> QED BY <1>1, <1>2, PTL DEF Spec

\* Every wielded weapon has an attack row, and no row outlives its record,
\* whatever is equipped, evicted, stowed, joined, unpacked or removed: as long
\* as a record with a row is removed whole, and weapons are no stackable gear.
THEOREM WeaponsHaveRows ==
  ASSUME CatalogueSorted, StartsProper, "part" \in Excluded
  PROVE  Spec => []RowsFollowWeapons
  <1>1. GInv => RowsFollowWeapons
    BY DEF GInv, Armed, RowsFollowWeapons, Held
  <1> QED BY <1>1, FollowsAlways, PTL

\* The elements tree has exactly the nodes of the content that is conveyed and
\* of the armor in use, also when records share an armor and one of them goes:
\* as long as no armor takes the place of its like, and no bonded one is taken
\* out of a container.
THEOREM TreeFollowsItems ==
  ASSUME CatalogueSorted, StartsProper, TreeExact
  PROVE  Spec => []NodesFollowItems
  <1>1. GInv => NodesFollowItems
    BY DEF GInv
  <1> QED BY <1>1, FollowsAlways, PTL

\* The sum of registered ids holds what the rest of the character registers,
\* each base in use and all that the content conveyed brings, once each and no
\* more, after any sequence of requests that do not throw (a two-handed grip over
\* another one does): as long as no bonded item is taken out of a container
\* whole, and the library is one whose weapons and armor have no content of
\* their own and whose magic ones grant nothing that other content grants too.
THEOREM SumFollows ==
  ASSUME CatalogueSorted, StartsProper, SumExact
  PROVE  Spec => []SumFollowsItems
  <1>1. GInv => SumFollowsItems
    BY DEF GInv
  <1> QED BY <1>1, FollowsAlways, PTL

----------------------------------------------------------------------------
(* What moves keep: the units of each kind of record.                        *)

Of(items, kind) == {i \in DOMAIN items : <<items[i].item, items[i].adorner>> = kind}
Counted(items) == IsFiniteSet(DOMAIN items) /\ \A i \in DOMAIN items : items[i].amount \in Nat

LEMMA UnitsAre ==
  ASSUME NEW items, NEW kind
  PROVE  Units(items, kind) = TotalOf(items, Of(items, kind))
  BY DEF Units, TotalOf, Of

LEMMA OfFinite ==
  ASSUME NEW items, Counted(items), NEW kind
  PROVE  IsFiniteSet(Of(items, kind)) /\ \A i \in Of(items, kind) : items[i].amount \in Nat
  <1>1. Of(items, kind) \subseteq DOMAIN items
    BY DEF Of
  <1> QED BY <1>1, FS_Subset DEF Counted

LEMMA RecordsCounted == ASSUME InvItems PROVE Counted(inv.items)
  <1>1. IsFiniteSet(1 .. minted)
    BY FS_Interval DEF InvItems
  <1>2. IsFiniteSet(DOMAIN inv.items)
    BY <1>1, FS_Subset DEF InvItems
  <1>3. \A i \in DOMAIN inv.items : inv.items[i].amount \in Nat
    BY InventoryAssumption DEF InvItems, Fine, Records
  <1> QED BY <1>2, <1>3 DEF Counted

\* Records that differ neither in what they are nor in how many.
LEMMA SameUnits ==
  ASSUME NEW items, NEW next, Counted(items), DOMAIN next = DOMAIN items,
         \A k \in DOMAIN items : /\ next[k].item = items[k].item /\ next[k].adorner = items[k].adorner
                                 /\ next[k].amount = items[k].amount,
         NEW kind
  PROVE  Units(next, kind) = Units(items, kind)
  <1>1. Of(next, kind) = Of(items, kind)
    BY DEF Of
  <1>2. TotalOf(next, Of(items, kind)) = TotalOf(items, Of(items, kind))
    <2>1. Of(items, kind) \subseteq DOMAIN items
      BY DEF Of
    <2> QED BY <2>1, OfFinite, SumSame
  <1> QED BY <1>1, <1>2, UnitsAre

Share(items, i) == IF i \in DOMAIN items THEN items[i].amount ELSE 0

\* The units of a kind, two of its records apart.
LEMMA UnitsOfTwo ==
  ASSUME NEW items, Counted(items), NEW i, NEW j, i # j, NEW kind,
         \A k \in {i, j} \cap DOMAIN items : <<items[k].item, items[k].adorner>> = kind
  PROVE  /\ Units(items, kind) = Share(items, i) + (Share(items, j) + TotalOf(items, Of(items, kind) \ {i, j}))
         /\ TotalOf(items, Of(items, kind) \ {i, j}) \in Nat /\ Share(items, i) \in Nat /\ Share(items, j) \in Nat
  <1> DEFINE T == Of(items, kind)
             R == T \ {i}
             Q == T \ {i, j}
  <1>1. /\ IsFiniteSet(T) /\ IsFiniteSet(R) /\ IsFiniteSet(Q) /\ Q = R \ {j}
        /\ \A k \in T : items[k].amount \in Nat
        /\ \A k \in R : items[k].amount \in Nat
    BY OfFinite, FS_Subset
  <1>2. \A k \in {i, j} : k \in T <=> k \in DOMAIN items
    BY DEF Of
  <1>3. j \in R <=> j \in DOMAIN items
    BY <1>2
  <1>4. Share(items, i) \in Nat /\ Share(items, j) \in Nat
    BY DEF Share, Counted
  <1>5. TotalOf(items, Q) \in Nat /\ TotalOf(items, R) \in Nat
    BY <1>1, SumType
  <1> HIDE DEF T
  <1>6. TotalOf(items, R) = Share(items, j) + TotalOf(items, Q)
    <2>1. CASE j \in R
      <3>1. TotalOf(items, R) = items[j].amount + TotalOf(items, R \ {j})
        <4> HIDE DEF R
        <4> QED BY <1>1, <2>1, SumWithout
      <3> QED BY <1>1, <1>3, <2>1, <3>1 DEF Share
    <2>2. CASE j \notin R
      <3> DEFINE q == TotalOf(items, Q)
      <3>1. TotalOf(items, R) = q /\ q \in Nat
        <4>1. Q = R
          BY <2>2
        <4> QED BY <1>5, <4>1
      <3>2. Share(items, j) = 0
        BY <1>3, <2>2 DEF Share
      <3> HIDE DEF q
      <3>3. TotalOf(items, R) = Share(items, j) + q
        BY <3>1, <3>2
      <3> QED BY <3>3 DEF q
    <2> QED BY <2>1, <2>2
  <1>7. TotalOf(items, T) = Share(items, i) + TotalOf(items, R)
    <2>1. CASE i \in T
      BY <1>1, <1>2, <2>1, SumWithout DEF Share
    <2>2. CASE i \notin T
      <3> DEFINE q == TotalOf(items, R)
      <3>1. TotalOf(items, T) = q /\ q \in Nat
        <4>1. R = T
          BY <2>2
        <4> QED BY <1>5, <4>1
      <3>2. Share(items, i) = 0
        BY <1>2, <2>2 DEF Share
      <3> HIDE DEF q
      <3>3. TotalOf(items, T) = Share(items, i) + q
        BY <3>1, <3>2
      <3> QED BY <3>3 DEF q
    <2> QED BY <2>1, <2>2
  <1>8. Units(items, kind) = TotalOf(items, T)
    BY UnitsAre DEF T
  <1> QED BY <1>4, <1>5, <1>6, <1>7, <1>8 DEF T

\* Units go from one record to another of its kind, either of which may be new
\* or may go.
LEMMA UnitsMoved ==
  ASSUME NEW items, NEW next, Counted(items), Counted(next), NEW i, NEW j, i # j, NEW its,
         \A k \in {i, j} \cap DOMAIN items : <<items[k].item, items[k].adorner>> = its,
         \A k \in {i, j} \cap DOMAIN next : <<next[k].item, next[k].adorner>> = its,
         DOMAIN next \ {i, j} = DOMAIN items \ {i, j},
         \A k \in DOMAIN items \ {i, j} : /\ next[k].item = items[k].item /\ next[k].adorner = items[k].adorner
                                          /\ next[k].amount = items[k].amount,
         Share(next, i) + Share(next, j) = Share(items, i) + Share(items, j),
         NEW kind
  PROVE  Units(next, kind) = Units(items, kind)
  <1> DEFINE Q == Of(items, kind) \ {i, j}
  <1>1. Of(next, kind) \ {i, j} = Q
    <2>1. \A k : k \in DOMAIN next \ {i, j} <=> k \in DOMAIN items \ {i, j}
      OBVIOUS
    <2> QED BY <2>1 DEF Of
  <1>2. TotalOf(next, Q) = TotalOf(items, Q)
    <2>1. IsFiniteSet(Q)
      BY OfFinite, FS_Subset
    <2>2. \A k \in Q : next[k].amount = items[k].amount
      BY DEF Of
    <2> HIDE DEF Q
    <2> QED BY <2>1, <2>2, SumSame
  <1>3. CASE kind = its
    <2>1. /\ Units(items, kind) = Share(items, i) + (Share(items, j) + TotalOf(items, Q))
          /\ TotalOf(items, Q) \in Nat /\ Share(items, i) \in Nat /\ Share(items, j) \in Nat
      BY <1>3, UnitsOfTwo
    <2>2. /\ Units(next, kind) = Share(next, i) + (Share(next, j) + TotalOf(next, Of(next, kind) \ {i, j}))
          /\ TotalOf(next, Of(next, kind) \ {i, j}) \in Nat /\ Share(next, i) \in Nat /\ Share(next, j) \in Nat
      <3>1. \A k \in {i, j} \cap DOMAIN next : <<next[k].item, next[k].adorner>> = kind
        BY <1>3
      <3> HIDE DEF Q
      <3> QED BY <3>1, UnitsOfTwo
    <2>3. Units(next, kind) = Share(next, i) + (Share(next, j) + TotalOf(items, Q))
      BY <1>1, <1>2, <2>2
    <2> HIDE DEF Q
    <2> QED BY <2>1, <2>2, <2>3
  <1>4. CASE kind # its
    <2>1. Of(next, kind) = Q /\ Of(items, kind) = Q
      <3>1. i \notin Of(items, kind) /\ j \notin Of(items, kind)
        BY <1>4 DEF Of
      <3>2. i \notin Of(next, kind) /\ j \notin Of(next, kind)
        BY <1>4 DEF Of
      <3> QED BY <1>1, <3>1, <3>2
    <2> HIDE DEF Q
    <2> QED BY <1>2, <2>1, UnitsAre
  <1> QED BY <1>3, <1>4

\* What a request leaves, unit for unit.
Conserves == \A kind : Units(inv'.items, kind) = Units(inv.items, kind)

LEMMA SameConserves ==
  ASSUME InvItems, NEW doc, Becomes(doc), DOMAIN doc.items = DOMAIN inv.items,
         \A k \in DOMAIN inv.items :
           /\ doc.items[k].item = inv.items[k].item /\ doc.items[k].adorner = inv.items[k].adorner
           /\ doc.items[k].amount = inv.items[k].amount
  PROVE  Conserves
  <1>1. inv'.items = doc.items
    BY SweepKeepsItems DEF InvItems
  <1> QED BY <1>1, SameUnits, RecordsCounted DEF Conserves

LEMMA EquipConserves == ASSUME InvItems, EquipItem PROVE Conserves
  <1>1. PICK i \in DOMAIN inv.items : \E at \in Requestable(inv.items[i]) : Becomes(Put(inv, i, at))
    BY DEF EquipItem
  <1>2. PICK at \in Requestable(inv.items[i]) : Becomes(Put(inv, i, at))
    BY <1>1
  <1> DEFINE occ == Vacated(inv.items, at) \ {i}
             next == [j \in DOMAIN inv.items |->
                        IF j = i THEN [inv.items[j] EXCEPT !.at = at, !.storage = None]
                        ELSE IF j \in occ THEN [inv.items[j] EXCEPT !.at = None, !.attuned = FALSE]
                        ELSE inv.items[j]]
  <1>3. Put(inv, i, at).items = next
    BY DEF Put, Rewritten
  <1>4. \A j \in DOMAIN inv.items : inv.items[j] \in Records
    BY DEF InvItems, Fine
  <1>5. \A j \in DOMAIN inv.items : /\ next[j].item = inv.items[j].item /\ next[j].adorner = inv.items[j].adorner
                                    /\ next[j].amount = inv.items[j].amount
    BY <1>4 DEF Records
  <1>6. DOMAIN next = DOMAIN inv.items
    OBVIOUS
  <1> HIDE DEF next
  <1> QED BY <1>2, <1>3, <1>5, <1>6, SameConserves

LEMMA WithConserves ==
  ASSUME InvItems, NEW i \in DOMAIN inv.items, NEW r, NEW doc, Becomes(doc), doc.items = With(inv.items, i, r),
         r.item = inv.items[i].item, r.adorner = inv.items[i].adorner, r.amount = inv.items[i].amount
  PROVE  Conserves
  <1>1. DOMAIN doc.items = DOMAIN inv.items
        /\ \A k \in DOMAIN inv.items : doc.items[k] = IF k = i THEN r ELSE inv.items[k]
    BY DEF With
  <1> QED BY <1>1, SameConserves

LEMMA WearConserves == ASSUME InvItems, WearItem PROVE Conserves
  <1>1. PICK i \in DOMAIN inv.items :
          Becomes(Holding(inv, [inv.items EXCEPT ![i].at = "worn", ![i].storage = None]))
    BY DEF WearItem
  <1> DEFINE r == [inv.items[i] EXCEPT !.at = "worn", !.storage = None]
             next == [inv.items EXCEPT ![i].at = "worn", ![i].storage = None]
  <1>2. inv.items[i] \in Records
    BY DEF InvItems, Fine
  <1>3. r.item = inv.items[i].item /\ r.adorner = inv.items[i].adorner /\ r.amount = inv.items[i].amount
    BY <1>2 DEF Records
  <1>4. next = With(inv.items, i, r)
    BY DEF With, InvItems, Fine
  <1>5. Holding(inv, next).items = next
    BY DEF Holding
  <1> HIDE DEF r, next
  <1>6. Becomes(Holding(inv, next))
    BY <1>1 DEF next
  <1> QED BY <1>3, <1>4, <1>5, <1>6, WithConserves

LEMMA UnequipConserves == ASSUME InvItems, UnequipItem PROVE Conserves
  <1> DEFINE R(i) == [inv.items[i] EXCEPT !.at = None, !.attuned = FALSE]
             Doc(i) == Rewritten(inv, With(inv.items, i, R(i)), {j \in {i} : Registered(inv.items[i])}, {})
  <1>1. PICK i \in DOMAIN inv.items : Becomes(Doc(i))
    BY DEF UnequipItem
  <1>2. inv.items[i] \in Records
    BY DEF InvItems, Fine
  <1>3. /\ R(i).item = inv.items[i].item /\ R(i).adorner = inv.items[i].adorner
        /\ R(i).amount = inv.items[i].amount
    BY <1>2 DEF Records
  <1>4. Doc(i).items = With(inv.items, i, R(i))
    BY DEF Rewritten
  <1> HIDE DEF R, Doc
  <1> QED BY <1>1, <1>3, <1>4, WithConserves

LEMMA AttuneConserves == ASSUME InvItems, AttuneItem PROVE Conserves
  <1> DEFINE R(i) == [inv.items[i] EXCEPT !.attuned = ~inv.items[i].attuned]
             Base(i) == {j \in {i} : /\ inv.items[i].storage = None /\ ~Equipped(inv.items[i])
                                     /\ Slotted(inv.items[i].item)}
             Doc(i) == IF inv.items[i].attuned THEN Rewritten(inv, With(inv.items, i, R(i)), Base(i), {})
                       ELSE Rewritten(inv, With(inv.items, i, R(i)), {}, Base(i))
  <1>1. PICK i \in DOMAIN inv.items : Becomes(Doc(i))
    BY DEF AttuneItem
  <1>2. inv.items[i] \in Records
    BY DEF InvItems, Fine
  <1>3. /\ R(i).item = inv.items[i].item /\ R(i).adorner = inv.items[i].adorner
        /\ R(i).amount = inv.items[i].amount
    BY <1>2 DEF Records
  <1>4. Doc(i).items = With(inv.items, i, R(i))
    BY DEF Rewritten
  <1> HIDE DEF R, Doc
  <1> QED BY <1>1, <1>3, <1>4, WithConserves

\* Stowing, taking out, splitting and joining. A stack that absorbs another has
\* no adorner, and what stacks is not adorned.
LEMMA StorageConserves == ASSUME GInv, CatalogueSorted, SetItemStorage PROVE Conserves
  <1> DEFINE amount(i) == inv.items[i].amount
             Stacks(i, s, n) == IF n = amount(i) /\ inv.items[i].attuned THEN {}
                                ELSE MergeTargets(inv.items, inv.items[i].item, s) \ {i}
             To(i, s, n) == Min(Stacks(i, s, n))
             Merged(i, s, n, items) == [items EXCEPT ![To(i, s, n)].amount = @ + n]
             Part(i, s, n) == Record(inv.items[i].item, inv.items[i].adorner, n, None, s)
             Split(i, s, n) == With(inv.items, minted + 1, Part(i, s, n))
             Step(i, s, n) ==
               /\ s # inv.items[i].storage
               /\ "bonded" \in Excluded =>
                    ~(inv.items[i].attuned /\ Slotted(inv.items[i].item) /\ n = amount(i) /\ s = None)
               /\ Stacks(i, s, n) # {} => amount(To(i, s, n)) + n <= MaxAmount
               /\ UNCHANGED rows
               /\ IF n = amount(i) \/ Stacks(i, s, n) # {} THEN UNCHANGED minted ELSE Mint(1)
               /\ Becomes(IF n = amount(i) /\ Stacks(i, s, n) = {} THEN Stowed(inv, i, s)
                          ELSE IF n = amount(i)
                          THEN LET d == Dropped(inv, i) IN Holding(d, Merged(i, s, n, d.items))
                          ELSE IF Stacks(i, s, n) # {}
                          THEN Holding(inv, [Merged(i, s, n, inv.items) EXCEPT ![i].amount = @ - n])
                          ELSE Holding(inv, [Split(i, s, n) EXCEPT ![i].amount = @ - n]))
  <1>1. PICK i \in DOMAIN inv.items, s \in Containers \cup {None} :
          \E n \in 1 .. amount(i) : Step(i, s, n)
    BY DEF SetItemStorage
  <1>2. PICK n \in 1 .. amount(i) : Step(i, s, n)
    BY <1>1
  <1> DEFINE to == To(i, s, n)
             r == inv.items[i]
             its == <<r.item, r.adorner>>
  <1>3. /\ InvItems /\ Fine(inv.items) /\ r \in Records /\ Counted(inv.items)
        /\ \A k \in DOMAIN inv.items : inv.items[k] \in Records
        /\ \A k \in DOMAIN inv.items : inv.items[k].amount \in Nat
    BY GInvItems, RecordsCounted DEF Fine, Counted
  <1>4. CASE n = amount(i) /\ Stacks(i, s, n) = {}
    <2> DEFINE moved == [r EXCEPT !.at = IF s = None THEN r.at ELSE None, !.storage = s]
               doc == Stowed(inv, i, s)
    <2>1. moved.item = r.item /\ moved.adorner = r.adorner /\ moved.amount = r.amount
      BY <1>3 DEF Records
    <2>2. doc.items = With(inv.items, i, moved)
      BY DEF Stowed, Rewritten
    <2>3. Becomes(doc)
      BY <1>2, <1>4
    <2> HIDE DEF moved, doc
    <2> QED BY <1>3, <2>1, <2>2, <2>3, WithConserves
  <1>5. Stacks(i, s, n) # {} =>
          /\ to \in DOMAIN inv.items /\ to # i
          /\ inv.items[to].item = r.item /\ inv.items[to].adorner = r.adorner
    <2> SUFFICES ASSUME Stacks(i, s, n) # {} PROVE /\ to \in DOMAIN inv.items /\ to # i
                                                    /\ inv.items[to].item = r.item /\ inv.items[to].adorner = r.adorner
      OBVIOUS
    <2>1. Stacks(i, s, n) \subseteq DOMAIN inv.items /\ DOMAIN inv.items \subseteq Nat
      BY <1>3 DEF MergeTargets, InvItems
    <2>2. to \in Stacks(i, s, n)
      <3> HIDE DEF Stacks
      <3> QED BY <2>1, LeastOf
    <2>3. Stacks(i, s, n) \subseteq MergeTargets(inv.items, r.item, s) \ {i}
      OBVIOUS
    <2> HIDE DEF Stacks, To
    <2>4. /\ to \in DOMAIN inv.items /\ to # i /\ inv.items[to].item = r.item /\ inv.items[to].adorner = None
          /\ Catalogue[r.item].stackable
      BY <2>2, <2>3 DEF MergeTargets
    <2>5. r.adorner = None
      BY <1>3, <2>4 DEF GInv, Proper, CatalogueSorted, Records
    <2> QED BY <2>4, <2>5
  <1>6. ASSUME NEW next, NEW j, i # j, inv'.items = next, Counted(next),
               \A k \in {i, j} \cap DOMAIN inv.items : <<inv.items[k].item, inv.items[k].adorner>> = its,
               \A k \in {i, j} \cap DOMAIN next : <<next[k].item, next[k].adorner>> = its,
               DOMAIN next \ {i, j} = DOMAIN inv.items \ {i, j},
               \A k \in DOMAIN inv.items \ {i, j} :
                  /\ next[k].item = inv.items[k].item /\ next[k].adorner = inv.items[k].adorner
                  /\ next[k].amount = inv.items[k].amount,
               Share(next, i) + Share(next, j) = Share(inv.items, i) + Share(inv.items, j)
        PROVE  Conserves
    <2> HIDE DEF its
    <2>1. \A kind : Units(next, kind) = Units(inv.items, kind)
      BY <1>3, <1>6, UnitsMoved
    <2> QED BY <1>6, <2>1 DEF Conserves
  <1>7. n \in Nat /\ amount(i) \in Nat /\ n <= amount(i)
    BY <1>3
  <1>8. /\ IsFiniteSet(DOMAIN inv.items)
        /\ \A S : S \subseteq DOMAIN inv.items => IsFiniteSet(S)
        /\ \A k : IsFiniteSet(DOMAIN inv.items \cup {k})
    BY <1>3, FS_Subset, FS_AddElement DEF Counted
  <1>9. CASE n = amount(i) /\ Stacks(i, s, n) # {}
    <2> DEFINE d == Dropped(inv, i)
               rest == But(inv.items, i)
               next == [rest EXCEPT ![to].amount = rest[to].amount + n]
    <2>1. d.items = rest
      BY DEF Dropped, Rewritten
    <2>2. Becomes(Holding(d, next)) /\ Holding(d, next).items = next
      BY <1>2, <1>9, <2>1 DEF Holding
    <2>3. /\ to \in DOMAIN inv.items /\ to # i
          /\ inv.items[to].item = r.item /\ inv.items[to].adorner = r.adorner
      BY <1>5, <1>9
    <2> HIDE DEF To, Stacks
    <2>4. rest = [k \in DOMAIN inv.items \ {i} |-> inv.items[k]]
      BY DEF But
    <2>5. next = [k \in DOMAIN inv.items \ {i} |->
                    IF k = to THEN [inv.items[k] EXCEPT !.amount = inv.items[to].amount + n] ELSE inv.items[k]]
      BY <2>3, <2>4
    <2>6. inv'.items = next
      BY <1>3, <2>2, SweepKeepsItems DEF InvItems
    <2> HIDE DEF next, rest, d
    <2>7. DOMAIN next = DOMAIN inv.items \ {i}
      BY <2>5
    <2>8. /\ next[to].item = r.item /\ next[to].adorner = r.adorner /\ next[to].amount = inv.items[to].amount + n
          /\ \A k \in DOMAIN inv.items \ {i, to} : next[k] = inv.items[k]
      <3>1. next[to] = [inv.items[to] EXCEPT !.amount = inv.items[to].amount + n]
        BY <2>3, <2>5
      <3>2. inv.items[to] \in Records
        BY <1>3, <2>3
      <3>3. next[to].item = r.item /\ next[to].adorner = r.adorner /\ next[to].amount = inv.items[to].amount + n
        BY <2>3, <3>1, <3>2 DEF Records
      <3> QED BY <2>5, <3>3
    <2>9. Counted(next)
      <3>1. \A k \in DOMAIN next : next[k].amount \in Nat
        BY <1>3, <1>7, <2>3, <2>7, <2>8
      <3> QED BY <1>8, <2>7, <3>1 DEF Counted
    <2>10. Share(next, i) + Share(next, to) = Share(inv.items, i) + Share(inv.items, to)
      <3>1. Share(next, i) = 0 /\ Share(next, to) = inv.items[to].amount + n
        BY <2>3, <2>7, <2>8 DEF Share
      <3>2. Share(inv.items, i) = n /\ Share(inv.items, to) = inv.items[to].amount
        BY <1>9, <2>3 DEF Share
      <3>3. inv.items[to].amount \in Nat
        BY <1>3, <2>3
      <3> QED BY <1>7, <3>1, <3>2, <3>3
    <2>11. DOMAIN next \ {i, to} = DOMAIN inv.items \ {i, to}
      BY <2>7
    <2>12. \A k \in {i, to} \cap DOMAIN next : <<next[k].item, next[k].adorner>> = its
      BY <2>7, <2>8
    <2>13. \A k \in {i, to} \cap DOMAIN inv.items : <<inv.items[k].item, inv.items[k].adorner>> = its
      BY <2>3
    <2> HIDE DEF its
    <2> QED BY <1>6, <2>3, <2>6, <2>8, <2>9, <2>10, <2>11, <2>12, <2>13
  <1>10. CASE n # amount(i) /\ Stacks(i, s, n) # {}
    <2> DEFINE joined == Merged(i, s, n, inv.items)
               next == [joined EXCEPT ![i].amount = joined[i].amount - n]
    <2>1. Becomes(Holding(inv, next)) /\ Holding(inv, next).items = next
      BY <1>2, <1>10 DEF Holding
    <2>3. /\ to \in DOMAIN inv.items /\ to # i
          /\ inv.items[to].item = r.item /\ inv.items[to].adorner = r.adorner
      BY <1>5, <1>10
    <2> HIDE DEF To, Stacks
    <2>4. joined = [k \in DOMAIN inv.items |->
                      IF k = to THEN [inv.items[k] EXCEPT !.amount = inv.items[to].amount + n] ELSE inv.items[k]]
      BY <1>3, <2>3 DEF Fine
    <2>5. next = [k \in DOMAIN inv.items |->
                    IF k = i THEN [inv.items[i] EXCEPT !.amount = r.amount - n]
                    ELSE IF k = to THEN [inv.items[k] EXCEPT !.amount = inv.items[to].amount + n] ELSE inv.items[k]]
      <3>1. joined[i] = inv.items[i] /\ DOMAIN joined = DOMAIN inv.items
        BY <2>3, <2>4
      <3> HIDE DEF joined
      <3> QED BY <2>3, <2>4, <3>1
    <2>6. inv'.items = next
      BY <1>3, <2>1, SweepKeepsItems DEF InvItems
    <2> HIDE DEF next, joined
    <2>7. DOMAIN next = DOMAIN inv.items
      BY <2>5
    <2>8. /\ next[to].item = r.item /\ next[to].adorner = r.adorner /\ next[to].amount = inv.items[to].amount + n
          /\ next[i].item = r.item /\ next[i].adorner = r.adorner /\ next[i].amount = r.amount - n
          /\ \A k \in DOMAIN inv.items \ {i, to} : next[k] = inv.items[k]
      <3>1. next[to] = [inv.items[to] EXCEPT !.amount = inv.items[to].amount + n]
        BY <2>3, <2>5
      <3>2. inv.items[to] \in Records /\ inv.items[i] \in Records
        BY <1>3, <2>3
      <3>3. next[to].item = r.item /\ next[to].adorner = r.adorner /\ next[to].amount = inv.items[to].amount + n
        BY <2>3, <3>1, <3>2 DEF Records
      <3>4. next[i] = [inv.items[i] EXCEPT !.amount = r.amount - n]
        BY <2>5
      <3>5. next[i].item = r.item /\ next[i].adorner = r.adorner /\ next[i].amount = r.amount - n
        BY <3>2, <3>4 DEF Records
      <3> QED BY <2>5, <3>3, <3>5
    <2>9. Counted(next)
      <3>1. r.amount - n \in Nat
        BY <1>7
      <3>2. inv.items[to].amount + n \in Nat
        BY <1>3, <1>7, <2>3
      <3>3. \A k \in DOMAIN next : next[k].amount \in Nat
        BY <1>3, <2>7, <2>8, <3>1, <3>2
      <3> QED BY <1>8, <2>7, <3>3 DEF Counted
    <2>10. Share(next, i) + Share(next, to) = Share(inv.items, i) + Share(inv.items, to)
      <3>1. Share(next, i) = r.amount - n /\ Share(next, to) = inv.items[to].amount + n
        BY <2>3, <2>7, <2>8 DEF Share
      <3>2. Share(inv.items, i) = r.amount /\ Share(inv.items, to) = inv.items[to].amount
        BY <2>3 DEF Share
      <3>3. inv.items[to].amount \in Nat
        BY <1>3, <2>3
      <3> QED BY <1>7, <3>1, <3>2, <3>3
    <2>11. DOMAIN next \ {i, to} = DOMAIN inv.items \ {i, to}
      BY <2>7
    <2>12. \A k \in {i, to} \cap DOMAIN next : <<next[k].item, next[k].adorner>> = its
      BY <2>7, <2>8
    <2>13. \A k \in {i, to} \cap DOMAIN inv.items : <<inv.items[k].item, inv.items[k].adorner>> = its
      BY <2>3
    <2> HIDE DEF its
    <2> QED BY <1>6, <2>3, <2>6, <2>8, <2>9, <2>10, <2>11, <2>12, <2>13
  <1>11. CASE n # amount(i) /\ Stacks(i, s, n) = {}
    <2> DEFINE new == minted + 1
               part == Part(i, s, n)
               split == Split(i, s, n)
               next == [split EXCEPT ![i].amount = split[i].amount - n]
    <2>1. Becomes(Holding(inv, next)) /\ Holding(inv, next).items = next
      BY <1>2, <1>11 DEF Holding
    <2>2. new \notin DOMAIN inv.items
      BY <1>3 DEF InvItems
    <2>3. part.item = r.item /\ part.adorner = r.adorner /\ part.amount = n
      BY DEF Record
    <2>4. split = [k \in DOMAIN inv.items \cup {new} |-> IF k = new THEN part ELSE inv.items[k]]
      BY DEF With
    <2> HIDE DEF part, split, new
    <2>5. next = [k \in DOMAIN inv.items \cup {new} |->
                    IF k = i THEN [inv.items[i] EXCEPT !.amount = r.amount - n]
                    ELSE IF k = new THEN part ELSE inv.items[k]]
      BY <2>2, <2>4
    <2>6. inv'.items = next
      BY <1>3, <2>1, SweepKeepsItems DEF InvItems
    <2> HIDE DEF next
    <2>7. DOMAIN next = DOMAIN inv.items \cup {new}
      BY <2>5
    <2>8. /\ next[new] = part
          /\ next[i].item = r.item /\ next[i].adorner = r.adorner /\ next[i].amount = r.amount - n
          /\ \A k \in DOMAIN inv.items \ {i, new} : next[k] = inv.items[k]
      <3>1. next[new] = part /\ next[i] = [inv.items[i] EXCEPT !.amount = r.amount - n]
        BY <2>2, <2>5
      <3>2. next[i].item = r.item /\ next[i].adorner = r.adorner /\ next[i].amount = r.amount - n
        BY <1>3, <3>1 DEF Records
      <3> QED BY <2>5, <3>1, <3>2
    <2>9. Counted(next)
      <3>1. r.amount - n \in Nat
        BY <1>7
      <3>2. \A k \in DOMAIN next : next[k].amount \in Nat
        BY <1>3, <1>7, <2>3, <2>7, <2>8, <3>1
      <3> QED BY <1>8, <2>7, <3>2 DEF Counted
    <2>10. Share(next, i) + Share(next, new) = Share(inv.items, i) + Share(inv.items, new)
      <3>1. Share(next, i) = r.amount - n /\ Share(next, new) = n
        BY <2>3, <2>7, <2>8 DEF Share
      <3>2. Share(inv.items, i) = r.amount /\ Share(inv.items, new) = 0
        BY <2>2 DEF Share
      <3> QED BY <1>7, <3>1, <3>2
    <2>11. DOMAIN next \ {i, new} = DOMAIN inv.items \ {i, new}
      BY <2>7
    <2>12. \A k \in {i, new} \cap DOMAIN next : <<next[k].item, next[k].adorner>> = its
      BY <2>3, <2>7, <2>8
    <2>13. \A k \in {i, new} \cap DOMAIN inv.items : <<inv.items[k].item, inv.items[k].adorner>> = its
      BY <2>2
    <2>14. i # new
      BY <2>2
    <2> HIDE DEF its
    <2> QED BY <1>6, <2>6, <2>8, <2>9, <2>10, <2>11, <2>12, <2>13, <2>14
  <1> QED BY <1>4, <1>9, <1>10, <1>11

\* Equipping, wearing, taking off, stowing, splitting, joining and bonding make
\* or lose no unit of anything: not by an eviction, nor by the stack that takes
\* up what is moved, for every catalogue, file and container.
THEOREM MovesKeepUnits ==
  ASSUME CatalogueSorted, StartsProper
  PROVE  Spec => MovesConserve
  <1> DEFINE Move == EquipItem \/ WearItem \/ UnequipItem \/ SetItemStorage \/ AttuneItem
  <1>1. ASSUME GInv, Move PROVE Conserved
    <2>1. InvItems
      BY <1>1, GInvItems
    <2>2. Conserves
      BY <1>1, <2>1, EquipConserves, WearConserves, UnequipConserves, StorageConserves, AttuneConserves
    <2> QED BY <2>2 DEF Conserves, Conserved
  <1>2. ASSUME GInv, [Next]_vars PROVE [Conserved \/ ~Move]_vars
    BY <1>1, <1>2
  <1>3. Spec => [][Conserved \/ ~Move]_vars
    BY <1>2, FollowsAlways, PTL DEF Spec
  <1> QED BY <1>3 DEF MovesConserve
=============================================================================
