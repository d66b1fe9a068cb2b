----------------------------- MODULE MCInventory -----------------------------
(* A weapon, an armor and a shield, a magic overlay for a weapon or a shield,*)
(* a cloak that takes a bond, ammunition, and a pack that holds some of them.*)
EXTENDS Inventory

Plain == [kind |-> "gear", slots |-> << >>, versatile |-> FALSE, attunable |-> FALSE, stackable |-> FALSE,
          bases |-> {}, auto |-> None, grants |-> << >>, brings |-> << >>, node |-> FALSE,
          pack |-> << >>, choice |-> {}]
Some(e, n) == [item |-> e, amount |-> n]

MCCatalogue ==
  [sword |-> [Plain EXCEPT !.kind = "weapon", !.slots = <<"primary", "secondary">>, !.versatile = TRUE,
                           !.grants = <<"martial">>],
   plate |-> [Plain EXCEPT !.kind = "armor", !.slots = <<"armor">>, !.grants = <<"heavy">>],
   shield |-> [Plain EXCEPT !.kind = "armor", !.slots = <<"secondary">>, !.grants = <<"heavy">>],
   radiance |-> [Plain EXCEPT !.bases = {"sword", "shield"}, !.attunable = TRUE,
                              !.grants = <<"light">>, !.brings = <<"light", "sense">>, !.node = TRUE],
   cloak |-> [Plain EXCEPT !.attunable = TRUE, !.grants = <<"sense">>, !.brings = <<"sense">>, !.node = TRUE],
   arrows |-> [Plain EXCEPT !.stackable = TRUE],
   pack |-> [Plain EXCEPT !.stackable = TRUE, !.pack = <<Some("plate", 1), Some("arrows", 1)>>,
                          !.choice = {Some("shield", 1)}]]
MCElsewhere == <<"class", "sense", "martial">>

\* A new character; one from an older file, whose sword shines and whose cloak
\* is worn as sum entries alone; and a fighter with two swords, bound to a
\* second suit of the armor that is worn, who owns a pack in the cart.
Start(n, items, sum, nodes) ==
  [requests |-> n, doc |-> [items |-> items, sum |-> sum \o MCElsewhere, nodes |-> nodes]]
Bound(r) == [r EXCEPT !.attuned = TRUE]
MCStarts ==
  { Start(4, << >>, << >>, {}),
    Start(4, << Bound(Record("sword", "radiance", 1, "primary", None)), Bound(Record("cloak", None, 1, None, None)) >>,
          <<"sword", "martial", "radiance", "light", "cloak", "sense">>, {}),
    Start(3, << Record("sword", None, 1, "primary", None), Record("sword", None, 1, "secondary", None),
                Record("plate", None, 1, "armor", None), Bound(Record("plate", None, 1, None, None)),
                Record("pack", None, 2, None, "cart") >>,
          <<"sword", "martial", "sword", "martial", "plate", "heavy", "plate", "heavy">>, {"plate"}) }
=============================================================================
