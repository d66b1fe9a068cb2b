-------------------------- MODULE MCCharacterBuild --------------------------
(* A small content library: a race with a level-gated choice, a class of     *)
(* three levels with a subclass, two classes with a multiclass variant,      *)
(* an optional rule two requirements look at, and a feat that may be granted.*)
EXTENDS CharacterBuild

\* What asks a choice or grants: the name, the pool, the level, the ids that
\* must and that must not be registered, the switch.
MCLibrary ==
  [elf |-> << <<"select", "Lineage", {"moon"}, 2, {}, {}, FALSE>>,
              <<"grant", "trance", {}, 2, {}, {}, FALSE>> >>,
   fighter |-> << <<"select", "Style", {"archery"}, 0, {}, {}, FALSE>>,
                  <<"grant", "surge", {}, 2, {}, {}, FALSE>>,
                  <<"select", "Archetype", {"champion"}, 3, {}, {}, FALSE>>,
                  <<"grant", "training", {}, 0, {"multiclassing"}, {}, FALSE>> >>,
   wizard |-> << <<"select", "Spell", {}, 0, {}, {}, FALSE>>, <<"grant", "recovery", {}, 2, {}, {}, FALSE>> >>,
   cleric |-> << <<"grant", "prerequisite", {}, 0, {}, {}, FALSE>> >>,
   mwizard |-> << <<"grant", "spellbook", {}, 0, {}, {}, FALSE>> >>,
   mcleric |-> << <<"grant", "training", {}, 0, {}, {}, FALSE>> >>,
   archery |-> << <<"grant", "mastery", {}, 3, {}, {}, FALSE>> >>,
   boon |-> << <<"grant", "blessing", {}, 0, {}, {}, TRUE>>,
               <<"grant", "might", {}, 0, {"training"}, {}, FALSE>>,
               <<"select", "Language", {"sylvan"}, 0, {}, {"spellbook"}, FALSE>> >>]
MCRule(r) ==
  LET req == {[has |-> r[5], not |-> r[6], lvl |-> 0]}
  IN IF r[1] = "select" THEN Select(r[2], r[3], r[4], req, 1) ELSE Grant(r[2], r[4], req, r[7])
MCRulesIn(library) == [e \in DOMAIN library |-> << >> \o [k \in DOMAIN library[e] |-> MCRule(library[e][k])]]
MCRules ==
  MCRulesIn(MCLibrary)
  @@ [e \in {"prerequisite", "moon", "sylvan", "surge", "training", "champion", "recovery", "spellbook",
             "mastery", "trance", "blessing", "might", "multiclassing"} |-> << >>]
MCElem == DOMAIN MCRules
MCNeeds == [e \in MCElem |-> Always]
MCVariant == [wizard |-> "mwizard", cleric |-> "mcleric"]
MCLevelId == <<"L1", "L2", "L3">>
MCStartId == <<"G1", "G2", "G3">>
MCBasePool == [Race |-> {"elf"}, Class |-> {"fighter"}, Multiclass |-> {"mwizard", "mcleric"}]
MCFirst(class) ==
  << LevelNode(1, None),
     WrapperNode(2, "Race", 1, <<"L1", 1, 1>>, None),
     WrapperNode(2, "Class", 1, <<"L1", 2, 1>>, class) >>
MCFighter ==
  <<[ElementNode(1, "multiclassing") EXCEPT !.kind = "option"]>> \o MCFirst("fighter")
    \o <<WrapperNode(3, "Style", 1, <<"fighter", 1, 1>>, None), ElementNode(3, "training")>>
MCSecond == <<ElementNode(3, "surge"), LevelNode(2, None)>>
MCGained == Record(2, "fighter", 2, FALSE, FALSE, {"L2", "surge"}, <<ElementNode(3, "surge")>>, << >>)

\* A new character, and fighters of level 1 and 2 that may multiclass.
MCStarts ==
  { [tree |-> MCFirst(None), recs |-> << >>],
    [tree |-> MCFighter, recs |-> << >>],
    [tree |-> MCFighter \o MCSecond, recs |-> <<MCGained>>] }
=============================================================================
