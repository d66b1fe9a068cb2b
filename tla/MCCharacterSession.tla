------------------------- MODULE MCCharacterSession -------------------------
(* Small instances of CharacterSession. The slots are alike, so the runs     *)
(* that check safety alone use their symmetry.                               *)
EXTENDS CharacterSession

SlotSymmetry == Permutations(Ops)
=============================================================================
