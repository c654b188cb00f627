--------------------------- MODULE MC_DraftRules ----------------------------
(* DraftRules on a small instance: texts are interchangeable.                 *)
EXTENDS DraftRules, TLC
MCSymmetry == Permutations(Texts)
=============================================================================
