---------------------------- MODULE MC_LivePage -----------------------------
(* LivePage on a small instance: items and probes are interchangeable.        *)
EXTENDS LivePage, TLC
MCSymmetry == Permutations(Items) \cup Permutations(Probes)
=============================================================================
