--------------------------- MODULE MC_JobRegistry ---------------------------
(* JobRegistry with every job in one scope: the jobs are rivals.              *)
EXTENDS JobRegistry, TLC
CONSTANTS s1
MCScope == [j \in Jobs |-> s1]
MCSymmetry == Permutations(Workers) \cup Permutations(Jobs)
=============================================================================
