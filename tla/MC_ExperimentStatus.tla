------------------------ MODULE MC_ExperimentStatus ------------------------
(* ExperimentStatus on small instances: jobs and experiments are numbers, as  *)
(* their ids are ordered; sessions are model values.                         *)
EXTENDS ExperimentStatus, TLC
MCPair == 1..2
MCThree == 1..3
MCFour == 1..4
MCLaunched == 1..2
MCOne == {1}
MCSame == [j \in Jobs |-> 1]
MCSymmetry == Permutations(Dispatchers) \cup Permutations(Retriers)
=============================================================================
