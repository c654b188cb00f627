-------------------------- MODULE MC_EvalDispatch --------------------------
(* EvalDispatch on small instances: model values for jobs, workers and ids.  *)
EXTENDS EvalDispatch, TLC
MCSymmetry == Permutations(Workers) \cup Permutations(RemoteIds)
=============================================================================
