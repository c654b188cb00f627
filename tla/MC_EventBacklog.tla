--------------------------- MODULE MC_EventBacklog ---------------------------
(* A small event, and one that only the file can hold; three small ones fit in memory. *)
EXTENDS EventBacklog, TLC

CONSTANTS small, large
BySize == (small :> 1) @@ (large :> 7)
=============================================================================
