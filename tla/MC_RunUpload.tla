---------------------------- MODULE MC_RunUpload ----------------------------
(* Two items, with a heartbeat between; the last two events are invalid. *)
EXTENDS RunUpload, TLC

CONSTANTS a, b
SomeItems == <<a, NoItem, b, b>>
=============================================================================
