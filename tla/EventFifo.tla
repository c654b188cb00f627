----------------------------- MODULE EventFifo -----------------------------
(***************************************************************************)
(* What the upload of a run relies on in its event backlog: accepted events *)
(* are handed over once each and in order, each one taken gets a verdict,   *)
(* and the backlog closes when nothing waits for one, or gives up on what   *)
(* it still holds.  EventBacklog implements it.                             *)
(***************************************************************************)
EXTENDS Naturals, Sequences

CONSTANT Events

VARIABLES
  queue,   \* accepted, not taken
  owed,    \* how many were taken and have no verdict
  closed

vars == <<queue, owed, closed>>

Init == queue = <<>> /\ owed = 0 /\ closed = FALSE

Accept(e) == ~closed /\ queue' = Append(queue, e) /\ UNCHANGED <<owed, closed>>
Hand == queue # <<>> /\ queue' = Tail(queue) /\ owed' = owed + 1 /\ UNCHANGED closed
Settle == owed > 0 /\ owed' = owed - 1 /\ UNCHANGED <<queue, closed>>
Close == queue = <<>> /\ owed = 0 /\ closed' = TRUE /\ UNCHANGED <<queue, owed>>
GiveUp == queue' = <<>> /\ closed' = TRUE /\ UNCHANGED owed

Next == (\E e \in Events : Accept(e)) \/ Hand \/ Settle \/ Close \/ GiveUp

Spec == Init /\ [][Next]_vars
=============================================================================
