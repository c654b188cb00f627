------------------------- MODULE RunUpload_proofs -------------------------
(***************************************************************************)
(* A completed run is whole, in order and over: for any events, any number  *)
(* of faults and late requests, and whatever else writes the run's row.     *)
(***************************************************************************)
EXTENDS RunUpload, TLAPS

\* The requests that may still be served.
Requests == {post.evs} \cup {z.evs : z \in zombies}

\* The events of items in S have their verdicts: what is not stored was refused.
Known(S) == S \ Beats \subseteq stored \cup refused

\* What is on the way was taken, what is stored was taken and not refused; only the loop
\* sends events.
Origin ==
  /\ post.by # "loop" => post.evs \cap Events = {}
  /\ \A r \in Requests : r \cap Events \subseteq 1 .. taken
  /\ stored \cap Events \subseteq 1 .. taken
  /\ stored \cap Bad = {}

\* The request of the loop, and what its answer says.
LoopPost ==
  post.by = "loop" =>
    /\ ~exited /\ ~closed /\ phase # "gone" /\ settled < taken
    /\ post.evs = IF alone THEN {settled + 1} ELSE Batch
    /\ post.at = "ok" => post.evs \ Beats \subseteq stored \cup Bad
    /\ post.at = "invalid" => post.evs \subseteq Bad

\* Events are sent alone only when the platform refused each of them.
AloneBad == alone => settled < taken /\ Batch \subseteq Bad

\* A batch is applied as one, and nothing is added to one that was sent.
OneBatch ==
  /\ \/ (Batch \ Beats) \cap stored = {}
     \/ Batch \ Beats \subseteq stored \cup Bad
  /\ \A z \in zombies : z.evs \cap Batch = {} \/ Batch \subseteq z.evs \/ Batch \subseteq Bad
  /\ ~frozen /\ ~alone /\ post.by # "loop" /\ phase # "gone" =>
       /\ (Batch \ Beats) \cap stored = {}
       /\ \A z \in zombies : z.evs \cap Batch = {}

\* When nothing is undelivered, all that was settled is known, and nothing came late.
Delivered ==
  /\ ~undelivered => Known(1 .. settled)
  /\ late => undelivered
  /\ closed => undelivered

\* The loop ends when all is settled, and no event follows; a process that is gone waits
\* for no answer.
Exit ==
  /\ phase = "gone" => post.by = "none"
  /\ exited => settled = emitted
  /\ exited \/ draining => closed \/ phase # "running"

\* Whoever carries the completion knows that every event has its verdict.
Whole == exited /\ phase \notin {"running", "closing"} /\ ~late /\ Known(1 .. emitted)
Done ==
  /\ DONE \in stored \/ phase = "ending" \/ (\E r \in Requests : DONE \in r) => Whole
  /\ DONE \in stored /\ refused # {} => reported /\ flag

\* A completed run was ended for good, unless the close-out stopped it since.
Ended == DONE \in stored => overwritten \/ (status # "RUNNING" /\ reason \notin SoftReasons)

UploadInv ==
  /\ TypeOK /\ Origin /\ LoopPost /\ AloneBad /\ OneBatch
  /\ Delivered /\ Exit /\ Done /\ Ended

-----------------------------------------------------------------------------
LEMMA Ends == DONE \in Nat /\ STOP \in Nat /\ DONE \notin Events /\ STOP \notin Events
              /\ DONE # STOP /\ DONE \in 1 .. N + 2 /\ STOP \in 1 .. N + 2
BY UploadAssumption DEF DONE, STOP, Events

LEMMA Numbers ==
  ASSUME TypeOK
  PROVE  emitted \in Nat /\ taken \in Nat /\ settled \in Nat /\ N \in Nat
         /\ settled <= taken /\ taken <= emitted /\ emitted <= N
BY UploadAssumption DEF TypeOK

\* The types, action by action.
\* What a request does to the row keeps its types.
LEMMA RowTypes ==
  ASSUME TypeOK, NEW r \in SUBSET (1 .. N + 2), Ingest(r)
  PROVE  /\ stored' \subseteq 1 .. N + 2 /\ tally' \subseteq Bad
         /\ reported' \in BOOLEAN /\ flag' \in BOOLEAN /\ late' \in BOOLEAN
         /\ status' \in Statuses /\ reason' \in Reasons
<1>1. CASE UNCHANGED row
  BY <1>1 DEF TypeOK, row, data
<1>3. CASE OnlyBeats(r) /\ Beat(r)
  BY <1>3 DEF TypeOK, Beat
<1>2. CASE Apply(r)
  <2>1. stored' \subseteq 1 .. N + 2 /\ tally' \subseteq Bad
    BY <1>2 DEF TypeOK, Apply, New, Fresh, Refusals
  <2>2. reported' \in BOOLEAN
    BY <1>2 DEF TypeOK, Apply
  <2>3. late' \in BOOLEAN
    BY <1>2 DEF TypeOK, Apply
  <2>4. flag' \in BOOLEAN
    BY <1>2 DEF TypeOK, Apply, Refresh, Incomplete
  <2>5. status' \in Statuses /\ reason' \in Reasons
    BY <1>2 DEF TypeOK, Apply, Advance, Become, Statuses, Reasons
  <2> QED BY <2>1, <2>2, <2>3, <2>4, <2>5
<1> QED BY <1>1, <1>2, <1>3 DEF Ingest

\* The requests carry events, or ends.
LEMMA PostTypes ==
  ASSUME TypeOK
  PROVE  /\ post.by \in {"none", "loop", "direct"}
         /\ post.at \in {"none", "wire", "ok", "invalid", "closed"}
         /\ post.evs \in SUBSET (1 .. N + 2)
         /\ NoPost \in Posts
         /\ \A r \in Requests : r \in SUBSET (1 .. N + 2)
BY DEF TypeOK, Posts, NoPost, Requests

\* A request that lingers is one that was sent.
LEMMA LingerTypes ==
  ASSUME TypeOK, NEW no \in 0 .. MaxFaults, MayLinger(no)
  PROVE  zombies' \subseteq [no : 0 .. MaxFaults, evs : SUBSET (1 .. N + 2)]
BY PostTypes DEF TypeOK, MayLinger

\* The event after the one sent alone is still in the batch, or ends it.
LEMMA AloneTypes ==
  ASSUME TypeOK, settled < taken, NextAlone
  PROVE  /\ settled' = settled + 1 /\ settled' \in 0 .. taken /\ again' \in BOOLEAN
         /\ alone' \in BOOLEAN /\ frozen' \in BOOLEAN
<1>1. settled' = settled + 1 /\ settled + 1 \in 0 .. taken
  BY Numbers DEF NextAlone
<1>4. again' \in BOOLEAN
  BY DEF NextAlone
<1>2. alone' \in BOOLEAN
  BY DEF NextAlone
<1>3. frozen' \in BOOLEAN
  BY DEF NextAlone
<1> QED BY <1>1, <1>2, <1>3, <1>4

\* Every step keeps the types; that an event sent alone is in the batch takes LoopPost.
LEMMA NextTypes ==
  ASSUME UploadInv, [Next]_vars
  PROVE  TypeOK'
<1>0. TypeOK /\ LoopPost
  BY DEF UploadInv
<1>a. post.by = "loop" => settled < taken /\ (post.at = "invalid" => post.evs \subseteq Bad)
  BY <1>0 DEF LoopPost
<1> USE <1>0, Numbers, PostTypes, UploadAssumption
<1>1. CASE Serve
  <2>1. Answer(post.evs) \in {"ok", "invalid", "closed"}
    BY DEF Answer
  <2>2. post' \in Posts
    BY <1>1, <2>1 DEF TypeOK, Serve, Posts
  <2> QED BY <1>1, <2>2, RowTypes DEF TypeOK, Serve, stream, plan, queue, batch, verdicts, lost,
                                      dispatcher
<1>2. ASSUME NEW z \in zombies, ServeZombie(z) PROVE TypeOK'
  <2>1. z.evs \in SUBSET (1 .. N + 2) /\ zombies' \subseteq zombies
    BY <1>2 DEF TypeOK, ServeZombie
  <2> QED BY <1>2, <2>1, RowTypes DEF TypeOK, ServeZombie, stream, plan, queue, batch, verdicts,
                                      dispatcher
<1>3. CASE Others
  <2>1. UNCHANGED <<stream, wire, data>>
    BY <1>3 DEF Others, LeaseTimeout, ForceStop, CancelRun, Submit, Withdraw, Outside,
                CloseOutReads, CloseOutWrites, row
  <2>2. /\ status' \in Statuses /\ reason' \in Reasons
        /\ closeOut' \in BOOLEAN /\ overwritten' \in BOOLEAN
    BY <1>3 DEF dispatcher, TypeOK, Others, LeaseTimeout, ForceStop, CancelRun, Submit, Withdraw,
                Outside, Become, CloseOutReads, CloseOutWrites, row, Statuses, Reasons,
                SoftReasons
  <2> QED BY <2>1, <2>2
        DEF TypeOK, stream, plan, queue, batch, verdicts, wire, lost, data
<1>4. CASE UNCHANGED vars
  BY <1>4 DEF TypeOK, vars, stream, plan, queue, batch, verdicts, wire, lost, platform,
              dispatcher, row, data
<1>5. CASE Emit
  BY <1>5 DEF TypeOK, Emit, plan, batch, verdicts, wire, lost, platform, dispatcher, row, data
<1>6. CASE Take
  BY <1>6 DEF TypeOK, Take, plan, batch, verdicts, wire, lost, platform, dispatcher, row, data
<1>7. CASE Send
  <2>1. post' \in Posts
    <3>1. Batch \in SUBSET (1 .. N + 2) /\ {settled + 1} \in SUBSET (1 .. N + 2)
      BY <1>7 DEF Send, Batch
    <3> QED BY <1>7, <3>1 DEF Send, Posted, Posts
  <2> QED BY <1>7, <2>1
        DEF TypeOK, Send, stream, plan, queue, batch, verdicts, lost, platform, dispatcher, row,
            data
<1>8. CASE Close
  BY <1>8 DEF TypeOK, Close, queue, batch, verdicts, wire, lost, platform, dispatcher, row, data
<1>9. CASE LoopExits
  BY <1>9 DEF TypeOK, LoopExits, plan, queue, batch, verdicts, wire, lost, platform, dispatcher,
              row, data
<1>10. CASE Closed \/ CloseGivesUp \/ Interrupt \/ EndSkipped \/ EndSent
  <2>1. /\ UNCHANGED <<draining, tries, queue, batch, verdicts, exited, zombies, platform>>
        /\ phase' \in {"ending", "ended", "stopping"}
    BY <1>10 DEF Closed, CloseGivesUp, Interrupt, EndSkipped, EndSent, GoOn, wire, lost
  <2>2. post' \in Posts /\ faults' \in Nat
    BY <1>10
       DEF TypeOK, Closed, CloseGivesUp, Interrupt, EndSkipped, EndSent, Answered, wire, lost
  <2> QED BY <2>1, <2>2 DEF TypeOK, queue, batch, verdicts, platform, dispatcher, row, data
<1>11. CASE SendEnd
  <2>1. post' \in Posts
    BY <1>11, Ends DEF SendEnd, Posted, Posts
  <2> QED BY <1>11, <2>1
        DEF TypeOK, SendEnd, stream, plan, queue, batch, verdicts, lost, platform, dispatcher,
            row, data
<1>12. CASE Gone
  BY <1>12, LingerTypes
     DEF TypeOK, Gone, GoOn, queue, batch, verdicts, platform, dispatcher, row, data
<1>13. CASE RunClosed \/ EndClosed
  <2>1. Disable /\ post' \in Posts /\ phase' \in {phase, "ended"}
    BY <1>13 DEF RunClosed, EndClosed, Answered
  <2>2. /\ settled' = emitted /\ taken' = emitted /\ emitted' = emitted
        /\ UNCHANGED <<fails, tries, refused, exited, lost, platform>>
        /\ closed' \in BOOLEAN /\ draining' \in BOOLEAN /\ undelivered' \in BOOLEAN
        /\ frozen' \in BOOLEAN /\ alone' \in BOOLEAN /\ again' \in BOOLEAN
    BY <2>1 DEF Disable
  <2> QED BY <2>1, <2>2 DEF TypeOK, lost, platform, dispatcher, row, data
<1>14. CASE EndFails
  <2>1. /\ UNCHANGED <<draining, queue, batch, refused, closed, exited, platform>>
        /\ faults' = faults + 1 /\ post' = NoPost /\ MayLinger(faults + 1)
        /\ faults < MaxFaults /\ tries' = tries + 1
    BY <1>14 DEF EndFails, Failed
  <2>2. undelivered' \in BOOLEAN /\ phase' \in {phase, "ended"}
    BY <1>14 DEF TypeOK, EndFails, Dropped
  <2>3. faults + 1 \in 0 .. MaxFaults /\ faults' \in Nat /\ tries' \in Nat
    BY <2>1 DEF TypeOK
  <2> QED BY <2>1, <2>2, <2>3, LingerTypes DEF TypeOK, queue, batch, platform, dispatcher, row,
                                               data
<1>15. CASE BatchFails
  <2>1. MoreFails \in 0 .. GiveUp
    BY DEF TypeOK, MoreFails
  <2>2. /\ UNCHANGED <<plan, emitted, taken, alone, again, refused, closed, exited, platform>>
        /\ faults' = faults + 1 /\ post' = NoPost /\ MayLinger(faults + 1)
        /\ faults < MaxFaults /\ fails' = MoreFails /\ settled' \in {settled, taken}
    BY <1>15 DEF BatchFails, Failed
  <2>3. undelivered' \in BOOLEAN /\ frozen' \in BOOLEAN
    BY <1>15 DEF TypeOK, BatchFails, Dropped
  <2>4. faults + 1 \in 0 .. MaxFaults /\ faults' \in Nat
    BY <2>2 DEF TypeOK
  <2> QED BY <2>1, <2>2, <2>3, <2>4, LingerTypes DEF TypeOK, plan, platform, dispatcher, row,
                                                     data
<1>16. CASE AloneFails
  <2>1. /\ UNCHANGED <<plan, emitted, taken, fails, refused, closed, exited, platform>>
        /\ faults' = faults + 1 /\ post' = NoPost /\ MayLinger(faults + 1)
        /\ faults < MaxFaults
        /\ NextAlone \/ UNCHANGED <<settled, alone, frozen>>
    BY <1>16 DEF AloneFails, Failed
  <2>2. undelivered' \in BOOLEAN /\ again' \in BOOLEAN
    BY <1>16 DEF TypeOK, AloneFails, NextAlone, Dropped
  <2>3. settled' \in 0 .. taken /\ alone' \in BOOLEAN /\ frozen' \in BOOLEAN
    <3>1. settled < taken
      BY <1>16, <1>a DEF AloneFails, Failed
    <3> QED BY <2>1, <3>1, AloneTypes DEF TypeOK
  <2>4. faults + 1 \in 0 .. MaxFaults /\ faults' \in Nat
    <3>1. faults \in Nat
      BY DEF TypeOK
    <3> QED BY <2>1, <3>1
  <2> QED BY <2>1, <2>2, <2>3, <2>4, LingerTypes DEF TypeOK, plan, platform, dispatcher, row,
                                                     data
<1>17. CASE Accepted
  <2>1. /\ UNCHANGED <<plan, emitted, taken, undelivered, closed, exited, lost, platform>>
        /\ refused' = refused \cup Refusals(post.evs) /\ post' = NoPost
    BY <1>17 DEF Accepted, Answered
  <2>2. /\ settled' \in 0 .. taken /\ fails' \in {0, fails}
        /\ alone' \in BOOLEAN /\ frozen' \in BOOLEAN /\ again' \in BOOLEAN
    <3>1. CASE alone
      <4>1. NextAlone /\ fails' = fails /\ settled < taken
        BY <1>17, <3>1, <1>a DEF Accepted, Answered
      <4> QED BY <4>1, AloneTypes DEF TypeOK
    <3>2. CASE ~alone
      <4>1. settled' = taken /\ frozen' \in BOOLEAN /\ fails' = 0 /\ UNCHANGED <<alone, again>>
        BY <1>17, <3>2 DEF Accepted
      <4> QED BY <4>1 DEF TypeOK
    <3> QED BY <3>1, <3>2
  <2> QED BY <2>1, <2>2 DEF TypeOK, Refusals, plan, lost, platform, dispatcher, row, data
<1>18. CASE Invalid
  <2>1. /\ UNCHANGED <<plan, emitted, taken, undelivered, closed, exited, lost, platform>>
        /\ post' = NoPost
    BY <1>18 DEF Invalid, Answered
  <2>2. /\ settled' \in 0 .. taken /\ fails' \in 0 .. GiveUp /\ refused' \subseteq Bad
        /\ alone' \in BOOLEAN /\ frozen' \in BOOLEAN /\ again' \in BOOLEAN
    <3>1. CASE alone
      <4>1. NextAlone /\ fails' = fails /\ settled < taken
            /\ refused' = refused \cup post.evs /\ post.evs \subseteq Bad
        BY <1>18, <3>1, <1>a DEF Invalid, Answered
      <4>2. refused' \subseteq Bad /\ fails' \in 0 .. GiveUp
        BY <4>1 DEF TypeOK
      <4> QED BY <4>1, <4>2, AloneTypes
    <3>2. CASE ~alone
      BY <1>18, <2>1, <3>2 DEF TypeOK, Invalid, MoreFails
    <3> QED BY <3>1, <3>2
  <2> QED BY <2>1, <2>2 DEF TypeOK, plan, lost, platform, dispatcher, row, data
<1> QED BY <1>1, <1>2, <1>3, <1>4, <1>5, <1>6, <1>7, <1>8, <1>9, <1>10, <1>11, <1>12, <1>13,
           <1>14, <1>15, <1>16, <1>17, <1>18 DEF Next, Loop, Ending, Faults

\* An event not yet taken is nowhere else: not stored, and in no request.
LEMMA TakenNew ==
  ASSUME TypeOK, Origin, taken < emitted
  PROVE  taken + 1 \notin stored \cup post.evs /\ \A z \in zombies : taken + 1 \notin z.evs
BY Numbers DEF Origin, Requests, Events

\* What the loop sends was taken, and is not the completion.
LEMMA SentWell ==
  ASSUME TypeOK, NEW r, r = {settled + 1} \/ r = Batch, settled < taken
  PROVE  r \subseteq 1 .. taken /\ DONE \notin r
BY Numbers, Ends DEF Batch, Events

\* NextAlone goes on exactly while the batch has events left.
LEMMA NextOne ==
  ASSUME TypeOK, settled < taken, NextAlone
  PROVE  /\ settled' = settled + 1
         /\ alone' => settled + 1 < taken
         /\ ~alone' => settled + 1 = taken
<1>1. settled' = settled + 1
  BY DEF NextAlone
<1>2. alone' => settled + 1 < taken
  BY ONLY NextAlone, Zenon DEF NextAlone
<1>3. ~alone' => ~(settled + 1 < taken)
  BY ONLY NextAlone, Zenon DEF NextAlone
<1>4. ~(settled + 1 < taken) => settled + 1 = taken
  BY Numbers
<1> QED BY <1>1, <1>2, <1>3, <1>4

\* What becomes of the batch when it is settled, left, or settled by one event.
LEMMA Batches ==
  ASSUME TypeOK, UNCHANGED taken
  PROVE  /\ settled' = taken => Batch' = {} /\ 1 .. settled' = (1 .. settled) \cup Batch
         /\ settled' = settled => Batch' = Batch
         /\ settled' = settled + 1 =>
              /\ Batch' \subseteq Batch /\ 1 .. settled' = (1 .. settled) \cup {settled + 1}
              /\ settled + 1 = taken => Batch' = {}
<1> USE Numbers
<1>1. CASE settled' = taken
  BY <1>1 DEF Batch
<1>2. CASE settled' = settled
  BY <1>2 DEF Batch
<1>3. CASE settled' = settled + 1
  BY <1>3 DEF Batch
<1> QED BY <1>1, <1>2, <1>3

\* The stream and its loop, between requests.
LEMMA EmitKeeps ==
  ASSUME UploadInv, Emit
  PROVE  UploadInv'
<1>0. TypeOK /\ TypeOK'
  BY NextTypes DEF UploadInv, Next, Loop, Ending, Faults, Others
<1>1. /\ phase = "running" /\ ~closed /\ emitted' = emitted + 1
      /\ UNCHANGED <<phase, draining, taken, settled, frozen, alone, undelivered, refused,
                     closed, exited, post, zombies>>
      /\ UNCHANGED <<status, reason, stored, tally, reported, flag, late, overwritten>>
  BY <1>0 DEF Emit, stream, platform, dispatcher, row, data, wire, lost, plan, queue, batch,
              verdicts
<1>2. Origin' /\ LoopPost' /\ AloneBad' /\ OneBatch' /\ Delivered' /\ Exit' /\ Done' /\ Ended'
  BY <1>1
     DEF UploadInv, Origin, Requests, LoopPost, Batch, AloneBad, OneBatch,
         Delivered, Known, Exit, Done, Whole, Ended
<1> QED BY <1>0, <1>2 DEF UploadInv

LEMMA TakeKeeps ==
  ASSUME UploadInv, Take
  PROVE  UploadInv'
<1>0. TypeOK /\ TypeOK'
  BY NextTypes DEF UploadInv, Next, Loop, Ending, Faults, Others
<1>1. /\ ~exited /\ phase # "gone" /\ post.by # "loop" /\ ~closed /\ ~frozen /\ ~alone
      /\ taken < emitted /\ taken' = taken + 1
      /\ UNCHANGED <<phase, draining, emitted, settled, frozen, alone, undelivered, refused,
                     closed, exited, post, zombies>>
      /\ UNCHANGED <<status, reason, stored, tally, reported, flag, late, overwritten>>
  BY <1>0
     DEF Take, LoopFree, stream, platform, dispatcher, row, data, wire, lost, plan, queue,
         batch, verdicts
<1>2. LoopPost' /\ AloneBad' /\ Delivered' /\ Exit' /\ Done' /\ Ended'
  BY <1>1
     DEF UploadInv, LoopPost, Batch, AloneBad, Delivered, Known, Exit, Done,
         Whole, Requests, Ended
<1>3. Origin'
  BY <1>1, <1>0, Numbers DEF UploadInv, Origin, Requests
<1>4. OneBatch'
  BY <1>1, <1>0, Numbers, TakenNew DEF UploadInv, OneBatch, Batch
<1> QED BY <1>0, <1>2, <1>3, <1>4 DEF UploadInv

LEMMA CloseKeeps ==
  ASSUME UploadInv, Close
  PROVE  UploadInv'
<1>0. TypeOK /\ TypeOK'
  BY NextTypes DEF UploadInv, Next, Loop, Ending, Faults, Others
<1>1. /\ phase = "running" /\ phase' = "closing"
      /\ UNCHANGED <<emitted, taken, settled, frozen, alone, undelivered, refused, closed,
                     exited, post, zombies>>
      /\ UNCHANGED <<status, reason, stored, tally, reported, flag, late, overwritten>>
  BY <1>0 DEF Close, stream, platform, dispatcher, row, data, wire, lost, plan, queue, batch,
              verdicts
<1>2. Origin' /\ LoopPost' /\ AloneBad' /\ OneBatch' /\ Delivered' /\ Exit' /\ Done' /\ Ended'
  BY <1>1
     DEF UploadInv, Origin, Requests, LoopPost, Batch, AloneBad, OneBatch,
         Delivered, Known, Exit, Done, Whole, Ended
<1> QED BY <1>0, <1>2 DEF UploadInv

LEMMA LoopExitsKeeps ==
  ASSUME UploadInv, LoopExits
  PROVE  UploadInv'
<1>0. TypeOK /\ TypeOK'
  BY NextTypes DEF UploadInv, Next, Loop, Ending, Faults, Others
<1>1. /\ post.by # "loop" /\ draining /\ settled = emitted /\ ~exited
      /\ UNCHANGED <<phase, draining, emitted, taken, settled, frozen, alone, undelivered, refused,
                     closed, post, zombies>>
      /\ UNCHANGED <<status, reason, stored, tally, reported, flag, late, overwritten>>
  BY <1>0 DEF LoopExits, stream, platform, dispatcher, row, data, wire, lost, plan, queue,
              batch, verdicts
<1>2. Origin' /\ LoopPost' /\ AloneBad' /\ OneBatch' /\ Delivered' /\ Exit' /\ Done' /\ Ended'
  BY <1>1
     DEF UploadInv, Origin, Requests, LoopPost, Batch, AloneBad, OneBatch,
         Delivered, Known, Exit, Done, Whole, Ended
<1> QED BY <1>0, <1>2 DEF UploadInv

\* The loop sends, and learns nothing by it.
LEMMA SendKeeps ==
  ASSUME UploadInv, Send
  PROVE  UploadInv'
<1>0. TypeOK /\ TypeOK'
  BY NextTypes DEF UploadInv, Next, Loop, Ending, Faults, Others
<1>a. settled < taken
  BY <1>0, Numbers DEF Send, Batch
<1>1. /\ ~exited /\ phase # "gone" /\ post.by # "loop" /\ ~closed /\ settled < taken
      /\ post' = [by |-> "loop", evs |-> IF alone THEN {settled + 1} ELSE Batch, at |-> "wire"]
      /\ UNCHANGED <<phase, draining, emitted, taken, settled, frozen, alone, undelivered, refused,
                     closed, exited, zombies>>
      /\ UNCHANGED <<status, reason, stored, tally, reported, flag, late, overwritten>>
  BY <1>0, <1>a
     DEF Send, Posted, LoopFree, stream, platform, dispatcher, row, data, wire, lost, plan,
         queue, batch, verdicts
<1>2. LoopPost' /\ AloneBad' /\ OneBatch' /\ Delivered' /\ Exit' /\ Ended'
  BY <1>1
     DEF UploadInv, LoopPost, Batch, AloneBad, OneBatch, Delivered, Known, Exit,
         Ended
<1>3. Origin'
  BY <1>1, <1>0, Numbers, SentWell DEF UploadInv, Origin, Requests
<1>4. Done'
  BY <1>1, <1>0, Numbers, SentWell DEF UploadInv, Done, Whole, Known, Requests
<1> QED BY <1>0, <1>2, <1>3, <1>4 DEF UploadInv

\* The end of the evaluation.  Only here does a run become whole: the loop has ended with
\* nothing undelivered, so that every event is known.
LEMMA ClosedKeeps ==
  ASSUME UploadInv, Closed
  PROVE  UploadInv'
<1>0. TypeOK /\ TypeOK'
  BY NextTypes DEF UploadInv, Next, Loop, Ending, Faults, Others
<1>1. /\ phase = "closing" /\ exited /\ phase' \in {"ending", "ended"}
      /\ phase' = "ending" => ~undelivered
      /\ UNCHANGED <<draining, emitted, taken, settled, frozen, alone, undelivered, refused,
                     closed, exited, post, zombies>>
      /\ UNCHANGED <<status, reason, stored, tally, reported, flag, late, overwritten>>
  BY <1>0
     DEF Closed, Flushed, GoOn, stream, platform, dispatcher, row, data, wire, lost, plan,
         queue, batch, verdicts
<1>2. Origin' /\ LoopPost' /\ AloneBad' /\ OneBatch' /\ Delivered' /\ Exit' /\ Ended'
  BY <1>1
     DEF UploadInv, Origin, Requests, LoopPost, Batch, AloneBad, OneBatch,
         Delivered, Known, Exit, Ended
<1>3. Done'
  BY <1>1 DEF UploadInv, Done, Whole, Known, Requests, Exit, Delivered
<1> QED BY <1>0, <1>2, <1>3 DEF UploadInv

LEMMA CloseGivesUpKeeps ==
  ASSUME UploadInv, CloseGivesUp
  PROVE  UploadInv'
<1>0. TypeOK /\ TypeOK'
  BY NextTypes DEF UploadInv, Next, Loop, Ending, Faults, Others
<1>1. /\ phase = "closing" /\ ~exited /\ phase' = "ended"
      /\ UNCHANGED <<draining, emitted, taken, settled, frozen, alone, undelivered, refused,
                     closed, exited, post, zombies>>
      /\ UNCHANGED <<status, reason, stored, tally, reported, flag, late, overwritten>>
  BY <1>0
     DEF CloseGivesUp, GoOn, stream, platform, dispatcher, row, data, wire, lost, plan, queue,
         batch, verdicts
<1>2. Origin' /\ LoopPost' /\ AloneBad' /\ OneBatch' /\ Delivered' /\ Exit' /\ Done' /\ Ended'
  BY <1>1
     DEF UploadInv, Origin, Requests, LoopPost, Batch, AloneBad, OneBatch,
         Delivered, Known, Exit, Done, Whole, Ended
<1> QED BY <1>0, <1>2 DEF UploadInv

LEMMA InterruptKeeps ==
  ASSUME UploadInv, Interrupt
  PROVE  UploadInv'
<1>0. TypeOK /\ TypeOK'
  BY NextTypes DEF UploadInv, Next, Loop, Ending, Faults, Others
<1>1. /\ phase \in {"running", "closing"} /\ phase' = "stopping"
      /\ UNCHANGED <<draining, emitted, taken, settled, frozen, alone, undelivered, refused,
                     closed, exited, post, zombies>>
      /\ UNCHANGED <<status, reason, stored, tally, reported, flag, late, overwritten>>
  BY <1>0
     DEF Interrupt, GoOn, stream, platform, dispatcher, row, data, wire, lost, plan, queue,
         batch, verdicts
<1>2. Origin' /\ LoopPost' /\ AloneBad' /\ OneBatch' /\ Delivered' /\ Exit' /\ Done' /\ Ended'
  BY <1>1
     DEF UploadInv, Origin, Requests, LoopPost, Batch, AloneBad, OneBatch,
         Delivered, Known, Exit, Done, Whole, Ended
<1> QED BY <1>0, <1>2 DEF UploadInv

LEMMA EndSkippedKeeps ==
  ASSUME UploadInv, EndSkipped
  PROVE  UploadInv'
<1>0. TypeOK /\ TypeOK'
  BY NextTypes DEF UploadInv, Next, Loop, Ending, Faults, Others
<1>1. /\ phase \in {"ending", "stopping"} /\ phase' = "ended"
      /\ UNCHANGED <<draining, emitted, taken, settled, frozen, alone, undelivered, refused,
                     closed, exited, post, zombies>>
      /\ UNCHANGED <<status, reason, stored, tally, reported, flag, late, overwritten>>
  BY <1>0
     DEF EndSkipped, GoOn, stream, platform, dispatcher, row, data, wire, lost, plan, queue,
         batch, verdicts
<1>2. Origin' /\ LoopPost' /\ AloneBad' /\ OneBatch' /\ Delivered' /\ Exit' /\ Done' /\ Ended'
  BY <1>1
     DEF UploadInv, Origin, Requests, LoopPost, Batch, AloneBad, OneBatch,
         Delivered, Known, Exit, Done, Whole, Ended
<1> QED BY <1>0, <1>2 DEF UploadInv

LEMMA SendEndKeeps ==
  ASSUME UploadInv, SendEnd
  PROVE  UploadInv'
<1>0. TypeOK /\ TypeOK'
  BY NextTypes DEF UploadInv, Next, Loop, Ending, Faults, Others
<1>1. /\ phase \in {"ending", "stopping"} /\ post.by = "none"
      /\ post' = [by |-> "direct", evs |-> {IF phase = "ending" THEN DONE ELSE STOP}, at |-> "wire"]
      /\ UNCHANGED <<phase, draining, emitted, taken, settled, frozen, alone, undelivered, refused,
                     closed, exited, zombies>>
      /\ UNCHANGED <<status, reason, stored, tally, reported, flag, late, overwritten>>
  BY <1>0
     DEF SendEnd, Posted, stream, platform, dispatcher, row, data, wire, lost, plan, queue,
         batch, verdicts
<1>2. LoopPost' /\ AloneBad' /\ OneBatch' /\ Delivered' /\ Exit' /\ Ended'
  BY <1>1
     DEF UploadInv, LoopPost, Batch, AloneBad, OneBatch, Delivered, Known, Exit,
         Ended
<1>3. Origin'
  BY <1>1, <1>0, Numbers, Ends DEF UploadInv, Origin, Requests
<1>4. Done'
  BY <1>1, <1>0, Numbers, Ends DEF UploadInv, Done, Whole, Known, Requests
<1> QED BY <1>0, <1>2, <1>3, <1>4 DEF UploadInv

LEMMA EndSentKeeps ==
  ASSUME UploadInv, EndSent
  PROVE  UploadInv'
<1>0. TypeOK /\ TypeOK'
  BY NextTypes DEF UploadInv, Next, Loop, Ending, Faults, Others
<1>1. /\ post.by = "direct" /\ post' = [by |-> "none", evs |-> {}, at |-> "none"] /\ phase' = "ended"
      /\ UNCHANGED <<draining, emitted, taken, settled, frozen, alone, undelivered, refused,
                     closed, exited, zombies>>
      /\ UNCHANGED <<status, reason, stored, tally, reported, flag, late, overwritten>>
  BY <1>0
     DEF NoPost, EndSent, Answered, GoOn, stream, platform, dispatcher, row, data, wire, lost,
         plan, queue, batch, verdicts
<1>2. Origin' /\ LoopPost' /\ AloneBad' /\ Delivered' /\ Exit' /\ Done' /\ Ended'
  BY <1>1
     DEF UploadInv, Origin, Requests, LoopPost, Batch, AloneBad, Delivered, Known,
         Exit, Done, Whole, Ended
<1>3. OneBatch'
  BY <1>1 DEF UploadInv, OneBatch, Batch, Exit
<1> QED BY <1>0, <1>2, <1>3 DEF UploadInv

\* Requests that are given up, and may linger.
LEMMA GoneKeeps ==
  ASSUME UploadInv, Gone
  PROVE  UploadInv'
<1>0. TypeOK /\ TypeOK'
  BY NextTypes DEF UploadInv, Next, Loop, Ending, Faults, Others
<1>1. /\ phase # "gone" /\ phase' = "gone"
      /\ post' = [by |-> "none", evs |-> {}, at |-> "none"]
      /\ (zombies' = zombies \/ zombies' = zombies \cup {[no |-> 0, evs |-> post.evs]})
      /\ UNCHANGED <<draining, emitted, taken, settled, frozen, alone, undelivered, refused,
                     closed, exited>>
      /\ UNCHANGED <<status, reason, stored, tally, reported, flag, late, overwritten>>
  BY <1>0
     DEF Gone, GoOn, MayLinger, NoPost, stream, platform, dispatcher, row, data, wire, lost,
         plan, queue, batch, verdicts
<1>b. post.by # "loop" => post.evs \cap Batch = {}
  BY <1>0, Numbers DEF UploadInv, Origin, Batch, Events
<1>c. Batch' = Batch
  BY <1>1 DEF Batch
<1>2. Origin' /\ LoopPost' /\ AloneBad' /\ Delivered' /\ Exit' /\ Done' /\ Ended'
  BY <1>1
     DEF UploadInv, Origin, Requests, LoopPost, Batch, AloneBad, Delivered, Known,
         Exit, Done, Whole, Ended
<1>3. OneBatch'
  BY <1>1, <1>b, <1>c DEF UploadInv, OneBatch, LoopPost, AloneBad
<1> QED BY <1>0, <1>2, <1>3 DEF UploadInv

LEMMA EndFailsKeeps ==
  ASSUME UploadInv, EndFails
  PROVE  UploadInv'
<1>0. TypeOK /\ TypeOK'
  BY NextTypes DEF UploadInv, Next, Loop, Ending, Faults, Others
<1>1. /\ post.by = "direct" /\ phase' \in {phase, "ended"}
      /\ (undelivered => undelivered')
      /\ post' = [by |-> "none", evs |-> {}, at |-> "none"]
      /\ (zombies' = zombies \/ zombies' = zombies \cup {[no |-> faults + 1, evs |-> post.evs]})
      /\ UNCHANGED <<draining, emitted, taken, settled, frozen, alone, refused, closed, exited>>
      /\ UNCHANGED <<status, reason, stored, tally, reported, flag, late, overwritten>>
  BY <1>0
     DEF EndFails, Failed, MayLinger, NoPost, Dropped, stream, platform, dispatcher, row, data,
         wire, lost, plan, queue, batch, verdicts
<1>b. post.by # "loop" => post.evs \cap Batch = {}
  BY <1>0, Numbers DEF UploadInv, Origin, Batch, Events
<1>c. Batch' = Batch
  BY <1>1 DEF Batch
<1>2. Origin' /\ LoopPost' /\ AloneBad' /\ Delivered' /\ Exit' /\ Done' /\ Ended'
  BY <1>1
     DEF UploadInv, Origin, Requests, LoopPost, Batch, AloneBad, Delivered, Known,
         Exit, Done, Whole, Ended
<1>3. OneBatch'
  BY <1>1, <1>b, <1>c DEF UploadInv, OneBatch, Exit
<1> QED BY <1>0, <1>2, <1>3 DEF UploadInv

\* The platform closed the run: everything left is dropped.
LEMMA RunClosedKeeps ==
  ASSUME UploadInv, RunClosed
  PROVE  UploadInv'
<1>0. TypeOK /\ TypeOK'
  BY NextTypes DEF UploadInv, Next, Loop, Ending, Faults, Others
<1>1. /\ post.by = "loop"
      /\ settled' = emitted /\ taken' = emitted
      /\ undelivered' /\ closed' /\ draining' /\ ~frozen' /\ ~alone'
      /\ post' = [by |-> "none", evs |-> {}, at |-> "none"]
      /\ UNCHANGED <<phase, emitted, refused, exited, zombies>>
      /\ UNCHANGED <<status, reason, stored, tally, reported, flag, late, overwritten>>
  BY <1>0
     DEF RunClosed, Answered, Disable, NoPost, stream, platform, dispatcher, row, data, wire,
         lost, plan, queue, batch, verdicts
<1>b. Batch' = {}
  BY <1>0, <1>1, Numbers DEF Batch
<1>2. LoopPost' /\ AloneBad' /\ Delivered' /\ Exit' /\ Done' /\ Ended'
  BY <1>1
     DEF UploadInv, LoopPost, Batch, AloneBad, Delivered, Known, Exit, Done,
         Whole, Requests, Ended
<1>3. Origin'
  BY <1>1, <1>0, Numbers DEF UploadInv, Origin, Requests
<1>4. OneBatch'
  BY <1>b DEF OneBatch
<1> QED BY <1>0, <1>2, <1>3, <1>4 DEF UploadInv

LEMMA EndClosedKeeps ==
  ASSUME UploadInv, EndClosed
  PROVE  UploadInv'
<1>0. TypeOK /\ TypeOK'
  BY NextTypes DEF UploadInv, Next, Loop, Ending, Faults, Others
<1>1. /\ post.by = "direct" /\ phase' = "ended"
      /\ settled' = emitted /\ taken' = emitted
      /\ undelivered' /\ closed' /\ draining' /\ ~frozen' /\ ~alone'
      /\ post' = [by |-> "none", evs |-> {}, at |-> "none"]
      /\ UNCHANGED <<emitted, refused, exited, zombies>>
      /\ UNCHANGED <<status, reason, stored, tally, reported, flag, late, overwritten>>
  BY <1>0
     DEF EndClosed, Answered, Disable, NoPost, stream, platform, dispatcher, row, data, wire,
         lost, plan, queue, batch, verdicts
<1>b. Batch' = {}
  BY <1>0, <1>1, Numbers DEF Batch
<1>2. LoopPost' /\ AloneBad' /\ Delivered' /\ Exit' /\ Done' /\ Ended'
  BY <1>1
     DEF UploadInv, LoopPost, Batch, AloneBad, Delivered, Known, Exit, Done,
         Whole, Requests, Ended
<1>3. Origin'
  BY <1>1, <1>0, Numbers DEF UploadInv, Origin, Requests
<1>4. OneBatch'
  BY <1>b DEF OneBatch
<1> QED BY <1>0, <1>2, <1>3, <1>4 DEF UploadInv

\* The answers of the loop's requests: what is settled by them has its verdict, or is dropped.
LEMMA BatchFailsKeeps ==
  ASSUME UploadInv, BatchFails
  PROVE  UploadInv'
<1>0. TypeOK /\ TypeOK'
  BY NextTypes DEF UploadInv, Next, Loop, Ending, Faults, Others
<1>a. /\ post.by = "loop" => settled < taken /\ ~exited /\ ~closed /\ phase # "gone"
      /\ post.by = "loop" => post.evs = IF alone THEN {settled + 1} ELSE Batch
      /\ alone => Batch \subseteq Bad
  BY DEF UploadInv, LoopPost, AloneBad
<1>1. /\ post.by = "loop" /\ ~alone
      /\ \/ undelivered' /\ settled' = taken /\ ~frozen'
         \/ undelivered' = undelivered /\ settled' = settled /\ frozen'
      /\ post' = [by |-> "none", evs |-> {}, at |-> "none"]
      /\ (zombies' = zombies \/ zombies' = zombies \cup {[no |-> faults + 1, evs |-> post.evs]})
      /\ UNCHANGED <<phase, draining, emitted, taken, alone, refused, closed, exited>>
      /\ UNCHANGED <<status, reason, stored, tally, reported, flag, late, overwritten>>
  <2>1. /\ post.by = "loop" /\ ~alone
        /\ post' = [by |-> "none", evs |-> {}, at |-> "none"]
        /\ (zombies' = zombies \/ zombies' = zombies \cup {[no |-> faults + 1, evs |-> post.evs]})
        /\ UNCHANGED <<phase, draining, emitted, taken, alone, refused, closed, exited>>
        /\ UNCHANGED <<status, reason, stored, tally, reported, flag, late, overwritten>>
    BY
       DEF BatchFails, Failed, MayLinger, NoPost, stream, platform, dispatcher, row, data, wire,
           lost, plan, queue, batch, verdicts
  <2>2. CASE draining /\ MoreFails = GiveUp
    <3>1. undelivered' = TRUE /\ settled' = taken /\ frozen' = FALSE
      BY <2>2 DEF BatchFails, Dropped
    <3> QED BY <2>1, <3>1
  <2>3. CASE ~(draining /\ MoreFails = GiveUp)
    <3>1. undelivered' = undelivered /\ settled' = settled /\ frozen' = TRUE
      BY <2>3 DEF BatchFails, Dropped
    <3> QED BY <2>1, <3>1
  <2> QED BY <2>2, <2>3
<1>b. Batch' = {} \/ (Batch' = Batch /\ frozen')
  BY <1>0, <1>1, Batches
<1>2. Origin' /\ LoopPost' /\ Ended'
  BY <1>1 DEF UploadInv, Origin, Requests, LoopPost, Batch, Ended
<1>3. AloneBad'
  BY <1>0, <1>1, <1>a, <1>b, Numbers DEF AloneBad
<1>4. OneBatch'
  BY <1>1, <1>a, <1>b DEF UploadInv, OneBatch
<1>5. Delivered'
  BY <1>1, <1>a, <1>b DEF UploadInv, LoopPost, Delivered, Known
<1>6. Exit'
  BY <1>1, <1>a DEF UploadInv, Exit
<1>7. Done'
  BY <1>1, <1>a DEF UploadInv, Done, Whole, Requests
<1> QED BY <1>0, <1>2, <1>3, <1>4, <1>5, <1>6, <1>7 DEF UploadInv

LEMMA AloneFailsKeeps ==
  ASSUME UploadInv, AloneFails
  PROVE  UploadInv'
<1>0. TypeOK /\ TypeOK'
  BY NextTypes DEF UploadInv, Next, Loop, Ending, Faults, Others
<1>a. /\ post.by = "loop" => settled < taken /\ ~exited /\ ~closed /\ phase # "gone"
      /\ post.by = "loop" => post.evs = IF alone THEN {settled + 1} ELSE Batch
      /\ alone => Batch \subseteq Bad
  BY DEF UploadInv, LoopPost, AloneBad
<1>1. /\ post.by = "loop" /\ alone
      /\ \/ /\ undelivered' /\ settled' = settled + 1
            /\ (alone' => settled + 1 < taken) /\ (~alone' => settled + 1 = taken)
         \/ undelivered' = undelivered /\ settled' = settled /\ alone'
      /\ post' = [by |-> "none", evs |-> {}, at |-> "none"]
      /\ (zombies' = zombies \/ zombies' = zombies \cup {[no |-> faults + 1, evs |-> post.evs]})
      /\ UNCHANGED <<phase, draining, emitted, taken, refused, closed, exited>>
      /\ UNCHANGED <<status, reason, stored, tally, reported, flag, late, overwritten>>
  <2>1. /\ post.by = "loop" /\ alone
        /\ post' = [by |-> "none", evs |-> {}, at |-> "none"]
        /\ (zombies' = zombies \/ zombies' = zombies \cup {[no |-> faults + 1, evs |-> post.evs]})
        /\ UNCHANGED <<phase, draining, emitted, taken, refused, closed, exited>>
        /\ UNCHANGED <<status, reason, stored, tally, reported, flag, late, overwritten>>
    BY
       DEF AloneFails, Failed, MayLinger, NoPost, stream, platform, dispatcher, row, data, wire,
           lost, plan, queue, batch, verdicts
  <2>2. CASE again
    <3>1. NextAlone /\ undelivered' = TRUE
      BY <2>2 DEF AloneFails, Dropped
    <3> QED BY <1>0, <1>a, <2>1, <3>1, NextOne
  <2>3. CASE ~again
    <3>1. undelivered' = undelivered /\ settled' = settled /\ alone' = alone
      BY <2>3 DEF AloneFails
    <3> QED BY <2>1, <3>1
  <2> QED BY <2>2, <2>3
<1>b. Batch' \subseteq Batch /\ (~alone' => Batch' = {}) /\ (alone' => settled' < taken)
  BY <1>0, <1>1, <1>a, Batches
<1>2. Origin' /\ LoopPost' /\ Ended'
  BY <1>1 DEF UploadInv, Origin, Requests, LoopPost, Batch, Ended
<1>3. AloneBad'
  BY <1>0, <1>1, <1>a, <1>b, Numbers DEF AloneBad
<1>4. OneBatch'
  BY <1>1, <1>a, <1>b DEF UploadInv, OneBatch
<1>5. Delivered'
  BY <1>1, <1>a, <1>b DEF UploadInv, LoopPost, Delivered, Known
<1>6. Exit'
  BY <1>1, <1>a DEF UploadInv, Exit
<1>7. Done'
  BY <1>1, <1>a DEF UploadInv, Done, Whole, Requests
<1> QED BY <1>0, <1>2, <1>3, <1>4, <1>5, <1>6, <1>7 DEF UploadInv

LEMMA AcceptedKeeps ==
  ASSUME UploadInv, Accepted
  PROVE  UploadInv'
<1>0. TypeOK /\ TypeOK'
  BY NextTypes DEF UploadInv, Next, Loop, Ending, Faults, Others
<1>a. /\ post.by = "loop" => settled < taken /\ ~exited /\ ~closed /\ phase # "gone"
      /\ post.by = "loop" => post.evs = IF alone THEN {settled + 1} ELSE Batch
      /\ alone => Batch \subseteq Bad
  BY DEF UploadInv, LoopPost, AloneBad
<1>1. /\ post.by = "loop" /\ post.at = "ok"
      /\ refused' = refused \cup (post.evs \cap Bad)
      /\ post' = [by |-> "none", evs |-> {}, at |-> "none"]
      /\ alone => /\ settled' = settled + 1
                  /\ (alone' => settled + 1 < taken) /\ (~alone' => settled + 1 = taken)
      /\ ~alone => settled' = taken /\ ~alone' /\ ~frozen'
      /\ UNCHANGED <<phase, draining, emitted, taken, undelivered, closed, exited, zombies>>
      /\ UNCHANGED <<status, reason, stored, tally, reported, flag, late, overwritten>>
  <2>1. /\ post.by = "loop" /\ post.at = "ok"
        /\ refused' = refused \cup (post.evs \cap Bad)
        /\ post' = [by |-> "none", evs |-> {}, at |-> "none"]
        /\ UNCHANGED <<phase, draining, emitted, taken, undelivered, closed, exited, zombies>>
        /\ UNCHANGED <<status, reason, stored, tally, reported, flag, late, overwritten>>
    BY
       DEF Accepted, Answered, NoPost, Refusals, stream, platform, dispatcher, row, data, wire,
           lost, plan, queue, batch, verdicts
  <2>2. CASE alone
    <3>1. NextAlone
      BY <2>2 DEF Accepted
    <3> QED BY <1>0, <1>a, <2>1, <2>2, <3>1, NextOne
  <2>3. CASE ~alone
    <3>1. settled' = taken /\ alone' = alone /\ frozen' = FALSE
      BY <2>3 DEF Accepted
    <3> QED BY <2>1, <2>3, <3>1
  <2> QED BY <2>2, <2>3
<1>b. /\ Batch' \subseteq Batch /\ (~alone' => Batch' = {}) /\ (alone' => alone /\ settled' < taken)
      /\ 1 .. settled' = (1 .. settled) \cup post.evs
  <2>1. CASE alone
    BY <1>0, <1>1, <1>a, <2>1, Batches
  <2>2. CASE ~alone
    BY <1>0, <1>1, <1>a, <2>2, Batches
  <2> QED BY <2>1, <2>2
<1>2. Origin' /\ LoopPost' /\ Ended'
  BY <1>1 DEF UploadInv, Origin, Requests, LoopPost, Batch, Ended
<1>3. AloneBad'
  BY <1>0, <1>1, <1>a, <1>b, Numbers DEF AloneBad
<1>4. OneBatch'
  BY <1>1, <1>a, <1>b DEF UploadInv, OneBatch
<1>5. Delivered'
  BY <1>1, <1>a, <1>b DEF UploadInv, LoopPost, Delivered, Known
<1>6. Exit'
  BY <1>1, <1>a DEF UploadInv, Exit
<1>7. Done'
  BY <1>1, <1>a DEF UploadInv, Done, Whole, Requests
<1> QED BY <1>0, <1>2, <1>3, <1>4, <1>5, <1>6, <1>7 DEF UploadInv

LEMMA InvalidKeeps ==
  ASSUME UploadInv, Invalid
  PROVE  UploadInv'
<1>0. TypeOK /\ TypeOK'
  BY NextTypes DEF UploadInv, Next, Loop, Ending, Faults, Others
<1>a. /\ post.by = "loop" => settled < taken /\ ~exited /\ ~closed /\ phase # "gone"
      /\ post.by = "loop" => post.evs = IF alone THEN {settled + 1} ELSE Batch
      /\ alone => Batch \subseteq Bad
  BY DEF UploadInv, LoopPost, AloneBad
<1>1. /\ post.by = "loop" /\ post.at = "invalid"
      /\ post' = [by |-> "none", evs |-> {}, at |-> "none"]
      /\ alone => refused' = refused \cup post.evs
      /\ alone => /\ settled' = settled + 1
                  /\ (alone' => settled + 1 < taken) /\ (~alone' => settled + 1 = taken)
      /\ ~alone => refused' = refused /\ settled' = settled /\ alone'
      /\ UNCHANGED <<phase, draining, emitted, taken, undelivered, closed, exited, zombies>>
      /\ UNCHANGED <<status, reason, stored, tally, reported, flag, late, overwritten>>
  <2>1. /\ post.by = "loop" /\ post.at = "invalid"
        /\ post' = [by |-> "none", evs |-> {}, at |-> "none"]
        /\ UNCHANGED <<phase, draining, emitted, taken, undelivered, closed, exited, zombies>>
        /\ UNCHANGED <<status, reason, stored, tally, reported, flag, late, overwritten>>
    BY
       DEF Invalid, Answered, NoPost, stream, platform, dispatcher, row, data, wire, lost, plan,
           queue, batch, verdicts
  <2>2. CASE alone
    <3>1. NextAlone /\ refused' = refused \cup post.evs
      BY <2>2 DEF Invalid
    <3> QED BY <1>0, <1>a, <2>1, <2>2, <3>1, NextOne
  <2>3. CASE ~alone
    <3>1. refused' = refused /\ settled' = settled /\ alone' = TRUE
      BY <2>3 DEF Invalid
    <3> QED BY <2>1, <2>3, <3>1
  <2> QED BY <2>2, <2>3
<1>b. /\ Batch' \subseteq Batch /\ (~alone' => Batch' = {}) /\ (alone' => settled' < taken)
      /\ alone => 1 .. settled' = (1 .. settled) \cup post.evs
      /\ ~alone => post.evs = Batch
  <2>1. CASE alone
    BY <1>0, <1>1, <1>a, <2>1, Batches
  <2>2. CASE ~alone
    BY <1>0, <1>1, <1>a, <2>2, Batches
  <2> QED BY <2>1, <2>2
<1>2. Origin' /\ LoopPost' /\ Ended'
  BY <1>1 DEF UploadInv, Origin, Requests, LoopPost, Batch, Ended
<1>3. AloneBad'
  BY <1>0, <1>1, <1>a, <1>b, Numbers DEF UploadInv, LoopPost, AloneBad
<1>4. OneBatch'
  BY <1>1, <1>a, <1>b DEF UploadInv, OneBatch, LoopPost
<1>5. Delivered'
  BY <1>1, <1>a, <1>b DEF UploadInv, LoopPost, Delivered, Known
<1>6. Exit'
  BY <1>1, <1>a DEF UploadInv, Exit
<1>7. Done'
  BY <1>1, <1>a DEF UploadInv, Done, Whole, Requests
<1> QED BY <1>0, <1>2, <1>3, <1>4, <1>5, <1>6, <1>7 DEF UploadInv

\* What else writes the row leaves the events alone.  None of it ends or times out a run
\* that stands, but the close-out, which is remembered.
LEMMA OthersKeep ==
  ASSUME UploadInv, Others
  PROVE  UploadInv'
<1>0. TypeOK /\ TypeOK'
  BY NextTypes DEF UploadInv, Next
<1>1. /\ UNCHANGED <<phase, draining, emitted, taken, settled, frozen, alone, undelivered>>
      /\ UNCHANGED <<refused, closed, exited, post, zombies>>
      /\ UNCHANGED <<stored, tally, reported, flag, late>>
  BY DEF Others, LeaseTimeout, ForceStop, CancelRun, Submit, Withdraw, Outside, CloseOutReads,
         CloseOutWrites, stream, wire, lost, data, row, plan, queue, batch, verdicts
<1>3. Ended'
  <2>0. Ended
    BY DEF UploadInv
  <2>1. CASE LeaseTimeout \/ ForceStop \/ CancelRun
    <3>1. /\ status' = "STOPPED" /\ (status # "RUNNING" => reason' \notin SoftReasons)
          /\ UNCHANGED overwritten
      BY <2>1 DEF LeaseTimeout, ForceStop, CancelRun, Outside, Become, SoftReasons, dispatcher
    <3> QED BY <1>1, <2>0, <3>1 DEF Ended
  <2>2. CASE Submit \/ Withdraw
    <3>1. status' # "RUNNING" /\ UNCHANGED <<reason, overwritten>>
      BY <2>2 DEF Submit, Withdraw, Outside, Become, dispatcher
    <3> QED BY <1>1, <2>0, <3>1 DEF Ended
  <2>3. CASE CloseOutReads
    BY <1>1, <2>0, <2>3 DEF CloseOutReads, row, Ended
  <2>4. CASE CloseOutWrites
    <3>1. \/ status' = "COMPLETED" /\ reason' = "none"
          \/ Received(stored) # Total
          \/ UNCHANGED <<status, reason>>
      BY <2>4 DEF CloseOutWrites, Become
    <3>2. (overwritten => overwritten')
          /\ (DONE \in stored /\ Received(stored) # Total => overwritten')
      BY <2>4 DEF CloseOutWrites
    <3> QED BY <1>1, <2>0, <3>1, <3>2 DEF Ended, SoftReasons
  <2> QED BY <2>1, <2>2, <2>3, <2>4 DEF Others
<1>4. Origin'
  BY <1>1 DEF UploadInv, Origin, Requests
<1>5. LoopPost'
  BY <1>1 DEF UploadInv, LoopPost, Batch
<1>6. AloneBad' /\ OneBatch' /\ Exit'
  BY <1>1 DEF UploadInv, AloneBad, OneBatch, Exit, Batch
<1>7. Delivered'
  BY <1>1 DEF UploadInv, Delivered, Known
<1>8. Done'
  BY <1>1 DEF UploadInv, Done, Whole, Known, Requests
<1> QED BY <1>0, <1>3, <1>4, <1>5, <1>6, <1>7, <1>8 DEF UploadInv

\* What a request that is served does to the row.
LEMMA IngestKeeps ==
  ASSUME UploadInv, NEW r \in Requests, Ingest(r), UNCHANGED <<stream, dispatcher>>
  PROVE  /\ stored \subseteq stored' /\ stored' \subseteq stored \cup (r \ Bad)
         /\ Ended'
         /\ late' => undelivered
         /\ Whole => ~late'
         /\ DONE \in stored' /\ refused # {} => reported' /\ flag'
         /\ \/ (Batch \ Beats) \cap stored' = {}
            \/ Batch \ Beats \subseteq stored' \cup Bad
<1>0. TypeOK /\ Origin /\ LoopPost /\ AloneBad /\ OneBatch /\ Delivered /\ Done /\ Ended
  BY DEF UploadInv
<1>a. UNCHANGED overwritten
  BY DEF dispatcher
<1>1. CASE UNCHANGED row
  <2>1. UNCHANGED <<stored, tally, reported, flag, late, status, reason>>
    BY <1>1 DEF row, data
  <2> QED BY <1>0, <1>a, <2>1 DEF Ended, Delivered, Done, Whole, OneBatch
<1>3. CASE OnlyBeats(r) /\ Beat(r)
  <2>1. r \subseteq Beats /\ r \cap Bad = {} /\ DONE \notin r
    BY <1>3, Ends, UploadAssumption DEF OnlyBeats, Beats, ItemEvents
  <2>2. UNCHANGED <<status, reason, tally, reported, flag, late>>
        /\ stored' \in {stored, stored \cup r}
    BY <1>3 DEF Beat
  <2>3. /\ DONE \in stored' => DONE \in stored
        /\ (Batch \ Beats) \cap stored' = (Batch \ Beats) \cap stored
    BY <2>1, <2>2
  <2>4. Ended'
    BY <1>0, <1>a, <2>2, <2>3 DEF Ended
  <2> QED BY <1>0, <2>1, <2>2, <2>3, <2>4 DEF Delivered, Done, Whole, OneBatch
<1>2. CASE Apply(r) /\ ~InReview
  <2>1. stored' = stored \cup (r \ Bad) /\ r \cap Events \subseteq 1 .. taken
        /\ New(r) = (r \ stored) \ Bad
    BY <1>0, <1>2 DEF Apply, New, Fresh, Origin
  <2>2. DONE \in stored \cup r => Whole
    BY <1>0 DEF Done
  <2>3. Whole => New(r) \cap ItemEvents = {}
    BY <1>0, <2>1, Numbers DEF Whole, Known, ItemEvents, TypeOK
  <2>5. Whole => ~late'
    BY <1>2, <2>3 DEF Apply, Whole
  <2>6. late' => undelivered
    <3> SUFFICES ASSUME ~undelivered, late' PROVE FALSE
      OBVIOUS
    <3>1. ~late /\ Known(1 .. settled)
      BY <1>0 DEF Delivered
    <3>2. PICK e \in New(r) \cap ItemEvents, f \in stored \cap ItemEvents : e <= f
      BY <1>2, <3>1 DEF Apply
    <3>3. e \in 1 .. taken /\ f \in 1 .. taken
      BY <1>0, <2>1 DEF Origin, ItemEvents
    <3>4. e \notin 1 .. settled
      BY <1>0, <2>1, <3>1 DEF Known, ItemEvents, TypeOK
    <3>5. e \in Batch \ Beats /\ f \in Batch \ Beats
      BY <1>0, <3>2, <3>3, <3>4, Numbers DEF Batch, ItemEvents
    <3> QED BY <1>0, <2>1, <3>2, <3>5 DEF OneBatch
  <2>7. DONE \in stored' /\ refused # {} => reported' /\ flag'
    <3> SUFFICES ASSUME DONE \in stored', refused # {} PROVE reported' /\ flag'
      OBVIOUS
    <3>1. CASE DONE \in stored
      <4>1. reported /\ flag
        BY <1>0, <3>1 DEF Done
      <4>2. reported'
        BY <1>2, <4>1 DEF Apply
      <4> QED BY <1>2, <4>1, <4>2 DEF Apply, Refresh, Incomplete
    <3>2. CASE DONE \in New(r)
      <4>1. reported'
        BY <1>2, <3>2 DEF Apply, SaysRefused
      <4> QED BY <1>2, <3>2, <4>1 DEF Apply, Refresh, Incomplete
    <3> QED BY <2>1, <3>1, <3>2, Ends DEF Events
  <2>8. Ended'
    <3> SUFFICES ASSUME DONE \in stored', ~overwritten
                 PROVE  status' # "RUNNING" /\ reason' \notin SoftReasons
      BY <1>a DEF Ended
    <3>1. DONE \in stored \/ DONE \in New(r)
      BY <2>1
    <3>2. DONE \in stored => status # "RUNNING" /\ reason \notin SoftReasons
      BY <1>0 DEF Ended
    <3>3. CASE /\ {DONE, STOP} \cap New(r) # {}
               /\ MayEnd(IF DONE \in New(r) THEN "COMPLETED" ELSE "STOPPED")
      BY <1>2, <3>3 DEF Apply, Advance, Become, SoftReasons
    <3>4. CASE ~(/\ {DONE, STOP} \cap New(r) # {}
                 /\ MayEnd(IF DONE \in New(r) THEN "COMPLETED" ELSE "STOPPED"))
      <4>1. status # "RUNNING" /\ ~Soft /\ (status = "STOPPED" => reason \notin SoftReasons)
        BY <3>1, <3>2, <3>4 DEF MayEnd, Soft
      <4>2. UNCHANGED <<status, reason>>
        BY <1>2, <3>4, <4>1 DEF Apply, Advance, StaysLive
      <4>3. reason \notin SoftReasons
        BY <3>1, <3>2, <3>4, <4>1 DEF MayEnd
      <4> QED BY <4>1, <4>2, <4>3
    <3> QED BY <3>3, <3>4
  <2>9. \/ (Batch \ Beats) \cap stored' = {}
        \/ Batch \ Beats \subseteq stored' \cup Bad
    <3>1. CASE Batch \subseteq r \/ Batch \subseteq Bad
      BY <1>0, <2>1, <3>1 DEF OneBatch
    <3>2. CASE r \cap Batch = {}
      BY <1>0, <2>1, <3>2 DEF OneBatch
    <3>3. Batch \subseteq r \/ Batch \subseteq Bad \/ r \cap Batch = {}
      <4>1. CASE r = post.evs /\ post.by = "loop"
        BY <1>0, <4>1 DEF LoopPost, AloneBad
      <4>2. CASE r = post.evs /\ post.by # "loop"
        BY <1>0, <4>2, Numbers DEF Origin, Batch, Events
      <4>3. CASE r \in {z.evs : z \in zombies}
        BY <1>0, <4>3 DEF OneBatch
      <4> QED BY <4>1, <4>2, <4>3 DEF Requests
    <3> QED BY <3>1, <3>2, <3>3
  <2> QED BY <2>1, <2>5, <2>6, <2>7, <2>8, <2>9
<1> QED BY <1>1, <1>2, <1>3 DEF Ingest

LEMMA ServeKeeps ==
  ASSUME UploadInv, Serve
  PROVE  UploadInv'
<1>0. TypeOK /\ TypeOK'
  BY NextTypes DEF UploadInv, Next
<1>1. /\ UNCHANGED <<phase, draining, emitted, taken, settled, frozen, alone, undelivered>>
      /\ UNCHANGED <<refused, closed, exited, zombies, dispatcher>>
      /\ post.at = "wire" /\ post' = [post EXCEPT !.at = Answer(post.evs)]
      /\ Ingest(post.evs) /\ post.evs \in Requests /\ UNCHANGED stream
  BY DEF Serve, stream, lost, plan, queue, batch, verdicts, Requests
<1>2. /\ post'.by = post.by /\ post'.evs = post.evs /\ post'.at = Answer(post.evs)
      /\ Requests' = Requests /\ Batch' = Batch
  BY <1>0, <1>1 DEF TypeOK, Posts, Requests, Batch
<1>3. /\ stored \subseteq stored' /\ stored' \subseteq stored \cup (post.evs \ Bad)
      /\ Ended'
      /\ late' => undelivered
      /\ Whole => ~late'
      /\ DONE \in stored' /\ refused # {} => reported' /\ flag'
      /\ \/ (Batch \ Beats) \cap stored' = {}
         \/ Batch \ Beats \subseteq stored' \cup Bad
  BY <1>1, IngestKeeps
<1>4. Origin'
  BY <1>1, <1>2, <1>3 DEF UploadInv, Origin
<1>5. LoopPost'
  <2>1. CASE post.by = "loop" /\ Answer(post.evs) = "ok"
    <3>1. /\ ~Rejects(post.evs)
          /\ ~exited /\ ~closed /\ phase # "gone" /\ settled < taken
          /\ post.evs = IF alone THEN {settled + 1} ELSE Batch
      BY <2>1 DEF Answer, UploadInv, LoopPost
    <3>2. CASE InReview
      <4>1. post.evs \ Beats \subseteq stored \cup Bad
        BY <3>1, <3>2 DEF Rejects, New, Fresh
      <4> QED BY <1>1, <1>2, <1>3, <2>1, <3>1, <4>1 DEF LoopPost
    <3>3. CASE ~InReview /\ Apply(post.evs)
      <4>1. stored' = stored \cup (post.evs \ Bad)
        BY <3>3 DEF Apply, New, Fresh
      <4> QED BY <1>1, <1>2, <2>1, <3>1, <4>1 DEF LoopPost
    <3>4. CASE ~InReview /\ OnlyBeats(post.evs)
      <4>1. post.evs \ Beats = {}
        BY <3>4 DEF OnlyBeats
      <4> QED BY <1>1, <1>2, <2>1, <3>1, <4>1 DEF LoopPost
    <3> QED BY <1>1, <3>1, <3>2, <3>3, <3>4 DEF Ingest
  <2>2. CASE post.by = "loop" /\ Answer(post.evs) # "ok"
    <3>1. Answer(post.evs) = "invalid" => post.evs \subseteq Bad
      BY DEF Answer
    <3> QED BY <1>1, <1>2, <2>2, <3>1 DEF UploadInv, LoopPost
  <2>3. CASE post.by # "loop"
    BY <1>2, <2>3 DEF LoopPost
  <2> QED BY <2>1, <2>2, <2>3
<1>6. AloneBad' /\ Exit'
  BY <1>1, <1>2 DEF UploadInv, AloneBad, Exit
<1>7. OneBatch'
  <2>1. post.by # "loop" => post.evs \cap Batch = {}
    BY <1>0, Numbers DEF UploadInv, Origin, Batch, Events
  <2> QED BY <1>1, <1>2, <1>3, <2>1 DEF UploadInv, OneBatch
<1>8. Delivered'
  BY <1>1, <1>3 DEF UploadInv, Delivered, Known
<1>9. Done'
  <2>1. DONE \in stored' => DONE \in stored \cup post.evs
    BY <1>3
  <2>2. DONE \in stored' \/ phase = "ending" \/ (\E r \in Requests : DONE \in r) => Whole
    BY <1>1, <2>1 DEF UploadInv, Done
  <2> QED BY <1>1, <1>2, <1>3, <2>1, <2>2 DEF UploadInv, Done, Whole, Known
<1> QED BY <1>0, <1>3, <1>4, <1>5, <1>6, <1>7, <1>8, <1>9 DEF UploadInv

LEMMA ServeZombieKeeps ==
  ASSUME UploadInv, NEW z \in zombies, ServeZombie(z)
  PROVE  UploadInv'
<1>0. TypeOK /\ TypeOK'
  BY NextTypes DEF UploadInv, Next
<1>1. /\ UNCHANGED <<phase, draining, emitted, taken, settled, frozen, alone, undelivered>>
      /\ UNCHANGED <<refused, closed, exited, post, dispatcher>>
      /\ zombies' \subseteq zombies
      /\ Ingest(z.evs) /\ z.evs \in Requests /\ UNCHANGED stream
  BY DEF ServeZombie, stream, plan, queue, batch, verdicts, Requests
<1>2. Requests' \subseteq Requests /\ Batch' = Batch
  BY <1>1 DEF Requests, Batch
<1>3. /\ stored \subseteq stored' /\ stored' \subseteq stored \cup (z.evs \ Bad)
      /\ Ended'
      /\ late' => undelivered
      /\ Whole => ~late'
      /\ DONE \in stored' /\ refused # {} => reported' /\ flag'
      /\ \/ (Batch \ Beats) \cap stored' = {}
         \/ Batch \ Beats \subseteq stored' \cup Bad
  BY <1>1, IngestKeeps
<1>4. Origin'
  BY <1>1, <1>2, <1>3 DEF UploadInv, Origin
<1>5. LoopPost'
  BY <1>1, <1>2, <1>3 DEF UploadInv, LoopPost
<1>6. AloneBad' /\ Exit'
  BY <1>1, <1>2 DEF UploadInv, AloneBad, Exit
<1>7. OneBatch'
  BY <1>1, <1>2, <1>3 DEF UploadInv, OneBatch
<1>8. Delivered'
  BY <1>1, <1>3 DEF UploadInv, Delivered, Known
<1>9. Done'
  <2>1. DONE \in stored' \/ phase' = "ending" \/ (\E r \in Requests' : DONE \in r) => Whole
    BY <1>1, <1>2, <1>3 DEF UploadInv, Done
  <2> QED BY <1>1, <1>3, <2>1 DEF UploadInv, Done, Whole, Known
<1> QED BY <1>0, <1>3, <1>4, <1>5, <1>6, <1>7, <1>8, <1>9 DEF UploadInv

-----------------------------------------------------------------------------
LEMMA InitUploadInv == Init => UploadInv
<1> SUFFICES ASSUME Init PROVE UploadInv
  OBVIOUS
<1>1. TypeOK
  <2>1. NoPost \in Posts /\ GiveUp \in Nat /\ N \in Nat
    BY UploadAssumption DEF Posts, NoPost
  <2>2. /\ draining \in BOOLEAN /\ frozen \in BOOLEAN /\ alone \in BOOLEAN /\ again \in BOOLEAN
        /\ undelivered \in BOOLEAN /\ closed \in BOOLEAN /\ exited \in BOOLEAN
        /\ reported \in BOOLEAN /\ flag \in BOOLEAN /\ late \in BOOLEAN
        /\ closeOut \in BOOLEAN /\ overwritten \in BOOLEAN
    BY DEF Init
  <2> QED BY <2>1, <2>2 DEF Init, TypeOK, Statuses, Reasons
<1>2. Batch = {} /\ Requests = {{}} /\ 1 .. settled = {}
  BY DEF Init, Batch, NoPost, Requests
<1>3. Origin /\ LoopPost /\ AloneBad /\ OneBatch
  BY <1>2 DEF Init, Origin, LoopPost, AloneBad, OneBatch, NoPost
<1>4. Delivered /\ Exit /\ Done /\ Ended
  BY <1>2 DEF Init, Delivered, Known, Exit, Done, Ended, NoPost
<1> QED BY <1>1, <1>3, <1>4 DEF UploadInv

LEMMA NextUploadInv == UploadInv /\ [Next]_vars => UploadInv'
<1> SUFFICES ASSUME UploadInv, [Next]_vars PROVE UploadInv'
  OBVIOUS
<1>1. CASE UNCHANGED vars
  <2>1. TypeOK'
    BY NextTypes
  <2> QED BY <1>1, <2>1
        DEF UploadInv, Origin, LoopPost, AloneBad, OneBatch, Delivered, Exit, Done, Ended,
              Known,
            Whole, Requests, Batch, vars, stream, plan, queue, batch, verdicts, wire, lost,
            platform, dispatcher, row, data
<1>2. CASE Loop
  BY <1>2, TakeKeeps, SendKeeps, AcceptedKeeps, InvalidKeeps, RunClosedKeeps, LoopExitsKeeps
     DEF Loop
<1>3. CASE Ending
  BY <1>3, ClosedKeeps, SendEndKeeps, EndSentKeeps, EndClosedKeeps, EndSkippedKeeps DEF Ending
<1>4. CASE Faults
  BY <1>4, BatchFailsKeeps, AloneFailsKeeps, EndFailsKeeps, CloseGivesUpKeeps, InterruptKeeps,
     GoneKeeps DEF Faults
<1>5. CASE Emit \/ Close \/ Serve \/ (\E z \in zombies : ServeZombie(z)) \/ Others
  BY <1>5, EmitKeeps, CloseKeeps, ServeKeeps, ServeZombieKeeps, OthersKeep
<1> QED BY <1>1, <1>2, <1>3, <1>4, <1>5 DEF Next

\* The invariant that the properties below rest on: for every way in which requests get
\* lost, linger and are served, the events of items that the client counts as settled have
\* their verdict in the platform, and only a whole run can be on its way to completion
\* (UploadInv).  Of heartbeats it says nothing: they may be answered and not stored.
THEOREM UploadInductive == Spec => []UploadInv
<1>1. Init => UploadInv
  BY InitUploadInv
<1>2. UploadInv /\ [Next]_vars => UploadInv'
  BY NextUploadInv
<1> QED BY <1>1, <1>2, PTL DEF Spec

\* The variables of the client, the wire and the platform keep their types; the batch is
\* never behind what is settled, nor ahead of what was emitted.
THEOREM TypeCorrect == Spec => []TypeOK
<1>1. UploadInv => TypeOK
  BY DEF UploadInv
<1> QED BY <1>1, UploadInductive, PTL

\* A run that its client completed has every event of its items, or tells that some were
\* refused: the client sends run_completed only after flush, and reports its refusals.
THEOREM CompletedWhole == Spec => []CompletedIsWhole
<1>1. UploadInv => CompletedIsWhole
  <2> SUFFICES ASSUME UploadInv, DONE \in stored, NEW e \in (1 .. emitted) \ Beats
               PROVE  e \in stored \/ (e \in Bad /\ flag)
    BY DEF CompletedIsWhole
  <2>1. Known(1 .. emitted) /\ (refused # {} => flag) /\ refused \subseteq Bad
    BY DEF UploadInv, Done, Whole, TypeOK
  <2> QED BY <2>1 DEF Known
<1> QED BY <1>1, UploadInductive, PTL

\* A completed run was built from the events of its items once each and in order, whatever
\* the client sent again and however late an earlier request came to be served.
THEOREM InOrder == Spec => []AppliedInOrder
<1>1. UploadInv => AppliedInOrder
  BY DEF UploadInv, Done, Whole, AppliedInOrder
<1> QED BY <1>1, UploadInductive, PTL

\* Once run_completed is applied the run is neither live nor timed out: no late event, no
\* heartbeat the platform never stored and no lease can undo its end, unless a close-out
\* that found items missing has overwritten it before.
THEOREM EndStays == Spec => []EndStands
<1>1. UploadInv => EndStands
  BY DEF UploadInv, Ended, EndStands, SoftReasons
<1> QED BY <1>1, UploadInductive, PTL
=============================================================================
