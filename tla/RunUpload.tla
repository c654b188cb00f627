------------------------------ MODULE RunUpload ------------------------------
(***************************************************************************)
(* The upload of one run: the event stream of the SDK (sdk/qym/platform/    *)
(* client.py) and the end of the evaluation on one side; on the other the   *)
(* ingest of the platform, and whatever else writes the run's row: stale    *)
(* leases, admins, cancels, reviews, and the dispatcher's close-out.        *)
(* Requests get lost, are answered too late, and arrive after they were     *)
(* given up.  A transaction of the platform that writes the run's row holds *)
(* its lock and is one step, but for the close-out, which reads before it   *)
(* locks; heartbeats alone do not wait for the lock of a running run.       *)
(***************************************************************************)
EXTENDS Naturals, FiniteSets

CONSTANTS
  N,          \* how many events the evaluation emits, numbered in order
  NoItem,
  Item,       \* the item an event is about; NoItem for a heartbeat
  Bad,        \* the events the platform will refuse as invalid
  GiveUp,     \* CLOSE_GIVEUP_FAILURES
  SyncTries,  \* SYNC_SEND_RETRIES
  MaxFaults   \* bound: posts that fail, and close budgets that elapse

Events == 1 .. N
Beats == {e \in Events : Item[e] = NoItem}
ItemEvents == Events \ Beats
DONE == N + 1      \* run_completed, COMPLETED
STOP == N + 2      \* run_completed, STOPPED

ASSUME UploadAssumption ==
  /\ N \in Nat /\ GiveUp \in Nat \ {0} /\ SyncTries \in Nat \ {0} /\ MaxFaults \in Nat
  /\ DOMAIN Item = Events /\ Bad \subseteq ItemEvents

VARIABLES
  \* the evaluation and its stream
  phase,        \* of the evaluation: running, closing, ending, stopping, ended, gone
  draining,     \* _stop
  emitted, taken, settled,  \* events put, taken by the loop, and with a verdict
  frozen,       \* the batch is being retried
  alone,        \* _send_events_individually
  fails,        \* _consecutive_failures, up to GiveUp
  again,        \* the event sent alone has failed once
  tries,        \* of the event sent directly
  undelivered,  \* undelivered_events > 0
  refused,      \* rejected_events
  closed,       \* _remote_closed
  exited,       \* the loop has ended
  \* the wire
  post,         \* the request that holds _send_lock
  zombies,      \* requests the client no longer waits for
  faults,
  \* the platform
  status, reason,
  stored,       \* the events applied
  tally,        \* ingest_rejected: the events counted, once each
  reported,     \* ingest_rejected: the client reported refusals
  flag,         \* ingest_incomplete
  late,         \* history: an item's event was applied again, or after a later one
  closeOut,     \* the dispatcher has read an open run and not locked it yet
  overwritten   \* history: it then stopped a run that its client had completed meanwhile

plan == <<phase, draining, tries>>
queue == <<emitted, taken, settled>>
batch == <<frozen, alone, fails, again>>
verdicts == <<undelivered, refused, closed>>
stream == <<plan, queue, batch, verdicts, exited>>
lost == <<zombies, faults>>
wire == <<post, lost>>
data == <<stored, tally, reported, flag, late>>
row == <<status, reason, data>>
dispatcher == <<closeOut, overwritten>>
platform == <<row, dispatcher>>
vars == <<stream, wire, platform>>

NoPost == [by |-> "none", evs |-> {}, at |-> "none"]
Posts == [by : {"none", "loop", "direct"}, evs : SUBSET (1 .. N + 2),
          at : {"none", "wire", "ok", "invalid", "closed"}]
Statuses == {"RUNNING", "COMPLETED", "STOPPED", "REVIEW"}
SoftReasons == {"lease_timeout", "upload_incomplete"}
Reasons == SoftReasons \cup {"none", "admin_force_stopped", "cancelled_by_user"}

TypeOK ==
  /\ phase \in {"running", "closing", "ending", "stopping", "ended", "gone"}
  /\ emitted \in 0 .. N /\ taken \in 0 .. emitted /\ settled \in 0 .. taken
  /\ draining \in BOOLEAN /\ frozen \in BOOLEAN /\ alone \in BOOLEAN /\ again \in BOOLEAN
  /\ undelivered \in BOOLEAN /\ closed \in BOOLEAN /\ exited \in BOOLEAN
  /\ reported \in BOOLEAN /\ flag \in BOOLEAN /\ late \in BOOLEAN
  /\ closeOut \in BOOLEAN /\ overwritten \in BOOLEAN
  /\ fails \in 0 .. GiveUp /\ tries \in Nat /\ faults \in Nat
  /\ refused \subseteq Bad /\ tally \subseteq Bad
  /\ post \in Posts
  /\ zombies \subseteq [no : 0 .. MaxFaults, evs : SUBSET (1 .. N + 2)]
  /\ status \in Statuses /\ reason \in Reasons
  /\ stored \subseteq 1 .. N + 2

Init ==
  /\ phase = "running" /\ draining = FALSE
  /\ emitted = 0 /\ taken = 0 /\ settled = 0
  /\ frozen = FALSE /\ alone = FALSE /\ fails = 0 /\ again = FALSE /\ tries = 0
  /\ undelivered = FALSE /\ refused = {} /\ closed = FALSE /\ exited = FALSE
  /\ post = NoPost /\ zombies = {} /\ faults = 0
  /\ status = "RUNNING" /\ reason = "none"
  /\ stored = {} /\ tally = {} /\ reported = FALSE /\ flag = FALSE /\ late = FALSE
  /\ closeOut = FALSE /\ overwritten = FALSE

-----------------------------------------------------------------------------
\* What one request does to the row (_ingest_events_sync), and its answer.

Forced == reason = "admin_force_stopped"
InReview == status = "REVIEW"
Soft == status = "STOPPED" /\ reason \in SoftReasons
\* count(RunItem) and total_items.
Received(S) == {Item[e] : e \in S \cap ItemEvents}
Total == Received(Events)

\* Mutant: a redelivered event is not known.
FreshAll(evs) == evs
Fresh(evs) == evs \ stored

New(evs) == Fresh(evs) \ Bad
Refusals(evs) == evs \cap Bad

Rejects(evs) == Forced \/ (InReview /\ New(evs) \ Beats # {})
Answer(evs) ==
  IF Rejects(evs) THEN "closed" ELSE IF evs \subseteq Bad THEN "invalid" ELSE "ok"

\* mark_run_running
StaysLive == status = "RUNNING" \/ Soft
\* Mutant: a stop that the platform inferred is final, too.
MayEndRunning(end) == status # "STOPPED" \/ end = "STOPPED"
\* mark_run_terminal: a stop the platform did not infer is replaced by a stop only.
MayEnd(end) == status # "STOPPED" \/ Soft \/ end = "STOPPED"

\* _refresh_ingest_flag
Incomplete == tally' # {} \/ reported' \/ Received(stored') # Total
\* completed_by_client
Completed == /\ status' \in {"COMPLETED", "STOPPED"}
             /\ reason' \notin {"lease_timeout", "admin_force_stopped"}

Refresh(evs) ==
  flag' = IF \/ {DONE, STOP} \cap New(evs) # {}
             \/ flag
             \/ ~(Refusals(evs) \subseteq tally) /\ Completed
          THEN Incomplete ELSE flag

\* record_reported_rejections
SaysRefused(evs) == DONE \in New(evs) /\ refused # {}

Become(s, r) == status' = s /\ reason' = r
Advance(evs) ==
  LET end == IF DONE \in New(evs) THEN "COMPLETED" ELSE "STOPPED" IN
  IF {DONE, STOP} \cap New(evs) # {} /\ MayEnd(end) THEN Become(end, "none")
  ELSE IF New(evs) \cap Events # {} /\ StaysLive THEN Become("RUNNING", "none")
  ELSE UNCHANGED <<status, reason>>

Apply(evs) ==
  /\ stored' = stored \cup New(evs)
  /\ tally' = tally \cup Refusals(evs)
  /\ reported' = (reported \/ SaysRefused(evs))
  /\ late' = (late \/ \E e \in New(evs) \cap ItemEvents, f \in stored \cap ItemEvents : e <= f)
  /\ Advance(evs)
  /\ Refresh(evs)

\* _heartbeat_fast_path: heartbeats alone, for a run that is plainly running, do not wait
\* for the run's lock.  While another request holds it they are answered, and not stored.
OnlyBeats(evs) == evs \subseteq Beats /\ status = "RUNNING" /\ ~Forced
Beat(evs) ==
  /\ stored' \in {stored, stored \cup evs}
  /\ UNCHANGED <<status, reason, tally, reported, flag, late>>

\* A run in review is frozen: its requests are refused, or change nothing.
Ingest(evs) ==
  IF Rejects(evs) \/ InReview THEN UNCHANGED row
  ELSE IF OnlyBeats(evs) THEN Beat(evs)
  ELSE Apply(evs)

Serve ==
  /\ post.at = "wire"
  /\ Ingest(post.evs)
  /\ post' = [post EXCEPT !.at = Answer(post.evs)]
  /\ UNCHANGED <<stream, lost, dispatcher>>

ServeZombie(z) ==
  /\ Ingest(z.evs)
  /\ zombies' = zombies \ {z}
  /\ UNCHANGED <<stream, post, faults, dispatcher>>

-----------------------------------------------------------------------------
\* Everything else that writes the row.

Outside(s, r) ==
  /\ Become(s, r)
  /\ UNCHANGED <<stream, wire, data, dispatcher>>

\* reconcile_stale_running_run: no event came for long enough.
LeaseTimeout == status = "RUNNING" /\ Outside("STOPPED", "lease_timeout")
\* force_stop_run
ForceStop == status \in {"RUNNING", "STOPPED"} /\ ~Forced
             /\ Outside("STOPPED", "admin_force_stopped")
\* stop_linked_run
CancelRun == (status = "RUNNING" \/ (status = "STOPPED" /\ reason = "lease_timeout"))
             /\ Outside("STOPPED", "cancelled_by_user")
\* submit_run, and the review withdrawn.
Submit == status = "COMPLETED" /\ Outside("REVIEW", reason)
Withdraw == InReview /\ Outside("COMPLETED", reason)

\* _close_out_run: an open run is read, then locked and closed whatever it is now.
CloseOutReads ==
  /\ ~closeOut
  /\ status = "RUNNING" \/ (status = "STOPPED" /\ reason = "lease_timeout")
  /\ closeOut' = TRUE
  /\ UNCHANGED <<stream, wire, row, overwritten>>

CloseOutWrites ==
  /\ closeOut
  /\ IF Received(stored) = Total
     THEN IF ~Forced /\ ~InReview /\ MayEnd("COMPLETED")
          THEN Become("COMPLETED", "none")
          ELSE UNCHANGED <<status, reason>>
     ELSE Become("STOPPED", "upload_incomplete")
  /\ overwritten' = (overwritten \/ (DONE \in stored /\ Received(stored) # Total))
  /\ closeOut' = FALSE
  /\ UNCHANGED <<stream, wire, data>>

-----------------------------------------------------------------------------
\* The loop of the stream.  Batch is what it has taken and not settled.

Batch == settled + 1 .. taken
LoopFree == ~exited /\ phase # "gone" /\ post.by # "loop" /\ ~closed

\* emit, and the heartbeats of the loop.
Emit ==
  /\ phase = "running" /\ ~closed /\ emitted < N
  /\ emitted' = emitted + 1
  /\ UNCHANGED <<plan, taken, settled, batch, verdicts, exited, wire, platform>>

Take ==
  /\ LoopFree /\ ~frozen /\ ~alone /\ taken < emitted
  /\ taken' = taken + 1
  /\ UNCHANGED <<plan, emitted, settled, batch, verdicts, exited, wire, platform>>

Posted(by, evs) == post' = [by |-> by, evs |-> evs, at |-> "wire"]

Send ==
  /\ LoopFree /\ post.by = "none" /\ Batch # {}
  /\ Posted("loop", IF alone THEN {settled + 1} ELSE Batch)
  /\ UNCHANGED <<stream, lost, platform>>

Answered(by, at) == post.by = by /\ post.at = at /\ post' = NoPost

\* The event sent alone has its verdict: the next one, or the end of the batch.
NextAlone ==
  /\ settled' = settled + 1 /\ again' = FALSE
  /\ alone' = (settled + 1 < taken) /\ frozen' = (frozen /\ alone')

Accepted ==
  /\ Answered("loop", "ok")
  /\ refused' = refused \cup Refusals(post.evs)
  /\ IF alone THEN NextAlone /\ UNCHANGED fails
     ELSE settled' = taken /\ frozen' = FALSE /\ fails' = 0 /\ UNCHANGED <<alone, again>>
  /\ UNCHANGED <<plan, emitted, taken, undelivered, closed, exited, lost, platform>>

MoreFails == IF fails < GiveUp THEN fails + 1 ELSE fails

\* A 422: a batch is sent again event by event; an event alone is refused.
Invalid ==
  /\ Answered("loop", "invalid")
  /\ IF alone THEN refused' = refused \cup post.evs /\ NextAlone /\ UNCHANGED fails
     ELSE alone' = TRUE /\ fails' = MoreFails /\ UNCHANGED <<refused, settled, frozen, again>>
  /\ UNCHANGED <<plan, emitted, taken, undelivered, closed, exited, lost, platform>>

\* _disable_uploads: a 410, or a run in review; the backlog is discarded.
Disable ==
  /\ closed' = TRUE /\ draining' = TRUE /\ undelivered' = TRUE
  /\ settled' = emitted /\ taken' = emitted
  /\ frozen' = FALSE /\ alone' = FALSE /\ again' = FALSE
  /\ UNCHANGED <<emitted, fails, tries, refused, exited, lost, platform>>

RunClosed == Answered("loop", "closed") /\ Disable /\ UNCHANGED phase

\* A post fails: lost, answered by an error of the server, or not answered in time; in
\* that case it may still be served.
MayLinger(no) ==
  \/ zombies' = zombies
  \/ post.at = "wire" /\ zombies' = zombies \cup {[no |-> no, evs |-> post.evs]}

Failed(by) ==
  /\ post.by = by /\ post' = NoPost
  /\ faults < MaxFaults /\ faults' = faults + 1
  /\ MayLinger(faults + 1)

Dropped == undelivered' = TRUE

BatchFails ==
  /\ Failed("loop") /\ ~alone
  /\ fails' = MoreFails
  /\ IF draining /\ MoreFails = GiveUp
     THEN Dropped /\ settled' = taken /\ frozen' = FALSE
     ELSE frozen' = TRUE /\ UNCHANGED <<undelivered, settled>>
  /\ UNCHANGED <<plan, emitted, taken, alone, again, refused, closed, exited, platform>>

AloneFails ==
  /\ Failed("loop") /\ alone
  /\ IF again THEN Dropped /\ NextAlone
     ELSE again' = TRUE /\ UNCHANGED <<undelivered, settled, alone, frozen>>
  /\ UNCHANGED <<plan, emitted, taken, fails, refused, closed, exited, platform>>

LoopExits ==
  /\ ~exited /\ phase # "gone" /\ post.by # "loop"
  /\ draining /\ settled = emitted
  /\ exited' = TRUE
  /\ UNCHANGED <<plan, queue, batch, verdicts, wire, platform>>

-----------------------------------------------------------------------------
\* The end of the evaluation (core/evaluator.py).

\* close: the loop drains.
Close ==
  /\ phase = "running" /\ (emitted = N \/ closed)
  /\ phase' = "closing" /\ draining' = TRUE
  /\ UNCHANGED <<tries, queue, batch, verdicts, exited, wire, platform>>

\* Mutants: refusals hold the completion back; a lost event does not.
FlushedClean == exited /\ ~undelivered /\ ~closed /\ refused = {}
FlushedAnyhow == exited /\ ~closed
\* flush(0): drained, the loop has ended, and nothing is undelivered.
Flushed == exited /\ ~undelivered /\ ~closed

GoOn(next) ==
  /\ phase' = next
  /\ UNCHANGED <<draining, tries, queue, batch, verdicts, exited, platform>>

Closed == phase = "closing" /\ exited /\ UNCHANGED wire
          /\ GoOn(IF Flushed THEN "ending" ELSE "ended")

\* The budget of close elapses: the run is left without its completion.
CloseGivesUp == phase = "closing" /\ ~exited /\ GoOn("ended")
                /\ faults < MaxFaults /\ faults' = faults + 1 /\ UNCHANGED <<post, zombies>>

\* Ctrl+C, while the evaluation runs or its stream is closed.
Interrupt == phase \in {"running", "closing"} /\ GoOn("stopping") /\ UNCHANGED wire

\* _send_event_sync
SendEnd ==
  /\ phase \in {"ending", "stopping"} /\ post.by = "none" /\ ~closed
  /\ Posted("direct", {IF phase = "ending" THEN DONE ELSE STOP})
  /\ UNCHANGED <<stream, lost, platform>>

EndSent == Answered("direct", "ok") /\ GoOn("ended") /\ UNCHANGED lost
EndClosed == Answered("direct", "closed") /\ Disable /\ phase' = "ended"

EndFails ==
  /\ Failed("direct")
  /\ tries' = tries + 1
  /\ IF tries' = SyncTries THEN Dropped /\ phase' = "ended"
     ELSE UNCHANGED <<undelivered, phase>>
  /\ UNCHANGED <<draining, queue, batch, refused, closed, exited, platform>>

\* Uploads were disabled by the loop meanwhile.
EndSkipped == phase \in {"ending", "stopping"} /\ post.by # "direct" /\ closed
              /\ GoOn("ended") /\ UNCHANGED wire

\* The process ends, or is killed: a request of its is still served, or not.
Gone == phase # "gone" /\ GoOn("gone") /\ post' = NoPost /\ MayLinger(0) /\ UNCHANGED faults

-----------------------------------------------------------------------------
Loop == Take \/ Send \/ Accepted \/ Invalid \/ RunClosed \/ LoopExits
Ending == Closed \/ SendEnd \/ EndSent \/ EndClosed \/ EndSkipped
Faults == BatchFails \/ AloneFails \/ EndFails \/ CloseGivesUp \/ Interrupt \/ Gone
Others == LeaseTimeout \/ ForceStop \/ CancelRun \/ Submit \/ Withdraw
          \/ CloseOutReads \/ CloseOutWrites

Next ==
  \/ Emit \/ Close \/ Loop \/ Ending \/ Faults
  \/ Serve \/ (\E z \in zombies : ServeZombie(z)) \/ Others

\* The loop and the end of the evaluation go on while the process lives, and a server
\* that is reached answers.  Nothing is assumed of faults, users and late requests.
Fairness == WF_vars(Loop) /\ WF_vars(Ending) /\ WF_vars(Serve)

Spec == Init /\ [][Next]_vars /\ Fairness

-----------------------------------------------------------------------------
\* Safety: a run its client completed has every event of its items, or was refused some
\* as invalid and says so: the SDK completes no run with a hole that nobody sees.
CompletedIsWhole ==
  DONE \in stored =>
    \A e \in (1 .. emitted) \ Beats : e \in stored \/ (e \in Bad /\ flag)

\* Safety: whatever was sent again or came late, what a completed run shows was built
\* from the events of its items once each and in order.
AppliedInOrder == DONE \in stored => ~late

\* Safety: a run that its client completed does not come back to life, and does not
\* time out, whatever is late: events sent again, heartbeats that were answered and not
\* stored, the lease.  The exception is named: a close-out that had read the run before
\* it was completed, and then found items missing, has stopped it (overwritten).
EndStands ==
  DONE \in stored => overwritten \/ (status # "RUNNING" /\ reason # "lease_timeout")

\* Liveness: once the evaluation closes its stream the run is completed, unless an event
\* was given up, the platform closed the run, or the evaluation was stopped.
EndArrives ==
  phase = "closing" ~>
    \/ DONE \in stored \/ undelivered
    \/ phase \in {"stopping", "gone"} \/ (phase = "ended" /\ ~exited)

\* What force_stop_run says of the run it has stopped ("no later batch can change the
\* run or any of its event data"): the code does not keep it, as the close-out writes the row.
ForceStopStands == [][Forced => UNCHANGED row]_vars

\* What _close_out_run says of itself (it finishes the run of a job "that never sent
\* run_completed"): the code does not keep it.  It checks that the run is open before it
\* waits for the lock, so that it may stop a completed run whose refused events left an
\* item out; a heartbeat that was answered and not stored then reopens that run.
EndIsFinal == DONE \in stored => status # "RUNNING" /\ reason # "lease_timeout"
=============================================================================
