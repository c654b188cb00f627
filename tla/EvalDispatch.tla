---------------------------- MODULE EvalDispatch ----------------------------
(***************************************************************************)
(* The evaluation dispatcher: several workers lease evaluation jobs, submit *)
(* each one to the external Evaluation Service, poll it until it is done   *)
(* and cancel it on request (services/eval_dispatcher.py and cancel_job of *)
(* services/eval_experiments.py).                                          *)
(*                                                                         *)
(* A database transaction is one step (Postgres locks the job row); a call *)
(* to the service is a step of its own, so anything may happen between the *)
(* transaction that decides on a call, the call, and the transaction that  *)
(* applies its answer.  A worker may crash anywhere.                       *)
(*                                                                         *)
(* Time is abstracted to what the protocol needs: a lease may expire and a *)
(* deferral may elapse at any moment, except that a lease and the wait     *)
(* after an ambiguous submit both outlast the POST they cover (LEASE_      *)
(* SECONDS = 120 against a client timeout of 35): action guard NoPostOpen. *)
(***************************************************************************)
EXTENDS Naturals, FiniteSets

CONSTANTS
  Jobs,        \* rows of eval_experiment_jobs
  Workers,     \* dispatcher threads, by lease owner id
  RemoteIds,   \* ids the Evaluation Service may give out
  Nobody,      \* lease_owner NULL
  NoJob,       \* no job in hand; an id not given out
  NoRemote     \* remote_job_id NULL

ASSUME DispatchAssumption ==
  /\ Nobody \notin Workers
  /\ NoJob \notin Jobs
  /\ NoRemote \notin RemoteIds

VARIABLES
  \* the job rows
  status,      \* EvalJobStatus
  cancelReq,   \* cancel_requested_at is set
  remoteId,    \* remote_job_id
  owner,       \* lease_owner
  expired,     \* lease_until has passed
  held,        \* next_attempt_at is at least a lease away
  run,         \* the linked run, as far as the dispatcher looks at it
  healthy,     \* health_status of the environment
  \* the workers' memory
  batch,       \* claimed and not yet processed
  pc,          \* where the worker is
  cur,         \* the job in hand
  out,         \* the answer of the service in hand
  \* cancel requests of users
  cancelPc,    \* the next guarded UPDATE of cancel_job, 0 when none runs
  \* the Evaluation Service and the network
  wire,        \* POST /evals requests on their way
  svc          \* the remote jobs

rows    == <<status, cancelReq, remoteId, owner, expired, held, run>>
memory  == <<batch, pc, cur, out>>
service == <<wire, svc>>
vars == <<rows, healthy, memory, cancelPc, service>>

-----------------------------------------------------------------------------
Statuses == {"QUEUED", "SUBMITTING", "SUBMITTED", "RUNNING", "BLOCKED",
             "CANCELLING", "SUCCEEDED", "FAILED", "CANCELLED", "TIMED_OUT"}
TerminalStatuses  == {"SUCCEEDED", "FAILED", "CANCELLED", "TIMED_OUT"}
ClaimableStatuses == {"QUEUED", "SUBMITTING", "SUBMITTED", "RUNNING", "CANCELLING"}
LocalCancel  == {"QUEUED", "BLOCKED"}
RemoteCancel == {"SUBMITTED", "RUNNING"}

RemoteActive   == {"PENDING", "RUNNING"}
RemoteTerminal == {"SUCCEEDED", "FAILED", "CANCELLED"}
RemoteStatuses == RemoteActive \cup RemoteTerminal \cup {"none", "purged"}

\* none; open: PENDING or RUNNING; lapsed: STOPPED by the lease timeout (reopens);
\* stopped: STOPPED by an admin or a cancel; halted: STOPPED for another reason.
RunStates == {"none", "open", "lapsed", "COMPLETED", "FAILED", "stopped", "halted"}

Places == {"idle", "queued", "resubmit", "begin", "rebegin", "send", "wait",
           "outcome", "submitting", "absent", "pause", "poll", "polled",
           "timeout", "timedout", "cancel", "cancelled", "other"}
\* The steps that open a transaction on the leased row (_locked_job).
LockingPlaces == Places \ {"idle", "send", "wait"}

\* Mutant: a lost answer taken for a refusal.
LostIsRefused == {"high", "rejected", "auth", "conflict", "ambiguous"}
Refusals == {"high", "rejected", "auth", "conflict"}
Answers == [kind : {"none", "accepted", "ambiguous", "seen", "not_found", "retry",
                    "paused", "cancelled", "terminal"} \cup Refusals,
            remote : RemoteIds \cup {NoRemote},
            seen : RemoteStatuses]
NoAnswer == [kind |-> "none", remote |-> NoRemote, seen |-> "none"]
Answer(kind) == [NoAnswer EXCEPT !.kind = kind]
Accepted(r) == [kind |-> "accepted", remote |-> r, seen |-> svc[r].status]
Absent == [job |-> NoJob, status |-> "none"]

RowsOK ==
  /\ status \in [Jobs -> Statuses]
  /\ cancelReq \in [Jobs -> BOOLEAN]
  /\ remoteId \in [Jobs -> RemoteIds \cup {NoRemote}]
  /\ owner \in [Jobs -> Workers \cup {Nobody}]
  /\ expired \in [Jobs -> BOOLEAN]
  /\ held \in [Jobs -> BOOLEAN]
  /\ run \in [Jobs -> RunStates]
  /\ healthy \in BOOLEAN
MemoryOK ==
  /\ batch \in [Workers -> SUBSET Jobs]
  /\ pc \in [Workers -> Places]
  /\ cur \in [Workers -> Jobs \cup {NoJob}]
  /\ out \in [Workers -> Answers]
ServiceOK ==
  /\ wire \in [Jobs -> Nat]
  /\ svc \in [RemoteIds -> [job : Jobs \cup {NoJob}, status : RemoteStatuses]]

TypeOK ==
  /\ RowsOK
  /\ MemoryOK
  /\ ServiceOK
  /\ cancelPc \in [Jobs -> {0, 2, 3, 4, 5}]

Init ==
  /\ status = [j \in Jobs |-> "QUEUED"]
  /\ cancelReq = [j \in Jobs |-> FALSE]
  /\ remoteId = [j \in Jobs |-> NoRemote]
  /\ owner = [j \in Jobs |-> Nobody]
  /\ expired = [j \in Jobs |-> FALSE]
  /\ held = [j \in Jobs |-> FALSE]
  /\ run = [j \in Jobs |-> "none"]
  /\ healthy = TRUE
  /\ batch = [w \in Workers |-> {}]
  /\ pc = [w \in Workers |-> "idle"]
  /\ cur = [w \in Workers |-> NoJob]
  /\ out = [w \in Workers |-> NoAnswer]
  /\ cancelPc = [j \in Jobs |-> 0]
  /\ wire = [j \in Jobs |-> 0]
  /\ svc = [r \in RemoteIds |-> Absent]

-----------------------------------------------------------------------------
\* Building blocks of the handlers.

Goto(w, place) == pc' = [pc EXCEPT ![w] = place]

\* The step is over: the worker drops the job from its hands.
Done(w) ==
  /\ Goto(w, "idle")
  /\ cur' = [cur EXCEPT ![w] = NoJob]
  /\ out' = [out EXCEPT ![w] = NoAnswer]
  /\ UNCHANGED batch

\* Go on with the same job and answer a in hand.
Continue(w, place, a) ==
  /\ Goto(w, place)
  /\ out' = [out EXCEPT ![w] = a]
  /\ UNCHANGED <<cur, batch>>

Release(j) ==
  /\ owner' = [owner EXCEPT ![j] = Nobody]
  /\ expired' = [expired EXCEPT ![j] = FALSE]

SetStatus(j, s) == status' = [status EXCEPT ![j] = s]

\* The lease check of every transaction on the job in hand.
Mine(w) == cur[w] # NoJob /\ owner[cur[w]] = w

\* stop_linked_run: only a run without a terminal event is stopped.
StopLinkedRun(j) ==
  run' = IF run[j] \in {"open", "lapsed"} THEN [run EXCEPT ![j] = "stopped"] ELSE run

\* Nobody is between the SUBMITTING marker of j and the end of its POST.
NoPostOpen(j) ==
  /\ wire[j] = 0
  /\ \A w \in Workers : cur[w] = j => pc[w] \notin {"send", "wait"}

-----------------------------------------------------------------------------
\* Claiming.

\* Mutant: an expired lease still counts.
LeaseFreeOnlyReleased(j) == owner[j] = Nobody
LeaseFree(j) == owner[j] = Nobody \/ expired[j]
Claimable(j) == status[j] \in ClaimableStatuses /\ LeaseFree(j) /\ ~held[j]

\* claim / _take_leases: lease a batch of due jobs, each by compare-and-set.
Claim(w) ==
  /\ pc[w] = "idle" /\ batch[w] = {}
  /\ \E S \in SUBSET {j \in Jobs : Claimable(j)} :
       /\ S # {}
       /\ owner' = [j \in Jobs |-> IF j \in S THEN w ELSE owner[j]]
       /\ expired' = [j \in Jobs |-> expired[j] /\ j \notin S]
       /\ batch' = [batch EXCEPT ![w] = S]
  /\ UNCHANGED <<status, cancelReq, remoteId, held, run, healthy, pc, cur, out,
                 cancelPc, service>>

\* Mutant: a SUBMITTING job is submitted again without a reconcile.
StepWithoutReconcile(s) ==
  CASE s = "QUEUED"                    -> "queued"
    [] s = "SUBMITTING"                -> "resubmit"
    [] s \in {"SUBMITTED", "RUNNING"}  -> "poll"
    [] s = "CANCELLING"                -> "cancel"
    [] OTHER                           -> "other"

StepOf(s) == CASE s = "QUEUED"                    -> "queued"
               [] s = "SUBMITTING"                -> "submitting"
               [] s \in {"SUBMITTED", "RUNNING"}  -> "poll"
               [] s = "CANCELLING"                -> "cancel"
               [] OTHER                           -> "other"

\* _process: renew the lease and pick the step by the status read with it.
Process(w, j) ==
  /\ pc[w] = "idle" /\ j \in batch[w]
  /\ owner[j] = w
  /\ expired' = [expired EXCEPT ![j] = FALSE]
  /\ batch' = [batch EXCEPT ![w] = @ \ {j}]
  /\ cur' = [cur EXCEPT ![w] = j]
  /\ Goto(w, StepOf(status[j]))
  /\ UNCHANGED <<status, cancelReq, remoteId, owner, held, run, healthy, out,
                 cancelPc, service>>

\* _process: another worker has taken the lease of a job of the batch.
Skip(w, j) ==
  /\ pc[w] = "idle" /\ j \in batch[w]
  /\ owner[j] # w
  /\ batch' = [batch EXCEPT ![w] = @ \ {j}]
  /\ UNCHANGED <<rows, healthy, pc, cur, out, cancelPc, service>>

\* _locked_job raises LeaseLost: the work in hand is dropped.
LeaseLost(w) ==
  /\ pc[w] \in LockingPlaces /\ ~Mine(w)
  /\ Done(w)
  /\ UNCHANGED <<rows, healthy, cancelPc, service>>

\* The status is no longer one the step works on (it changed between claim and
\* _process, or is not CANCELLING any more): only the lease is released.
ReleaseOnly(w) ==
  /\ Mine(w)
  /\ \/ pc[w] = "other"
     \/ pc[w] = "cancelled" /\ status[cur[w]] # "CANCELLING"
  /\ Release(cur[w])
  /\ Done(w)
  /\ UNCHANGED <<status, cancelReq, remoteId, held, run, healthy, cancelPc,
                 service>>

-----------------------------------------------------------------------------
\* Submitting: _try_submit, _begin_submit, _post, _apply_submit_outcome.
\* Places "queued"/"begin" are the first submit, "resubmit"/"rebegin" the one
\* after a reconcile.

InSubmit(w) == pc[w] \in {"queued", "resubmit"} /\ Mine(w)

\* A cancel request is found before anything is sent.
SubmitCancelled(w) ==
  /\ InSubmit(w) /\ cancelReq[cur[w]]
  /\ SetStatus(cur[w], "CANCELLED")
  /\ Release(cur[w])
  /\ Done(w)
  /\ UNCHANGED <<cancelReq, remoteId, held, run, healthy, cancelPc, service>>

\* The job cannot be submitted as it stands: environment disabled, a key the
\* service no longer accepts, a missing model key, submitter key or dataset token.
SubmitBlocked(w) ==
  /\ InSubmit(w) /\ ~cancelReq[cur[w]]
  /\ SetStatus(cur[w], "BLOCKED")
  /\ Release(cur[w])
  /\ Done(w)
  /\ UNCHANGED <<cancelReq, remoteId, held, run, healthy, cancelPc, service>>

\* The environment is paused, or launch tokens cannot be made: wait and retry.
SubmitDeferred(w) ==
  /\ InSubmit(w) /\ ~cancelReq[cur[w]]
  /\ Release(cur[w])
  /\ Done(w)
  /\ UNCHANGED <<status, cancelReq, remoteId, held, run, healthy, cancelPc,
                 service>>

\* The checks passed and the body is built.
SubmitReady(w) ==
  /\ InSubmit(w) /\ ~cancelReq[cur[w]] /\ healthy
  /\ Goto(w, IF pc[w] = "queued" THEN "begin" ELSE "rebegin")
  /\ UNCHANGED <<rows, healthy, batch, cur, out, cancelPc, service>>

\* Mutant: the marker written without its test of the status.
BeginLeaseOnly(w) == owner[cur[w]] = w

\* The WHERE of _begin_submit.  The row lock of Postgres makes the statuses
\* hold here; without row locks (SQLite) this test alone decides.
MayBegin(w) ==
  /\ owner[cur[w]] = w
  /\ IF pc[w] = "begin"
       THEN status[cur[w]] = "QUEUED" /\ ~cancelReq[cur[w]]
       ELSE status[cur[w]] = "SUBMITTING"

\* The SUBMITTING marker, committed before the POST.
BeginSubmit(w) ==
  /\ pc[w] \in {"begin", "rebegin"} /\ MayBegin(w)
  /\ SetStatus(cur[w], "SUBMITTING")
  /\ expired' = [expired EXCEPT ![cur[w]] = FALSE]
  /\ held' = [held EXCEPT ![cur[w]] = FALSE]
  /\ Goto(w, "send")
  /\ UNCHANGED <<cancelReq, remoteId, owner, run, healthy, batch, cur, out,
                 cancelPc, service>>

\* _begin_submit matched no row although the lease is ours: nothing was sent, so
\* a pending cancel of a queued job completes here; otherwise release or defer.
BeginRefused(w) ==
  /\ pc[w] \in {"begin", "rebegin"} /\ Mine(w) /\ ~MayBegin(w)
  /\ status' = IF status[cur[w]] = "QUEUED" /\ cancelReq[cur[w]]
                 THEN [status EXCEPT ![cur[w]] = "CANCELLED"] ELSE status
  /\ Release(cur[w])
  /\ Done(w)
  /\ UNCHANGED <<cancelReq, remoteId, held, run, healthy, cancelPc, service>>

\* The POST leaves the worker.
Send(w) ==
  /\ pc[w] = "send"
  /\ wire' = [wire EXCEPT ![cur[w]] = @ + 1]
  /\ Goto(w, "wait")
  /\ UNCHANGED <<rows, healthy, batch, cur, out, cancelPc, svc>>

\* Transport error, 5xx or client timeout: the remote job may or may not exist.
GiveUp(w) ==
  /\ pc[w] = "wait"
  /\ Continue(w, "outcome", Answer("ambiguous"))
  /\ UNCHANGED <<rows, healthy, cancelPc, service>>

\* 202, or a reconcile that found the remote job: _adopt_remote.
OutcomeAccepted(w) ==
  /\ pc[w] = "outcome" /\ Mine(w) /\ out[w].kind = "accepted"
  /\ LET j == cur[w] IN
     /\ IF status[j] = "SUBMITTING"
          THEN /\ remoteId' = [remoteId EXCEPT ![j] = out[w].remote]
               /\ SetStatus(j, IF cancelReq[j] THEN "CANCELLING"
                               ELSE IF out[w].seen = "RUNNING" THEN "RUNNING"
                               ELSE "SUBMITTED")
          ELSE UNCHANGED <<remoteId, status>>
     /\ Release(j)
  /\ Done(w)
  /\ UNCHANGED <<cancelReq, held, run, healthy, cancelPc, service>>

\* 409, 422, 401 or a conflict: the service created no job.
OutcomeRefused(w) ==
  /\ pc[w] = "outcome" /\ Mine(w) /\ out[w].kind \in Refusals
  /\ LET j == cur[w] IN
     /\ IF status[j] = "SUBMITTING"
          THEN /\ SetStatus(j, IF cancelReq[j] THEN "CANCELLED"
                               ELSE IF out[w].kind = "rejected" THEN "BLOCKED"
                               ELSE "QUEUED")
               /\ healthy' = (healthy /\ out[w].kind # "auth")
          ELSE UNCHANGED <<status, healthy>>
     /\ Release(j)
  /\ Done(w)
  /\ UNCHANGED <<cancelReq, remoteId, held, run, cancelPc, service>>

\* Stay SUBMITTING and let at least a lease length pass before the reconcile.
OutcomeAmbiguous(w) ==
  /\ pc[w] = "outcome" /\ Mine(w) /\ out[w].kind = "ambiguous"
  /\ held' = [held EXCEPT ![cur[w]] = (status[cur[w]] = "SUBMITTING")]
  /\ Release(cur[w])
  /\ Done(w)
  /\ UNCHANGED <<status, cancelReq, remoteId, run, healthy, cancelPc, service>>

-----------------------------------------------------------------------------
\* Reconciling a SUBMITTING job: _step_submitting.

InReconcile(w) == pc[w] = "submitting" /\ Mine(w)

\* _find_remote: GET /evals lists the job's remote job, or does not.
Reconcile(w) ==
  /\ InReconcile(w) /\ healthy
  /\ LET found == {r \in RemoteIds : svc[r].job = cur[w] /\ svc[r].status # "purged"} IN
       IF found = {} THEN Continue(w, "absent", NoAnswer)
       ELSE \E r \in found : Continue(w, "outcome", Accepted(r))
  /\ UNCHANGED <<rows, healthy, cancelPc, service>>

ReconcilePaused(w) ==
  /\ InReconcile(w) /\ ~healthy
  /\ Release(cur[w])
  /\ Done(w)
  /\ UNCHANGED <<status, cancelReq, remoteId, held, run, healthy, cancelPc,
                 service>>

\* The list call failed: as an ambiguous submit, or 401.
ReconcileFailed(w) ==
  /\ InReconcile(w) /\ healthy
  /\ \/ Continue(w, "outcome", Answer("ambiguous"))
     \/ Continue(w, "pause", NoAnswer)
  /\ UNCHANGED <<rows, healthy, cancelPc, service>>

\* _pause_submitting: 401 on the list; the job stays SUBMITTING.
PauseSubmitting(w) ==
  /\ pc[w] = "pause" /\ Mine(w)
  /\ healthy' = FALSE
  /\ Release(cur[w])
  /\ Done(w)
  /\ UNCHANGED <<status, cancelReq, remoteId, held, run, cancelPc, service>>

\* Not on the service: a pending cancel completes here, else submit again.
Absence(w) ==
  /\ pc[w] = "absent" /\ Mine(w)
  /\ IF cancelReq[cur[w]] /\ status[cur[w]] \notin TerminalStatuses
       THEN /\ SetStatus(cur[w], "CANCELLED")
            /\ Release(cur[w])
            /\ Done(w)
       ELSE /\ Goto(w, "resubmit")
            /\ UNCHANGED <<status, owner, expired, cur, out, batch>>
  /\ UNCHANGED <<cancelReq, remoteId, held, run, healthy, cancelPc, service>>

-----------------------------------------------------------------------------
\* Polling a SUBMITTED or RUNNING job: _step_poll, _apply_poll, _merge_run.

\* GET /evals/{id}: read now, applied by a later transaction.
Poll(w) ==
  /\ pc[w] = "poll" /\ Mine(w)
  /\ LET there == svc[remoteId[cur[w]]].status IN
     \/ /\ ~healthy \/ remoteId[cur[w]] = NoRemote
        /\ Continue(w, "polled", Answer("paused"))
     \/ /\ healthy /\ remoteId[cur[w]] # NoRemote
        /\ \/ Continue(w, "polled", IF there = "purged" THEN Answer("not_found")
                                    ELSE [Answer("seen") EXCEPT !.seen = there])
           \/ \E kind \in {"auth", "retry"} : Continue(w, "polled", Answer(kind))
  /\ UNCHANGED <<rows, healthy, cancelPc, service>>

Polled(w) == pc[w] = "polled" /\ Mine(w)
InProgress(j) == status[j] \in RemoteCancel
Finished(w) == out[w].kind = "seen" /\ out[w].seen \in RemoteTerminal

\* The job moved meanwhile (a cancel request): the answer is dropped.
PollIgnored(w) ==
  /\ Polled(w) /\ ~InProgress(cur[w])
  /\ Release(cur[w])
  /\ Done(w)
  /\ UNCHANGED <<status, cancelReq, remoteId, held, run, healthy, cancelPc,
                 service>>

\* The service reports the outcome.
PollFinished(w) ==
  /\ Polled(w) /\ InProgress(cur[w]) /\ Finished(w)
  /\ SetStatus(cur[w], out[w].seen)
  /\ IF out[w].seen = "CANCELLED" /\ cancelReq[cur[w]]
       THEN StopLinkedRun(cur[w]) ELSE UNCHANGED run
  /\ Release(cur[w])
  /\ Done(w)
  /\ UNCHANGED <<cancelReq, remoteId, held, healthy, cancelPc, service>>

\* Mutant: a run stopped by its lease timeout counts as complete.
MergedLapsedRun(j) ==
  CASE run[j] = "FAILED"                -> {"FAILED"}
    [] run[j] = "stopped"               -> {"CANCELLED"}
    [] run[j] = "halted"                -> {"FAILED"}
    [] run[j] \in {"COMPLETED", "lapsed"} -> {"SUCCEEDED"}
    [] OTHER                            -> {}

\* The statuses a terminal linked run may settle the job with.
MergedRun(j) ==
  CASE run[j] = "FAILED"    -> {"FAILED"}
    [] run[j] = "stopped"   -> {"CANCELLED"}
    [] run[j] = "halted"    -> {IF cancelReq[j] THEN "CANCELLED" ELSE "FAILED"}
    [] run[j] = "COMPLETED" -> {"SUCCEEDED"}   \* once RESULT_GRACE has passed
    [] OTHER                -> {}

\* What every later branch of _apply_poll has in common.
Unfinished(w) ==
  /\ Polled(w) /\ InProgress(cur[w]) /\ ~Finished(w)
  /\ healthy' = (healthy /\ out[w].kind # "auth")
NotMerged(w) == MergedRun(cur[w]) = {} \/ run[cur[w]] = "COMPLETED"

PollMerged(w) ==
  /\ Unfinished(w)
  /\ \E s \in MergedRun(cur[w]) : SetStatus(cur[w], s)
  /\ Release(cur[w])
  /\ Done(w)
  /\ UNCHANGED <<cancelReq, remoteId, held, run, cancelPc, service>>

\* Still live remotely although a cancel was requested: cancel it next.
PollCancelling(w) ==
  /\ Unfinished(w) /\ NotMerged(w) /\ cancelReq[cur[w]]
  /\ SetStatus(cur[w], "CANCELLING")
  /\ Release(cur[w])
  /\ Done(w)
  /\ UNCHANGED <<cancelReq, remoteId, held, run, cancelPc, service>>

\* 404 without a finished run.
PollGone(w) ==
  /\ Unfinished(w) /\ NotMerged(w) /\ ~cancelReq[cur[w]]
  /\ out[w].kind = "not_found"
  /\ SetStatus(cur[w], "FAILED")
  /\ Release(cur[w])
  /\ Done(w)
  /\ UNCHANGED <<cancelReq, remoteId, held, run, cancelPc, service>>

\* SUBMITTED or RUNNING, from the remote status and the run; an open run may
\* still be PENDING.
Progress(w) ==
  LET j == cur[w] IN
  IF status[j] = "RUNNING" \/ out[w].seen = "RUNNING" \/ run[j] \in {"lapsed", "COMPLETED"}
    THEN {"RUNNING"}
    ELSE IF run[j] = "open" THEN {"SUBMITTED", "RUNNING"} ELSE {"SUBMITTED"}

StillThere(w) ==
  /\ Unfinished(w) /\ NotMerged(w) /\ ~cancelReq[cur[w]]
  /\ out[w].kind # "not_found"

PollWaiting(w) ==
  /\ StillThere(w)
  /\ \E s \in Progress(w) : SetStatus(cur[w], s)
  /\ Release(cur[w])
  /\ Done(w)
  /\ UNCHANGED <<cancelReq, remoteId, held, run, cancelPc, service>>

\* No progress for job_timeout, and something was observed: the lease is kept.
PollStuck(w) ==
  /\ StillThere(w)
  /\ out[w].kind = "seen" \/ run[cur[w]] # "none"
  /\ "RUNNING" \in Progress(w)
  /\ SetStatus(cur[w], "RUNNING")
  /\ Goto(w, "timeout")
  /\ out' = [out EXCEPT ![w] = NoAnswer]
  /\ UNCHANGED <<cancelReq, remoteId, owner, expired, held, run, cur, batch,
                 cancelPc, service>>

-----------------------------------------------------------------------------
\* Cancelling remotely: _remote_cancel, for _step_cancel and _time_out.

\* POST /evals/{id}/cancel: done or refused by the service, its answer maybe lost.
RemoteCancelCall(w, place) ==
  LET r == remoteId[cur[w]] IN
  \/ /\ ~healthy
     /\ Continue(w, place, Answer("paused"))
     /\ UNCHANGED svc
  \/ /\ healthy /\ svc[r].status \in RemoteActive
     /\ svc' = [svc EXCEPT ![r].status = "CANCELLED"]
     /\ \E kind \in {"cancelled", "retry"} : Continue(w, place, Answer(kind))
  \/ /\ healthy /\ svc[r].status \notin RemoteActive
     /\ Continue(w, place, Answer(IF svc[r].status = "purged" THEN "not_found"
                                                                ELSE "terminal"))
     /\ UNCHANGED svc
  \/ /\ healthy
     /\ \E kind \in {"auth", "retry"} : Continue(w, place, Answer(kind))
     /\ UNCHANGED svc

CancelCall(w) ==
  /\ pc[w] = "cancel" /\ Mine(w)
  /\ RemoteCancelCall(w, "cancelled")
  /\ UNCHANGED <<rows, healthy, cancelPc, wire>>

TimeoutCall(w) ==
  /\ pc[w] = "timeout" /\ Mine(w)
  /\ RemoteCancelCall(w, "timedout")
  /\ UNCHANGED <<rows, healthy, cancelPc, wire>>

\* _apply_timeout: TIMED_OUT whatever the cancel answered.
TimedOut(w) ==
  /\ pc[w] = "timedout" /\ Mine(w)
  /\ IF InProgress(cur[w])
       THEN /\ SetStatus(cur[w], "TIMED_OUT")
            /\ healthy' = (healthy /\ out[w].kind # "auth")
       ELSE UNCHANGED <<status, healthy>>
  /\ Release(cur[w])
  /\ Done(w)
  /\ UNCHANGED <<cancelReq, remoteId, held, run, cancelPc, service>>

\* _apply_cancel.
CancelAnswer(w) == pc[w] = "cancelled" /\ Mine(w) /\ status[cur[w]] = "CANCELLING"

CancelDone(w) ==
  /\ CancelAnswer(w) /\ out[w].kind \in {"cancelled", "not_found"}
  /\ SetStatus(cur[w], "CANCELLED")
  /\ StopLinkedRun(cur[w])
  /\ Release(cur[w])
  /\ Done(w)
  /\ UNCHANGED <<cancelReq, remoteId, held, healthy, cancelPc, service>>

\* Mutant: a cancel that came too late is tried again.
TooLateRetried(w) ==
  /\ CancelAnswer(w) /\ out[w].kind = "terminal"
  /\ Release(cur[w])
  /\ Done(w)
  /\ UNCHANGED <<status, cancelReq, remoteId, held, run, healthy, cancelPc, service>>

\* Already finished remotely: back to RUNNING, the next poll records how.
CancelTooLate(w) ==
  /\ CancelAnswer(w) /\ out[w].kind = "terminal"
  /\ SetStatus(cur[w], "RUNNING")
  /\ Release(cur[w])
  /\ Done(w)
  /\ UNCHANGED <<cancelReq, remoteId, held, run, healthy, cancelPc, service>>

Unanswered(w) ==
  /\ CancelAnswer(w) /\ out[w].kind \in {"auth", "retry", "paused"}
  /\ healthy' = (healthy /\ out[w].kind # "auth")

\* No answer: try again later.
CancelRetried(w) ==
  /\ Unanswered(w)
  /\ Release(cur[w])
  /\ Done(w)
  /\ UNCHANGED <<status, cancelReq, remoteId, held, run, cancelPc, service>>

\* No answer for job_timeout: the remote job has ended either way.
CancelGivenUp(w) ==
  /\ Unanswered(w)
  /\ SetStatus(cur[w], "CANCELLED")
  /\ StopLinkedRun(cur[w])
  /\ Release(cur[w])
  /\ Done(w)
  /\ UNCHANGED <<cancelReq, remoteId, held, cancelPc, service>>

-----------------------------------------------------------------------------
\* A user cancels: cancel_job, five guarded UPDATEs in one transaction.  Rows are
\* locked once an UPDATE matched, so until then other transactions interleave.

MarkCancel(j) == cancelReq' = [cancelReq EXCEPT ![j] = TRUE]
CancelGoto(j, n) == cancelPc' = [cancelPc EXCEPT ![j] = n]

\* Updates 1 and 4, and cancel_jobs after them: nobody works on the job, it is
\* cancelled on the spot and its run stopped.
CancelLocally(j) ==
  /\ status[j] \in LocalCancel /\ LeaseFree(j)
  /\ SetStatus(j, "CANCELLED")
  /\ MarkCancel(j)
  /\ held' = [held EXCEPT ![j] = FALSE]
  /\ StopLinkedRun(j)
  /\ CancelGoto(j, 0)

\* Update 1 or 4 matches nothing; a lease that expired after the request read the
\* clock still counts as held.
CancelLocallyMissed(j, n) ==
  /\ ~(status[j] \in LocalCancel /\ owner[j] = Nobody)
  /\ CancelGoto(j, n)
  /\ UNCHANGED <<status, cancelReq, held, run>>

\* Updates 2 and 5: a remote job exists, the dispatcher cancels it next.
CancelRemotely(j) ==
  /\ SetStatus(j, "CANCELLING")
  /\ MarkCancel(j)
  /\ held' = [held EXCEPT ![j] = FALSE]
  /\ CancelGoto(j, 0)
  /\ UNCHANGED run

\* Mutant: update 4 left out.
NotedOnly(j) ==
  /\ status[j] \in LocalCancel \cup {"SUBMITTING"} /\ ~cancelReq[j]
  /\ MarkCancel(j)
  /\ CancelGoto(j, 0)
  /\ UNCHANGED <<status, held, run>>

\* Update 3: leave the request for the worker that submits the job; update 4 runs
\* under the row lock it took.
CancelNoted(j) ==
  /\ status[j] \in LocalCancel \cup {"SUBMITTING"} /\ ~cancelReq[j]
  /\ MarkCancel(j)
  /\ CancelGoto(j, 0)
  /\ IF status[j] \in LocalCancel /\ LeaseFree(j)
       THEN /\ SetStatus(j, "CANCELLED")
            /\ held' = [held EXCEPT ![j] = FALSE]
            /\ StopLinkedRun(j)
       ELSE UNCHANGED <<status, held, run>>

CancelMissed(j, n) == CancelGoto(j, n) /\ UNCHANGED <<status, cancelReq, held, run>>

\* The request goes on: each UPDATE that matches ends it, the next one is tried
\* otherwise.  Update 5 finds a remote job that appeared since update 2.
CancelMore(j) ==
  \/ /\ cancelPc[j] = 2
     /\ IF status[j] \in RemoteCancel THEN CancelRemotely(j) ELSE CancelMissed(j, 3)
  \/ /\ cancelPc[j] = 3
     /\ \/ CancelNoted(j)
        \/ /\ status[j] \notin LocalCancel \cup {"SUBMITTING"} \/ cancelReq[j]
           /\ CancelMissed(j, 4)
  \/ /\ cancelPc[j] = 4
     /\ CancelLocally(j) \/ CancelLocallyMissed(j, 5)
  \/ /\ cancelPc[j] = 5
     /\ IF status[j] \in RemoteCancel /\ ~cancelReq[j]
          THEN CancelRemotely(j) ELSE CancelMissed(j, 0)

CancelStart(j) ==
  /\ cancelPc[j] = 0
  /\ CancelLocally(j) \/ CancelLocallyMissed(j, 2)
  /\ UNCHANGED <<remoteId, owner, expired, healthy, memory, service>>

CancelStep(j) ==
  /\ cancelPc[j] # 0
  /\ CancelMore(j)
  /\ UNCHANGED <<remoteId, owner, expired, healthy, memory, service>>

-----------------------------------------------------------------------------
\* Failures and time.

\* A worker process dies; what it posted is still on its way.
Crash(w) ==
  /\ pc[w] # "idle" \/ batch[w] # {}
  /\ Goto(w, "idle")
  /\ cur' = [cur EXCEPT ![w] = NoJob]
  /\ out' = [out EXCEPT ![w] = NoAnswer]
  /\ batch' = [batch EXCEPT ![w] = {}]
  /\ UNCHANGED <<rows, healthy, cancelPc, service>>

\* tick: a transaction failed.  A busy database leaves the lease to expire; any
\* other error releases it and defers the job (_release_after_error).
StepFailed(w) ==
  /\ pc[w] \in LockingPlaces /\ Mine(w)
  /\ \/ UNCHANGED <<owner, expired, held>>
     \/ /\ Release(cur[w])
        /\ held' = [held EXCEPT ![cur[w]] = TRUE]
  /\ Done(w)
  /\ UNCHANGED <<status, cancelReq, remoteId, run, healthy, cancelPc, service>>

LeaseExpires(j) ==
  /\ owner[j] # Nobody /\ ~expired[j]
  /\ NoPostOpen(j)
  /\ expired' = [expired EXCEPT ![j] = TRUE]
  /\ UNCHANGED <<status, cancelReq, remoteId, owner, held, run, healthy, memory,
                 cancelPc, service>>

WaitElapses(j) ==
  /\ held[j]
  /\ NoPostOpen(j)
  /\ held' = [held EXCEPT ![j] = FALSE]
  /\ UNCHANGED <<status, cancelReq, remoteId, owner, expired, run, healthy, memory,
                 cancelPc, service>>

\* _probe_paused_env, or an admin, finds the environment working again.
EnvironmentRecovers ==
  /\ ~healthy
  /\ healthy' = TRUE
  /\ UNCHANGED <<rows, memory, cancelPc, service>>

-----------------------------------------------------------------------------
\* The Evaluation Service and the runs it reports: not under src/, modelled from
\* what the dispatcher expects of them.

\* A request leaves the wire: the worker waiting for it, if any, may get answer a.
Answered(j, a) ==
  /\ wire[j] > 0
  /\ wire' = [wire EXCEPT ![j] = @ - 1]
  /\ \/ \E w \in Workers : pc[w] = "wait" /\ cur[w] = j /\ Continue(w, "outcome", a)
     \/ UNCHANGED memory

Accept(j, r) ==
  /\ svc[r] = Absent
  /\ svc' = [svc EXCEPT ![r] = [job |-> j, status |-> "PENDING"]]
  /\ Answered(j, [kind |-> "accepted", remote |-> r, seen |-> "PENDING"])
  /\ UNCHANGED <<rows, healthy, cancelPc>>

Refuse(j) ==
  /\ \E kind \in Refusals : Answered(j, Answer(kind))
  /\ UNCHANGED <<rows, healthy, cancelPc, svc>>

LoseRequest(j) ==
  /\ wire[j] > 0
  /\ wire' = [wire EXCEPT ![j] = @ - 1]
  /\ UNCHANGED <<rows, healthy, memory, cancelPc, svc>>

\* The service works on a job, ends it, or forgets one the platform has recorded.
ServiceStep(r) ==
  /\ \/ /\ svc[r].status = "PENDING"
        /\ \E s \in {"RUNNING", "FAILED", "CANCELLED"} : svc' = [svc EXCEPT ![r].status = s]
     \/ /\ svc[r].status = "RUNNING"
        /\ \E s \in RemoteTerminal : svc' = [svc EXCEPT ![r].status = s]
     \/ /\ svc[r].status \in RemoteTerminal /\ remoteId[svc[r].job] = r
        /\ svc' = [svc EXCEPT ![r].status = "purged"]
  /\ UNCHANGED <<rows, healthy, memory, cancelPc, wire>>

\* Ingest moves the linked run.
RunStep(j) ==
  /\ \/ /\ run[j] = "none"
        /\ \E r \in RemoteIds : svc[r].job = j /\ svc[r].status # "PENDING"
        /\ run' = [run EXCEPT ![j] = "open"]
     \/ /\ run[j] \in {"open", "lapsed"}
        /\ \E s \in RunStates \ {"none", run[j]} : run' = [run EXCEPT ![j] = s]
  /\ UNCHANGED <<status, cancelReq, remoteId, owner, expired, held, healthy, memory,
                 cancelPc, service>>

-----------------------------------------------------------------------------
Submit(w) ==
  \/ SubmitCancelled(w) \/ SubmitBlocked(w) \/ SubmitDeferred(w) \/ SubmitReady(w)
  \/ BeginSubmit(w) \/ BeginRefused(w) \/ Send(w) \/ GiveUp(w)
  \/ OutcomeAccepted(w) \/ OutcomeRefused(w) \/ OutcomeAmbiguous(w)

ReconcileStep(w) ==
  \/ Reconcile(w) \/ ReconcilePaused(w) \/ ReconcileFailed(w)
  \/ PauseSubmitting(w) \/ Absence(w)

PollStep(w) ==
  \/ Poll(w) \/ PollIgnored(w) \/ PollFinished(w) \/ PollMerged(w)
  \/ PollCancelling(w) \/ PollGone(w) \/ PollWaiting(w) \/ PollStuck(w)

CancelWork(w) ==
  \/ CancelCall(w) \/ TimeoutCall(w) \/ TimedOut(w)
  \/ CancelDone(w) \/ CancelTooLate(w) \/ CancelRetried(w) \/ CancelGivenUp(w)

Worker(w) ==
  \/ Claim(w)
  \/ \E j \in Jobs : Process(w, j) \/ Skip(w, j)
  \/ LeaseLost(w) \/ ReleaseOnly(w)
  \/ Submit(w) \/ ReconcileStep(w) \/ PollStep(w) \/ CancelWork(w)

Environment ==
  \/ \E w \in Workers : Crash(w) \/ StepFailed(w)
  \/ \E j \in Jobs : \/ LeaseExpires(j) \/ WaitElapses(j)
                     \/ Refuse(j) \/ LoseRequest(j) \/ RunStep(j)
                     \/ \E r \in RemoteIds : Accept(j, r)
  \/ \E r \in RemoteIds : ServiceStep(r)
  \/ EnvironmentRecovers

\* Nothing is left to do: no other state may be the last one (deadlock check).
Settled ==
  /\ \A j \in Jobs : status[j] \in TerminalStatuses \cup {"BLOCKED"}
  /\ UNCHANGED vars

Next ==
  \/ \E w \in Workers : Worker(w)
  \/ \E j \in Jobs : CancelStart(j) \/ CancelStep(j)
  \/ Environment
  \/ Settled

Spec == Init /\ [][Next]_vars

\* A call to the service that is made again and again is answered in the end, and
\* the cancel of an unreachable job gives up once job_timeout has passed.
Persistence(w) ==
  /\ SF_vars(Reconcile(w))
  /\ SF_vars(Poll(w) /\ out'[w].kind \in {"seen", "not_found"})
  /\ SF_vars(CancelDone(w) \/ CancelTooLate(w) \/ CancelGivenUp(w))

\* The dispatcher threads run, a request handler that has begun ends, time passes
\* and requests do not stay on the wire.
Progressing ==
  /\ \A w \in Workers : WF_vars(Worker(w)) /\ Persistence(w)
  /\ \A j \in Jobs :
       /\ WF_vars(CancelStep(j))
       /\ WF_vars(LeaseExpires(j))
       /\ WF_vars(WaitElapses(j))
       /\ WF_vars(LoseRequest(j) \/ Refuse(j) \/ \E r \in RemoteIds : Accept(j, r))
  /\ WF_vars(EnvironmentRecovers)

\* Faults end: from some time on no worker dies, no transaction of theirs fails
\* and no user sends a further cancel request.
FaultsEnd ==
  /\ <>[][\A w \in Workers : ~(Crash(w) \/ StepFailed(w))]_vars
  /\ <>[][\A j \in Jobs : ~CancelStart(j)]_vars

FairSpec == Spec /\ Progressing /\ FaultsEnd

-----------------------------------------------------------------------------
\* Properties.

RemoteJobsOf(j) == {r \in RemoteIds : svc[r].job = j}

\* However workers crash, stall and take over each other's jobs, and whatever
\* happens to a POST, the service never gets two remote jobs for one job: the
\* marker, the reconcile and the leases of _try_submit / _step_submitting.
NoDoubleSubmit ==
  \A j \in Jobs : \A r, s \in RemoteJobsOf(j) : r = s

\* No remote job is lost: one that exists is recorded by its job, or the job is
\* still SUBMITTING and the reconcile will find it.
NoOrphanRemote ==
  \A j \in Jobs : \A r \in RemoteJobsOf(j) :
    remoteId[j] = r \/ status[j] = "SUBMITTING"

\* A job is only called waiting or blocked when nothing was or will be sent for
\* it, so submitting it (again) or cancelling it locally is safe.
WaitingMeansUnsent ==
  \A j \in Jobs :
    status[j] \in {"QUEUED", "BLOCKED"} => RemoteJobsOf(j) = {} /\ wire[j] = 0

\* The strengthening that makes the four properties about submitting inductive.
\* A worker has a job in hand unless it is idle, and not again in its batch.
HandsApart ==
  \A w \in Workers : (pc[w] = "idle" <=> cur[w] = NoJob) /\ cur[w] \notin batch[w]

\* Between the marker and the end of the POST the lease is held and the marker stands.
PostersHold ==
  \A w \in Workers : pc[w] \in {"send", "wait"} =>
    /\ status[cur[w]] = "SUBMITTING" /\ owner[cur[w]] = w /\ ~expired[cur[w]]
    /\ pc[w] = "send" => RemoteJobsOf(cur[w]) = {} /\ wire[cur[w]] = 0

\* While a POST is on its way nobody can start to work on its job: it waits for a
\* lease length, or its lease is still held, by the poster or by one that died.
WireCovered ==
  \A j \in Jobs : wire[j] > 0 =>
    /\ wire[j] = 1 /\ RemoteJobsOf(j) = {} /\ status[j] = "SUBMITTING"
    /\ owner[j] = Nobody => held[j]
    /\ \A w \in Workers : owner[j] = w =>
         /\ ~expired[j] /\ j \notin batch[w]
         /\ cur[w] = j => \/ pc[w] = "wait"
                          \/ pc[w] = "outcome" /\ out[w].kind = "ambiguous"

\* What the place of the lease holder says about its job.
PlacesTrue ==
  \A w \in Workers : Mine(w) =>
    /\ pc[w] \in {"queued", "begin", "absent", "resubmit", "rebegin"} =>
         RemoteJobsOf(cur[w]) = {}
    /\ pc[w] = "submitting" => status[cur[w]] = "SUBMITTING"
    /\ pc[w] = "outcome" =>
         /\ out[w].kind \in Refusals => RemoteJobsOf(cur[w]) = {}
         /\ out[w].kind = "accepted" => out[w].remote \in RemoteJobsOf(cur[w])

\* A recorded remote job is the job's own, and only such a one is ever purged.
RecordsTrue ==
  /\ \A j \in Jobs : remoteId[j] # NoRemote =>
       /\ remoteId[j] \in RemoteJobsOf(j)
       /\ status[j] \notin {"QUEUED", "BLOCKED", "SUBMITTING"}
  /\ \A r \in RemoteIds :
       /\ svc[r].job = NoJob => svc[r].status = "none"
       /\ svc[r].status = "purged" => remoteId[svc[r].job] = r

SubmissionInv ==
  /\ TypeOK
  /\ HandsApart /\ PostersHold /\ WireCovered /\ PlacesTrue /\ RecordsTrue
  /\ NoDoubleSubmit /\ NoOrphanRemote /\ WaitingMeansUnsent

\* A cancel request that has returned is never stranded on a BLOCKED job, which
\* no worker claims (steps 4 of cancel_job and the checks after a submit).
CancelNotStranded ==
  \A j \in Jobs : cancelReq[j] => status[j] # "BLOCKED"

\* Only one worker at a time is between the marker of a job and its outcome.
OneSubmitter ==
  \A v, w \in Workers :
    /\ pc[v] \in {"send", "wait"} /\ pc[w] \in {"send", "wait"}
    /\ cur[v] = cur[w]
    => v = w

\* The recorded remote job succeeded; how a purged one ended is no longer known.
RemoteSucceeded(j) ==
  remoteId[j] # NoRemote /\ svc[remoteId[j]].status \in {"SUCCEEDED", "purged"}

\* A job reported SUCCEEDED did succeed: its remote job or its run says so,
\* however stale the answer that a worker applied.
SuccessIsReal ==
  \A j \in Jobs : status[j] = "SUCCEEDED" => run[j] = "COMPLETED" \/ RemoteSucceeded(j)

\* The strengthening that makes the two properties above, and the finality of a
\* terminal status, inductive: whenever the lease holder applies what it read, the
\* row still allows it.
HandsCurrent ==
  \A w \in Workers : Mine(w) =>
    /\ pc[w] \in {"queued", "begin"} =>
         \/ status[cur[w]] = "QUEUED"
         \/ status[cur[w]] = "CANCELLED" /\ cancelReq[cur[w]]
    /\ pc[w] \in {"submitting", "absent", "resubmit", "rebegin", "pause"} =>
         status[cur[w]] = "SUBMITTING"
    /\ pc[w] = "polled" /\ out[w].kind = "seen" /\ out[w].seen = "SUCCEEDED" =>
         RemoteSucceeded(cur[w])

BlockedIsFree == \A j \in Jobs : status[j] = "BLOCKED" => owner[j] = Nobody

EndInv == HandsCurrent /\ BlockedIsFree /\ CancelNotStranded /\ SuccessIsReal

\* A terminal status is final: no late answer, stale worker or cancel changes it.
TerminalIsFinal ==
  [][\A j \in Jobs : status[j] \in TerminalStatuses => status'[j] = status[j]]_vars

\* A cancel request ends the job, wherever it finds it: waiting, being submitted,
\* running, already finished remotely, or with the service unreachable.
CancelSettles ==
  \A j \in Jobs : cancelReq[j] ~> status[j] \in TerminalStatuses

\* The end of a remote job reaches its job, also when the answer to its POST was
\* lost and only the reconcile finds it.
RemoteEndReported ==
  \A r \in RemoteIds : \A j \in Jobs :
    (svc[r].job = j /\ svc[r].status \in RemoteTerminal)
      ~> status[j] \in TerminalStatuses
=============================================================================
