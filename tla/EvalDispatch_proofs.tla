------------------------ MODULE EvalDispatch_proofs ------------------------
(***************************************************************************)
(* Proofs about EvalDispatch, for every number of jobs, workers and remote *)
(* jobs and without any bound on crashes, failures and cancel requests.    *)
(***************************************************************************)
EXTENDS EvalDispatch, TLAPS

\* The small operators every handler is built from.
USE DEF Goto, Release, SetStatus, Mine, StopLinkedRun, MarkCancel, CancelGoto,
        CancelMissed, rows, memory, service, vars, TypeOK

-----------------------------------------------------------------------------
\* Type correctness.

LEMMA AnswerTypes ==
  /\ NoAnswer \in Answers
  /\ \A kind \in {"ambiguous", "not_found", "retry", "paused", "cancelled",
                 "terminal"} \cup Refusals : Answer(kind) \in Answers
  /\ \A seen \in RemoteStatuses : [Answer("seen") EXCEPT !.seen = seen] \in Answers
  /\ \A r \in RemoteIds : ServiceOK => Accepted(r) \in Answers
BY DEF NoAnswer, Answer, Accepted, Answers, RemoteStatuses, Refusals, ServiceOK

\* Dropping the job in hand keeps the memory well-typed.
LEMMA DoneTypes ==
  ASSUME MemoryOK, NEW w \in Workers, Done(w)
  PROVE  MemoryOK'
BY AnswerTypes DEF Done, MemoryOK, Places

\* So does going on to another place with an answer.
LEMMA ContinueTypes ==
  ASSUME MemoryOK, NEW w \in Workers, NEW place \in Places, NEW a \in Answers,
         Continue(w, place, a)
  PROVE  MemoryOK'
BY DEF Continue, MemoryOK

\* Init satisfies the type invariant.
LEMMA InitTypes == Init => TypeOK
BY AnswerTypes, DispatchAssumption
   DEF Init, RowsOK, MemoryOK, ServiceOK, Statuses, RunStates, Places, RemoteStatuses,
       Absent

\* The steps around the lease keep the types.
LEMMA LeaseTypes ==
  ASSUME TypeOK, NEW w \in Workers,
         \/ Claim(w) \/ LeaseLost(w) \/ ReleaseOnly(w)
         \/ \E j \in Jobs : Process(w, j) \/ Skip(w, j)
  PROVE  TypeOK'
<1> USE DEF RowsOK, ServiceOK
<1>1. CASE Claim(w)
  BY <1>1 DEF Claim, MemoryOK
<1>2. CASE LeaseLost(w)
  BY <1>2, DoneTypes DEF LeaseLost
<1>3. CASE ReleaseOnly(w)
  BY <1>3, DoneTypes DEF ReleaseOnly
<1>4. CASE \E j \in Jobs : Process(w, j)
  <2>1. \A s \in Statuses : StepOf(s) \in Places
    BY DEF StepOf, Places, Statuses
  <2> QED BY <1>4, <2>1 DEF Process, MemoryOK
<1>5. CASE \E j \in Jobs : Skip(w, j)
  BY <1>5 DEF Skip, MemoryOK
<1> QED
  BY <1>1, <1>2, <1>3, <1>4, <1>5

\* The steps of a submit keep the types.
LEMMA SubmitTypes ==
  ASSUME TypeOK, NEW w \in Workers, Submit(w)
  PROVE  TypeOK'
<1> USE DEF RowsOK, ServiceOK
<1>1. CASE SubmitCancelled(w)
  BY <1>1, DoneTypes DEF SubmitCancelled, Statuses
<1>2. CASE SubmitBlocked(w)
  BY <1>2, DoneTypes DEF SubmitBlocked, Statuses
<1>3. CASE SubmitDeferred(w)
  BY <1>3, DoneTypes DEF SubmitDeferred
<1>4. CASE SubmitReady(w)
  BY <1>4 DEF SubmitReady, MemoryOK, Places
<1>5. CASE BeginSubmit(w)
  BY <1>5 DEF BeginSubmit, MemoryOK, Places, Statuses
<1>6. CASE BeginRefused(w)
  BY <1>6, DoneTypes DEF BeginRefused, Statuses
<1>7. CASE Send(w)
  <2>1. cur[w] \in Jobs => wire[cur[w]] + 1 \in Nat
    OBVIOUS
  <2>2. ServiceOK'
    BY <1>7, <2>1 DEF Send
  <2>3. MemoryOK'
    BY <1>7 DEF Send, MemoryOK, Places
  <2> QED BY <1>7, <2>2, <2>3 DEF Send
<1>8. CASE GiveUp(w)
  <2>1. MemoryOK'
    BY <1>8, ContinueTypes, AnswerTypes DEF GiveUp, Places
  <2> QED BY <1>8, <2>1 DEF GiveUp
<1>9. CASE OutcomeAccepted(w)
  <2>1. out[w].remote \in RemoteIds \cup {NoRemote}
    BY DEF MemoryOK, Answers
  <2> QED BY <1>9, <2>1, DoneTypes DEF OutcomeAccepted, Statuses
<1>10. CASE OutcomeRefused(w)
  BY <1>10, DoneTypes DEF OutcomeRefused, Statuses
<1>11. CASE OutcomeAmbiguous(w)
  BY <1>11, DoneTypes DEF OutcomeAmbiguous
<1> QED
  BY <1>1, <1>2, <1>3, <1>4, <1>5, <1>6, <1>7, <1>8, <1>9, <1>10, <1>11 DEF Submit

\* The steps of a reconcile keep the types.
LEMMA ReconcileTypes ==
  ASSUME TypeOK, NEW w \in Workers, ReconcileStep(w)
  PROVE  TypeOK'
<1> USE DEF RowsOK, ServiceOK
<1>1. CASE Reconcile(w)
  <2>1. \E place \in Places, a \in Answers : Continue(w, place, a)
    BY <1>1, AnswerTypes DEF Reconcile, Places
  <2>2. MemoryOK'
    BY <2>1, ContinueTypes
  <2> QED BY <1>1, <2>2 DEF Reconcile
<1>2. CASE ReconcilePaused(w)
  BY <1>2, DoneTypes DEF ReconcilePaused
<1>3. CASE ReconcileFailed(w)
  <2>1. \E place \in Places, a \in Answers : Continue(w, place, a)
    BY <1>3, AnswerTypes DEF ReconcileFailed, Places
  <2>2. MemoryOK'
    BY <2>1, ContinueTypes
  <2> QED BY <1>3, <2>2 DEF ReconcileFailed
<1>4. CASE PauseSubmitting(w)
  BY <1>4, DoneTypes DEF PauseSubmitting
<1>5. CASE Absence(w)
  <2>1. CASE Done(w)
    BY <1>5, <2>1, DoneTypes DEF Absence, Statuses
  <2>2. CASE ~Done(w)
    BY <1>5, <2>2 DEF Absence, MemoryOK, Places
  <2> QED BY <2>1, <2>2
<1> QED
  BY <1>1, <1>2, <1>3, <1>4, <1>5 DEF ReconcileStep

\* The steps of a poll keep the types.
LEMMA PollTypes ==
  ASSUME TypeOK, NEW w \in Workers, PollStep(w)
  PROVE  TypeOK'
<1> USE DEF RowsOK, ServiceOK
<1>1. CASE Poll(w)
  <2>1. remoteId[cur[w]] # NoRemote /\ cur[w] \in Jobs =>
          svc[remoteId[cur[w]]].status \in RemoteStatuses
    OBVIOUS
  <2>2. cur[w] \in Jobs
    BY <1>1 DEF Poll, MemoryOK
  <2>3. \E place \in Places, a \in Answers : Continue(w, place, a)
    BY <1>1, <2>1, <2>2, AnswerTypes DEF Poll, Places, Refusals
  <2>4. MemoryOK'
    BY <2>3, ContinueTypes
  <2> QED BY <1>1, <2>4 DEF Poll
<1>2. CASE PollIgnored(w)
  BY <1>2, DoneTypes DEF PollIgnored
<1>3. CASE PollFinished(w)
  BY <1>3, DoneTypes DEF PollFinished, Finished, RemoteTerminal, RunStates, Statuses
<1>4. CASE PollMerged(w)
  <2>1. MergedRun(cur[w]) \subseteq Statuses
    BY DEF MergedRun, Statuses
  <2> QED BY <1>4, <2>1, DoneTypes DEF PollMerged, Unfinished
<1>5. CASE PollCancelling(w)
  BY <1>5, DoneTypes DEF PollCancelling, Unfinished, Statuses
<1>6. CASE PollGone(w)
  BY <1>6, DoneTypes DEF PollGone, Unfinished, Statuses
<1>7. CASE PollWaiting(w)
  <2>1. Progress(w) \subseteq Statuses
    BY DEF Progress, Statuses
  <2> QED BY <1>7, <2>1, DoneTypes DEF PollWaiting, StillThere, Unfinished
<1>8. CASE PollStuck(w)
  <2>1. MemoryOK'
    BY <1>8, AnswerTypes DEF PollStuck, MemoryOK, Places
  <2> QED BY <1>8, <2>1 DEF PollStuck, StillThere, Unfinished, Statuses
<1> QED
  BY <1>1, <1>2, <1>3, <1>4, <1>5, <1>6, <1>7, <1>8 DEF PollStep

\* POST /evals/{id}/cancel keeps the types.
LEMMA RemoteCancelTypes ==
  ASSUME TypeOK, NEW w \in Workers, NEW place \in Places, RemoteCancelCall(w, place)
  PROVE  /\ MemoryOK'
         /\ svc' \in [RemoteIds -> [job : Jobs \cup {NoJob}, status : RemoteStatuses]]
<1>1. \E a \in Answers : Continue(w, place, a)
  BY AnswerTypes DEF RemoteCancelCall, Refusals
<1>2. MemoryOK'
  BY <1>1, ContinueTypes
<1>3. svc' \in [RemoteIds -> [job : Jobs \cup {NoJob}, status : RemoteStatuses]]
  BY DEF RemoteCancelCall, ServiceOK, RemoteStatuses, RemoteTerminal
<1> QED BY <1>2, <1>3

\* The steps of a remote cancel keep the types.
LEMMA CancelTypes ==
  ASSUME TypeOK, NEW w \in Workers, CancelWork(w)
  PROVE  TypeOK'
<1> USE DEF RowsOK, ServiceOK
<1>1. CASE CancelCall(w)
  BY <1>1, RemoteCancelTypes DEF CancelCall, Places
<1>2. CASE TimeoutCall(w)
  BY <1>2, RemoteCancelTypes DEF TimeoutCall, Places
<1>3. CASE TimedOut(w)
  BY <1>3, DoneTypes DEF TimedOut, Statuses
<1>4. CASE CancelDone(w)
  BY <1>4, DoneTypes DEF CancelDone, Statuses, RunStates
<1>5. CASE CancelTooLate(w)
  BY <1>5, DoneTypes DEF CancelTooLate, Statuses
<1>6. CASE CancelRetried(w)
  BY <1>6, DoneTypes DEF CancelRetried, Unanswered
<1>7. CASE CancelGivenUp(w)
  BY <1>7, DoneTypes DEF CancelGivenUp, Unanswered, Statuses, RunStates
<1> QED
  BY <1>1, <1>2, <1>3, <1>4, <1>5, <1>6, <1>7 DEF CancelWork

\* The cancel request of a user keeps the types.
LEMMA UserTypes ==
  ASSUME TypeOK, NEW j \in Jobs, CancelStart(j) \/ CancelStep(j)
  PROVE  TypeOK'
<1> USE DEF MemoryOK, ServiceOK, CancelStart, CancelStep
<1>1. CASE CancelLocally(j)
  BY <1>1 DEF CancelLocally, RowsOK, Statuses, RunStates
<1>2. CASE \E n \in {2, 5} : CancelLocallyMissed(j, n)
  BY <1>2 DEF CancelLocallyMissed, RowsOK
<1>3. CASE CancelRemotely(j)
  BY <1>3 DEF CancelRemotely, RowsOK, Statuses
<1>4. CASE CancelNoted(j)
  BY <1>4 DEF CancelNoted, RowsOK, Statuses, RunStates
<1>5. CASE \E n \in {0, 3, 4} : CancelMissed(j, n)
  BY <1>5 DEF RowsOK
<1> QED BY <1>1, <1>2, <1>3, <1>4, <1>5 DEF CancelMore

\* Failures, time and the service keep the types.
LEMMA EnvironmentTypes ==
  ASSUME TypeOK, Environment
  PROVE  TypeOK'
<1> USE DEF ServiceOK
<1>1. ASSUME NEW w \in Workers, Crash(w)
      PROVE  TypeOK'
  BY <1>1, AnswerTypes DEF Crash, RowsOK, MemoryOK, Places
<1>2. ASSUME NEW w \in Workers, StepFailed(w)
      PROVE  TypeOK'
  BY <1>2, DoneTypes DEF StepFailed, RowsOK
<1>3. ASSUME NEW j \in Jobs, LeaseExpires(j) \/ WaitElapses(j)
      PROVE  TypeOK'
  BY <1>3 DEF LeaseExpires, WaitElapses, RowsOK, MemoryOK
<1>4. ASSUME NEW j \in Jobs, NEW a \in Answers, Answered(j, a)
      PROVE  MemoryOK' /\ wire' \in [Jobs -> Nat]
  <2>1. MemoryOK'
    <3>1. CASE UNCHANGED memory
      BY <3>1 DEF MemoryOK
    <3>2. CASE \E w \in Workers : Continue(w, "outcome", a)
      BY <3>2, ContinueTypes DEF Places
    <3> QED BY <1>4, <3>1, <3>2 DEF Answered
  <2>2. wire[j] - 1 \in Nat
    BY <1>4 DEF Answered
  <2> QED BY <1>4, <2>1, <2>2 DEF Answered
<1>5. ASSUME NEW j \in Jobs, Refuse(j)
      PROVE  TypeOK'
  <2>1. MemoryOK' /\ wire' \in [Jobs -> Nat]
    BY <1>4, <1>5, AnswerTypes DEF Refuse
  <2> QED BY <1>5, <2>1 DEF Refuse, RowsOK
<1>6. ASSUME NEW j \in Jobs, LoseRequest(j)
      PROVE  TypeOK'
  <2>1. wire[j] - 1 \in Nat
    BY <1>6 DEF LoseRequest
  <2> QED BY <1>6, <2>1 DEF LoseRequest, RowsOK, MemoryOK
<1>7. ASSUME NEW j \in Jobs, RunStep(j)
      PROVE  TypeOK'
  BY <1>7 DEF RunStep, RowsOK, MemoryOK, RunStates
<1>8. ASSUME NEW j \in Jobs, NEW r \in RemoteIds, Accept(j, r)
      PROVE  TypeOK'
  <2>1. [kind |-> "accepted", remote |-> r, seen |-> "PENDING"] \in Answers
    BY DEF Answers, RemoteStatuses, RemoteActive
  <2>2. MemoryOK' /\ wire' \in [Jobs -> Nat]
    BY <1>4, <1>8, <2>1 DEF Accept
  <2>3. svc' \in [RemoteIds -> [job : Jobs \cup {NoJob}, status : RemoteStatuses]]
    BY <1>8 DEF Accept, RemoteStatuses, RemoteActive
  <2> QED BY <1>8, <2>2, <2>3 DEF Accept, RowsOK
<1>9. ASSUME NEW r \in RemoteIds, ServiceStep(r)
      PROVE  TypeOK'
  <2>1. svc' \in [RemoteIds -> [job : Jobs \cup {NoJob}, status : RemoteStatuses]]
    BY <1>9 DEF ServiceStep, RemoteStatuses, RemoteActive, RemoteTerminal
  <2> QED BY <1>9, <2>1 DEF ServiceStep, RowsOK, MemoryOK
<1>10. CASE EnvironmentRecovers
  BY <1>10 DEF EnvironmentRecovers, RowsOK, MemoryOK
<1> QED
  BY <1>1, <1>2, <1>3, <1>5, <1>6, <1>7, <1>8, <1>9, <1>10 DEF Environment

\* Every step keeps the types.
LEMMA NextTypes == TypeOK /\ [Next]_vars => TypeOK'
<1> SUFFICES ASSUME TypeOK, [Next]_vars
             PROVE  TypeOK'
  OBVIOUS
<1>1. CASE \E w \in Workers : Worker(w)
  BY <1>1, LeaseTypes, SubmitTypes, ReconcileTypes, PollTypes, CancelTypes DEF Worker
<1>2. CASE \E j \in Jobs : CancelStart(j) \/ CancelStep(j)
  BY <1>2, UserTypes
<1>3. CASE Environment
  BY <1>3, EnvironmentTypes
<1>4. CASE Settled \/ UNCHANGED vars
  BY <1>4 DEF Settled, RowsOK, MemoryOK, ServiceOK
<1> QED BY <1>1, <1>2, <1>3, <1>4 DEF Next

\* The type invariant: every handler leaves the rows, the workers' memory and the
\* service in states the code knows.
THEOREM TypeCorrect == Spec => []TypeOK
BY InitTypes, NextTypes, PTL DEF Spec

-----------------------------------------------------------------------------
\* One remote job per job.  Most handlers end the step of a lease holder; what they
\* have in common is stated once.

LEMMA InitSubmission == Init => SubmissionInv
<1> SUFFICES ASSUME Init
             PROVE  SubmissionInv
  OBVIOUS
<1>1. TypeOK
  BY InitTypes
<1>2. \A j \in Jobs : RemoteJobsOf(j) = {}
  BY DispatchAssumption DEF Init, RemoteJobsOf, Absent
<1> QED
  BY <1>1, <1>2, DispatchAssumption
     DEF Init, SubmissionInv, HandsApart, PostersHold, WireCovered, PlacesTrue,
         RecordsTrue, NoDoubleSubmit, NoOrphanRemote, WaitingMeansUnsent, Absent

\* A lease holder w ends its step and leaves its job with status s; a POST still on its
\* way is covered by the wait, and a job is only declared waiting, or taken out of
\* SUBMITTING, when it has no remote job.
Finishes(w, s) ==
  LET j == cur[w] IN
  /\ Mine(w) /\ pc[w] \notin {"idle", "send", "wait"}
  /\ Done(w)
  /\ UNCHANGED <<remoteId, wire, svc>>
  /\ status' = [status EXCEPT ![j] = s]
  /\ \/ Release(j) /\ (wire[j] > 0 => held'[j])
     \/ UNCHANGED <<owner, expired, held>>
  /\ \A i \in Jobs \ {j} : held'[i] = held[i]
  /\ s # status[j] =>
       /\ s # "SUBMITTING" /\ wire[j] = 0
       /\ \/ RemoteJobsOf(j) = {}
          \/ status[j] # "SUBMITTING" /\ s \notin {"QUEUED", "BLOCKED"}

LEMMA FinishKeeps ==
  ASSUME SubmissionInv, TypeOK', NEW w \in Workers, NEW s \in Statuses, Finishes(w, s)
  PROVE  SubmissionInv'
<1> DEFINE j == cur[w]
<1>1. /\ j \in Jobs /\ owner[j] = w
      /\ pc' = [pc EXCEPT ![w] = "idle"] /\ cur' = [cur EXCEPT ![w] = NoJob]
      /\ out' = [out EXCEPT ![w] = NoAnswer] /\ batch' = batch
      /\ TypeOK
  BY DEF SubmissionInv, MemoryOK, Finishes, Done
<1>2. \A i \in Jobs : RemoteJobsOf(i)' = RemoteJobsOf(i)
  BY DEF RemoteJobsOf, Finishes
<1>3. HandsApart'
  BY <1>1, DispatchAssumption DEF SubmissionInv, HandsApart, MemoryOK
<1>4. PostersHold'
  <2> SUFFICES ASSUME NEW v \in Workers, pc'[v] \in {"send", "wait"}
               PROVE  (/\ status[cur[v]] = "SUBMITTING" /\ owner[cur[v]] = v /\ ~expired[cur[v]]
                       /\ pc[v] = "send" => RemoteJobsOf(cur[v]) = {} /\ wire[cur[v]] = 0)'
    BY DEF PostersHold
  <2>1. v # w /\ cur'[v] = cur[v] /\ pc'[v] = pc[v]
    BY <1>1 DEF MemoryOK
  <2>2. cur[v] \in Jobs /\ owner[cur[v]] = v
    BY <1>1, <2>1 DEF SubmissionInv, PostersHold, HandsApart, MemoryOK
  <2>3. cur[v] # j
    BY <1>1, <2>1, <2>2
  <2>4. /\ status'[cur[v]] = status[cur[v]] /\ owner'[cur[v]] = v
        /\ expired'[cur[v]] = expired[cur[v]] /\ wire'[cur[v]] = wire[cur[v]]
    BY <2>2, <2>3 DEF Finishes, RowsOK
  <2>5. /\ status[cur[v]] = "SUBMITTING" /\ ~expired[cur[v]]
        /\ pc[v] = "send" => RemoteJobsOf(cur[v]) = {} /\ wire[cur[v]] = 0
    BY <2>1 DEF SubmissionInv, PostersHold
  <2> QED BY <1>2, <2>1, <2>2, <2>4, <2>5
<1>5. WireCovered'
  <2> SUFFICES ASSUME NEW i \in Jobs, wire'[i] > 0
               PROVE  /\ wire'[i] = 1 /\ RemoteJobsOf(i)' = {} /\ status'[i] = "SUBMITTING"
                      /\ owner'[i] = Nobody => held'[i]
                      /\ \A v \in Workers : owner'[i] = v =>
                           /\ ~expired'[i] /\ i \notin batch'[v]
                           /\ cur'[v] = i => \/ pc'[v] = "wait"
                                             \/ pc'[v] = "outcome" /\ out'[v].kind = "ambiguous"
    BY DEF WireCovered
  <2>1. wire[i] > 0
    BY DEF Finishes
  <2>2. CASE i = j
    BY <1>1, <1>2, <2>1, <2>2, DispatchAssumption
       DEF SubmissionInv, WireCovered, Finishes, RowsOK, MemoryOK
  <2>3. CASE i # j
    BY <1>1, <1>2, <2>1, <2>3, DispatchAssumption
       DEF SubmissionInv, WireCovered, Finishes, RowsOK, MemoryOK
  <2> QED BY <2>2, <2>3
<1>6. PlacesTrue'
  <2> SUFFICES ASSUME NEW v \in Workers, Mine(v)'
               PROVE  (/\ pc[v] \in {"queued", "begin", "absent", "resubmit", "rebegin"} =>
                            RemoteJobsOf(cur[v]) = {}
                       /\ pc[v] = "submitting" => status[cur[v]] = "SUBMITTING"
                       /\ pc[v] = "outcome" =>
                            /\ out[v].kind \in Refusals => RemoteJobsOf(cur[v]) = {}
                            /\ out[v].kind = "accepted" =>
                                 out[v].remote \in RemoteJobsOf(cur[v]))'
    BY DEF PlacesTrue
  <2>1. v # w
    BY <1>1 DEF MemoryOK
  <2>2. /\ cur'[v] = cur[v] /\ pc'[v] = pc[v] /\ out'[v] = out[v] /\ cur[v] \in Jobs
        /\ cur[v] # j /\ Mine(v) /\ status'[cur[v]] = status[cur[v]]
    BY <1>1, <2>1, DispatchAssumption DEF Finishes, RowsOK, MemoryOK
  <2> QED BY <1>2, <2>2 DEF SubmissionInv, PlacesTrue
<1>7. RecordsTrue'
  BY <1>1, <1>2 DEF SubmissionInv, RecordsTrue, Finishes, RowsOK
<1>8. NoDoubleSubmit'
  BY <1>2 DEF SubmissionInv, NoDoubleSubmit
<1>9. NoOrphanRemote'
  BY <1>1, <1>2 DEF SubmissionInv, NoOrphanRemote, Finishes, RowsOK
<1>10. WaitingMeansUnsent'
  BY <1>1, <1>2 DEF SubmissionInv, WaitingMeansUnsent, NoOrphanRemote, Finishes, RowsOK
<1> QED BY <1>3, <1>4, <1>5, <1>6, <1>7, <1>8, <1>9, <1>10 DEF SubmissionInv

\* A lease holder w goes on to another place of its step, between two transactions.
\* The service may work on a job meanwhile, but creates and forgets none.
Moves(w, place) ==
  LET j == cur[w] IN
  /\ Mine(w) /\ pc[w] \notin {"idle", "send", "wait", "outcome"}
  /\ place \notin {"idle", "send", "wait", "queued", "submitting"}
  /\ Goto(w, place)
  /\ \A v \in Workers \ {w} : out'[v] = out[v]
  /\ UNCHANGED <<cur, batch, remoteId, owner, expired, held, wire>>
  /\ \/ UNCHANGED status
     \/ status[j] \in RemoteCancel /\ SetStatus(j, "RUNNING")
  /\ \A r \in RemoteIds :
       /\ svc'[r].job = svc[r].job
       /\ svc'[r].status # svc[r].status =>
            svc'[r].status # "purged" /\ svc[r].status # "none"
  /\ place \in {"begin", "rebegin", "absent", "resubmit"} => RemoteJobsOf(j) = {}
  /\ place = "outcome" =>
       /\ out'[w].kind \in Refusals => RemoteJobsOf(j) = {}
       /\ out'[w].kind = "accepted" => out'[w].remote \in RemoteJobsOf(j)

LEMMA MoveKeeps ==
  ASSUME SubmissionInv, TypeOK', NEW w \in Workers, NEW place \in Places, Moves(w, place)
  PROVE  SubmissionInv'
<1> DEFINE j == cur[w]
<1>1. j \in Jobs /\ owner[j] = w /\ TypeOK
  BY DEF SubmissionInv, MemoryOK, Moves
<1>2. \A i \in Jobs : RemoteJobsOf(i)' = RemoteJobsOf(i)
  BY DEF RemoteJobsOf, Moves
<1>3. HandsApart'
  BY <1>1, DispatchAssumption DEF SubmissionInv, HandsApart, MemoryOK, Moves
<1>4. \A i \in Jobs : status'[i] # status[i] => i = j /\ status[i] \in RemoteCancel
  BY <1>1 DEF Moves, RowsOK
<1>5. PostersHold'
  <2> SUFFICES ASSUME NEW v \in Workers, pc'[v] \in {"send", "wait"}
               PROVE  (/\ status[cur[v]] = "SUBMITTING" /\ owner[cur[v]] = v /\ ~expired[cur[v]]
                       /\ pc[v] = "send" => RemoteJobsOf(cur[v]) = {} /\ wire[cur[v]] = 0)'
    BY DEF PostersHold
  <2>1. v # w /\ cur'[v] = cur[v] /\ pc'[v] = pc[v] /\ cur[v] \in Jobs
    BY <1>1 DEF Moves, SubmissionInv, HandsApart, MemoryOK
  <2>2. /\ status[cur[v]] = "SUBMITTING" /\ owner[cur[v]] = v /\ ~expired[cur[v]]
        /\ pc[v] = "send" => RemoteJobsOf(cur[v]) = {} /\ wire[cur[v]] = 0
    BY <2>1 DEF SubmissionInv, PostersHold
  <2> QED BY <1>2, <1>4, <2>1, <2>2 DEF Moves, RemoteCancel
<1>6. WireCovered'
  <2> SUFFICES ASSUME NEW i \in Jobs, wire'[i] > 0
               PROVE  /\ wire'[i] = 1 /\ RemoteJobsOf(i)' = {} /\ status'[i] = "SUBMITTING"
                      /\ owner'[i] = Nobody => held'[i]
                      /\ \A v \in Workers : owner'[i] = v =>
                           /\ ~expired'[i] /\ i \notin batch'[v]
                           /\ cur'[v] = i => \/ pc'[v] = "wait"
                                             \/ pc'[v] = "outcome" /\ out'[v].kind = "ambiguous"
    BY DEF WireCovered
  <2>1. wire[i] > 0 /\ i # j
    BY <1>1 DEF Moves, SubmissionInv, WireCovered
  <2> QED BY <1>1, <1>2, <1>4, <2>1 DEF SubmissionInv, WireCovered, Moves, MemoryOK
<1>7. PlacesTrue'
  <2> SUFFICES ASSUME NEW v \in Workers, Mine(v)'
               PROVE  (/\ pc[v] \in {"queued", "begin", "absent", "resubmit", "rebegin"} =>
                            RemoteJobsOf(cur[v]) = {}
                       /\ pc[v] = "submitting" => status[cur[v]] = "SUBMITTING"
                       /\ pc[v] = "outcome" =>
                            /\ out[v].kind \in Refusals => RemoteJobsOf(cur[v]) = {}
                            /\ out[v].kind = "accepted" =>
                                 out[v].remote \in RemoteJobsOf(cur[v]))'
    BY DEF PlacesTrue
  <2>1. CASE v = w
    BY <1>1, <1>2, <2>1 DEF Moves, MemoryOK
  <2>2. CASE v # w
    <3>1. /\ cur'[v] = cur[v] /\ pc'[v] = pc[v] /\ out'[v] = out[v] /\ cur[v] \in Jobs
          /\ cur[v] # j /\ Mine(v) /\ status'[cur[v]] = status[cur[v]]
      BY <1>1, <1>4, <2>2 DEF Moves, MemoryOK
    <3> QED BY <1>2, <3>1 DEF SubmissionInv, PlacesTrue
  <2> QED BY <2>1, <2>2
<1>8. RecordsTrue'
  <2>1. \A r \in RemoteIds : /\ svc[r].job = NoJob => svc'[r].status = "none"
                             /\ svc'[r].status = "purged" => svc[r].status = "purged"
    BY DEF Moves, SubmissionInv, RecordsTrue
  <2> QED BY <1>1, <1>2, <1>4, <2>1 DEF SubmissionInv, RecordsTrue, Moves, RowsOK
<1>9. NoDoubleSubmit'
  BY <1>2 DEF SubmissionInv, NoDoubleSubmit
<1>10. NoOrphanRemote'
  BY <1>2, <1>4 DEF SubmissionInv, NoOrphanRemote, Moves, RemoteCancel
<1>11. WaitingMeansUnsent'
  <2>1. \A i \in Jobs : status'[i] \in {"QUEUED", "BLOCKED"} => status'[i] = status[i]
    BY <1>1, <1>4 DEF Moves, RowsOK
  <2> QED BY <1>2, <2>1 DEF SubmissionInv, WaitingMeansUnsent, Moves
<1> QED BY <1>3, <1>5, <1>6, <1>7, <1>8, <1>9, <1>10, <1>11 DEF SubmissionInv

\* What the invariant says of the job in the hands of a lease holder.
LEMMA HolderFacts ==
  ASSUME SubmissionInv, NEW w \in Workers, Mine(w)
  PROVE  /\ cur[w] \in Jobs /\ owner[cur[w]] = w
         /\ wire[cur[w]] > 0 =>
              \/ pc[w] = "wait"
              \/ pc[w] = "outcome" /\ out[w].kind = "ambiguous"
         /\ wire[cur[w]] \in Nat
         /\ status[cur[w]] \in Statuses
         /\ pc[w] \in {"queued", "resubmit", "absent"} => RemoteJobsOf(cur[w]) = {}
         /\ pc[w] = "outcome" /\ out[w].kind \in Refusals => RemoteJobsOf(cur[w]) = {}
<1>1. cur[w] \in Jobs /\ owner[cur[w]] = w /\ wire[cur[w]] \in Nat
      /\ status[cur[w]] \in Statuses
  BY DEF SubmissionInv, MemoryOK, ServiceOK, RowsOK
<1>2. wire[cur[w]] > 0 => \/ pc[w] = "wait"
                          \/ pc[w] = "outcome" /\ out[w].kind = "ambiguous"
  BY <1>1 DEF SubmissionInv, WireCovered
<1>3. /\ pc[w] \in {"queued", "resubmit", "absent"} => RemoteJobsOf(cur[w]) = {}
      /\ pc[w] = "outcome" /\ out[w].kind \in Refusals => RemoteJobsOf(cur[w]) = {}
  BY DEF SubmissionInv, PlacesTrue
<1> QED BY <1>1, <1>2, <1>3

\* The ends of a submit keep the invariant.
LEMMA SubmitEnds ==
  ASSUME SubmissionInv, TypeOK', NEW w \in Workers,
         \/ SubmitCancelled(w) \/ SubmitBlocked(w) \/ SubmitDeferred(w)
         \/ BeginRefused(w) \/ OutcomeRefused(w) \/ OutcomeAmbiguous(w)
  PROVE  SubmissionInv'
<1> DEFINE j == cur[w]
<1>1. CASE SubmitCancelled(w)
  <2>1. wire[j] = 0 /\ status[j] \in Statuses /\ RemoteJobsOf(j) = {}
    BY <1>1, HolderFacts DEF SubmitCancelled, InSubmit
  <2>2. Finishes(w, "CANCELLED")
    BY <1>1, <2>1 DEF Finishes, RowsOK, SubmitCancelled, InSubmit
  <2> QED BY <2>1, <2>2, FinishKeeps DEF Statuses
<1>2. CASE SubmitBlocked(w)
  <2>1. wire[j] = 0 /\ status[j] \in Statuses /\ RemoteJobsOf(j) = {}
    BY <1>2, HolderFacts DEF SubmitBlocked, InSubmit
  <2>2. Finishes(w, "BLOCKED")
    BY <1>2, <2>1 DEF Finishes, RowsOK, SubmitBlocked, InSubmit
  <2> QED BY <2>1, <2>2, FinishKeeps DEF Statuses
<1>3. CASE SubmitDeferred(w)
  <2>1. wire[j] = 0 /\ status[j] \in Statuses
    BY <1>3, HolderFacts DEF SubmitDeferred, InSubmit
  <2>2. Finishes(w, status[j])
    BY <1>3, <2>1 DEF Finishes, RowsOK, SubmitDeferred, InSubmit
  <2> QED BY <2>1, <2>2, FinishKeeps DEF Statuses
<1>4. CASE BeginRefused(w)
  <2>1. wire[j] = 0 /\ status[j] \in Statuses
    BY <1>4, HolderFacts DEF BeginRefused
  <2>2. CASE status[j] = "QUEUED" /\ cancelReq[j]
    <3>1. Finishes(w, "CANCELLED")
      BY <1>4, <2>1, <2>2 DEF Finishes, RowsOK, BeginRefused
    <3> QED BY <3>1, FinishKeeps DEF Statuses
  <2>3. CASE ~(status[j] = "QUEUED" /\ cancelReq[j])
    <3>1. Finishes(w, status[j])
      BY <1>4, <2>1, <2>3 DEF Finishes, RowsOK, BeginRefused
    <3> QED BY <2>1, <3>1, FinishKeeps
  <2> QED BY <2>2, <2>3
<1>5. CASE OutcomeRefused(w)
  <2>1. wire[j] = 0 /\ status[j] \in Statuses /\ RemoteJobsOf(j) = {}
    BY <1>5, HolderFacts DEF OutcomeRefused, Refusals
  <2>2. \E s \in Statuses :
          /\ status' = [status EXCEPT ![j] = s]
          /\ s = status[j] \/ s \in {"CANCELLED", "BLOCKED", "QUEUED"}
    <3>1. CASE status[j] = "SUBMITTING"
      BY <1>5, <3>1 DEF OutcomeRefused, Statuses
    <3>2. CASE status[j] # "SUBMITTING"
      BY <1>5, <2>1, <3>2 DEF OutcomeRefused, RowsOK, SubmissionInv
    <3> QED BY <3>1, <3>2
  <2>3. PICK s \in Statuses :
          /\ status' = [status EXCEPT ![j] = s]
          /\ s = status[j] \/ s \in {"CANCELLED", "BLOCKED", "QUEUED"}
    BY <2>2
  <2>4. /\ Mine(w) /\ pc[w] = "outcome" /\ Done(w) /\ Release(j)
        /\ UNCHANGED <<remoteId, wire, svc, held>>
    BY <1>5 DEF OutcomeRefused
  <2>5. Finishes(w, s)
    BY <2>1, <2>3, <2>4 DEF Finishes
  <2> QED BY <2>5, FinishKeeps
<1>6. CASE OutcomeAmbiguous(w)
  <2>1. status[j] \in Statuses /\ j \in Jobs
    BY <1>6, HolderFacts DEF OutcomeAmbiguous
  <2>2. wire[j] > 0 => status[j] = "SUBMITTING"
    BY <2>1 DEF SubmissionInv, WireCovered
  <2>3. Finishes(w, status[j])
    BY <1>6, <2>1, <2>2 DEF Finishes, OutcomeAmbiguous, RowsOK, SubmissionInv
  <2> QED BY <2>1, <2>3, FinishKeeps
<1> QED BY <1>1, <1>2, <1>3, <1>4, <1>5, <1>6

\* The other ends that leave the status alone, or a pending cancel completes.
LEMMA OtherEnds ==
  ASSUME SubmissionInv, TypeOK', NEW w \in Workers,
         \/ ReleaseOnly(w) \/ ReconcilePaused(w) \/ PauseSubmitting(w) \/ PollIgnored(w)
         \/ CancelRetried(w) \/ StepFailed(w) \/ (Absence(w) /\ Done(w))
  PROVE  SubmissionInv'
<1> DEFINE j == cur[w]
<1>1. CASE ReleaseOnly(w)
  <2>1. wire[j] = 0 /\ status[j] \in Statuses
    BY <1>1, HolderFacts DEF ReleaseOnly
  <2>2. Finishes(w, status[j])
    BY <1>1, <2>1 DEF Finishes, RowsOK, ReleaseOnly
  <2> QED BY <2>1, <2>2, FinishKeeps DEF Statuses
<1>2. CASE ReconcilePaused(w)
  <2>1. wire[j] = 0 /\ status[j] \in Statuses
    BY <1>2, HolderFacts DEF ReconcilePaused, InReconcile
  <2>2. Finishes(w, status[j])
    BY <1>2, <2>1 DEF Finishes, RowsOK, ReconcilePaused, InReconcile
  <2> QED BY <2>1, <2>2, FinishKeeps DEF Statuses
<1>3. CASE PauseSubmitting(w)
  <2>1. wire[j] = 0 /\ status[j] \in Statuses
    BY <1>3, HolderFacts DEF PauseSubmitting
  <2>2. Finishes(w, status[j])
    BY <1>3, <2>1 DEF Finishes, RowsOK, PauseSubmitting
  <2> QED BY <2>1, <2>2, FinishKeeps DEF Statuses
<1>4. CASE PollIgnored(w)
  <2>1. wire[j] = 0 /\ status[j] \in Statuses
    BY <1>4, HolderFacts DEF PollIgnored, Polled
  <2>2. Finishes(w, status[j])
    BY <1>4, <2>1 DEF Finishes, RowsOK, PollIgnored, Polled
  <2> QED BY <2>1, <2>2, FinishKeeps DEF Statuses
<1>5. CASE CancelRetried(w)
  <2>1. wire[j] = 0 /\ status[j] \in Statuses
    BY <1>5, HolderFacts DEF CancelRetried, Unanswered, CancelAnswer
  <2>2. Finishes(w, status[j])
    BY <1>5, <2>1 DEF Finishes, RowsOK, CancelRetried, Unanswered, CancelAnswer
  <2> QED BY <2>1, <2>2, FinishKeeps DEF Statuses
<1>6. CASE StepFailed(w)
  <2>1. status[j] \in Statuses
    BY <1>6, HolderFacts DEF StepFailed
  <2>2. Finishes(w, status[j])
    BY <1>6, <2>1 DEF Finishes, StepFailed, LockingPlaces, RowsOK, MemoryOK, SubmissionInv
  <2> QED BY <2>1, <2>2, FinishKeeps
<1>7. CASE Absence(w) /\ Done(w)
  <2>1. wire[j] = 0 /\ status[j] \in Statuses /\ RemoteJobsOf(j) = {}
    BY <1>7, HolderFacts DEF Absence
  <2>2. cancelReq[j] /\ status[j] \notin TerminalStatuses
    BY <1>7 DEF Absence, Done, MemoryOK, SubmissionInv
  <2>3. Finishes(w, "CANCELLED")
    BY <1>7, <2>1, <2>2 DEF Finishes, Absence, RowsOK
  <2> QED BY <2>3, FinishKeeps DEF Statuses
<1> QED BY <1>1, <1>2, <1>3, <1>4, <1>5, <1>6, <1>7

\* The ends of a poll keep the invariant.
LEMMA PollEnds ==
  ASSUME SubmissionInv, TypeOK', NEW w \in Workers,
         \/ PollFinished(w) \/ PollMerged(w) \/ PollCancelling(w) \/ PollGone(w)
         \/ PollWaiting(w)
  PROVE  SubmissionInv'
<1> DEFINE j == cur[w]
<1>1. CASE PollFinished(w)
  <2>1. /\ wire[j] = 0 /\ status[j] \in Statuses /\ status[j] \in RemoteCancel
        /\ out[w].seen \in RemoteTerminal
    BY <1>1, HolderFacts DEF PollFinished, Polled, InProgress, Finished
  <2>2. Finishes(w, out[w].seen)
    BY <1>1, <2>1 DEF Finishes, RowsOK, PollFinished, Polled, InProgress, RemoteCancel,
                          RemoteTerminal
  <2> QED BY <2>1, <2>2, FinishKeeps DEF Statuses, RemoteTerminal
<1>2. CASE PollMerged(w)
  <2>1. wire[j] = 0 /\ status[j] \in RemoteCancel
    BY <1>2, HolderFacts DEF PollMerged, Unfinished, Polled, InProgress
  <2>2. PICK s \in MergedRun(j) : SetStatus(j, s)
    BY <1>2 DEF PollMerged
  <2>3. s \in Statuses /\ s \notin {"QUEUED", "BLOCKED", "SUBMITTING"}
    BY <2>2 DEF MergedRun, Statuses
  <2>4. /\ Mine(w) /\ pc[w] = "polled" /\ Done(w) /\ Release(j)
        /\ UNCHANGED <<remoteId, wire, svc, held>>
    BY <1>2 DEF PollMerged, Unfinished, Polled
  <2>5. Finishes(w, s)
    BY <2>1, <2>2, <2>3, <2>4 DEF Finishes, RemoteCancel
  <2> QED BY <2>3, <2>5, FinishKeeps
<1>3. CASE PollCancelling(w)
  <2>1. wire[j] = 0 /\ status[j] \in Statuses /\ status[j] \in RemoteCancel
    BY <1>3, HolderFacts DEF PollCancelling, Unfinished, Polled, InProgress
  <2>2. Finishes(w, "CANCELLING")
    BY <1>3, <2>1 DEF Finishes, RowsOK, RemoteCancel, PollCancelling, Unfinished, Polled,
                          InProgress
  <2> QED BY <2>1, <2>2, FinishKeeps DEF Statuses
<1>4. CASE PollGone(w)
  <2>1. wire[j] = 0 /\ status[j] \in Statuses /\ status[j] \in RemoteCancel
    BY <1>4, HolderFacts DEF PollGone, Unfinished, Polled, InProgress
  <2>2. Finishes(w, "FAILED")
    BY <1>4, <2>1 DEF Finishes, RowsOK, RemoteCancel, PollGone, Unfinished, Polled,
                          InProgress
  <2> QED BY <2>1, <2>2, FinishKeeps DEF Statuses
<1>5. CASE PollWaiting(w)
  <2>1. wire[j] = 0 /\ status[j] \in RemoteCancel
    BY <1>5, HolderFacts DEF PollWaiting, StillThere, Unfinished, Polled, InProgress
  <2>2. PICK s \in Progress(w) : SetStatus(j, s)
    BY <1>5 DEF PollWaiting
  <2>3. s \in {"SUBMITTED", "RUNNING"}
    BY <2>2 DEF Progress
  <2>4. /\ Mine(w) /\ pc[w] = "polled" /\ Done(w) /\ Release(j)
        /\ UNCHANGED <<remoteId, wire, svc, held>>
    BY <1>5 DEF PollWaiting, StillThere, Unfinished, Polled
  <2>5. Finishes(w, s)
    BY <2>1, <2>2, <2>3, <2>4 DEF Finishes, RemoteCancel
  <2> QED BY <2>3, <2>5, FinishKeeps DEF Statuses
<1> QED BY <1>1, <1>2, <1>3, <1>4, <1>5

\* The ends of a remote cancel keep the invariant.
LEMMA CancelEnds ==
  ASSUME SubmissionInv, TypeOK', NEW w \in Workers,
         \/ TimedOut(w) \/ CancelDone(w) \/ CancelTooLate(w) \/ CancelGivenUp(w)
  PROVE  SubmissionInv'
<1> DEFINE j == cur[w]
<1>1. CASE TimedOut(w)
  <2>1. wire[j] = 0 /\ status[j] \in Statuses
    BY <1>1, HolderFacts DEF TimedOut
  <2>2. CASE InProgress(j)
    <3>1. Finishes(w, "TIMED_OUT")
      BY <1>1, <2>1, <2>2 DEF Finishes, TimedOut, InProgress, RemoteCancel
    <3> QED BY <3>1, FinishKeeps DEF Statuses
  <2>3. CASE ~InProgress(j)
    <3>1. Finishes(w, status[j])
      BY <1>1, <2>1, <2>3 DEF Finishes, TimedOut, RowsOK, SubmissionInv
    <3> QED BY <2>1, <3>1, FinishKeeps
  <2> QED BY <2>2, <2>3
<1>2. CASE CancelDone(w)
  <2>1. wire[j] = 0 /\ status[j] \in Statuses
    BY <1>2, HolderFacts DEF CancelDone, CancelAnswer
  <2>2. Finishes(w, "CANCELLED")
    BY <1>2, <2>1 DEF Finishes, RowsOK, CancelDone, CancelAnswer
  <2> QED BY <2>1, <2>2, FinishKeeps DEF Statuses
<1>3. CASE CancelTooLate(w)
  <2>1. wire[j] = 0 /\ status[j] \in Statuses
    BY <1>3, HolderFacts DEF CancelTooLate, CancelAnswer
  <2>2. Finishes(w, "RUNNING")
    BY <1>3, <2>1 DEF Finishes, RowsOK, CancelTooLate, CancelAnswer
  <2> QED BY <2>1, <2>2, FinishKeeps DEF Statuses
<1>4. CASE CancelGivenUp(w)
  <2>1. wire[j] = 0 /\ status[j] \in Statuses
    BY <1>4, HolderFacts DEF CancelGivenUp, Unanswered, CancelAnswer
  <2>2. Finishes(w, "CANCELLED")
    BY <1>4, <2>1 DEF Finishes, RowsOK, CancelGivenUp, Unanswered, CancelAnswer
  <2> QED BY <2>1, <2>2, FinishKeeps DEF Statuses
<1> QED BY <1>1, <1>2, <1>3, <1>4

\* The steps that go on keep the invariant.
LEMMA SubmitMoves ==
  ASSUME SubmissionInv, TypeOK', NEW w \in Workers,
         \/ SubmitReady(w) \/ (Absence(w) /\ ~Done(w)) \/ Reconcile(w) \/ ReconcileFailed(w)
  PROVE  SubmissionInv'
<1> DEFINE j == cur[w]
<1>1. CASE SubmitReady(w)
  <2>1. RemoteJobsOf(j) = {}
    BY <1>1 DEF SubmitReady, InSubmit, SubmissionInv, PlacesTrue
  <2>2. Moves(w, "begin") \/ Moves(w, "rebegin")
    BY <1>1, <2>1 DEF Moves, SubmitReady, InSubmit
  <2> QED BY <2>2, MoveKeeps DEF Places
<1>2. CASE Absence(w) /\ ~Done(w)
  <2>1. RemoteJobsOf(j) = {}
    BY <1>2 DEF Absence, SubmissionInv, PlacesTrue
  <2>2. Moves(w, "resubmit")
    BY <1>2, <2>1 DEF Moves, Absence
  <2> QED BY <2>2, MoveKeeps DEF Places
<1>3. CASE Reconcile(w)
  <2>1. status[j] = "SUBMITTING" /\ remoteId[j] = NoRemote /\ j \in Jobs
    BY <1>3, HolderFacts
       DEF Reconcile, InReconcile, SubmissionInv, PlacesTrue, RecordsTrue
  <2>2. \A r \in RemoteJobsOf(j) : svc[r].status # "purged"
    BY <2>1, DispatchAssumption DEF RemoteJobsOf, SubmissionInv, RecordsTrue
  <2>3. CASE RemoteJobsOf(j) = {}
    <3>1. Continue(w, "absent", NoAnswer)
      BY <1>3, <2>2, <2>3 DEF Reconcile, RemoteJobsOf
    <3>2. Moves(w, "absent")
      BY <1>3, <2>3, <3>1
         DEF Moves, Reconcile, InReconcile, Continue, SubmissionInv, MemoryOK
    <3> QED BY <3>2, MoveKeeps DEF Places
  <2>4. CASE RemoteJobsOf(j) # {}
    <3>1. PICK r \in RemoteJobsOf(j) : Continue(w, "outcome", Accepted(r))
      BY <1>3, <2>2, <2>4 DEF Reconcile, RemoteJobsOf
    <3>2. out'[w].kind = "accepted" /\ out'[w].remote = r
      BY <3>1 DEF Continue, Accepted, SubmissionInv, MemoryOK
    <3>3. Moves(w, "outcome")
      BY <1>3, <3>1, <3>2 DEF Moves, Reconcile, InReconcile, Continue, SubmissionInv,
                              MemoryOK, Refusals
    <3> QED BY <3>3, MoveKeeps DEF Places
  <2> QED BY <2>3, <2>4
<1>4. CASE ReconcileFailed(w)
  <2>1. CASE Continue(w, "outcome", Answer("ambiguous"))
    <3>1. out'[w].kind = "ambiguous"
      BY <2>1 DEF Continue, Answer, NoAnswer, SubmissionInv, MemoryOK
    <3>2. Moves(w, "outcome")
      BY <1>4, <2>1, <3>1
         DEF Moves, ReconcileFailed, InReconcile, Continue, SubmissionInv,
                              MemoryOK, Refusals
    <3> QED BY <3>2, MoveKeeps DEF Places
  <2>2. CASE Continue(w, "pause", NoAnswer)
    <3>1. Moves(w, "pause")
      BY <1>4, <2>2
         DEF Moves, ReconcileFailed, InReconcile, Continue, SubmissionInv, MemoryOK
    <3> QED BY <3>1, MoveKeeps DEF Places
  <2> QED BY <1>4, <2>1, <2>2 DEF ReconcileFailed
<1> QED BY <1>1, <1>2, <1>3, <1>4

\* So do the calls of a poll and of a remote cancel.
LEMMA PollMoves ==
  ASSUME SubmissionInv, TypeOK', NEW w \in Workers,
         Poll(w) \/ PollStuck(w) \/ CancelCall(w) \/ TimeoutCall(w)
  PROVE  SubmissionInv'
<1> DEFINE j == cur[w]
<1>1. CASE Poll(w)
  <2>1. \E a : Continue(w, "polled", a)
    BY <1>1 DEF Poll
  <2>2. Moves(w, "polled")
    BY <1>1, <2>1 DEF Moves, Poll, Continue, SubmissionInv, MemoryOK
  <2> QED BY <2>2, MoveKeeps DEF Places
<1>2. CASE PollStuck(w)
  <2>1. Moves(w, "timeout")
    BY <1>2
       DEF Moves, PollStuck, StillThere, Unfinished, Polled, InProgress, SubmissionInv,
                MemoryOK
  <2> QED BY <2>1, MoveKeeps DEF Places
<1>3. ASSUME NEW place \in {"cancelled", "timedout"}, RemoteCancelCall(w, place),
             pc[w] \in {"cancel", "timeout"}, Mine(w), UNCHANGED <<rows, wire>>
      PROVE  SubmissionInv'
  <2>1. \E a : Continue(w, place, a)
    BY <1>3 DEF RemoteCancelCall
  <2>2. \A r \in RemoteIds :
          /\ svc'[r].job = svc[r].job
          /\ svc'[r].status # svc[r].status =>
               svc'[r].status # "purged" /\ svc[r].status # "none"
    BY <1>3 DEF RemoteCancelCall, RemoteActive, SubmissionInv, ServiceOK
  <2>3. Moves(w, place)
    BY <1>3, <2>1, <2>2 DEF Moves, Continue, SubmissionInv, MemoryOK
  <2> QED BY <2>3, MoveKeeps DEF Places
<1> QED BY <1>1, <1>2, <1>3 DEF CancelCall, TimeoutCall

\* Taking, checking and dropping the lease keeps the invariant.
LEMMA LeaseKeeps ==
  ASSUME SubmissionInv, TypeOK', NEW w \in Workers,
         Claim(w) \/ LeaseLost(w) \/ \E j \in Jobs : Process(w, j) \/ Skip(w, j)
  PROVE  SubmissionInv'
<1>0. \A i \in Jobs : RemoteJobsOf(i)' = RemoteJobsOf(i)
  BY DEF RemoteJobsOf, Claim, LeaseLost, Process, Skip
<1>1. CASE Claim(w)
  <2> USE <1>0, <1>1, DispatchAssumption
        DEF SubmissionInv, RowsOK, MemoryOK, ServiceOK, Claim, Claimable, LeaseFree
  <2>1. HandsApart'
    BY DEF HandsApart
  <2>2. PostersHold'
    BY DEF PostersHold, HandsApart
  <2>3. WireCovered'
    BY DEF WireCovered
  <2>4. PlacesTrue'
    BY DEF PlacesTrue
  <2>5. RecordsTrue'
    BY DEF RecordsTrue
  <2>6. NoDoubleSubmit'
    BY DEF NoDoubleSubmit
  <2>7. NoOrphanRemote'
    BY DEF NoOrphanRemote
  <2>8. WaitingMeansUnsent'
    BY DEF WaitingMeansUnsent
  <2> QED BY <2>1, <2>2, <2>3, <2>4, <2>5, <2>6, <2>7, <2>8
<1>2. CASE LeaseLost(w)
  <2> USE <1>0, <1>2, DispatchAssumption
        DEF SubmissionInv, RowsOK, MemoryOK, ServiceOK, LeaseLost, LockingPlaces, Done
  <2>1. HandsApart'
    BY DEF HandsApart
  <2>2. PostersHold'
    BY DEF PostersHold, HandsApart
  <2>3. WireCovered'
    BY DEF WireCovered
  <2>4. PlacesTrue'
    BY DEF PlacesTrue
  <2>5. RecordsTrue'
    BY DEF RecordsTrue
  <2>6. NoDoubleSubmit'
    BY DEF NoDoubleSubmit
  <2>7. NoOrphanRemote'
    BY DEF NoOrphanRemote
  <2>8. WaitingMeansUnsent'
    BY DEF WaitingMeansUnsent
  <2> QED BY <2>1, <2>2, <2>3, <2>4, <2>5, <2>6, <2>7, <2>8
<1>3. ASSUME NEW j \in Jobs, Process(w, j)
      PROVE  SubmissionInv'
  <2>0. /\ StepOf(status[j]) \notin {"idle", "send", "wait", "begin", "absent", "resubmit",
                                  "rebegin", "outcome"}
        /\ StepOf(status[j]) = "queued" => status[j] = "QUEUED"
        /\ StepOf(status[j]) = "submitting" => status[j] = "SUBMITTING"
    BY DEF StepOf
  <2> USE <1>0, <1>3, <2>0, DispatchAssumption
        DEF SubmissionInv, RowsOK, MemoryOK, ServiceOK, Process
  <2>1. HandsApart'
    BY DEF HandsApart
  <2>2. PostersHold'
    BY DEF PostersHold, HandsApart
  <2>3. WireCovered'
    BY DEF WireCovered
  <2>4. PlacesTrue'
    BY DEF PlacesTrue, WaitingMeansUnsent
  <2>5. RecordsTrue'
    BY DEF RecordsTrue
  <2>6. NoDoubleSubmit'
    BY DEF NoDoubleSubmit
  <2>7. NoOrphanRemote'
    BY DEF NoOrphanRemote
  <2>8. WaitingMeansUnsent'
    BY DEF WaitingMeansUnsent
  <2> QED BY <2>1, <2>2, <2>3, <2>4, <2>5, <2>6, <2>7, <2>8
<1>4. ASSUME NEW j \in Jobs, Skip(w, j)
      PROVE  SubmissionInv'
  <2> USE <1>0, <1>4, DispatchAssumption
        DEF SubmissionInv, RowsOK, MemoryOK, ServiceOK, Skip
  <2>1. HandsApart'
    BY DEF HandsApart
  <2>2. PostersHold'
    BY DEF PostersHold, HandsApart
  <2>3. WireCovered'
    BY DEF WireCovered
  <2>4. PlacesTrue'
    BY DEF PlacesTrue
  <2>5. RecordsTrue'
    BY DEF RecordsTrue
  <2>6. NoDoubleSubmit'
    BY DEF NoDoubleSubmit
  <2>7. NoOrphanRemote'
    BY DEF NoOrphanRemote
  <2>8. WaitingMeansUnsent'
    BY DEF WaitingMeansUnsent
  <2> QED BY <2>1, <2>2, <2>3, <2>4, <2>5, <2>6, <2>7, <2>8
<1> QED BY <1>1, <1>2, <1>3, <1>4

\* The marker, the POST and its answer keep the invariant.
LEMMA PostKeeps ==
  ASSUME SubmissionInv, TypeOK', NEW w \in Workers,
         BeginSubmit(w) \/ Send(w) \/ GiveUp(w) \/ OutcomeAccepted(w)
  PROVE  SubmissionInv'
<1> DEFINE j == cur[w]
<1>0. \A i \in Jobs : RemoteJobsOf(i)' = RemoteJobsOf(i)
  BY DEF RemoteJobsOf, BeginSubmit, Send, GiveUp, OutcomeAccepted, Continue
<1>1. CASE BeginSubmit(w)
  <2>0. /\ j \in Jobs /\ owner[j] = w /\ wire[j] = 0 /\ RemoteJobsOf(j) = {}
        /\ remoteId[j] = NoRemote
    <3>1. Mine(w)
      BY <1>1 DEF BeginSubmit, MayBegin, SubmissionInv, HandsApart
    <3>2. RemoteJobsOf(j) = {}
      BY <1>1, <3>1 DEF BeginSubmit, SubmissionInv, PlacesTrue
    <3> QED BY <1>1, <3>1, <3>2, HolderFacts DEF BeginSubmit, SubmissionInv, RecordsTrue
  <2> USE <1>0, <1>1, <2>0, DispatchAssumption
        DEF SubmissionInv, RowsOK, MemoryOK, ServiceOK, BeginSubmit
  <2>1. HandsApart'
    BY DEF HandsApart
  <2>2. PostersHold'
    BY DEF PostersHold, HandsApart
  <2>3. WireCovered'
    BY DEF WireCovered
  <2>4. PlacesTrue'
    BY DEF PlacesTrue
  <2>5. RecordsTrue'
    BY DEF RecordsTrue
  <2>6. NoDoubleSubmit'
    BY DEF NoDoubleSubmit
  <2>7. NoOrphanRemote'
    BY DEF NoOrphanRemote
  <2>8. WaitingMeansUnsent'
    BY DEF WaitingMeansUnsent
  <2> QED BY <2>1, <2>2, <2>3, <2>4, <2>5, <2>6, <2>7, <2>8
<1>2. CASE Send(w)
  <2>0. /\ j \in Jobs /\ owner[j] = w /\ wire[j] = 0 /\ RemoteJobsOf(j) = {}
        /\ status[j] = "SUBMITTING" /\ ~expired[j] /\ j \notin batch[w]
    BY <1>2, DispatchAssumption DEF Send, SubmissionInv, PostersHold, HandsApart, MemoryOK
  <2> USE <1>0, <1>2, <2>0, DispatchAssumption
        DEF SubmissionInv, RowsOK, MemoryOK, ServiceOK, Send
  <2>1. HandsApart'
    BY DEF HandsApart
  <2>2. PostersHold'
    BY DEF PostersHold, HandsApart
  <2>3. WireCovered'
    BY DEF WireCovered
  <2>4. PlacesTrue'
    BY DEF PlacesTrue
  <2>5. RecordsTrue'
    BY DEF RecordsTrue
  <2>6. NoDoubleSubmit'
    BY DEF NoDoubleSubmit
  <2>7. NoOrphanRemote'
    BY DEF NoOrphanRemote
  <2>8. WaitingMeansUnsent'
    BY DEF WaitingMeansUnsent
  <2> QED BY <2>1, <2>2, <2>3, <2>4, <2>5, <2>6, <2>7, <2>8
<1>3. CASE GiveUp(w)
  <2>0. /\ j \in Jobs /\ owner[j] = w /\ out'[w].kind = "ambiguous"
        /\ out' = [out EXCEPT ![w] = Answer("ambiguous")]
    BY <1>3, DispatchAssumption DEF GiveUp, Continue, Answer, NoAnswer, SubmissionInv,
       PostersHold, HandsApart, MemoryOK
  <2> USE <1>0, <1>3, <2>0, DispatchAssumption
        DEF SubmissionInv, RowsOK, MemoryOK, ServiceOK, GiveUp, Continue, Refusals
  <2>1. HandsApart'
    BY DEF HandsApart
  <2>2. PostersHold'
    BY DEF PostersHold, HandsApart
  <2>3. WireCovered'
    BY DEF WireCovered
  <2>4. PlacesTrue'
    BY DEF PlacesTrue
  <2>5. RecordsTrue'
    BY DEF RecordsTrue
  <2>6. NoDoubleSubmit'
    BY DEF NoDoubleSubmit
  <2>7. NoOrphanRemote'
    BY DEF NoOrphanRemote
  <2>8. WaitingMeansUnsent'
    BY DEF WaitingMeansUnsent
  <2> QED BY <2>1, <2>2, <2>3, <2>4, <2>5, <2>6, <2>7, <2>8
<1>4. CASE OutcomeAccepted(w)
  <2>1. Mine(w) /\ pc[w] = "outcome" /\ out[w].kind = "accepted"
    BY <1>4 DEF OutcomeAccepted
  <2>2. out[w].remote \in RemoteJobsOf(j)
    BY <2>1 DEF SubmissionInv, PlacesTrue
  <2>0. /\ j \in Jobs /\ owner[j] = w /\ wire[j] = 0
        /\ out[w].remote \in RemoteJobsOf(j)
    BY <2>1, <2>2, HolderFacts
  <2>10. CASE status[j] # "SUBMITTING"
    <3>1. Finishes(w, status[j])
      BY <1>4, <2>0, <2>10 DEF OutcomeAccepted, Finishes, SubmissionInv, RowsOK
    <3> QED BY <1>4, <3>1, HolderFacts, FinishKeeps DEF OutcomeAccepted
  <2>20. CASE status[j] = "SUBMITTING"
    <3>1. PICK s \in {"CANCELLING", "RUNNING", "SUBMITTED"} : SetStatus(j, s)
      BY <1>4, <2>20 DEF OutcomeAccepted
    <3>2. remoteId[j] = NoRemote /\ remoteId' = [remoteId EXCEPT ![j] = out[w].remote]
      BY <1>4, <2>0, <2>20 DEF OutcomeAccepted, SubmissionInv, RecordsTrue
    <3>3. pc[w] = "outcome" /\ Done(w) /\ Release(j) /\ UNCHANGED <<held, wire, svc>>
      BY <1>4 DEF OutcomeAccepted
    <3> USE <1>0, <2>0, <2>20, <3>1, <3>2, <3>3, DispatchAssumption
          DEF SubmissionInv, RowsOK, MemoryOK, ServiceOK, Done
    <3>4. HandsApart'
      BY DEF HandsApart
    <3>5. PostersHold'
      BY DEF PostersHold, HandsApart
    <3>6. WireCovered'
      BY DEF WireCovered
    <3>7. PlacesTrue'
      BY DEF PlacesTrue
    <3>8. RecordsTrue'
      BY DEF RecordsTrue
    <3>9. NoDoubleSubmit'
      BY DEF NoDoubleSubmit
    <3>10. NoOrphanRemote'
      BY DEF NoOrphanRemote, NoDoubleSubmit
    <3>11. WaitingMeansUnsent'
      BY DEF WaitingMeansUnsent
    <3> QED BY <3>4, <3>5, <3>6, <3>7, <3>8, <3>9, <3>10, <3>11
  <2> QED BY <2>10, <2>20
<1> QED BY <1>1, <1>2, <1>3, <1>4

\* The cancel request of a user keeps the invariant: it leaves SUBMITTING jobs alone
\* and never touches the lease.
LEMMA UserKeeps ==
  ASSUME SubmissionInv, TypeOK', NEW j \in Jobs, CancelStart(j) \/ CancelStep(j)
  PROVE  SubmissionInv'
<1>0. \A i \in Jobs : RemoteJobsOf(i)' = RemoteJobsOf(i)
  BY DEF RemoteJobsOf, CancelStart, CancelStep
<1>1. /\ UNCHANGED <<remoteId, owner, expired, memory, service>>
      /\ \/ UNCHANGED <<status, held>>
         \/ /\ \/ status[j] \in LocalCancel /\ SetStatus(j, "CANCELLED")
               \/ status[j] \in RemoteCancel /\ SetStatus(j, "CANCELLING")
            /\ held' = [held EXCEPT ![j] = FALSE]
  BY DEF CancelStart, CancelStep, CancelMore, CancelLocally, CancelLocallyMissed,
         CancelRemotely, CancelNoted
<1> USE <1>0, <1>1
      DEF SubmissionInv, RowsOK, MemoryOK, ServiceOK, LocalCancel, RemoteCancel
<1>2. HandsApart'
  BY DEF HandsApart
<1>3. PostersHold'
  BY DEF PostersHold, HandsApart
<1>4. WireCovered'
  BY DEF WireCovered
<1>5. PlacesTrue'
  BY DEF PlacesTrue
<1>6. RecordsTrue'
  BY DEF RecordsTrue
<1>7. NoDoubleSubmit'
  BY DEF NoDoubleSubmit
<1>8. NoOrphanRemote'
  BY DEF NoOrphanRemote
<1>9. WaitingMeansUnsent'
  BY DEF WaitingMeansUnsent
<1> QED BY <1>2, <1>3, <1>4, <1>5, <1>6, <1>7, <1>8, <1>9

\* Failures, time and the service keep the invariant.
LEMMA EnvironmentKeeps ==
  ASSUME SubmissionInv, TypeOK', Environment
  PROVE  SubmissionInv'
<1>1. ASSUME NEW w \in Workers, Crash(w)
      PROVE  SubmissionInv'
  <2>0. \A i \in Jobs : RemoteJobsOf(i)' = RemoteJobsOf(i)
    BY <1>1 DEF RemoteJobsOf, Crash
  <2> USE <1>1, <2>0, DispatchAssumption
        DEF SubmissionInv, RowsOK, MemoryOK, ServiceOK, Crash
  <2>1. HandsApart'
    BY DEF HandsApart
  <2>2. PostersHold'
    BY DEF PostersHold, HandsApart
  <2>3. WireCovered'
    BY DEF WireCovered
  <2>4. PlacesTrue'
    BY DEF PlacesTrue
  <2>5. RecordsTrue'
    BY DEF RecordsTrue
  <2>6. NoDoubleSubmit'
    BY DEF NoDoubleSubmit
  <2>7. NoOrphanRemote'
    BY DEF NoOrphanRemote
  <2>8. WaitingMeansUnsent'
    BY DEF WaitingMeansUnsent
  <2> QED BY <2>1, <2>2, <2>3, <2>4, <2>5, <2>6, <2>7, <2>8
<1>2. ASSUME NEW w \in Workers, StepFailed(w)
      PROVE  SubmissionInv'
  BY <1>2, OtherEnds
<1>3. ASSUME NEW j \in Jobs, LeaseExpires(j) \/ WaitElapses(j)
      PROVE  SubmissionInv'
  <2>0. \A i \in Jobs : RemoteJobsOf(i)' = RemoteJobsOf(i)
    BY <1>3 DEF RemoteJobsOf, LeaseExpires, WaitElapses
  <2> USE <1>3, <2>0
        DEF SubmissionInv, RowsOK, MemoryOK, ServiceOK, LeaseExpires, WaitElapses,
            NoPostOpen
  <2>1. HandsApart'
    BY DEF HandsApart
  <2>2. PostersHold'
    BY DEF PostersHold, HandsApart
  <2>3. WireCovered'
    BY DEF WireCovered
  <2>4. PlacesTrue'
    BY DEF PlacesTrue
  <2>5. RecordsTrue'
    BY DEF RecordsTrue
  <2>6. NoDoubleSubmit'
    BY DEF NoDoubleSubmit
  <2>7. NoOrphanRemote'
    BY DEF NoOrphanRemote
  <2>8. WaitingMeansUnsent'
    BY DEF WaitingMeansUnsent
  <2> QED BY <2>1, <2>2, <2>3, <2>4, <2>5, <2>6, <2>7, <2>8
<1>4. ASSUME NEW j \in Jobs, RunStep(j)
      PROVE  SubmissionInv'
  <2>0. \A i \in Jobs : RemoteJobsOf(i)' = RemoteJobsOf(i)
    BY <1>4 DEF RemoteJobsOf, RunStep
  <2> USE <1>4, <2>0 DEF SubmissionInv, RowsOK, MemoryOK, ServiceOK, RunStep
  <2>1. HandsApart'
    BY DEF HandsApart
  <2>2. PostersHold'
    BY DEF PostersHold, HandsApart
  <2>3. WireCovered'
    BY DEF WireCovered
  <2>4. PlacesTrue'
    BY DEF PlacesTrue
  <2>5. RecordsTrue'
    BY DEF RecordsTrue
  <2>6. NoDoubleSubmit'
    BY DEF NoDoubleSubmit
  <2>7. NoOrphanRemote'
    BY DEF NoOrphanRemote
  <2>8. WaitingMeansUnsent'
    BY DEF WaitingMeansUnsent
  <2> QED BY <2>1, <2>2, <2>3, <2>4, <2>5, <2>6, <2>7, <2>8
<1>5. CASE EnvironmentRecovers
  <2>0. \A i \in Jobs : RemoteJobsOf(i)' = RemoteJobsOf(i)
    BY <1>5 DEF RemoteJobsOf, EnvironmentRecovers
  <2> USE <1>5, <2>0 DEF SubmissionInv, RowsOK, MemoryOK, ServiceOK, EnvironmentRecovers
  <2>1. HandsApart'
    BY DEF HandsApart
  <2>2. PostersHold'
    BY DEF PostersHold, HandsApart
  <2>3. WireCovered'
    BY DEF WireCovered
  <2>4. PlacesTrue'
    BY DEF PlacesTrue
  <2>5. RecordsTrue'
    BY DEF RecordsTrue
  <2>6. NoDoubleSubmit'
    BY DEF NoDoubleSubmit
  <2>7. NoOrphanRemote'
    BY DEF NoOrphanRemote
  <2>8. WaitingMeansUnsent'
    BY DEF WaitingMeansUnsent
  <2> QED BY <2>1, <2>2, <2>3, <2>4, <2>5, <2>6, <2>7, <2>8
<1>6. ASSUME NEW j \in Jobs, LoseRequest(j)
      PROVE  SubmissionInv'
  <2>0. \A i \in Jobs : RemoteJobsOf(i)' = RemoteJobsOf(i)
    BY <1>6 DEF RemoteJobsOf, LoseRequest
  <2> USE <1>6, <2>0 DEF SubmissionInv, RowsOK, MemoryOK, ServiceOK, LoseRequest
  <2>1. HandsApart'
    BY DEF HandsApart
  <2>2. PostersHold'
    BY DEF PostersHold, HandsApart
  <2>3. WireCovered'
    BY DEF WireCovered
  <2>4. PlacesTrue'
    BY DEF PlacesTrue
  <2>5. RecordsTrue'
    BY DEF RecordsTrue
  <2>6. NoDoubleSubmit'
    BY DEF NoDoubleSubmit
  <2>7. NoOrphanRemote'
    BY DEF NoOrphanRemote
  <2>8. WaitingMeansUnsent'
    BY DEF WaitingMeansUnsent
  <2> QED BY <2>1, <2>2, <2>3, <2>4, <2>5, <2>6, <2>7, <2>8
<1>7. ASSUME NEW j \in Jobs, Refuse(j)
      PROVE  SubmissionInv'
  <2>0. \A i \in Jobs : RemoteJobsOf(i)' = RemoteJobsOf(i)
    BY <1>7 DEF RemoteJobsOf, Refuse
  <2>9. PICK kind \in Refusals : Answered(j, Answer(kind))
    BY <1>7 DEF Refuse
  <2>10. UNCHANGED rows /\ svc' = svc /\ RemoteJobsOf(j) = {} /\ wire[j] = 1 /\ wire'[j] = 0
    BY <1>7, <2>9 DEF Refuse, Answered, SubmissionInv, WireCovered, ServiceOK
  <2>11. \/ UNCHANGED memory
         \/ \E w \in Workers : /\ pc[w] = "wait" /\ cur[w] = j
                               /\ Continue(w, "outcome", Answer(kind))
    BY <2>9 DEF Answered
  <2>12. Answer(kind).kind = kind /\ kind # "accepted"
    BY DEF Answer, NoAnswer, Refusals
  <2> USE <2>0, <2>9, <2>10, <2>11, <2>12
        DEF SubmissionInv, RowsOK, MemoryOK, ServiceOK, Answered, Continue
  <2>13. HandsApart'
    BY DEF HandsApart
  <2>14. PostersHold'
    BY DEF PostersHold, HandsApart
  <2>15. WireCovered'
    BY DEF WireCovered
  <2>16. PlacesTrue'
    BY DEF PlacesTrue
  <2>17. RecordsTrue'
    BY DEF RecordsTrue
  <2>18. NoDoubleSubmit'
    BY DEF NoDoubleSubmit
  <2>19. NoOrphanRemote'
    BY DEF NoOrphanRemote
  <2>20. WaitingMeansUnsent'
    BY DEF WaitingMeansUnsent
  <2> QED BY <2>13, <2>14, <2>15, <2>16, <2>17, <2>18, <2>19, <2>20
<1>8. ASSUME NEW j \in Jobs, NEW r \in RemoteIds, Accept(j, r)
      PROVE  SubmissionInv'
  <2> DEFINE a == [kind |-> "accepted", remote |-> r, seen |-> "PENDING"]
  <2>0. /\ RemoteJobsOf(j) = {} /\ RemoteJobsOf(j)' = {r}
        /\ \A i \in Jobs \ {j} : RemoteJobsOf(i)' = RemoteJobsOf(i)
    BY <1>8, DispatchAssumption
       DEF RemoteJobsOf, Accept, Answered, SubmissionInv, WireCovered, ServiceOK, Absent
  <2>9. Answered(j, a)
    BY <1>8 DEF Accept
  <2>10. /\ UNCHANGED rows /\ status[j] = "SUBMITTING" /\ remoteId[j] = NoRemote
         /\ wire[j] = 1 /\ wire'[j] = 0
    BY <1>8, <2>9 DEF Accept, Answered, SubmissionInv, WireCovered, RecordsTrue, ServiceOK
  <2>11. \/ UNCHANGED memory
         \/ \E w \in Workers : pc[w] = "wait" /\ cur[w] = j /\ Continue(w, "outcome", a)
    BY <2>9 DEF Answered
  <2>12. svc' = [svc EXCEPT ![r] = [job |-> j, status |-> "PENDING"]] /\ svc[r] = Absent
    BY <1>8 DEF Accept
  <2> USE <2>0, <2>9, <2>10, <2>11, <2>12, DispatchAssumption
        DEF SubmissionInv, RowsOK, MemoryOK, ServiceOK, Answered, Continue, Absent
  <2>13. HandsApart'
    BY DEF HandsApart
  <2>14. PostersHold'
    BY DEF PostersHold, HandsApart
  <2>15. WireCovered'
    BY DEF WireCovered
  <2>16. PlacesTrue'
    <3> SUFFICES ASSUME NEW v \in Workers, Mine(v)'
                 PROVE  (/\ pc[v] \in {"queued", "begin", "absent", "resubmit", "rebegin"} =>
                              RemoteJobsOf(cur[v]) = {}
                         /\ pc[v] = "submitting" => status[cur[v]] = "SUBMITTING"
                         /\ pc[v] = "outcome" =>
                              /\ out[v].kind \in Refusals => RemoteJobsOf(cur[v]) = {}
                              /\ out[v].kind = "accepted" =>
                                   out[v].remote \in RemoteJobsOf(cur[v]))'
      BY DEF PlacesTrue
    <3>1. cur'[v] = cur[v] /\ cur[v] \in Jobs /\ Mine(v)
      OBVIOUS
    <3>2. CASE cur[v] # j
      <4>1. pc'[v] = pc[v] /\ out'[v] = out[v]
        BY <3>2
      <4> QED BY <3>1, <3>2, <4>1 DEF PlacesTrue
    <3>3. CASE cur[v] = j
      <4>1. \/ pc'[v] = "wait"
            \/ pc'[v] = "outcome" /\ out'[v].kind = "ambiguous"
            \/ pc'[v] = "outcome" /\ out'[v] = a
        BY <3>1, <3>3 DEF WireCovered
      <4> QED BY <3>1, <3>3, <4>1 DEF Refusals
    <3> QED BY <3>2, <3>3
  <2>17. RecordsTrue'
    BY DEF RecordsTrue
  <2>18. NoDoubleSubmit'
    BY DEF NoDoubleSubmit
  <2>19. NoOrphanRemote'
    BY DEF NoOrphanRemote
  <2>20. WaitingMeansUnsent'
    BY DEF WaitingMeansUnsent
  <2> QED BY <2>13, <2>14, <2>15, <2>16, <2>17, <2>18, <2>19, <2>20
<1>9. ASSUME NEW r \in RemoteIds, ServiceStep(r)
      PROVE  SubmissionInv'
  <2>0. \A i \in Jobs : RemoteJobsOf(i)' = RemoteJobsOf(i)
    BY <1>9 DEF RemoteJobsOf, ServiceStep, SubmissionInv, ServiceOK
  <2> USE <1>9, <2>0
        DEF SubmissionInv, RowsOK, MemoryOK, ServiceOK, ServiceStep, RemoteTerminal
  <2>1. HandsApart'
    BY DEF HandsApart
  <2>2. PostersHold'
    BY DEF PostersHold, HandsApart
  <2>3. WireCovered'
    BY DEF WireCovered
  <2>4. PlacesTrue'
    BY DEF PlacesTrue
  <2>5. RecordsTrue'
    BY DEF RecordsTrue
  <2>6. NoDoubleSubmit'
    BY DEF NoDoubleSubmit
  <2>7. NoOrphanRemote'
    BY DEF NoOrphanRemote
  <2>8. WaitingMeansUnsent'
    BY DEF WaitingMeansUnsent
  <2> QED BY <2>1, <2>2, <2>3, <2>4, <2>5, <2>6, <2>7, <2>8
<1> QED
  BY <1>1, <1>2, <1>3, <1>4, <1>5, <1>6, <1>7, <1>8, <1>9 DEF Environment

\* The inductive invariant behind the theorems below.
THEOREM SubmissionInductive == Spec => []SubmissionInv
<1>1. SubmissionInv /\ [Next]_vars => SubmissionInv'
  <2> SUFFICES ASSUME SubmissionInv, [Next]_vars
               PROVE  SubmissionInv'
    OBVIOUS
  <2>1. TypeOK'
    BY NextTypes DEF SubmissionInv
  <2>2. ASSUME NEW w \in Workers, Worker(w)
        PROVE  SubmissionInv'
    BY <2>1, <2>2, LeaseKeeps, PostKeeps, SubmitMoves, PollMoves, SubmitEnds, OtherEnds,
       PollEnds, CancelEnds
       DEF Worker, Submit, ReconcileStep, PollStep, CancelWork
  <2>3. CASE \E j \in Jobs : CancelStart(j) \/ CancelStep(j)
    BY <2>1, <2>3, UserKeeps
  <2>4. CASE Environment
    BY <2>1, <2>4, EnvironmentKeeps
  <2>5. CASE Settled \/ UNCHANGED vars
    <3>1. \A i \in Jobs : RemoteJobsOf(i)' = RemoteJobsOf(i)
      BY <2>5 DEF RemoteJobsOf, Settled
    <3> USE <2>1, <2>5, <3>1 DEF Settled, SubmissionInv
    <3>2. HandsApart'
      BY DEF HandsApart
    <3>3. PostersHold'
      BY DEF PostersHold, HandsApart, MemoryOK
    <3>4. WireCovered'
      BY DEF WireCovered
    <3>5. PlacesTrue'
      BY DEF PlacesTrue, MemoryOK
    <3>6. RecordsTrue'
      BY DEF RecordsTrue
    <3>7. NoDoubleSubmit'
      BY DEF NoDoubleSubmit
    <3>8. NoOrphanRemote'
      BY DEF NoOrphanRemote
    <3>9. WaitingMeansUnsent'
      BY DEF WaitingMeansUnsent
    <3> QED BY <3>2, <3>3, <3>4, <3>5, <3>6, <3>7, <3>8, <3>9
  <2> QED BY <2>2, <2>3, <2>4, <2>5 DEF Next
<1> QED BY <1>1, InitSubmission, PTL DEF Spec

\* The service never gets two remote jobs for one job.
THEOREM DoubleSubmitImpossible == Spec => []NoDoubleSubmit
<1>1. SubmissionInv => NoDoubleSubmit
  BY DEF SubmissionInv
<1> QED BY <1>1, SubmissionInductive, PTL

\* Every remote job is recorded by its job or will be found by the reconcile.
THEOREM RemoteNeverLost == Spec => []NoOrphanRemote
<1>1. SubmissionInv => NoOrphanRemote
  BY DEF SubmissionInv
<1> QED BY <1>1, SubmissionInductive, PTL

\* A waiting or blocked job has nothing on the service nor on the wire.
THEOREM WaitingUnsent == Spec => []WaitingMeansUnsent
<1>1. SubmissionInv => WaitingMeansUnsent
  BY DEF SubmissionInv
<1> QED BY <1>1, SubmissionInductive, PTL

\* At most one worker is between the marker of a job and the end of its POST.
THEOREM SubmitterAlone == Spec => []OneSubmitter
<1>1. SubmissionInv => OneSubmitter
  BY DEF SubmissionInv, PostersHold, OneSubmitter
<1> QED BY <1>1, SubmissionInductive, PTL

-----------------------------------------------------------------------------
\* How a job ends: what is final, what succeeded and what a cancel request reaches.

\* What no step takes back: a completed run, a remote success, a cancel request.
Lasting ==
  \A j \in Jobs :
    /\ run[j] = "COMPLETED" => run'[j] = "COMPLETED"
    /\ RemoteSucceeded(j) => RemoteSucceeded(j)'
    /\ cancelReq[j] => cancelReq'[j]

\* TerminalIsFinal, of one step.
NoReopen == \A j \in Jobs : status[j] \in TerminalStatuses => status'[j] = status[j]

\* The steps of a worker that leave the recorded remote jobs alone.
LEMMA QuietLasting ==
  ASSUME SubmissionInv, UNCHANGED <<remoteId, svc>>,
         \A j \in Jobs : cancelReq[j] => cancelReq'[j],
         UNCHANGED run \/ \E j \in Jobs : StopLinkedRun(j) \/ RunStep(j)
  PROVE  Lasting
<1>1. \A j \in Jobs : run[j] = "COMPLETED" => run'[j] = "COMPLETED"
  BY DEF RunStep, SubmissionInv, RowsOK
<1>2. \A j \in Jobs : RemoteSucceeded(j) => RemoteSucceeded(j)'
  BY DEF RemoteSucceeded
<1> QED BY <1>1, <1>2 DEF Lasting

\* The service never takes back a success it has recorded.
LEMMA ServiceLasting ==
  ASSUME SubmissionInv, UNCHANGED <<remoteId, cancelReq, run>>,
         \A r \in RemoteIds : svc[r].status \in {"SUCCEEDED", "purged"} =>
                                svc'[r].status \in {"SUCCEEDED", "purged"}
  PROVE  Lasting
BY DEF Lasting, RemoteSucceeded, SubmissionInv, RowsOK

-----------------------------------------------------------------------------
\* A lease holder w ends its step and leaves its job with status s.
Settles(w, s) ==
  LET j == cur[w] IN
  /\ Mine(w)
  /\ Done(w)
  /\ status' = [status EXCEPT ![j] = s]
  /\ UNCHANGED cancelReq
  /\ Release(j) \/ UNCHANGED owner
  /\ s # status[j] =>
       /\ owner'[j] = Nobody
       /\ status[j] \notin TerminalStatuses
       /\ s = "BLOCKED" => ~cancelReq[j]
       /\ s = "SUCCEEDED" => run[j] = "COMPLETED" \/ RemoteSucceeded(j)

\* Ending a step keeps the invariant about the ends.
LEMMA SettleKeeps ==
  ASSUME SubmissionInv, EndInv, Lasting, NEW w \in Workers, NEW s \in Statuses, Settles(w, s)
  PROVE  EndInv' /\ NoReopen
<1> DEFINE j == cur[w]
<1>1. /\ j \in Jobs /\ owner[j] = w
      /\ cur' = [cur EXCEPT ![w] = NoJob]
      /\ TypeOK
      /\ \A i \in Jobs \ {j} : status'[i] = status[i] /\ owner'[i] = owner[i]
      /\ status'[j] = s /\ owner'[j] \in {Nobody, w}
  BY DEF SubmissionInv, MemoryOK, RowsOK, Settles, Done
<1>2. HandsCurrent'
  <2> SUFFICES ASSUME NEW v \in Workers, Mine(v)'
               PROVE  (/\ pc[v] \in {"queued", "begin"} =>
                            \/ status[cur[v]] = "QUEUED"
                            \/ status[cur[v]] = "CANCELLED" /\ cancelReq[cur[v]]
                       /\ pc[v] \in {"submitting", "absent", "resubmit", "rebegin", "pause"} =>
                            status[cur[v]] = "SUBMITTING"
                       /\ pc[v] = "polled" /\ out[v].kind = "seen" /\ out[v].seen = "SUCCEEDED" =>
                            RemoteSucceeded(cur[v]))'
    BY DEF HandsCurrent
  <2>1. v # w
    BY <1>1 DEF MemoryOK
  <2>2. /\ cur'[v] = cur[v] /\ pc'[v] = pc[v] /\ out'[v] = out[v] /\ cur[v] \in Jobs
    BY <1>1, <2>1 DEF MemoryOK, Settles, Done
  <2>3. cur[v] # j /\ Mine(v) /\ status'[cur[v]] = status[cur[v]]
    BY <1>1, <2>1, <2>2, DispatchAssumption
  <2>4. cancelReq' = cancelReq /\ (RemoteSucceeded(cur[v]) => RemoteSucceeded(cur[v])')
    BY <2>2 DEF Settles, Lasting, RemoteSucceeded
  <2> QED BY <2>2, <2>3, <2>4 DEF EndInv, HandsCurrent
<1>3. BlockedIsFree'
  BY <1>1 DEF EndInv, BlockedIsFree, Settles
<1>4. CancelNotStranded'
  BY <1>1 DEF EndInv, CancelNotStranded, Settles
<1>5. SuccessIsReal'
  BY <1>1 DEF EndInv, SuccessIsReal, Settles, Lasting
<1>6. NoReopen
  BY <1>1 DEF NoReopen, Settles
<1> QED BY <1>2, <1>3, <1>4, <1>5, <1>6 DEF EndInv

\* A lease holder w goes on to another place of its step.
Proceeds(w, place) ==
  LET j == cur[w] IN
  /\ Mine(w)
  /\ Goto(w, place)
  /\ \A v \in Workers \ {w} : out'[v] = out[v]
  /\ UNCHANGED <<cur, owner, cancelReq>>
  /\ \/ UNCHANGED status
     \/ /\ status[j] \notin TerminalStatuses
        /\ \E s \in {"SUBMITTING", "RUNNING"} : SetStatus(j, s)
  /\ place \in {"send", "wait", "outcome", "begin", "absent", "resubmit", "rebegin", "pause",
                "polled", "timeout", "cancelled", "timedout"}
  /\ place = "begin" => pc[w] = "queued" /\ UNCHANGED status
  /\ place \in {"absent", "resubmit", "rebegin", "pause"} =>
       status[j] = "SUBMITTING" /\ UNCHANGED status
  /\ place = "polled" /\ out'[w].kind = "seen" /\ out'[w].seen = "SUCCEEDED" =>
       RemoteSucceeded(j)

\* So does going on.
LEMMA ProceedKeeps ==
  ASSUME SubmissionInv, EndInv, Lasting, NEW w \in Workers, NEW place, Proceeds(w, place)
  PROVE  EndInv' /\ NoReopen
<1> DEFINE j == cur[w]
<1>1. /\ j \in Jobs /\ owner[j] = w /\ owner' = owner /\ cur' = cur
      /\ cancelReq' = cancelReq
      /\ TypeOK
      /\ \A i \in Jobs \ {j} : status'[i] = status[i]
      /\ \/ status'[j] = status[j]
         \/ status'[j] \in {"SUBMITTING", "RUNNING"} /\ status[j] \notin TerminalStatuses
  BY DEF SubmissionInv, MemoryOK, RowsOK, Proceeds
<1>2. HandsCurrent'
  <2> SUFFICES ASSUME NEW v \in Workers, Mine(v)'
               PROVE  (/\ pc[v] \in {"queued", "begin"} =>
                            \/ status[cur[v]] = "QUEUED"
                            \/ status[cur[v]] = "CANCELLED" /\ cancelReq[cur[v]]
                       /\ pc[v] \in {"submitting", "absent", "resubmit", "rebegin", "pause"} =>
                            status[cur[v]] = "SUBMITTING"
                       /\ pc[v] = "polled" /\ out[v].kind = "seen" /\ out[v].seen = "SUCCEEDED" =>
                            RemoteSucceeded(cur[v]))'
    BY DEF HandsCurrent
  <2>1. Mine(v) /\ cur[v] \in Jobs
    BY <1>1 DEF MemoryOK
  <2>2. RemoteSucceeded(cur[v]) => RemoteSucceeded(cur[v])'
    BY <1>1, <2>1 DEF Lasting, RemoteSucceeded
  <2>3. CASE v = w
    <3>1. pc'[w] = place
      BY <1>1 DEF Proceeds, MemoryOK
    <3>2. pc[w] = "queued" => status[j] = "QUEUED" \/ (status[j] = "CANCELLED" /\ cancelReq[j])
      BY <2>1, <2>3 DEF EndInv, HandsCurrent
    <3> QED BY <1>1, <2>2, <2>3, <3>1, <3>2 DEF Proceeds
  <2>4. CASE v # w
    <3>1. /\ cur[v] # j /\ status'[cur[v]] = status[cur[v]]
          /\ pc'[v] = pc[v] /\ out'[v] = out[v]
      BY <1>1, <2>1, <2>4 DEF Proceeds, MemoryOK
    <3> QED BY <1>1, <2>1, <2>2, <3>1 DEF EndInv, HandsCurrent
  <2> QED BY <2>3, <2>4
<1>3. BlockedIsFree'
  BY <1>1 DEF EndInv, BlockedIsFree
<1>4. CancelNotStranded'
  BY <1>1 DEF EndInv, CancelNotStranded
<1>5. SuccessIsReal'
  BY <1>1 DEF EndInv, SuccessIsReal, Lasting
<1>6. NoReopen
  BY <1>1 DEF NoReopen
<1> QED BY <1>2, <1>3, <1>4, <1>5, <1>6 DEF EndInv

-----------------------------------------------------------------------------
\* No worker takes back a success or a cancel request.
LEMMA WorkerLasting ==
  ASSUME SubmissionInv, NEW w \in Workers, Worker(w)
  PROVE  Lasting
<1> DEFINE j == cur[w]
<1>1. CASE OutcomeAccepted(w)
  <2>1. j \in Jobs /\ UNCHANGED <<run, cancelReq, svc>>
    BY <1>1, HolderFacts DEF OutcomeAccepted
  <2>2. \/ remoteId' = remoteId
        \/ remoteId[j] = NoRemote /\ \A i \in Jobs \ {j} : remoteId'[i] = remoteId[i]
    BY <1>1, <2>1 DEF OutcomeAccepted, SubmissionInv, RecordsTrue, RowsOK
  <2> QED BY <2>1, <2>2 DEF Lasting, RemoteSucceeded
<1>2. CASE CancelCall(w) \/ TimeoutCall(w)
  <2>1. \A r \in RemoteIds : svc[r].status \in {"SUCCEEDED", "purged"} =>
                               svc'[r].status = svc[r].status
    BY <1>2 DEF CancelCall, TimeoutCall, RemoteCancelCall, RemoteActive, SubmissionInv,
                ServiceOK
  <2> QED BY <1>2, <2>1, ServiceLasting DEF CancelCall, TimeoutCall
<1>3. CASE Claim(w) \/ LeaseLost(w) \/ ReleaseOnly(w)
           \/ \E i \in Jobs : Process(w, i) \/ Skip(w, i)
  BY <1>3, QuietLasting DEF Claim, LeaseLost, ReleaseOnly, Process, Skip
<1>4. CASE Submit(w) /\ ~OutcomeAccepted(w)
  BY <1>4, QuietLasting
     DEF Submit, SubmitCancelled, SubmitBlocked, SubmitDeferred, SubmitReady, BeginSubmit,
         BeginRefused, Send, GiveUp, OutcomeRefused, OutcomeAmbiguous
<1>5. CASE ReconcileStep(w)
  BY <1>5, QuietLasting
     DEF ReconcileStep, Reconcile, ReconcilePaused, ReconcileFailed, PauseSubmitting, Absence
<1>6. CASE PollStep(w)
  <2>1. UNCHANGED run \/ \E i \in Jobs : StopLinkedRun(i)
    BY <1>6, HolderFacts
       DEF PollStep, Poll, PollIgnored, PollFinished, PollMerged, PollCancelling, PollGone,
           PollWaiting, PollStuck, Polled
  <2> QED
    BY <1>6, <2>1, QuietLasting
       DEF PollStep, Poll, PollIgnored, PollFinished, PollMerged, PollCancelling, PollGone,
           PollWaiting, PollStuck
<1>7. CASE TimedOut(w) \/ CancelDone(w) \/ CancelTooLate(w) \/ CancelRetried(w)
           \/ CancelGivenUp(w)
  <2>1. UNCHANGED run \/ \E i \in Jobs : StopLinkedRun(i)
    BY <1>7, HolderFacts
       DEF TimedOut, CancelDone, CancelTooLate, CancelRetried, CancelGivenUp, CancelAnswer,
           Unanswered
  <2> QED
    BY <1>7, <2>1, QuietLasting
       DEF TimedOut, CancelDone, CancelTooLate, CancelRetried, CancelGivenUp
<1> QED
  BY <1>1, <1>2, <1>3, <1>4, <1>5, <1>6, <1>7 DEF Worker, CancelWork

\* Neither does a user, a failure or the service.
LEMMA OthersLasting ==
  ASSUME SubmissionInv,
         Environment \/ \E j \in Jobs : CancelStart(j) \/ CancelStep(j)
  PROVE  Lasting
<1>1. ASSUME NEW j \in Jobs, CancelStart(j) \/ CancelStep(j)
      PROVE  Lasting
  <2>1. /\ UNCHANGED <<remoteId, svc>>
        /\ UNCHANGED run \/ StopLinkedRun(j)
        /\ UNCHANGED cancelReq \/ MarkCancel(j)
    BY <1>1 DEF CancelStart, CancelStep, CancelMore, CancelLocally, CancelLocallyMissed,
                CancelRemotely, CancelNoted
  <2>2. \A i \in Jobs : cancelReq[i] => cancelReq'[i]
    BY <2>1 DEF SubmissionInv, RowsOK
  <2> QED BY <2>1, <2>2, QuietLasting
<1>2. ASSUME NEW r \in RemoteIds, ServiceStep(r)
      PROVE  Lasting
  <2>1. \A q \in RemoteIds : svc[q].status \in {"SUCCEEDED", "purged"} =>
                               svc'[q].status \in {"SUCCEEDED", "purged"}
    BY <1>2 DEF ServiceStep, RemoteTerminal, SubmissionInv, ServiceOK
  <2> QED BY <1>2, <2>1, ServiceLasting DEF ServiceStep
<1>3. ASSUME NEW j \in Jobs, NEW r \in RemoteIds, Accept(j, r)
      PROVE  Lasting
  <2>1. \A q \in RemoteIds : svc[q].status \in {"SUCCEEDED", "purged"} =>
                               svc'[q].status = svc[q].status
    BY <1>3 DEF Accept, Absent, SubmissionInv, ServiceOK
  <2> QED BY <1>3, <2>1, ServiceLasting DEF Accept
<1>4. ASSUME NEW w \in Workers, Crash(w) \/ StepFailed(w)
      PROVE  Lasting
  BY <1>4, QuietLasting DEF Crash, StepFailed
<1>5. ASSUME NEW j \in Jobs,
             LeaseExpires(j) \/ WaitElapses(j) \/ Refuse(j) \/ LoseRequest(j) \/ RunStep(j)
      PROVE  Lasting
  BY <1>5, QuietLasting DEF LeaseExpires, WaitElapses, Refuse, LoseRequest, RunStep
<1>6. CASE EnvironmentRecovers
  BY <1>6, QuietLasting DEF EnvironmentRecovers
<1> QED BY <1>1, <1>2, <1>3, <1>4, <1>5, <1>6 DEF Environment

-----------------------------------------------------------------------------
\* The steps of a worker that end with a new status, or with the old one.

\* What the invariant says of the row of a lease holder.
LEMMA RowFacts ==
  ASSUME SubmissionInv, EndInv, NEW w \in Workers, Mine(w)
  PROVE  /\ cur[w] \in Jobs /\ status[cur[w]] \in Statuses
         /\ status \in [Jobs -> Statuses]
         /\ pc[w] \in {"queued", "begin"} =>
              \/ status[cur[w]] = "QUEUED"
              \/ status[cur[w]] = "CANCELLED" /\ cancelReq[cur[w]]
         /\ pc[w] \in {"submitting", "absent", "resubmit", "rebegin", "pause"} =>
              status[cur[w]] = "SUBMITTING"
         /\ status[cur[w]] # "BLOCKED"
BY DispatchAssumption
   DEF SubmissionInv, MemoryOK, RowsOK, EndInv, HandsCurrent, BlockedIsFree

\* The status stays.
LEMMA KeepSettles ==
  ASSUME SubmissionInv, EndInv, NEW w \in Workers, Mine(w), Done(w),
         UNCHANGED <<status, cancelReq>>, Release(cur[w]) \/ UNCHANGED owner
  PROVE  \E s \in Statuses : Settles(w, s)
<1>1. status' = [status EXCEPT ![cur[w]] = status[cur[w]]]
  BY RowFacts
<1> QED BY <1>1, RowFacts DEF Settles

\* The ends of a submit and of a reconcile settle the job.
LEMMA SubmitSettles ==
  ASSUME SubmissionInv, EndInv, NEW w \in Workers,
         \/ SubmitCancelled(w) \/ SubmitBlocked(w) \/ SubmitDeferred(w)
         \/ BeginRefused(w) \/ OutcomeAccepted(w) \/ OutcomeRefused(w)
         \/ OutcomeAmbiguous(w) \/ ReconcilePaused(w) \/ PauseSubmitting(w)
         \/ (Absence(w) /\ Done(w)) \/ ReleaseOnly(w) \/ StepFailed(w)
  PROVE  \E s \in Statuses : Settles(w, s)
<1> DEFINE j == cur[w]
<1>1. CASE SubmitCancelled(w)
  <2>1. Mine(w) /\ (status[j] = "CANCELLED" \/ status[j] \notin TerminalStatuses)
    BY <1>1, RowFacts DEF SubmitCancelled, InSubmit, TerminalStatuses
  <2>2. owner'[j] = Nobody
    BY <1>1, <2>1, RowFacts DEF SubmitCancelled, SubmissionInv, RowsOK
  <2>3. Settles(w, "CANCELLED")
    BY <1>1, <2>1, <2>2 DEF Settles, SubmitCancelled
  <2> QED BY <2>3 DEF Statuses
<1>2. CASE SubmitBlocked(w)
  <2>1. Mine(w) /\ status[j] \notin TerminalStatuses
    BY <1>2, RowFacts DEF SubmitBlocked, InSubmit, TerminalStatuses
  <2>2. owner'[j] = Nobody
    BY <1>2, <2>1, RowFacts DEF SubmitBlocked, SubmissionInv, RowsOK
  <2>3. Settles(w, "BLOCKED")
    BY <1>2, <2>1, <2>2 DEF Settles, SubmitBlocked
  <2> QED BY <2>3 DEF Statuses
<1>3. CASE SubmitDeferred(w) \/ OutcomeAmbiguous(w) \/ ReconcilePaused(w)
           \/ PauseSubmitting(w) \/ ReleaseOnly(w) \/ StepFailed(w)
  BY <1>3, KeepSettles
     DEF SubmitDeferred, InSubmit, OutcomeAmbiguous, ReconcilePaused, InReconcile,
         PauseSubmitting, ReleaseOnly, StepFailed
<1>4. CASE BeginRefused(w)
  <2>1. CASE status[j] = "QUEUED" /\ cancelReq[j]
    <3>1. owner'[j] = Nobody /\ status' = [status EXCEPT ![j] = "CANCELLED"]
      BY <1>4, <2>1, RowFacts DEF BeginRefused, SubmissionInv, RowsOK
    <3>2. Settles(w, "CANCELLED")
      BY <1>4, <2>1, <3>1 DEF Settles, BeginRefused, TerminalStatuses
    <3> QED BY <3>2 DEF Statuses
  <2>2. CASE ~(status[j] = "QUEUED" /\ cancelReq[j])
    BY <1>4, <2>2, KeepSettles DEF BeginRefused
  <2> QED BY <2>1, <2>2
<1>5. CASE OutcomeAccepted(w) \/ OutcomeRefused(w)
  <2>1. Mine(w) /\ Done(w) /\ Release(j) /\ UNCHANGED cancelReq
    BY <1>5 DEF OutcomeAccepted, OutcomeRefused
  <2>2. owner'[j] = Nobody
    BY <2>1, RowFacts DEF SubmissionInv, RowsOK
  <2>3. CASE status[j] # "SUBMITTING"
    BY <1>5, <2>1, <2>3, KeepSettles DEF OutcomeAccepted, OutcomeRefused
  <2>4. CASE status[j] = "SUBMITTING"
    <3>1. PICK s \in Statuses : /\ SetStatus(j, s) /\ s # "SUCCEEDED"
                                /\ s = "BLOCKED" => ~cancelReq[j]
      BY <1>5, <2>4 DEF OutcomeAccepted, OutcomeRefused, Statuses
    <3>2. Settles(w, s)
      BY <2>1, <2>2, <2>4, <3>1 DEF Settles, TerminalStatuses
    <3> QED BY <3>2
  <2> QED BY <2>3, <2>4
<1>6. CASE Absence(w) /\ Done(w)
  <2>1. Mine(w) /\ j \in Jobs
    BY <1>6, RowFacts DEF Absence
  <2>2. cancelReq[j] /\ status[j] \notin TerminalStatuses
    BY <1>6, <2>1 DEF Absence, Done, MemoryOK, SubmissionInv
  <2>3. owner'[j] = Nobody
    BY <1>6, <2>1, <2>2 DEF Absence, SubmissionInv, RowsOK
  <2>4. Settles(w, "CANCELLED")
    BY <1>6, <2>1, <2>2, <2>3 DEF Settles, Absence
  <2> QED BY <2>4 DEF Statuses
<1> QED BY <1>1, <1>2, <1>3, <1>4, <1>5, <1>6

\* The ends of a poll and of a remote cancel settle the job.
LEMMA PollSettles ==
  ASSUME SubmissionInv, EndInv, NEW w \in Workers,
         \/ PollIgnored(w) \/ PollFinished(w) \/ PollMerged(w) \/ PollCancelling(w)
         \/ PollGone(w) \/ PollWaiting(w) \/ TimedOut(w) \/ CancelDone(w)
         \/ CancelTooLate(w) \/ CancelRetried(w) \/ CancelGivenUp(w)
  PROVE  \E s \in Statuses : Settles(w, s)
<1> DEFINE j == cur[w]
<1>1. ASSUME Mine(w), Done(w), Release(j), UNCHANGED cancelReq,
             NEW s \in Statuses \ {"BLOCKED"}, SetStatus(j, s),
             status[j] \notin TerminalStatuses,
             s = "SUCCEEDED" => run[j] = "COMPLETED" \/ RemoteSucceeded(j)
      PROVE  \E t \in Statuses : Settles(w, t)
  <2>1. owner'[j] = Nobody
    BY <1>1, RowFacts DEF SubmissionInv, RowsOK
  <2> QED BY <1>1, <2>1 DEF Settles
<1>2. CASE PollIgnored(w) \/ CancelRetried(w)
  BY <1>2, KeepSettles DEF PollIgnored, Polled, CancelRetried, Unanswered, CancelAnswer
<1>3. CASE PollFinished(w)
  <2>1. /\ Mine(w) /\ Done(w) /\ Release(j) /\ UNCHANGED cancelReq
        /\ SetStatus(j, out[w].seen) /\ out[w].seen \in RemoteTerminal
        /\ status[j] \notin TerminalStatuses
        /\ pc[w] = "polled" /\ out[w].kind = "seen"
    BY <1>3 DEF PollFinished, Polled, InProgress, RemoteCancel, Finished, TerminalStatuses
  <2>2. out[w].seen = "SUCCEEDED" => RemoteSucceeded(j)
    BY <2>1 DEF EndInv, HandsCurrent
  <2> QED BY <1>1, <2>1, <2>2 DEF RemoteTerminal, Statuses
<1>4. CASE PollMerged(w)
  <2>1. /\ Mine(w) /\ Done(w) /\ Release(j) /\ UNCHANGED cancelReq
        /\ status[j] \notin TerminalStatuses
    BY <1>4 DEF PollMerged, Unfinished, Polled, InProgress, RemoteCancel, TerminalStatuses
  <2>2. PICK s \in MergedRun(j) : SetStatus(j, s)
    BY <1>4 DEF PollMerged
  <2>3. /\ s \in {"FAILED", "CANCELLED", "SUCCEEDED"}
        /\ s = "SUCCEEDED" => run[j] = "COMPLETED"
    BY <2>2 DEF MergedRun
  <2> QED BY <1>1, <2>1, <2>2, <2>3 DEF Statuses
<1>5. CASE PollCancelling(w) \/ PollGone(w) \/ PollWaiting(w)
  <2>1. /\ Mine(w) /\ Done(w) /\ Release(j) /\ UNCHANGED cancelReq
        /\ status[j] \notin TerminalStatuses
    BY <1>5 DEF PollCancelling, PollGone, PollWaiting, StillThere, Unfinished, Polled,
                InProgress, RemoteCancel, TerminalStatuses
  <2>2. \E s \in {"CANCELLING", "FAILED", "RUNNING", "SUBMITTED"} : SetStatus(j, s)
    BY <1>5 DEF PollCancelling, PollGone, PollWaiting, Progress
  <2> QED BY <1>1, <2>1, <2>2 DEF Statuses
<1>6. CASE TimedOut(w)
  <2>1. /\ Mine(w) /\ Done(w) /\ Release(j) /\ UNCHANGED cancelReq
    BY <1>6 DEF TimedOut
  <2>2. CASE InProgress(j)
    <3>1. SetStatus(j, "TIMED_OUT") /\ status[j] \notin TerminalStatuses
      BY <1>6, <2>2 DEF TimedOut, InProgress, RemoteCancel, TerminalStatuses
    <3> QED BY <1>1, <2>1, <3>1 DEF Statuses
  <2>3. CASE ~InProgress(j)
    BY <1>6, <2>1, <2>3, KeepSettles DEF TimedOut
  <2> QED BY <2>2, <2>3
<1>7. CASE CancelDone(w) \/ CancelTooLate(w) \/ CancelGivenUp(w)
  <2>1. /\ Mine(w) /\ Done(w) /\ Release(j) /\ UNCHANGED cancelReq
        /\ status[j] \notin TerminalStatuses
    BY <1>7 DEF CancelDone, CancelTooLate, CancelGivenUp, Unanswered, CancelAnswer,
                TerminalStatuses
  <2>2. \E s \in {"CANCELLED", "RUNNING"} : SetStatus(j, s)
    BY <1>7 DEF CancelDone, CancelTooLate, CancelGivenUp
  <2> QED BY <1>1, <2>1, <2>2 DEF Statuses
<1> QED BY <1>2, <1>3, <1>4, <1>5, <1>6, <1>7

-----------------------------------------------------------------------------
\* The steps of a worker that go on.

\* A submit or a reconcile goes on.
LEMMA SubmitProceeds ==
  ASSUME SubmissionInv, EndInv, NEW w \in Workers,
         \/ SubmitReady(w) \/ BeginSubmit(w) \/ Send(w) \/ GiveUp(w) \/ Reconcile(w)
         \/ ReconcileFailed(w) \/ (Absence(w) /\ ~Done(w))
  PROVE  \E place : Proceeds(w, place)
<1> DEFINE j == cur[w]
<1>1. CASE SubmitReady(w)
  <2>1. Mine(w) /\ (pc[w] = "resubmit" => status[j] = "SUBMITTING")
    BY <1>1, RowFacts DEF SubmitReady, InSubmit
  <2>2. Proceeds(w, "begin") \/ Proceeds(w, "rebegin")
    BY <1>1, <2>1 DEF SubmitReady, InSubmit, Proceeds
  <2> QED BY <2>2
<1>2. CASE BeginSubmit(w)
  <2>1. Mine(w) /\ status[j] \in {"QUEUED", "SUBMITTING"}
    BY <1>2 DEF BeginSubmit, MayBegin, SubmissionInv, HandsApart
  <2>2. Proceeds(w, "send")
    BY <1>2, <2>1 DEF BeginSubmit, Proceeds, TerminalStatuses
  <2> QED BY <2>2
<1>3. CASE Send(w)
  <2>1. Mine(w)
    BY <1>3 DEF Send, SubmissionInv, PostersHold, HandsApart
  <2>2. Proceeds(w, "wait")
    BY <1>3, <2>1 DEF Send, Proceeds
  <2> QED BY <2>2
<1>4. CASE GiveUp(w)
  <2>1. Mine(w)
    BY <1>4 DEF GiveUp, SubmissionInv, PostersHold, HandsApart
  <2>2. Proceeds(w, "outcome")
    BY <1>4, <2>1 DEF GiveUp, Continue, Proceeds, SubmissionInv, MemoryOK
  <2> QED BY <2>2
<1>5. CASE Reconcile(w) \/ ReconcileFailed(w)
  <2>1. /\ Mine(w) /\ status[j] = "SUBMITTING" /\ UNCHANGED <<status, owner, cancelReq>>
    BY <1>5, RowFacts DEF Reconcile, ReconcileFailed, InReconcile
  <2>2. PICK place \in {"absent", "outcome", "pause"} : \E a : Continue(w, place, a)
    BY <1>5 DEF Reconcile, ReconcileFailed
  <2>3. Proceeds(w, place)
    BY <2>1, <2>2 DEF Continue, Proceeds, SubmissionInv, MemoryOK
  <2> QED BY <2>3
<1>6. CASE Absence(w) /\ ~Done(w)
  <2>1. Mine(w) /\ status[j] = "SUBMITTING"
    BY <1>6, RowFacts DEF Absence
  <2>2. Proceeds(w, "resubmit")
    BY <1>6, <2>1 DEF Absence, Proceeds
  <2> QED BY <2>2
<1> QED BY <1>1, <1>2, <1>3, <1>4, <1>5, <1>6

\* The calls of a poll and of a remote cancel go on.
LEMMA PollProceeds ==
  ASSUME SubmissionInv, EndInv, NEW w \in Workers,
         Poll(w) \/ PollStuck(w) \/ CancelCall(w) \/ TimeoutCall(w)
  PROVE  \E place : Proceeds(w, place)
<1> DEFINE j == cur[w]
<1>1. CASE Poll(w)
  <2>1. Mine(w) /\ UNCHANGED <<status, owner, cancelReq>>
    BY <1>1 DEF Poll
  <2>2. PICK a : /\ Continue(w, "polled", a)
                 /\ a.kind = "seen" => /\ remoteId[j] # NoRemote
                                       /\ a.seen = svc[remoteId[j]].status
    <3>1. CASE Continue(w, "polled", Answer("paused"))
      BY <3>1 DEF Answer, NoAnswer
    <3>2. CASE Continue(w, "polled", Answer("not_found"))
      BY <3>2 DEF Answer, NoAnswer
    <3>3. CASE \E kind \in {"auth", "retry"} : Continue(w, "polled", Answer(kind))
      BY <3>3 DEF Answer, NoAnswer
    <3>4. CASE /\ remoteId[j] # NoRemote
               /\ Continue(w, "polled",
                           [Answer("seen") EXCEPT !.seen = svc[remoteId[j]].status])
      <4> DEFINE a == [Answer("seen") EXCEPT !.seen = svc[remoteId[j]].status]
      <4>1. a.seen = svc[remoteId[j]].status
        BY DEF Answer, NoAnswer
      <4> QED BY <3>4, <4>1
    <3> QED BY <1>1, <3>1, <3>2, <3>3, <3>4 DEF Poll
  <2>3. out'[w] = a
    BY <2>2 DEF Continue, SubmissionInv, MemoryOK
  <2>4. Proceeds(w, "polled")
    BY <2>1, <2>2, <2>3 DEF Continue, Proceeds, RemoteSucceeded, SubmissionInv, MemoryOK
  <2> QED BY <2>4
<1>2. CASE PollStuck(w)
  <2>1. Proceeds(w, "timeout")
    BY <1>2 DEF PollStuck, StillThere, Unfinished, Polled, InProgress, RemoteCancel,
                Proceeds, TerminalStatuses, SubmissionInv, MemoryOK
  <2> QED BY <2>1
<1>3. CASE CancelCall(w) \/ TimeoutCall(w)
  <2>1. Mine(w) /\ UNCHANGED <<status, owner, cancelReq>>
    BY <1>3 DEF CancelCall, TimeoutCall
  <2>2. PICK place \in {"cancelled", "timedout"} : \E a : Continue(w, place, a)
    BY <1>3 DEF CancelCall, TimeoutCall, RemoteCancelCall
  <2>3. Proceeds(w, place)
    BY <2>1, <2>2 DEF Continue, Proceeds, SubmissionInv, MemoryOK
  <2> QED BY <2>3
<1> QED BY <1>1, <1>2, <1>3

-----------------------------------------------------------------------------
\* The other steps: leases, users, failures, time and the service.

\* No status changes; a worker keeps its place, drops the job or gets its answer.
LEMMA RowsStay ==
  ASSUME SubmissionInv, EndInv, Lasting, UNCHANGED status,
         \A j \in Jobs : status[j] = "BLOCKED" =>
           owner'[j] = owner[j] /\ cancelReq'[j] = cancelReq[j],
         \A v \in Workers : Mine(v)' =>
           \/ pc'[v] = "outcome"
           \/ Mine(v) /\ cur'[v] = cur[v] /\ pc'[v] = pc[v] /\ out'[v] = out[v]
  PROVE  EndInv' /\ NoReopen
<1>1. TypeOK
  BY DEF SubmissionInv
<1>2. HandsCurrent'
  <2> SUFFICES ASSUME NEW v \in Workers, Mine(v)'
               PROVE  (/\ pc[v] \in {"queued", "begin"} =>
                            \/ status[cur[v]] = "QUEUED"
                            \/ status[cur[v]] = "CANCELLED" /\ cancelReq[cur[v]]
                       /\ pc[v] \in {"submitting", "absent", "resubmit", "rebegin", "pause"} =>
                            status[cur[v]] = "SUBMITTING"
                       /\ pc[v] = "polled" /\ out[v].kind = "seen" /\ out[v].seen = "SUCCEEDED" =>
                            RemoteSucceeded(cur[v]))'
    BY DEF HandsCurrent
  <2>1. CASE pc'[v] = "outcome"
    BY <2>1
  <2>2. CASE Mine(v) /\ cur'[v] = cur[v] /\ pc'[v] = pc[v] /\ out'[v] = out[v]
    <3>1. cur[v] \in Jobs
      BY <1>1, <2>2 DEF MemoryOK
    <3>2. /\ RemoteSucceeded(cur[v]) => RemoteSucceeded(cur[v])'
          /\ cancelReq[cur[v]] => cancelReq'[cur[v]]
      BY <2>2, <3>1 DEF Lasting, RemoteSucceeded
    <3> QED BY <2>2, <3>1, <3>2 DEF EndInv, HandsCurrent
  <2> QED BY <2>1, <2>2
<1>3. BlockedIsFree'
  BY DEF EndInv, BlockedIsFree
<1>4. CancelNotStranded'
  BY DEF EndInv, CancelNotStranded
<1>5. SuccessIsReal'
  BY DEF EndInv, SuccessIsReal, Lasting
<1>6. NoReopen
  BY DEF NoReopen
<1> QED BY <1>2, <1>3, <1>4, <1>5, <1>6 DEF EndInv

\* Taking, checking and dropping the lease changes no row.
LEMMA LeaseEnds ==
  ASSUME SubmissionInv, EndInv, Lasting, NEW w \in Workers,
         \/ Claim(w) \/ LeaseLost(w) \/ Crash(w)
         \/ \E j \in Jobs : Process(w, j) \/ Skip(w, j)
  PROVE  EndInv' /\ NoReopen
<1>1. CASE Claim(w)
  <2>1. \A j \in Jobs : status[j] = "BLOCKED" => owner'[j] = owner[j]
    BY <1>1 DEF Claim, Claimable, ClaimableStatuses
  <2>2. \A v \in Workers : Mine(v)' => Mine(v)
    BY <1>1, DispatchAssumption DEF Claim, SubmissionInv, HandsApart, MemoryOK, RowsOK
  <2> QED BY <1>1, <2>1, <2>2, RowsStay DEF Claim
<1>2. CASE LeaseLost(w) \/ Crash(w)
  <2>1. \A v \in Workers : Mine(v)' => /\ Mine(v) /\ cur'[v] = cur[v]
                                       /\ pc'[v] = pc[v] /\ out'[v] = out[v]
    BY <1>2 DEF LeaseLost, Crash, Done, SubmissionInv, MemoryOK
  <2> QED BY <1>2, <2>1, RowsStay DEF LeaseLost, Crash
<1>3. ASSUME NEW j \in Jobs, Skip(w, j)
      PROVE  EndInv' /\ NoReopen
  BY <1>3, RowsStay DEF Skip
<1>4. ASSUME NEW j \in Jobs, Process(w, j)
      PROVE  EndInv' /\ NoReopen
  <2>1. /\ UNCHANGED <<status, owner, cancelReq, out>> /\ owner[j] = w
        /\ cur' = [cur EXCEPT ![w] = j] /\ pc' = [pc EXCEPT ![w] = StepOf(status[j])]
        /\ TypeOK /\ out[w] = out[w]
    BY <1>4 DEF Process, SubmissionInv
  <2>2. /\ StepOf(status[j]) \in {"queued", "submitting", "poll", "cancel", "other"}
        /\ StepOf(status[j]) = "queued" => status[j] = "QUEUED"
        /\ StepOf(status[j]) = "submitting" => status[j] = "SUBMITTING"
    BY DEF StepOf
  <2>3. HandsCurrent'
    <3> SUFFICES ASSUME NEW v \in Workers, Mine(v)'
                 PROVE  (/\ pc[v] \in {"queued", "begin"} =>
                              \/ status[cur[v]] = "QUEUED"
                              \/ status[cur[v]] = "CANCELLED" /\ cancelReq[cur[v]]
                         /\ pc[v] \in {"submitting", "absent", "resubmit", "rebegin", "pause"} =>
                              status[cur[v]] = "SUBMITTING"
                         /\ pc[v] = "polled" /\ out[v].kind = "seen" /\ out[v].seen = "SUCCEEDED" =>
                              RemoteSucceeded(cur[v]))'
      BY DEF HandsCurrent
    <3>1. CASE v = w
      BY <2>1, <2>2, <3>1 DEF MemoryOK
    <3>2. CASE v # w
      <4>1. cur'[v] = cur[v] /\ pc'[v] = pc[v] /\ Mine(v) /\ cur[v] \in Jobs
        BY <2>1, <3>2 DEF MemoryOK
      <4>2. RemoteSucceeded(cur[v]) => RemoteSucceeded(cur[v])'
        BY <4>1 DEF Lasting, RemoteSucceeded
      <4> QED BY <2>1, <4>1, <4>2 DEF EndInv, HandsCurrent
    <3> QED BY <3>1, <3>2
  <2>4. BlockedIsFree' /\ CancelNotStranded'
    BY <2>1 DEF EndInv, BlockedIsFree, CancelNotStranded
  <2>5. SuccessIsReal' /\ NoReopen
    BY <2>1 DEF EndInv, SuccessIsReal, Lasting, NoReopen
  <2> QED BY <2>3, <2>4, <2>5 DEF EndInv
<1> QED BY <1>1, <1>2, <1>3, <1>4

\* A cancel request ends what waits, and what is blocked at once.
LEMMA UserEnds ==
  ASSUME SubmissionInv, EndInv, Lasting, NEW j \in Jobs, CancelStart(j) \/ CancelStep(j)
  PROVE  EndInv' /\ NoReopen
<1>1. UNCHANGED <<remoteId, owner, memory, svc>> /\ TypeOK
  BY DEF CancelStart, CancelStep, SubmissionInv
<1>2. \/ UNCHANGED <<status, cancelReq>>
      \/ /\ MarkCancel(j)
         /\ \/ status[j] \in LocalCancel /\ SetStatus(j, "CANCELLED")
            \/ status[j] \in RemoteCancel /\ SetStatus(j, "CANCELLING")
            \/ UNCHANGED status /\ ~(status[j] \in LocalCancel /\ LeaseFree(j))
               /\ status[j] \in LocalCancel \cup {"SUBMITTING"}
  BY DEF CancelStart, CancelStep, CancelMore, CancelLocally, CancelLocallyMissed,
         CancelRemotely, CancelNoted
<1>3. HandsCurrent'
  <2> SUFFICES ASSUME NEW v \in Workers, Mine(v)'
               PROVE  (/\ pc[v] \in {"queued", "begin"} =>
                            \/ status[cur[v]] = "QUEUED"
                            \/ status[cur[v]] = "CANCELLED" /\ cancelReq[cur[v]]
                       /\ pc[v] \in {"submitting", "absent", "resubmit", "rebegin", "pause"} =>
                            status[cur[v]] = "SUBMITTING"
                       /\ pc[v] = "polled" /\ out[v].kind = "seen" /\ out[v].seen = "SUCCEEDED" =>
                            RemoteSucceeded(cur[v]))'
    BY DEF HandsCurrent
  <2>1. Mine(v) /\ cur[v] \in Jobs /\ cur'[v] = cur[v] /\ pc'[v] = pc[v] /\ out'[v] = out[v]
    BY <1>1 DEF MemoryOK
  <2>2. RemoteSucceeded(cur[v]) => RemoteSucceeded(cur[v])'
    BY <2>1 DEF Lasting, RemoteSucceeded
  <2>3. /\ status'[cur[v]] = status[cur[v]] /\ (cancelReq[cur[v]] => cancelReq'[cur[v]])
        \/ /\ status[cur[v]] \in LocalCancel /\ status'[cur[v]] = "CANCELLED"
           /\ cancelReq'[cur[v]]
        \/ status[cur[v]] \in RemoteCancel
    BY <1>1, <1>2, <2>1 DEF RowsOK
  <2> QED BY <2>1, <2>2, <2>3 DEF EndInv, HandsCurrent, LocalCancel, RemoteCancel
<1>4. BlockedIsFree'
  BY <1>1, <1>2 DEF EndInv, BlockedIsFree, RowsOK
<1>5. CancelNotStranded'
  <2>1. status[j] = "BLOCKED" => status[j] \in LocalCancel /\ LeaseFree(j)
    BY DEF EndInv, BlockedIsFree, LocalCancel, LeaseFree
  <2> QED BY <1>1, <1>2, <2>1 DEF EndInv, CancelNotStranded, RowsOK
<1>6. SuccessIsReal'
  BY <1>1, <1>2 DEF EndInv, SuccessIsReal, Lasting, RowsOK
<1>7. NoReopen
  BY <1>1, <1>2 DEF NoReopen, TerminalStatuses, LocalCancel, RemoteCancel, RowsOK
<1> QED BY <1>3, <1>4, <1>5, <1>6, <1>7 DEF EndInv

\* Failures, time and the service end no job.
LEMMA EnvironmentEnds ==
  ASSUME SubmissionInv, EndInv, Lasting, Environment
  PROVE  EndInv' /\ NoReopen
<1>1. ASSUME NEW w \in Workers, Crash(w)
      PROVE  EndInv' /\ NoReopen
  BY <1>1, LeaseEnds
<1>2. ASSUME NEW w \in Workers, StepFailed(w)
      PROVE  EndInv' /\ NoReopen
  BY <1>2, SubmitSettles, SettleKeeps
<1>3. ASSUME NEW j \in Jobs,
             LeaseExpires(j) \/ WaitElapses(j) \/ LoseRequest(j) \/ RunStep(j)
      PROVE  EndInv' /\ NoReopen
  BY <1>3, RowsStay DEF LeaseExpires, WaitElapses, LoseRequest, RunStep
<1>4. ASSUME NEW r \in RemoteIds, ServiceStep(r)
      PROVE  EndInv' /\ NoReopen
  BY <1>4, RowsStay DEF ServiceStep
<1>5. CASE EnvironmentRecovers
  BY <1>5, RowsStay DEF EnvironmentRecovers
<1>6. ASSUME NEW j \in Jobs, NEW a, Answered(j, a), UNCHANGED rows
      PROVE  EndInv' /\ NoReopen
  <2>1. \A v \in Workers : Mine(v)' =>
          \/ pc'[v] = "outcome"
          \/ Mine(v) /\ cur'[v] = cur[v] /\ pc'[v] = pc[v] /\ out'[v] = out[v]
    BY <1>6 DEF Answered, Continue, SubmissionInv, MemoryOK
  <2> QED BY <1>6, <2>1, RowsStay
<1>7. ASSUME NEW j \in Jobs, Refuse(j) \/ \E r \in RemoteIds : Accept(j, r)
      PROVE  EndInv' /\ NoReopen
  BY <1>6, <1>7 DEF Refuse, Accept
<1> QED BY <1>1, <1>2, <1>3, <1>4, <1>5, <1>7 DEF Environment

-----------------------------------------------------------------------------
\* Nothing has ended before the first step.
LEMMA InitEnds == Init => EndInv
BY DispatchAssumption
   DEF Init, EndInv, HandsCurrent, BlockedIsFree, CancelNotStranded, SuccessIsReal

\* Every step keeps the invariant about the ends, and no terminal status is left.
LEMMA NextEnds ==
  ASSUME SubmissionInv, EndInv, [Next]_vars
  PROVE  EndInv' /\ NoReopen
<1>1. ASSUME NEW w \in Workers, Worker(w)
      PROVE  EndInv' /\ NoReopen
  <2>1. Lasting
    BY <1>1, WorkerLasting
  <2>2. ASSUME NEW s \in Statuses, Settles(w, s)
        PROVE  EndInv' /\ NoReopen
    BY <2>1, <2>2, SettleKeeps
  <2>3. ASSUME NEW place, Proceeds(w, place)
        PROVE  EndInv' /\ NoReopen
    BY <2>1, <2>3, ProceedKeeps
  <2>4. CASE Claim(w) \/ LeaseLost(w) \/ \E j \in Jobs : Process(w, j) \/ Skip(w, j)
    BY <2>1, <2>4, LeaseEnds
  <2>5. CASE ReleaseOnly(w) \/ Submit(w) \/ ReconcileStep(w)
    BY <2>2, <2>3, <2>5, SubmitSettles, SubmitProceeds DEF Submit, ReconcileStep
  <2>6. CASE PollStep(w) \/ CancelWork(w)
    BY <2>2, <2>3, <2>6, PollSettles, PollProceeds DEF PollStep, CancelWork
  <2> QED BY <1>1, <2>4, <2>5, <2>6 DEF Worker
<1>2. CASE \E j \in Jobs : CancelStart(j) \/ CancelStep(j)
  BY <1>2, OthersLasting, UserEnds
<1>3. CASE Environment
  BY <1>3, OthersLasting, EnvironmentEnds
<1>4. CASE Settled \/ UNCHANGED vars
  <2>1. UNCHANGED vars
    BY <1>4 DEF Settled
  <2>2. Lasting
    BY <2>1, QuietLasting
  <2> QED BY <2>1, <2>2, RowsStay
<1> QED BY <1>1, <1>2, <1>3, <1>4 DEF Next

\* The inductive invariant about the ends, on top of the one about submitting.
THEOREM EndsInductive == Spec => []EndInv
BY InitEnds, NextEnds, SubmissionInductive, PTL DEF Spec

\* A cancel request is never stranded on a blocked job.
THEOREM CancelReachesJob == Spec => []CancelNotStranded
<1>1. EndInv => CancelNotStranded
  BY DEF EndInv
<1> QED BY <1>1, EndsInductive, PTL

\* A job reported SUCCEEDED did succeed.
THEOREM SuccessNeverMadeUp == Spec => []SuccessIsReal
<1>1. EndInv => SuccessIsReal
  BY DEF EndInv
<1> QED BY <1>1, EndsInductive, PTL

\* No step changes a terminal status.
THEOREM TerminalForever == Spec => TerminalIsFinal
<1>1. SubmissionInv /\ EndInv /\ [Next]_vars =>
        [\A j \in Jobs : status[j] \in TerminalStatuses => status'[j] = status[j]]_vars
  BY NextEnds DEF NoReopen
<1> QED BY <1>1, SubmissionInductive, EndsInductive, PTL DEF Spec, TerminalIsFinal
=============================================================================
