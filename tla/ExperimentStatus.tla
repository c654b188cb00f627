-------------------------- MODULE ExperimentStatus --------------------------
(***************************************************************************)
(* The status of an experiment is stored, and recomputed from its jobs by   *)
(* every transaction that moves one (recompute_experiment_status).  This    *)
(* module runs those transactions against each other, as Postgres does      *)
(* under READ COMMITTED: dispatchers settling jobs, cancel requests over    *)
(* several jobs and experiments, retries, and the settle sweep.             *)
(*                                                                         *)
(* A transaction reads committed rows, keeps what it writes to itself until *)
(* it commits, and holds the lock of every row it wrote.  Its ORM session   *)
(* also keeps the rows it has loaded: reading them again returns what was   *)
(* loaded first, unless the row is refreshed (variable seen).               *)
(***************************************************************************)
EXTENDS Naturals

CONSTANTS
  Jobs,         \* job ids, ordered: bulk requests lock rows in id order
  Launched,     \* the jobs created with the experiments; the others are free
  Experiments,  \* experiment ids, ordered too
  ExpOf,        \* the experiment of a job
  Dispatchers, Cancellers, Retriers, Sweepers,   \* database sessions, by use
  NoOne,        \* no session
  NoJob         \* retry_of_job_id NULL

Sessions == Dispatchers \cup Cancellers \cup Retriers \cup Sweepers

ASSUME StatusAssumption ==
  /\ Jobs \subseteq Nat /\ Launched \subseteq Jobs /\ NoJob \notin Jobs
  /\ Experiments \subseteq Nat
  /\ ExpOf \in [Jobs -> Experiments]
  /\ NoOne \notin Sessions

\* A launch names at least one environment.
ASSUME LaunchAssumption == \A e \in Experiments : \E j \in Launched : ExpOf[j] = e

VARIABLES
  \* committed
  status,    \* job status; "absent" before the row is inserted
  noted,     \* the jobs with cancel_requested_at set
  retryOf,   \* retry_of_job_id
  exp,       \* experiment status
  secrets,   \* secrets_encrypted holds temporary-model keys
  apiKey,    \* qym_api_key_encrypted is set
  \* the open transactions
  pc,        \* what the session does next
  seen,      \* job rows in the session: loaded or written; "absent": neither
  rowLock,   \* the session that wrote the job row
  expLock,   \* the session that locked the experiment row
  todo,      \* targets of a cancel not looked at yet
  touched    \* experiments still to recompute

committed == <<status, noted, retryOf, exp, secrets, apiKey>>
session == <<pc, seen, rowLock, expLock, todo, touched>>
vars == <<committed, session>>

-----------------------------------------------------------------------------
ActiveStatuses   == {"SUBMITTING", "SUBMITTED", "RUNNING", "CANCELLING"}
TerminalStatuses == {"SUCCEEDED", "FAILED", "CANCELLED", "TIMED_OUT"}
SettledStatuses  == TerminalStatuses \cup {"BLOCKED"}
RetryableStatuses == {"FAILED", "CANCELLED", "TIMED_OUT", "BLOCKED"}
JobStatuses == {"QUEUED"} \cup ActiveStatuses \cup SettledStatuses
ExperimentStatuses ==
  {"QUEUED", "RUNNING", "COMPLETED", "CANCELLED", "PARTIAL", "FAILED"}
Unfinished == {"QUEUED", "RUNNING"}

\* aggregate_status.  How many jobs have a status does not matter, only which do.
Aggregate(S) ==
  CASE S \subseteq {"QUEUED"}                        -> "QUEUED"
    [] S \cap ActiveStatuses # {}                     -> "RUNNING"
    [] "QUEUED" \in S /\ S \cap ActiveStatuses = {} /\ S # {"QUEUED"} -> "RUNNING"
    [] S = {"CANCELLED"}                             -> "CANCELLED"
    [] S = {"SUCCEEDED"}                             -> "COMPLETED"
    [] OTHER -> IF "SUCCEEDED" \in S THEN "PARTIAL" ELSE "FAILED"

\* current_jobs, over the rows a session sees: those no newer attempt points at.
Current(e, rows) ==
  {j \in Jobs : /\ ExpOf[j] = e /\ rows[j] # "absent"
                /\ \A k \in Jobs :
                     ExpOf[k] = e /\ rows[k] # "absent" => retryOf[k] # j}
StatusOf(e, rows) == Aggregate({rows[j] : j \in Current(e, rows)})

AllIn(e, rows, S) == \A j \in Current(e, rows) : rows[j] \in S
Quiet == \A s \in Sessions : pc[s] = "idle"

\* Requests go through their rows in id order.
First(x, S) == x \in S /\ \A y \in S : x <= y

TypeOK ==
  /\ status \in [Jobs -> JobStatuses \cup {"absent"}]
  /\ noted \subseteq Jobs
  /\ retryOf \in [Jobs -> Jobs \cup {NoJob}]
  /\ exp \in [Experiments -> ExperimentStatuses]
  /\ secrets \in [Experiments -> BOOLEAN]
  /\ apiKey \in [Experiments -> BOOLEAN]
  /\ pc \in [Sessions -> {"idle", "cancel", "insert", "recompute", "revoke"}]
  /\ seen \in [Sessions -> [Jobs -> JobStatuses \cup {"absent"}]]
  /\ rowLock \in [Jobs -> Sessions \cup {NoOne}]
  /\ expLock \in [Experiments -> Sessions \cup {NoOne}]
  /\ todo \in [Sessions -> SUBSET Jobs]
  /\ touched \in [Sessions -> SUBSET Experiments]

Nothing == [j \in Jobs |-> "absent"]

Init ==
  /\ status = [j \in Jobs |-> IF j \in Launched THEN "QUEUED" ELSE "absent"]
  /\ noted = {}
  /\ retryOf = [j \in Jobs |-> NoJob]
  /\ exp = [e \in Experiments |-> "QUEUED"]
  /\ secrets = [e \in Experiments |-> TRUE]
  /\ apiKey = [e \in Experiments |-> TRUE]
  /\ pc = [s \in Sessions |-> "idle"]
  /\ seen = [s \in Sessions |-> Nothing]
  /\ rowLock = [j \in Jobs |-> NoOne]
  /\ expLock = [e \in Experiments |-> NoOne]
  /\ todo = [s \in Sessions |-> {}]
  /\ touched = [s \in Sessions |-> {}]

-----------------------------------------------------------------------------
Goto(s, place) == pc' = [pc EXCEPT ![s] = place]

\* The end of a transaction: locks and loaded rows go.
Close(s) ==
  /\ Goto(s, "idle")
  /\ seen' = [seen EXCEPT ![s] = Nothing]
  /\ rowLock' = [j \in Jobs |-> IF rowLock[j] = s THEN NoOne ELSE rowLock[j]]
  /\ expLock' = [e \in Experiments |-> IF expLock[e] = s THEN NoOne ELSE expLock[e]]
  /\ todo' = [todo EXCEPT ![s] = {}]
  /\ touched' = [touched EXCEPT ![s] = {}]

\* Mutant: the status is recomputed without the lock of the experiment row.
RecomputeUnlocked(s) ==
  /\ pc[s] \in {"recompute", "revoke"}
  /\ \E e \in Experiments :
     /\ First(e, touched[s])
     /\ expLock' = [expLock EXCEPT ![e] = s]
     /\ seen' = [seen EXCEPT ![s] = [j \in Jobs |->
                   IF ExpOf[j] = e /\ @[j] = "absent" THEN status[j] ELSE @[j]]]
     /\ touched' = [touched EXCEPT ![s] = @ \ {e}]
  /\ UNCHANGED <<committed, pc, rowLock, todo>>

\* Mutant: the status is committed at once, not with the jobs it was computed from.
RecomputeAtOnce(s) ==
  /\ pc[s] \in {"recompute", "revoke"}
  /\ \E e \in Experiments :
     /\ First(e, touched[s])
     /\ expLock[e] \in {NoOne, s}
     /\ expLock' = [expLock EXCEPT ![e] = s]
     /\ seen' = [seen EXCEPT ![s] = [j \in Jobs |->
                   IF ExpOf[j] = e /\ @[j] = "absent" THEN status[j] ELSE @[j]]]
     /\ touched' = [touched EXCEPT ![s] = @ \ {e}]
     /\ exp' = [exp EXCEPT ![e] = StatusOf(e, seen'[s])]
  /\ UNCHANGED <<status, noted, retryOf, secrets, apiKey, pc, rowLock, todo>>

\* A job that the session loaded has a newer attempt by now.  Whatever has become of
\* that one, it did not finish before a sweep began (settled_long_enough).
Retried(s) ==
  \E j, k \in Jobs : seen[s][j] # "absent" /\ retryOf[k] = j /\ status[k] # "absent"

\* recompute_experiment_status, up to the commit: lock the experiment row, then
\* read the jobs.  Rows already loaded in the session keep the loaded values.
Recompute(s) ==
  /\ pc[s] \in {"recompute", "revoke"}
  /\ \E e \in Experiments :
     /\ First(e, touched[s])
     /\ expLock[e] \in {NoOne, s}
     /\ expLock' = [expLock EXCEPT ![e] = s]
     /\ seen' = [seen EXCEPT ![s] = [j \in Jobs |->
                   IF ExpOf[j] = e /\ @[j] = "absent" THEN status[j] ELSE @[j]]]
     /\ touched' = [touched EXCEPT ![s] = @ \ {e}]
  /\ IF Retried(s) THEN Goto(s, "recompute") ELSE UNCHANGED pc
  /\ UNCHANGED <<committed, rowLock, todo>>

\* Mutants: keys dropped although a job is queued, and kept for a blocked one.
DropsWhenIdle(s, e) == AllIn(e, seen[s], SettledStatuses \cup {"QUEUED"})
DropsWhenTerminal(s, e) == AllIn(e, seen[s], TerminalStatuses)
\* clear_secrets_when_settled.
DropsSecrets(s, e) == AllIn(e, seen[s], SettledStatuses)

\* revoke_key_when_settled, once the grace has passed.
RevokesKey(s, e) == pc[s] = "revoke" /\ AllIn(e, seen[s], TerminalStatuses)

\* The commit of a transaction that recomputed all it touched.  A retry also
\* writes the keys of its attempt (temporary_keys, ensure_key_for_retry).
Commit(s) ==
  /\ pc[s] \in {"recompute", "revoke"} /\ touched[s] = {}
  /\ status' = [j \in Jobs |-> IF rowLock[j] = s THEN seen[s][j] ELSE status[j]]
  /\ exp' = [e \in Experiments |->
               IF expLock[e] = s THEN StatusOf(e, seen[s]) ELSE exp[e]]
  /\ secrets' = [e \in Experiments |->
       IF expLock[e] = s THEN ~DropsSecrets(s, e) /\ (secrets[e] \/ s \in Retriers)
                         ELSE secrets[e]]
  /\ apiKey' = [e \in Experiments |->
       IF expLock[e] = s THEN ~RevokesKey(s, e) /\ (apiKey[e] \/ s \in Retriers)
                         ELSE apiKey[e]]
  /\ noted' = IF s \in Cancellers THEN noted \cup {j \in Jobs : rowLock[j] = s}
                                   ELSE noted
  /\ Close(s)
  /\ UNCHANGED retryOf

\* An exception, a crash, or the victim of a deadlock: nothing is written.
Abort(s) ==
  /\ pc[s] # "idle"
  /\ retryOf' = [j \in Jobs |-> IF rowLock[j] = s /\ status[j] = "absent"
                                  THEN NoJob ELSE retryOf[j]]
  /\ Close(s)
  /\ UNCHANGED <<status, noted, exp, secrets, apiKey>>

-----------------------------------------------------------------------------
\* What a dispatcher may turn the status of a job into in one transaction; a noted
\* cancel request is honoured before and after the submit (EvalDispatch).
DispatcherMoves(j) ==
  CASE status[j] = "QUEUED" ->
         IF j \in noted THEN {"CANCELLED"} ELSE {"SUBMITTING", "BLOCKED"}
    [] status[j] = "SUBMITTING" ->
         IF j \in noted THEN {"CANCELLING", "CANCELLED"}
                        ELSE {"QUEUED", "SUBMITTED", "RUNNING", "BLOCKED"}
    [] status[j] = "SUBMITTED" ->
         {"RUNNING", "SUCCEEDED", "FAILED", "CANCELLED", "TIMED_OUT"}
    [] status[j] = "RUNNING" -> {"SUCCEEDED", "FAILED", "CANCELLED", "TIMED_OUT"}
    [] status[j] = "CANCELLING" -> {"RUNNING", "CANCELLED"}
    [] OTHER -> {}

\* A dispatcher locks the row of its leased job and writes its status.
Settle(s) ==
  /\ s \in Dispatchers /\ pc[s] = "idle"
  /\ \E j \in Jobs : \E new \in DispatcherMoves(j) :
       /\ rowLock[j] = NoOne
       /\ new = "SUBMITTING" => secrets[ExpOf[j]] /\ apiKey[ExpOf[j]]
       /\ rowLock' = [rowLock EXCEPT ![j] = s]
       /\ seen' = [seen EXCEPT ![s][j] = new]
       /\ touched' = [touched EXCEPT ![s] = {ExpOf[j]}]
  /\ Goto(s, "recompute")
  /\ UNCHANGED <<committed, expLock, todo>>

Load(s, S) ==
  seen' = [seen EXCEPT ![s] = [j \in Jobs |-> IF j \in S THEN status[j] ELSE "absent"]]

\* cancel_experiment: every unfinished job is loaded; the running ones are
\* spared unless the request includes them.
CancelExperiment(s) ==
  /\ s \in Cancellers /\ pc[s] = "idle"
  /\ \E e \in Experiments, includeRunning \in BOOLEAN :
       LET jobs == {j \in Jobs : /\ ExpOf[j] = e
                                 /\ status[j] \in JobStatuses \ TerminalStatuses}
           targets == IF includeRunning THEN jobs
                                        ELSE {j \in jobs : status[j] # "RUNNING"} IN
       /\ targets # {}
       /\ Load(s, jobs)
       /\ todo' = [todo EXCEPT ![s] = targets]
  /\ Goto(s, "cancel")
  /\ UNCHANGED <<committed, rowLock, expLock, touched>>

\* cancel_experiment_job and the queue's bulk cancel: only the targets are loaded.
CancelJobs(s) ==
  /\ s \in Cancellers /\ pc[s] = "idle"
  /\ \E targets \in SUBSET {j \in Jobs : status[j] \in JobStatuses \ TerminalStatuses} :
       /\ targets # {}
       /\ Load(s, targets)
       /\ todo' = [todo EXCEPT ![s] = targets]
  /\ Goto(s, "cancel")
  /\ UNCHANGED <<committed, rowLock, expLock, touched>>

\* What cancel_job leaves of a row, and whether it wrote (and so locked) it: a
\* job in a dispatcher's hands is only noted, and noting twice writes nothing.
Left(wrote, as) == [wrote |-> wrote, as |-> as]
CancelOutcomes(j) ==
  CASE status[j] \in {"SUBMITTED", "RUNNING"} -> {Left(TRUE, "CANCELLING")}
    [] status[j] = "BLOCKED"    -> {Left(TRUE, "CANCELLED")}
    [] status[j] = "QUEUED"     -> {Left(TRUE, "CANCELLED"), Left(j \notin noted, "QUEUED")}
    [] status[j] = "SUBMITTING" -> {Left(j \notin noted, "SUBMITTING")}
    [] OTHER                    -> {Left(FALSE, status[j])}

\* Mutant: the experiment of each target is recomputed, so locked, in the loop.
CancelNextLocking(s) ==
  /\ pc[s] = "cancel"
  /\ \E j \in Jobs :
     /\ First(j, todo[s])
     /\ \E outcome \in CancelOutcomes(j) :
          /\ outcome.wrote => rowLock[j] = NoOne
          /\ rowLock' = IF outcome.wrote THEN [rowLock EXCEPT ![j] = s] ELSE rowLock
          /\ seen' = [seen EXCEPT ![s][j] = outcome.as]
     /\ expLock[ExpOf[j]] \in {NoOne, s}
     /\ expLock' = [expLock EXCEPT ![ExpOf[j]] = s]
     /\ touched' = [touched EXCEPT ![s] = @ \cup {ExpOf[j]}]
     /\ todo' = [todo EXCEPT ![s] = @ \ {j}]
     /\ Goto(s, IF todo[s] = {j} THEN "recompute" ELSE "cancel")
  /\ UNCHANGED committed

\* One target of cancel_jobs; the row is refreshed whatever happened to it.
CancelNext(s) ==
  /\ pc[s] = "cancel"
  /\ \E j \in Jobs :
     /\ First(j, todo[s])
     /\ \E outcome \in CancelOutcomes(j) :
          /\ outcome.wrote => rowLock[j] = NoOne
          /\ rowLock' = IF outcome.wrote THEN [rowLock EXCEPT ![j] = s] ELSE rowLock
          /\ seen' = [seen EXCEPT ![s][j] = outcome.as]
     /\ touched' = IF status[j] \in TerminalStatuses THEN touched
                      ELSE [touched EXCEPT ![s] = @ \cup {ExpOf[j]}]
     /\ todo' = [todo EXCEPT ![s] = @ \ {j}]
     /\ Goto(s, IF todo[s] = {j} THEN "recompute" ELSE "cancel")
  /\ UNCHANGED <<committed, expLock>>

\* retry_experiment_job: the checks, and the local cancel of a BLOCKED attempt.
\* One newer attempt at most: checked, and enforced by a unique constraint.
Retry(s) ==
  /\ s \in Retriers /\ pc[s] = "idle"
  /\ \E j, k \in Jobs :
       /\ status[j] \in RetryableStatuses
       /\ \A n \in Jobs : retryOf[n] # j
       /\ status[k] = "absent" /\ rowLock[k] = NoOne /\ ExpOf[k] = ExpOf[j]
       /\ rowLock[j] = NoOne
       /\ rowLock' = [i \in Jobs |-> IF i = k \/ (i = j /\ status[j] = "BLOCKED")
                                       THEN s ELSE rowLock[i]]
       /\ seen' = [seen EXCEPT ![s][j] = IF status[j] = "BLOCKED" THEN "CANCELLED"
                                                                 ELSE status[j],
                               ![s][k] = "QUEUED"]
       /\ retryOf' = [retryOf EXCEPT ![k] = j]
       /\ touched' = [touched EXCEPT ![s] = {ExpOf[j]}]
  /\ Goto(s, "insert")
  /\ UNCHANGED <<status, noted, exp, secrets, apiKey, expLock, todo>>

\* The flush: the keys of the attempt are written first, which locks the
\* experiment row before recompute_experiment_status does.
RetryInsert(s) ==
  /\ pc[s] = "insert"
  /\ \E e \in touched[s] :
     /\ expLock[e] = NoOne
     /\ expLock' = [expLock EXCEPT ![e] = s]
  /\ Goto(s, "recompute")
  /\ UNCHANGED <<committed, seen, rowLock, todo, touched>>

\* KEY_REVOKE_GRACE: no transaction is open that started before the last job
\* finished ten minutes ago.
GraceOver(e) == Quiet /\ AllIn(e, status, TerminalStatuses)

\* Mutant: the sweep only looks for runs to close.
SweepRunsOnly(s) ==
  /\ s \in Sweepers /\ pc[s] = "idle"
  /\ \E e \in Experiments :
       /\ apiKey[e]
       /\ \E j \in Current(e, status) : status[j] = "SUCCEEDED"
       /\ Load(s, Current(e, status))
       /\ touched' = [touched EXCEPT ![s] = {e}]
  /\ Goto(s, "recompute")
  /\ UNCHANGED <<committed, rowLock, expLock, todo>>

\* The settle sweep of the dispatcher loads the jobs of an experiment, closes the
\* runs of succeeded jobs and recomputes if it closed one or all is over.
Sweep(s) ==
  /\ s \in Sweepers /\ pc[s] = "idle"
  /\ \E e \in Experiments :
       /\ apiKey[e]
       /\ \/ GraceOver(e) /\ Goto(s, "revoke")
          \/ /\ \E j \in Current(e, status) : status[j] = "SUCCEEDED"
             /\ Goto(s, "recompute")
       /\ Load(s, Current(e, status))
       /\ touched' = [touched EXCEPT ![s] = {e}]
  /\ UNCHANGED <<committed, rowLock, expLock, todo>>

\* Every job is over, no keys are held and no session is open.
Settled ==
  /\ Quiet
  /\ \A e \in Experiments : AllIn(e, status, SettledStatuses)
  /\ UNCHANGED vars

Next ==
  \/ \E s \in Sessions :
       \/ Settle(s) \/ Recompute(s) \/ Commit(s) \/ Abort(s)
       \/ CancelExperiment(s) \/ CancelJobs(s) \/ CancelNext(s)
       \/ Retry(s) \/ RetryInsert(s) \/ Sweep(s)
  \/ Settled

Spec == Init /\ [][Next]_vars

\* A transaction ends, faults stop, and the sweep keeps coming round.
Advance(s) == Recompute(s) \/ Commit(s) \/ CancelNext(s) \/ RetryInsert(s)
FairSpec ==
  /\ Spec
  /\ \A s \in Sessions : WF_vars(Advance(s))
  /\ \A s \in Sweepers : WF_vars(Sweep(s))
  /\ <>[][\A s \in Sessions : ~Abort(s)]_vars

-----------------------------------------------------------------------------
\* Safety: a stored status is the aggregate of the jobs, whoever settled them and
\* in which order (recompute_experiment_status and its lock).
StatusCurrent == \A e \in Experiments : exp[e] = StatusOf(e, status)

\* Safety: what makes StatusCurrent inductive while only dispatchers and retries
\* write.  A row a session has loaded cannot be changed by another one, a written
\* row is guarded by the experiment row before the commit, and whoever holds the
\* experiment row and has read its jobs has read all of them.
CancellersCancel == \A s \in Sessions : pc[s] = "cancel" => s \in Cancellers
IdleHoldsNothing ==
  \A s \in Sessions : pc[s] = "idle" =>
    /\ \A j \in Jobs : rowLock[j] # s /\ seen[s][j] = "absent"
    /\ \A e \in Experiments : expLock[e] # s
SeenCurrent ==
  \A s \in Sessions, j \in Jobs : seen[s][j] # "absent" /\ rowLock[j] # s =>
    /\ seen[s][j] = status[j]
    /\ status[j] \in TerminalStatuses \/ expLock[ExpOf[j]] = s
WrittenGuarded ==
  \A s \in Sessions, j \in Jobs : rowLock[j] = s =>
    /\ seen[s][j] # "absent"
    /\ status[j] \notin TerminalStatuses
    /\ ExpOf[j] \in touched[s] \/ expLock[ExpOf[j]] = s
ReadAll ==
  \A s \in Sessions, j \in Jobs :
    expLock[ExpOf[j]] = s /\ ExpOf[j] \notin touched[s] /\ seen[s][j] = "absent"
      => status[j] = "absent"
StatusInv ==
  /\ TypeOK
  /\ StatusCurrent
  /\ CancellersCancel
  /\ IdleHoldsNothing
  /\ SeenCurrent
  /\ WrittenGuarded
  /\ ReadAll

\* What recompute_experiment_status promises in its docstring of concurrent settles
\* ("each one reads the jobs the previous one committed"): once every job has
\* settled, the experiment does not go on showing RUNNING.  The code does not keep it: a cancel
\* request has loaded the other jobs before it waits for the lock, and its session
\* does not read them again.
SettledIsShown ==
  \A e \in Experiments :
    Quiet /\ AllIn(e, status, SettledStatuses) => exp[e] = StatusOf(e, status)

\* Safety: whatever a session still remembers, it never declares an experiment
\* over, or over with the wrong outcome, while its jobs say otherwise.
NeverFalselyFinished ==
  \A e \in Experiments : exp[e] \notin Unfinished => exp[e] = StatusOf(e, status)

\* What makes NeverFalselyFinished inductive for sessions of every kind.  What a
\* session still remembers of a row it neither wrote nor read under the lock of the
\* experiment is over in the database too, or it counts as unfinished; or a sweep
\* remembers a blocked job, beside a succeeded one that settles the outcome anyway.
Remembered(s, j) ==
  \/ /\ seen[s][j] = status[j]
     /\ status[j] \in TerminalStatuses \/ expLock[ExpOf[j]] = s
  \/ seen[s][j] \in {"QUEUED"} \cup ActiveStatuses
  \/ /\ seen[s][j] = "BLOCKED" /\ status[j] \in {"BLOCKED", "CANCELLED"}
     /\ \E i \in Jobs :
          ExpOf[i] = ExpOf[j] /\ seen[s][i] = "SUCCEEDED" /\ status[i] = "SUCCEEDED"
MemoryHarmless ==
  \A s \in Sessions, j \in Jobs : seen[s][j] # "absent" /\ rowLock[j] # s =>
    status[j] # "absent" /\ (j \in todo[s] \/ Remembered(s, j))
TargetsLoaded ==
  \A s \in Sessions :
    /\ pc[s] # "cancel" => todo[s] = {}
    /\ \A j \in todo[s] : rowLock[j] # s /\ seen[s][j] # "absent"
BlockedGoesCancelled ==
  \A s \in Sessions, j \in Jobs :
    rowLock[j] = s /\ status[j] = "BLOCKED" => seen[s][j] = "CANCELLED"
RetriedIsOver ==
  \A j, k \in Jobs : retryOf[k] = j =>
    \/ status[j] \in {"FAILED", "CANCELLED", "TIMED_OUT"}
    \/ /\ status[j] = "BLOCKED" /\ status[k] = "absent"
       /\ rowLock[j] = rowLock[k] /\ rowLock[k] # NoOne
FinishedInv ==
  /\ TypeOK /\ NeverFalselyFinished
  /\ IdleHoldsNothing /\ WrittenGuarded /\ ReadAll
  /\ MemoryHarmless /\ TargetsLoaded /\ BlockedGoesCancelled /\ RetriedIsOver

\* Safety: once nothing more is dispatched the temporary-model keys are gone
\* (clear_secrets_when_settled).  For dispatchers and retries alone, as StatusCurrent
\* is: what a cancel or a sweep remembers of a settled job can leave them.
SecretsDropped ==
  \A e \in Experiments : AllIn(e, status, SettledStatuses) => ~secrets[e]

\* Safety: a job waiting to be sent, a retry included, has its model keys: no settle,
\* cancel or sweep takes them from it, whatever their sessions remember of other jobs.
KeysForWork ==
  \A e \in Experiments : \A j \in Current(e, status) :
    status[j] \in {"QUEUED", "SUBMITTING"} => secrets[e]

\* Safety: an unfinished or blocked job has its platform key, a retry included that is
\* committed while the sweep is about to revoke the key (revoke_key_when_settled).
PlatformKeyForWork ==
  \A e \in Experiments : \A j \in Current(e, status) :
    status[j] \notin TerminalStatuses => apiKey[e]

\* What makes the two inductive beside FinishedInv, for sessions of every kind: nobody
\* but a retry creates a job to be sent.
SettlesOnly ==
  \A s \in Sessions \ Retriers : \A j \in Jobs : rowLock[j] = s =>
    /\ status[j] # "absent"
    /\ seen[s][j] \in {"QUEUED", "SUBMITTING"} => status[j] \in {"QUEUED", "SUBMITTING"}
WorkInv == FinishedInv /\ KeysForWork /\ PlatformKeyForWork /\ SettlesOnly

\* Safety: no transactions wait for each other in a circle, although bulk cancels,
\* retries, settles and sweeps lock several rows each (lock order of cancel_jobs
\* and recompute_experiment_status).
WaitsFor(s, t) ==
  \/ /\ pc[s] = "cancel"
     /\ \E j \in Jobs : /\ First(j, todo[s]) /\ rowLock[j] = t
                       /\ \A outcome \in CancelOutcomes(j) : outcome.wrote
  \/ /\ pc[s] \in {"insert", "recompute", "revoke"}
     /\ \E e \in Experiments : First(e, touched[s]) /\ expLock[e] = t
NoWaitCycle ==
  \A C \in SUBSET Sessions :
    C # {} => \E s \in C : \A t \in C \ {s} : ~WaitsFor(s, t)

\* The lock order, which is inductive for sessions of every kind: rows in id order,
\* then experiments in id order, and no row once an experiment is locked.
RowsInOrder ==
  \A s \in Sessions, j \in Jobs : pc[s] = "cancel" /\ rowLock[j] = s =>
    \A k \in todo[s] : j < k
ExperimentsInOrder ==
  \A s \in Sessions, e \in Experiments : expLock[e] = s =>
    /\ pc[s] \in {"recompute", "revoke"}
    /\ \A f \in touched[s] : e <= f
IdleOwnsNoRow == \A s \in Sessions, j \in Jobs : rowLock[j] = s => pc[s] # "idle"
InsertTouchesOne ==
  \A s \in Sessions : pc[s] = "insert" => \A e, f \in touched[s] : e = f
OrderInv ==
  TypeOK /\ RowsInOrder /\ ExperimentsInOrder /\ IdleOwnsNoRow /\ InsertTouchesOne

\* Liveness: an experiment whose jobs are all over does not show a wrong status
\* for ever; the settle sweep puts it right.
WrongWhenOver(e) ==
  AllIn(e, status, TerminalStatuses) /\ exp[e] # StatusOf(e, status)
NotStuckWrong == \A e \in Experiments : []<>(~WrongWhenOver(e))
=============================================================================
