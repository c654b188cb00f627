---------------------------- MODULE JobRegistry ----------------------------
(***************************************************************************)
(* Background jobs (analyses and rule inference) shared by several server   *)
(* processes through the table background_jobs: services/job_registry.py,   *)
(* job_executor.py and the manager of analysis_jobs.py.                     *)
(*                                                                         *)
(* A server starts a job on its own threads and publishes it, or (split     *)
(* mode) queues it for a workers process that claims it.  The owner writes  *)
(* the row at every change and as a heartbeat; any other process reads it,  *)
(* asks to cancel it, or replaces it once its heartbeat is stale.           *)
(*                                                                         *)
(* One database transaction is one step; what a thread read before it and   *)
(* uses in it is remembered in between (published, rival, picked).          *)
(***************************************************************************)

CONSTANTS
  Jobs,      \* job ids
  Scopes,    \* what a job works on: kind, run and pass
  ScopeOf,   \* the scope of a job
  Servers,   \* processes that run the jobs they accept
  Mains,     \* processes that queue the jobs they accept
  Workers,   \* processes that claim queued jobs
  Faults,    \* the writes the database may refuse: "claim", "first", "flush"
  NoJob

Processes == Servers \cup Mains \cup Workers

ASSUME RegistryAssumption ==
  /\ ScopeOf \in [Jobs -> Scopes]
  /\ NoJob \notin Jobs
  /\ Faults \subseteq {"claim", "first", "flush"}

VARIABLES
  \* the rows of background_jobs
  status,     \* "none": there is no row; active is stored with it, and follows it
  queued,     \* the rows that wait for a worker,
  payload,    \* that hold a payload,
  flagged,    \* have cancel_requested set,
  stale,      \* and have had no heartbeat for STALE_AFTER_SECONDS (the queue
              \* timeout if queued)
  \* the processes
  mine,       \* AnalysisJobManager._jobs: status of the jobs of a process
  tracked,    \* JobRegistry._handles of a process
  start,      \* where a start of the job in the process is
  rival,      \* the stale holder a start has read
  published,  \* what a publish under way will write, or "cancel" after it
  picked,     \* rows the claim under way has selected
  claimed,    \* rows claimed and not yet adopted
  answered    \* the ids of starting jobs given to a page

row == <<status, queued, payload, flagged, stale>>
memory == <<mine, tracked, start, rival, published, picked, claimed>>
vars == <<row, memory, answered>>

-----------------------------------------------------------------------------
ActiveStatuses == {"queued", "running"}
TerminalStatuses == {"completed", "failed", "cancelled"}
JobStatuses == ActiveStatuses \cup TerminalStatuses

Exists(j) == status[j] # "none"
RowActive(j) == status[j] \in ActiveStatuses
Lost(j) == RowActive(j) /\ j \in stale

\* ux_background_jobs_active_scope: whom the unique index would collide with.
Holders(j) == {k \in Jobs : k # j /\ ScopeOf[k] = ScopeOf[j] /\ RowActive(k)}

Active(p, j) == mine[p][j] \in ActiveStatuses

TypeOK ==
  /\ status \in [Jobs -> JobStatuses \cup {"none"}]
  /\ queued \subseteq Jobs /\ payload \subseteq Jobs
  /\ flagged \subseteq Jobs /\ stale \subseteq Jobs
  /\ mine \in [Processes -> [Jobs -> JobStatuses \cup {"none"}]]
  /\ tracked \in [Processes -> SUBSET Jobs]
  /\ start \in [Processes -> [Jobs ->
       {"none", "claim", "reread", "replace", "track", "first", "submit"}]]
  /\ rival \in [Processes -> [Jobs -> Jobs \cup {NoJob}]]
  /\ published \in [Processes -> [Jobs -> JobStatuses \cup {"none", "cancel"}]]
  /\ picked \in [Processes -> SUBSET Jobs]
  /\ claimed \in [Processes -> SUBSET Jobs]
  /\ answered \subseteq Jobs

Everywhere(x) == [j \in Jobs |-> x]

Init ==
  /\ status = Everywhere("none")
  /\ queued = {} /\ payload = {} /\ flagged = {} /\ stale = {}
  /\ mine = [p \in Processes |-> Everywhere("none")]
  /\ tracked = [p \in Processes |-> {}]
  /\ start = [p \in Processes |-> Everywhere("none")]
  /\ rival = [p \in Processes |-> Everywhere(NoJob)]
  /\ published = [p \in Processes |-> Everywhere("none")]
  /\ picked = [p \in Processes |-> {}]
  /\ claimed = [p \in Processes |-> {}]
  /\ answered = {}

-----------------------------------------------------------------------------
Goto(p, j, place) == start' = [start EXCEPT ![p][j] = place]
Known(j) ==
  Exists(j) \/ \E p \in Processes : mine[p][j] # "none" \/ start[p][j] # "none"

\* AnalysisJobManager.submit: a new job of this process, unless the process has an
\* active one of the scope.
Submit(p) ==
  /\ p \in Servers
  /\ \E j \in Jobs :
       /\ ~Known(j)
       /\ \A k \in Jobs : ScopeOf[k] = ScopeOf[j] => ~Active(p, k)
       /\ mine' = [mine EXCEPT ![p][j] = "queued"]
       /\ Goto(p, j, "claim")
  /\ UNCHANGED <<row, tracked, rival, published, picked, claimed, answered>>

\* active_for_run: a page that opens is given the job of the process, in another
\* thread than the start (starts themselves share the event loop).
ActiveForRun(p) ==
  /\ p \in Servers
  /\ \E j \in Jobs :
       /\ Active(p, j) /\ start[p][j] # "none"
       /\ answered' = answered \cup {j}
  /\ UNCHANGED <<row, memory>>

\* AnalysisJobManager._enqueue: the process keeps nothing of the job.
Enqueue(p) ==
  /\ p \in Mains
  /\ \E j \in Jobs : ~Known(j) /\ Goto(p, j, "claim")
  /\ UNCHANGED <<row, mine, tracked, rival, published, picked, claimed, answered>>

Queueing(p, j) == mine[p][j] = "none"
GoneFrom(p, j) ==
  /\ Goto(p, j, "none")
  /\ mine' = [mine EXCEPT ![p][j] = "none"]

\* JobRegistry._claim: insert the row, unless the scope is taken.  A queued job is
\* left to the workers, another one is tracked next.
ClaimInsert(p, j) ==
  /\ start[p][j] = "claim"
  /\ \/ /\ Holders(j) = {} \/ mine[p][j] \in TerminalStatuses
        /\ status' = [status EXCEPT ![j] = IF Queueing(p, j) THEN "queued" ELSE mine[p][j]]
        /\ queued' = IF Queueing(p, j) THEN queued \cup {j} ELSE queued
        /\ payload' = IF Queueing(p, j) THEN payload \cup {j} ELSE payload
        /\ Goto(p, j, IF Queueing(p, j) THEN "none" ELSE "track")
        /\ UNCHANGED <<flagged, stale>>
     \/ /\ Holders(j) # {} /\ mine[p][j] \notin TerminalStatuses
        /\ Goto(p, j, "reread")
        /\ UNCHANGED row
  /\ UNCHANGED <<mine, tracked, rival, published, picked, claimed, answered>>

\* _claim: the holder has finished meanwhile, is alive (ActiveJobExists: the start
\* is dropped and the request gets the holder), or looks lost.
ClaimReread(p, j) ==
  /\ start[p][j] = "reread"
  /\ \/ /\ Holders(j) = {}
        /\ Goto(p, j, "claim")
        /\ UNCHANGED <<mine, rival>>
     \/ /\ \E h \in Holders(j) : ~Lost(h)
        /\ GoneFrom(p, j)
        /\ UNCHANGED rival
     \/ \E h \in Holders(j) :
          /\ Lost(h)
          /\ rival' = [rival EXCEPT ![p][j] = h]
          /\ Goto(p, j, "replace")
          /\ UNCHANGED mine
  /\ UNCHANGED <<row, tracked, published, picked, claimed, answered>>

\* The end of a row written by another process than its owner: request_cancel and
\* the replacement in _claim.  Mutant: it is not told to stop.
EndSilently(j, end) ==
  /\ status' = [status EXCEPT ![j] = end]
  /\ queued' = queued \ {j} /\ payload' = payload \ {j}
  /\ UNCHANGED <<flagged, stale>>
End(j, end) ==
  /\ status' = [status EXCEPT ![j] = end]
  /\ queued' = queued \ {j} /\ payload' = payload \ {j} /\ flagged' = flagged \cup {j}
  /\ UNCHANGED stale

\* _claim: the holder read as lost is failed if it is still active, whatever its
\* heartbeat says by now; then the insert is tried again.
ClaimReplace(p, j) ==
  /\ start[p][j] = "replace"
  /\ \E h \in Jobs :
       /\ h = rival[p][j]
       /\ IF RowActive(h) THEN End(h, "failed") ELSE UNCHANGED row
  /\ rival' = [rival EXCEPT ![p][j] = NoJob]
  /\ Goto(p, j, "claim")
  /\ UNCHANGED <<mine, tracked, published, picked, claimed, answered>>

\* The database fails, or the third attempt did (attempts are not counted): track
\* returns False, and the job runs unpublished; a queued one is refused.
ClaimFails(p, j) ==
  /\ start[p][j] \in {"claim", "reread", "replace"}
  /\ "claim" \in Faults
  /\ Goto(p, j, IF Queueing(p, j) THEN "none" ELSE "submit")
  /\ rival' = [rival EXCEPT ![p][j] = NoJob]
  /\ UNCHANGED <<row, mine, tracked, published, picked, claimed, answered>>

\* track: the handle is registered before the first write.
Track(p, j) ==
  /\ start[p][j] = "track"
  /\ tracked' = [tracked EXCEPT ![p] = @ \cup {j}]
  /\ Goto(p, j, "first")
  /\ UNCHANGED <<row, mine, rival, published, picked, claimed, answered>>

-----------------------------------------------------------------------------
\* _publish: the handle's lock is taken and the job is described.
Describe(p, j) ==
  /\ j \in tracked[p] /\ published[p][j] = "none"
  /\ published' = [published EXCEPT ![p][j] = mine[p][j]]
  /\ UNCHANGED <<row, mine, tracked, start, rival, picked, claimed, answered>>

Untrack(p, j) == tracked' = [tracked EXCEPT ![p] = @ \ {j}]
\* track goes on once its own publish has returned.
AfterFirst(p, j) ==
  IF start[p][j] = "first" THEN Goto(p, j, "submit") ELSE UNCHANGED start

WriteRow(j, now) ==
  /\ status' = [status EXCEPT ![j] = now]
  /\ payload' = IF now \in TerminalStatuses THEN payload \ {j} ELSE payload
  /\ stale' = stale \ {j}
  /\ UNCHANGED <<queued, flagged>>

\* Mutant: the owner forgets a cancelled job and does not cancel it.
WriteForgetting(p, j) ==
  /\ published[p][j] \in JobStatuses
  /\ j \notin flagged => published[p][j] \in TerminalStatuses \/ Holders(j) = {}
  /\ IF j \in flagged THEN UNCHANGED row ELSE WriteRow(j, published[p][j])
  /\ published' = [published EXCEPT ![p][j] = "none"]
  /\ IF j \in flagged \/ published[p][j] \in TerminalStatuses
       THEN Untrack(p, j) ELSE UNCHANGED tracked
  /\ AfterFirst(p, j)
  /\ UNCHANGED <<mine, rival, picked, claimed, answered>>

\* Mutant: the row is written whatever was requested meanwhile.
WriteAnyway(p, j) ==
  /\ published[p][j] \in JobStatuses
  /\ published[p][j] \in TerminalStatuses \/ Holders(j) = {}
  /\ WriteRow(j, published[p][j])
  /\ published' = [published EXCEPT ![p][j] = IF j \in flagged THEN "cancel" ELSE "none"]
  /\ IF j \in flagged \/ published[p][j] \in TerminalStatuses
       THEN Untrack(p, j) ELSE UNCHANGED tracked
  /\ AfterFirst(p, j)
  /\ UNCHANGED <<mine, rival, picked, claimed, answered>>

\* _publish: the row is written unless a cancel was requested.  A cancelled or
\* finished job is forgotten; a cancelled one is then cancelled here (on_cancel).
Write(p, j) ==
  /\ published[p][j] \in JobStatuses
  /\ \/ /\ j \in flagged
        /\ UNCHANGED row
        /\ published' = [published EXCEPT ![p][j] = "cancel"]
        /\ Untrack(p, j)
     \/ /\ j \notin flagged
        /\ published[p][j] \in TerminalStatuses \/ Holders(j) = {}
        /\ WriteRow(j, published[p][j])
        /\ published' = [published EXCEPT ![p][j] = "none"]
        /\ IF published[p][j] \in TerminalStatuses
             THEN Untrack(p, j) ELSE UNCHANGED tracked
  /\ AfterFirst(p, j)
  /\ UNCHANGED <<mine, rival, picked, claimed, answered>>

\* Mutant: the job is forgotten although nothing was written.
FlushFailsClosing(p, j) ==
  /\ published[p][j] \in JobStatuses /\ start[p][j] # "first"
  /\ "flush" \in Faults
  /\ published' = [published EXCEPT ![p][j] = "none"]
  /\ Untrack(p, j)
  /\ UNCHANGED <<row, mine, start, rival, picked, claimed, answered>>

\* A publish fails: the next tick of _loop writes the job again.
FlushFails(p, j) ==
  /\ published[p][j] \in JobStatuses /\ start[p][j] # "first"
  /\ "flush" \in Faults
  /\ published' = [published EXCEPT ![p][j] = "none"]
  /\ UNCHANGED <<row, mine, tracked, start, rival, picked, claimed, answered>>

\* The publish of track fails: the handle goes, and the job runs unpublished.
FirstFails(p, j) ==
  /\ published[p][j] \in JobStatuses /\ start[p][j] = "first"
  /\ "first" \in Faults
  /\ published' = [published EXCEPT ![p][j] = "none"]
  /\ Untrack(p, j)
  /\ Goto(p, j, "submit")
  /\ UNCHANGED <<row, mine, rival, picked, claimed, answered>>

CancelHere(p, j) ==
  mine' = IF Active(p, j) THEN [mine EXCEPT ![p][j] = "cancelled"] ELSE mine

\* on_cancel, outside the locks.
OnCancel(p, j) ==
  /\ published[p][j] = "cancel"
  /\ published' = [published EXCEPT ![p][j] = "none"]
  /\ CancelHere(p, j)
  /\ UNCHANGED <<row, tracked, start, rival, picked, claimed, answered>>

-----------------------------------------------------------------------------
\* The end of submit and adopt: the executor has the job.
Launch(p, j) ==
  /\ start[p][j] = "submit" /\ published[p][j] # "cancel"
  /\ Goto(p, j, "none")
  /\ UNCHANGED <<row, mine, tracked, rival, published, picked, claimed, answered>>

\* _run: a thread starts the job, and ends it.
Run(p, j) ==
  /\ mine[p][j] = "queued" /\ start[p][j] = "none"
  /\ mine' = [mine EXCEPT ![p][j] = "running"]
  /\ UNCHANGED <<row, tracked, start, rival, published, picked, claimed, answered>>

Finish(p, j) ==
  /\ mine[p][j] = "running"
  /\ \E end \in {"completed", "failed"} : mine' = [mine EXCEPT ![p][j] = end]
  /\ UNCHANGED <<row, tracked, start, rival, published, picked, claimed, answered>>

\* AnalysisJobManager.cancel of a job of this process.
CancelLocal(p, j) ==
  /\ Active(p, j)
  /\ CancelHere(p, j)
  /\ UNCHANGED <<row, tracked, start, rival, published, picked, claimed, answered>>

\* request_cancel, from a process that does not have the job.
RequestCancel(j) ==
  /\ RowActive(j)
  /\ \E p \in Processes : mine[p][j] = "none"
  /\ End(j, "cancelled")
  /\ UNCHANGED <<memory, answered>>

-----------------------------------------------------------------------------
Claimable == {j \in queued : RowActive(j) /\ j \notin flagged}

\* JobRegistry.claim: rows are selected, as many as there are free threads.
ClaimSelect(w) ==
  /\ w \in Workers /\ picked[w] = {} /\ claimed[w] = {}
  /\ \E S \in SUBSET (Claimable \ stale) :
       S # {} /\ picked' = [picked EXCEPT ![w] = S]
  /\ UNCHANGED <<row, mine, tracked, start, rival, published, claimed, answered>>

Take(w, S) ==
  /\ queued' = queued \ S /\ payload' = payload \ S /\ stale' = stale \ S
  /\ claimed' = [claimed EXCEPT ![w] = S]
  /\ picked' = [picked EXCEPT ![w] = {}]
  /\ UNCHANGED <<status, flagged, mine, tracked, start, rival, published, answered>>

\* Mutant: the update does not check the rows again.
ClaimUpdateBlind(w) == picked[w] # {} /\ Take(w, picked[w])
\* claim: those still queued, active and not cancelled are taken.
ClaimUpdate(w) == picked[w] # {} /\ Take(w, picked[w] \cap Claimable)

\* poll_once: a claimed job is adopted, tracked as it is, then launched.
Adopt(w, j) ==
  /\ j \in claimed[w]
  /\ claimed' = [claimed EXCEPT ![w] = @ \ {j}]
  /\ mine' = [mine EXCEPT ![w][j] = "queued"]
  /\ Goto(w, j, "track")
  /\ UNCHANGED <<row, tracked, rival, published, picked, answered>>

\* poll_once, when the job cannot be set up: JobRegistry.fail.
AdoptFails(w, j) ==
  /\ j \in claimed[w]
  /\ claimed' = [claimed EXCEPT ![w] = @ \ {j}]
  /\ IF RowActive(j)
       THEN /\ status' = [status EXCEPT ![j] = "failed"]
            /\ queued' = queued \ {j} /\ payload' = payload \ {j}
            /\ UNCHANGED <<flagged, stale>>
       ELSE UNCHANGED row
  /\ UNCHANGED <<mine, tracked, start, rival, published, picked, answered>>

-----------------------------------------------------------------------------
\* No heartbeat for long: the owner is stalled or gone, or no worker came.
Age(j) ==
  /\ RowActive(j)
  /\ stale' = stale \cup {j}
  /\ UNCHANGED <<status, queued, payload, flagged, memory, answered>>

\* The process stops; another one takes its place.
Crash(p) ==
  /\ mine' = [mine EXCEPT ![p] = Everywhere("none")]
  /\ tracked' = [tracked EXCEPT ![p] = {}]
  /\ start' = [start EXCEPT ![p] = Everywhere("none")]
  /\ rival' = [rival EXCEPT ![p] = Everywhere(NoJob)]
  /\ published' = [published EXCEPT ![p] = Everywhere("none")]
  /\ picked' = [picked EXCEPT ![p] = {}]
  /\ claimed' = [claimed EXCEPT ![p] = {}]
  /\ answered' = {j \in answered : mine[p][j] = "none"}
  /\ UNCHANGED row

Starting(p, j) ==
  \/ ClaimInsert(p, j) \/ ClaimReread(p, j) \/ ClaimReplace(p, j)
  \/ Track(p, j) \/ Launch(p, j) \/ Adopt(p, j)
Publishing(p, j) == Describe(p, j) \/ Write(p, j) \/ OnCancel(p, j)
Failing(p, j) == ClaimFails(p, j) \/ FlushFails(p, j) \/ FirstFails(p, j)

Next ==
  \/ \E p \in Processes :
       \/ Submit(p) \/ ActiveForRun(p) \/ Enqueue(p) \/ ClaimSelect(p)
       \/ ClaimUpdate(p) \/ Crash(p)
  \/ \E p \in Processes, j \in Jobs :
       \/ Starting(p, j) \/ Publishing(p, j) \/ Failing(p, j)
       \/ Run(p, j) \/ Finish(p, j) \/ CancelLocal(p, j) \/ AdoptFails(p, j)
  \/ \E j \in Jobs : RequestCancel(j) \/ Age(j)

Spec == Init /\ [][Next]_vars

\* Threads that started go on, the registry's loop publishes at every tick, and the
\* database answers again some day.
FairSpec ==
  /\ Spec
  /\ \A p \in Processes, j \in Jobs :
       WF_vars(Starting(p, j)) /\ WF_vars(Publishing(p, j))
  /\ <>[][\A p \in Processes, j \in Jobs : ~Failing(p, j)]_vars

-----------------------------------------------------------------------------
\* Who has the job in hand: it runs or is about to.
HeldBy(j) == {p \in Processes : j \in claimed[p] \/ Active(p, j)}

\* Safety: a job never runs in two processes, however workers race to claim it and
\* whoever cancels, replaces or restarts (compare-and-set of claim).
RunsOnce == \A j \in Jobs, p, q \in Processes : p \in HeldBy(j) /\ q \in HeldBy(j) => p = q

\* Safety: the payload, which may hold secrets, is in the table only while the job
\* waits for a worker; whoever takes, cancels, fails or replaces it wipes it.
PayloadOnlyQueued ==
  payload = {j \in queued : RowActive(j)}

\* Safety: what makes RunsOnce, PayloadOnlyQueued and RivalTold inductive.  A queued
\* row is in nobody's hands and no job is in two; the claimer of a scope has no row
\* yet; an owner that can still work has an active row, or one that tells it to stop;
\* active rows of a scope exclude each other.
Has(p, j) == mine[p][j] # "none" \/ start[p][j] # "none" \/ j \in claimed[p]
OneHand == \A j \in Jobs, p, q \in Processes : Has(p, j) /\ Has(q, j) => p = q
QueuedIsFree == \A j \in queued : RowActive(j) /\ \A p \in Processes : ~Has(p, j)
ClaimersRowless ==
  \A j \in Jobs, p \in Processes :
    start[p][j] \in {"claim", "reread", "replace"} =>
      ~Exists(j) /\ j \notin tracked[p] /\ published[p][j] = "none"
HandlesOwned ==
  \A j \in Jobs, p \in Processes :
    /\ j \in tracked[p] \/ published[p][j] # "none" \/ start[p][j] \in {"track", "first"}
         => Exists(j) /\ mine[p][j] # "none"
    /\ start[p][j] = "track" => published[p][j] = "none" /\ j \notin tracked[p]
    /\ j \in claimed[p] => Exists(j) /\ mine[p][j] = "none" /\ start[p][j] = "none"
FlagEnds == \A j \in flagged : status[j] \in TerminalStatuses /\ j \notin queued
OwnersRow ==
  \A j \in Jobs, p \in Processes :
    \/ j \in claimed[p]
    \/ (j \in tracked[p] \/ start[p][j] = "track") /\ Active(p, j)
    => RowActive(j) \/ j \in flagged
OneActive ==
  \A j, k \in Jobs :
    j # k /\ ScopeOf[j] = ScopeOf[k] => ~(RowActive(j) /\ RowActive(k))
RegistryInv ==
  /\ TypeOK
  /\ PayloadOnlyQueued
  /\ OneHand /\ QueuedIsFree
  /\ ClaimersRowless /\ HandlesOwned
  /\ FlagEnds /\ OwnersRow /\ OneActive

\* Safety: of two processes running jobs of one scope, one has lost its row and has
\* been told so: it stops at its next publish (comment in _claim).
RivalTold ==
  \A j, k \in Jobs, p, q \in Processes :
    /\ j # k /\ ScopeOf[j] = ScopeOf[k]
    /\ j \in tracked[p] /\ Active(p, j) /\ k \in tracked[q] /\ Active(q, k)
    => j \in flagged \/ k \in flagged

\* What a cancelled row shows is not taken back: no publish of its owner, however
\* late, makes it active or changes its outcome (WHERE of _publish).
CancelIsFinal ==
  [][\A j \in flagged : j \in flagged' /\ status'[j] = status[j] /\ ~RowActive(j)]_vars

\* Liveness: a published job that was cancelled elsewhere stops.  (One whose first
\* publish failed has no handle and runs on.)
Told(p, j) ==
  j \in flagged /\ Active(p, j) /\ j \in tracked[p] /\ start[p][j] = "none"
CancelReaches == \A p \in Processes, j \in Jobs : Told(p, j) ~> ~Active(p, j)

\* Liveness: the end of a published job reaches its row, unless its process stops.
Over(p, j) ==
  mine[p][j] \in TerminalStatuses /\ j \in tracked[p] /\ start[p][j] = "none"
EndReported ==
  \A p \in Processes, j \in Jobs :
    Over(p, j) ~> (~RowActive(j) \/ mine[p][j] = "none")

\* What get_active_analysis_job says ("Return the active analysis so a newly opened
\* page can resume it"): the job it returned can be found.  The code does not keep it: the job was still
\* claiming its scope, and was dropped for the one of another process.
AnsweredExists ==
  \A j \in answered : Exists(j) \/ \E p \in Processes : mine[p][j] # "none"
=============================================================================
