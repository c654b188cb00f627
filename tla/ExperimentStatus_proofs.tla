---------------------- MODULE ExperimentStatus_proofs ----------------------
(***************************************************************************)
(* Proofs about ExperimentStatus, for every number of experiments, jobs and *)
(* sessions.                                                               *)
(***************************************************************************)
EXTENDS ExperimentStatus, TLAPS, WellFoundedInduction

\* The statuses of jobs and experiments, and the small operators of the actions.
USE DEF Goto, committed, session, vars

-----------------------------------------------------------------------------
\* Type correctness.

\* The aggregate of any set of job statuses is an experiment status.
LEMMA AggregateTypes == \A S : Aggregate(S) \in ExperimentStatuses
<1> TAKE S
<1>1. CASE S \subseteq {"QUEUED"}
  <2>1. S \cap ActiveStatuses = {} /\ ~("QUEUED" \in S /\ S # {"QUEUED"})
    BY <1>1 DEF ActiveStatuses
  <2>2. S # {"CANCELLED"} /\ S # {"SUCCEEDED"}
    BY <1>1
  <2> QED BY <1>1, <2>1, <2>2 DEF Aggregate, ExperimentStatuses
<1>2. CASE ~(S \subseteq {"QUEUED"}) /\ (S \cap ActiveStatuses # {} \/ "QUEUED" \in S)
  <2>1. S # {"CANCELLED"} /\ S # {"SUCCEEDED"}
    BY <1>2 DEF ActiveStatuses
  <2> QED BY <1>2, <2>1 DEF Aggregate, ExperimentStatuses
<1>3. CASE S \cap ActiveStatuses = {} /\ "QUEUED" \notin S /\ S # {}
  BY <1>3 DEF Aggregate, ExperimentStatuses
<1> QED BY <1>1, <1>2, <1>3

\* The end of a transaction keeps the session variables well-typed.
LEMMA CloseTypes ==
  ASSUME TypeOK, NEW s \in Sessions, Close(s)
  PROVE  /\ pc' \in [Sessions -> {"idle", "cancel", "insert", "recompute", "revoke"}]
         /\ seen' \in [Sessions -> [Jobs -> JobStatuses \cup {"absent"}]]
         /\ rowLock' \in [Jobs -> Sessions \cup {NoOne}]
         /\ expLock' \in [Experiments -> Sessions \cup {NoOne}]
         /\ todo' \in [Sessions -> SUBSET Jobs]
         /\ touched' \in [Sessions -> SUBSET Experiments]
BY DEF TypeOK, Close, Nothing

\* Init satisfies the type invariant.
LEMMA InitTypes == Init => TypeOK
BY StatusAssumption DEF Init, TypeOK, Nothing, JobStatuses, ExperimentStatuses

\* Every action keeps the types.
LEMMA NextTypes == TypeOK /\ [Next]_vars => TypeOK'
<1> SUFFICES ASSUME TypeOK, [Next]_vars PROVE TypeOK'
  OBVIOUS
<1> USE StatusAssumption
<1>1. ASSUME NEW s \in Sessions, Settle(s) PROVE TypeOK'
  <2>1. \A j \in Jobs : DispatcherMoves(j) \subseteq JobStatuses
    BY DEF DispatcherMoves, JobStatuses, ActiveStatuses, SettledStatuses,
           TerminalStatuses
  <2> QED BY <1>1, <2>1 DEF Settle, TypeOK
<1>2. ASSUME NEW s \in Sessions, Recompute(s) PROVE TypeOK'
  BY <1>2 DEF Recompute, First, TypeOK
<1>3. ASSUME NEW s \in Sessions, Commit(s) PROVE TypeOK'
  <2>1. status' \in [Jobs -> JobStatuses \cup {"absent"}]
    BY <1>3 DEF Commit, TypeOK
  <2>2. exp' \in [Experiments -> ExperimentStatuses]
    BY <1>3, AggregateTypes DEF Commit, StatusOf, TypeOK
  <2>3. noted' \subseteq Jobs /\ retryOf' = retryOf
    BY <1>3 DEF Commit, TypeOK
  <2>4. secrets' \in [Experiments -> BOOLEAN] /\ apiKey' \in [Experiments -> BOOLEAN]
    BY <1>3 DEF Commit, TypeOK
  <2> QED BY <1>3, <2>1, <2>2, <2>3, <2>4, CloseTypes DEF Commit, TypeOK
<1>4. ASSUME NEW s \in Sessions, Abort(s) PROVE TypeOK'
  <2>1. retryOf' \in [Jobs -> Jobs \cup {NoJob}]
    BY <1>4 DEF Abort, TypeOK
  <2> QED BY <1>4, <2>1, CloseTypes DEF Abort, TypeOK
<1>5. ASSUME NEW s \in Sessions, CancelExperiment(s) \/ CancelJobs(s) PROVE TypeOK'
  <2>1. \A S : Load(s, S) => seen' \in [Sessions -> [Jobs -> JobStatuses \cup {"absent"}]]
    BY DEF Load, TypeOK
  <2>2. seen' \in [Sessions -> [Jobs -> JobStatuses \cup {"absent"}]]
    BY <1>5, <2>1 DEF CancelExperiment, CancelJobs
  <2>3. todo' \in [Sessions -> SUBSET Jobs]
    <3>1. CASE CancelExperiment(s)
      <4>1. PICK e \in Experiments, includeRunning \in BOOLEAN :
              todo' = [todo EXCEPT ![s] =
                IF includeRunning
                  THEN {j \in Jobs : /\ ExpOf[j] = e
                                     /\ status[j] \in JobStatuses \ TerminalStatuses}
                  ELSE {j \in {j \in Jobs : /\ ExpOf[j] = e
                                     /\ status[j] \in JobStatuses \ TerminalStatuses} :
                         status[j] # "RUNNING"}]
        BY <3>1 DEF CancelExperiment
      <4> QED BY <4>1 DEF TypeOK
    <3>2. CASE CancelJobs(s)
      <4>1. PICK T \in SUBSET Jobs : todo' = [todo EXCEPT ![s] = T]
        BY <3>2 DEF CancelJobs
      <4> QED BY <4>1 DEF TypeOK
    <3> QED BY <1>5, <3>1, <3>2
  <2> QED BY <1>5, <2>2, <2>3 DEF CancelExperiment, CancelJobs, TypeOK
<1>6. ASSUME NEW s \in Sessions, CancelNext(s) PROVE TypeOK'
  <2>1. \A j \in Jobs : \A o \in CancelOutcomes(j) : o.as \in JobStatuses \cup {"absent"}
    <3> TAKE j \in Jobs
    <3>1. status[j] \in JobStatuses \cup {"absent"}
      BY DEF TypeOK
    <3> QED
      BY <3>1 DEF CancelOutcomes, Left, JobStatuses, ActiveStatuses, SettledStatuses,
                  TerminalStatuses
  <2> QED BY <1>6, <2>1 DEF CancelNext, First, TypeOK
<1>7. ASSUME NEW s \in Sessions, Retry(s) PROVE TypeOK'
  <2>1. PICK j \in Jobs, k \in Jobs :
          /\ rowLock' = [i \in Jobs |-> IF i = k \/ (i = j /\ status[j] = "BLOCKED")
                                          THEN s ELSE rowLock[i]]
          /\ seen' = [seen EXCEPT ![s][j] = IF status[j] = "BLOCKED" THEN "CANCELLED"
                                                                    ELSE status[j],
                                  ![s][k] = "QUEUED"]
          /\ retryOf' = [retryOf EXCEPT ![k] = j]
          /\ touched' = [touched EXCEPT ![s] = {ExpOf[j]}]
    BY <1>7 DEF Retry
  <2>2. seen' \in [Sessions -> [Jobs -> JobStatuses \cup {"absent"}]]
    <3>1. {"CANCELLED", "QUEUED", status[j]} \subseteq JobStatuses \cup {"absent"}
      BY DEF TypeOK, JobStatuses, SettledStatuses, TerminalStatuses
    <3> QED BY <2>1, <3>1 DEF TypeOK
  <2>3. rowLock' \in [Jobs -> Sessions \cup {NoOne}]
    BY <2>1 DEF TypeOK
  <2> QED BY <1>7, <2>1, <2>2, <2>3 DEF Retry, TypeOK
<1>8. ASSUME NEW s \in Sessions, RetryInsert(s) PROVE TypeOK'
  BY <1>8 DEF RetryInsert, TypeOK
<1>9. ASSUME NEW s \in Sessions, Sweep(s) PROVE TypeOK'
  BY <1>9 DEF Sweep, Load, TypeOK
<1>10. CASE Settled \/ UNCHANGED vars
  BY <1>10 DEF Settled, TypeOK
<1> QED
  BY <1>1, <1>2, <1>3, <1>4, <1>5, <1>6, <1>7, <1>8, <1>9, <1>10 DEF Next

\* Rows, sessions and locks are always well-typed.
THEOREM TypeCorrect == Spec => []TypeOK
<1>1. Init => TypeOK
  BY InitTypes
<1>2. TypeOK /\ [Next]_vars => TypeOK'
  BY NextTypes
<1> QED BY <1>1, <1>2, PTL DEF Spec

-----------------------------------------------------------------------------
\* The status of an experiment, while only dispatchers and retries write.

\* The aggregate depends on the rows of the experiment alone, and on which newer
\* attempts exist among them.
LEMMA SameStatus ==
  ASSUME NEW e \in Experiments, NEW rows,
         \A j \in Jobs : ExpOf[j] = e =>
           /\ status'[j] = rows[j]
           /\ rows[j] # "absent" => retryOf'[j] = retryOf[j]
  PROVE  StatusOf(e, status)' = StatusOf(e, rows)
<1>1. Current(e, status)' = Current(e, rows)
  BY DEF Current
<1>2. {status[j] : j \in Current(e, status)}' = {rows[j] : j \in Current(e, rows)}
  <2>1. \A j \in Current(e, rows) : status'[j] = rows[j]
    BY DEF Current
  <2> QED BY <1>1, <2>1
<1> QED BY <1>2 DEF StatusOf

LEMMA StatusInit == Init => StatusInv
<1> SUFFICES ASSUME Init PROVE StatusInv
  OBVIOUS
<1> USE StatusAssumption
<1>1. StatusCurrent
  <2> SUFFICES ASSUME NEW e \in Experiments PROVE exp[e] = StatusOf(e, status)
    BY DEF StatusCurrent
  <2>1. {status[j] : j \in Current(e, status)} \subseteq {"QUEUED"}
    BY DEF Current, Init
  <2>2. StatusOf(e, status) = "QUEUED"
    <3> DEFINE S == {status[j] : j \in Current(e, status)}
    <3>1. S \subseteq {"QUEUED"}
      BY <2>1
    <3> HIDE DEF S
    <3>2. S \cap ActiveStatuses = {} /\ ~("QUEUED" \in S /\ S # {"QUEUED"})
      BY <3>1 DEF ActiveStatuses
    <3>3. S # {"CANCELLED"} /\ S # {"SUCCEEDED"}
      BY <3>1
    <3>4. Aggregate(S) = "QUEUED"
      BY <3>1, <3>2, <3>3 DEF Aggregate
    <3> QED BY <3>4 DEF S, StatusOf
  <2> QED BY <2>2 DEF Init
<1>2. IdleHoldsNothing /\ CancellersCancel
  BY DEF Init, IdleHoldsNothing, CancellersCancel, Nothing
<1>3. SeenCurrent /\ WrittenGuarded /\ ReadAll
  BY DEF Init, SeenCurrent, WrittenGuarded, ReadAll, Nothing
<1> QED BY <1>1, <1>2, <1>3, InitTypes DEF StatusInv

\* A step that commits nothing keeps the aggregate, if it points only rows that
\* nobody sees yet at the jobs they retry.
LEMMA StatusKept ==
  ASSUME StatusCurrent, UNCHANGED <<status, exp>>,
         \A j \in Jobs : status[j] # "absent" => retryOf'[j] = retryOf[j]
  PROVE  StatusCurrent'
<1> SUFFICES ASSUME NEW e \in Experiments PROVE exp'[e] = StatusOf(e, status)'
  BY DEF StatusCurrent
<1>1. StatusOf(e, status)' = StatusOf(e, status)
  BY SameStatus
<1> QED BY <1>1 DEF StatusCurrent

\* A dispatcher takes a row.
LEMMA SettleKeeps ==
  ASSUME StatusInv, TypeOK', NEW s \in Sessions, Settle(s)
  PROVE  StatusInv'
<1> USE StatusAssumption
<1>1. PICK j \in Jobs, new \in JobStatuses :
        /\ rowLock[j] = NoOne
        /\ status[j] \notin TerminalStatuses
        /\ rowLock' = [rowLock EXCEPT ![j] = s]
        /\ seen' = [seen EXCEPT ![s][j] = new]
        /\ touched' = [touched EXCEPT ![s] = {ExpOf[j]}]
  <2>1. \A i \in Jobs : \A n \in DispatcherMoves(i) :
          n \in JobStatuses /\ status[i] \notin TerminalStatuses
    BY DEF DispatcherMoves, JobStatuses, ActiveStatuses, SettledStatuses,
           TerminalStatuses
  <2>2. PICK j \in Jobs : \E new \in DispatcherMoves(j) :
          /\ rowLock[j] = NoOne
          /\ rowLock' = [rowLock EXCEPT ![j] = s]
          /\ seen' = [seen EXCEPT ![s][j] = new]
          /\ touched' = [touched EXCEPT ![s] = {ExpOf[j]}]
    BY DEF Settle
  <2>3. PICK new \in DispatcherMoves(j) :
          /\ rowLock' = [rowLock EXCEPT ![j] = s]
          /\ seen' = [seen EXCEPT ![s][j] = new]
          /\ touched' = [touched EXCEPT ![s] = {ExpOf[j]}]
    BY <2>2
  <2>4. new \in JobStatuses /\ status[j] \notin TerminalStatuses /\ rowLock[j] = NoOne
    BY <2>1, <2>2, <2>3
  <2> QED BY <2>3, <2>4
<1>2. pc[s] = "idle" /\ pc' = [pc EXCEPT ![s] = "recompute"]
  BY DEF Settle
<1>3. UNCHANGED <<committed, expLock>>
  BY DEF Settle
<1>4. "absent" \notin JobStatuses
  BY DEF JobStatuses, ActiveStatuses, SettledStatuses, TerminalStatuses
<1> USE DEF TypeOK
<1>5. StatusCurrent'
  BY <1>3, StatusKept DEF StatusInv
<1>6. CancellersCancel' /\ IdleHoldsNothing'
  BY <1>1, <1>2, <1>3 DEF StatusInv, CancellersCancel, IdleHoldsNothing
<1>7. SeenCurrent'
  BY <1>1, <1>3 DEF StatusInv, SeenCurrent
<1>8. WrittenGuarded'
  BY <1>1, <1>2, <1>3, <1>4 DEF StatusInv, WrittenGuarded, IdleHoldsNothing
<1>9. ReadAll'
  <2>1. \A e \in Experiments : expLock'[e] # s
    BY <1>2, <1>3 DEF StatusInv, IdleHoldsNothing
  <2>2. \A t \in Sessions : t # s => seen'[t] = seen[t] /\ touched'[t] = touched[t]
    BY <1>1
  <2>3. ReadAll /\ status' = status /\ expLock' = expLock
    BY <1>3 DEF StatusInv
  <2> SUFFICES ASSUME NEW t \in Sessions, NEW i \in Jobs,
                      expLock'[ExpOf[i]] = t, ExpOf[i] \notin touched'[t],
                      seen'[t][i] = "absent"
               PROVE  status'[i] = "absent"
    BY DEF ReadAll
  <2>4. t # s
    BY <2>1
  <2>5. /\ expLock[ExpOf[i]] = t /\ ExpOf[i] \notin touched[t]
        /\ seen[t][i] = "absent"
    BY <2>2, <2>3, <2>4
  <2> QED BY <2>3, <2>5 DEF ReadAll
<1> QED BY <1>5, <1>6, <1>7, <1>8, <1>9 DEF StatusInv

\* A session locks the experiment row and reads its jobs.
LEMMA RecomputeKeeps ==
  ASSUME StatusInv, TypeOK', NEW s \in Sessions, Recompute(s)
  PROVE  StatusInv'
<1> USE StatusAssumption
<1>1. PICK e \in Experiments :
        /\ expLock[e] \in {NoOne, s}
        /\ expLock' = [expLock EXCEPT ![e] = s]
        /\ seen' = [seen EXCEPT ![s] = [j \in Jobs |->
                      IF ExpOf[j] = e /\ seen[s][j] = "absent" THEN status[j]
                                                              ELSE seen[s][j]]]
        /\ touched' = [touched EXCEPT ![s] = @ \ {e}]
  BY DEF Recompute, TypeOK
<1>2. UNCHANGED <<committed, rowLock>> /\ pc[s] \in {"recompute", "revoke"}
  BY DEF Recompute
<1> USE DEF TypeOK
<1>2a. /\ \A t \in Sessions \ {s} : pc'[t] = pc[t]
       /\ pc'[s] \in {"recompute", "revoke"}
  BY <1>2 DEF Recompute
<1>3. StatusCurrent'
  BY <1>2, StatusKept DEF StatusInv
<1>4. CancellersCancel' /\ IdleHoldsNothing'
  BY <1>1, <1>2, <1>2a DEF StatusInv, CancellersCancel, IdleHoldsNothing
<1>5. SeenCurrent'
  BY <1>1, <1>2 DEF StatusInv, SeenCurrent
<1>6. WrittenGuarded'
  BY <1>1, <1>2 DEF StatusInv, WrittenGuarded
<1>7. ReadAll'
  BY <1>1, <1>2 DEF StatusInv, ReadAll
<1> QED BY <1>3, <1>4, <1>5, <1>6, <1>7 DEF StatusInv

\* A commit: what the session has seen of an experiment it locked is what is
\* committed of it afterwards.
LEMMA CommitKeeps ==
  ASSUME StatusInv, TypeOK', NEW s \in Sessions, Commit(s)
  PROVE  StatusInv'
<1> USE StatusAssumption
<1> USE DEF TypeOK
<1>1. /\ touched[s] = {}
      /\ pc' = [pc EXCEPT ![s] = "idle"]
      /\ seen' = [seen EXCEPT ![s] = Nothing]
      /\ rowLock' = [j \in Jobs |-> IF rowLock[j] = s THEN NoOne ELSE rowLock[j]]
      /\ expLock' = [e \in Experiments |-> IF expLock[e] = s THEN NoOne ELSE expLock[e]]
      /\ touched' = [touched EXCEPT ![s] = {}]
      /\ retryOf' = retryOf
      /\ status' = [j \in Jobs |-> IF rowLock[j] = s THEN seen[s][j] ELSE status[j]]
  BY DEF Commit, Close
<1>2. exp' = [e \in Experiments |->
                IF expLock[e] = s THEN StatusOf(e, seen[s]) ELSE exp[e]]
  BY DEF Commit
<1>3. \A j \in Jobs : rowLock[j] = s => expLock[ExpOf[j]] = s
  BY <1>1 DEF StatusInv, WrittenGuarded
<1>4. StatusCurrent'
  <2> SUFFICES ASSUME NEW e \in Experiments PROVE exp'[e] = StatusOf(e, status)'
    BY DEF StatusCurrent
  <2>1. CASE expLock[e] = s
    <3>1. \A j \in Jobs : ExpOf[j] = e => status'[j] = seen[s][j]
      BY <1>1, <2>1 DEF StatusInv, SeenCurrent, ReadAll
    <3>2. StatusOf(e, status)' = StatusOf(e, seen[s])
      BY <3>1, <1>1, SameStatus
    <3> QED BY <3>2, <1>2, <2>1
  <2>2. CASE expLock[e] # s
    <3>1. \A j \in Jobs : ExpOf[j] = e => status'[j] = status[j]
      BY <1>1, <1>3, <2>2
    <3>2. StatusOf(e, status)' = StatusOf(e, status)
      BY <3>1, <1>1, SameStatus
    <3> QED BY <3>2, <1>2, <2>2 DEF StatusInv, StatusCurrent
  <2> QED BY <2>1, <2>2
<1>5. CancellersCancel' /\ IdleHoldsNothing'
  BY <1>1 DEF StatusInv, CancellersCancel, IdleHoldsNothing, Nothing
<1>6. SeenCurrent'
  <2> SUFFICES ASSUME NEW t \in Sessions, NEW j \in Jobs,
                      seen'[t][j] # "absent", rowLock'[j] # t
               PROVE  /\ seen'[t][j] = status'[j]
                      /\ status'[j] \in TerminalStatuses \/ expLock'[ExpOf[j]] = t
    BY DEF SeenCurrent
  <2>1. t # s /\ seen'[t][j] = seen[t][j] /\ rowLock[j] # t
    BY <1>1 DEF Nothing
  <2>2. /\ seen[t][j] = status[j]
        /\ status[j] \in TerminalStatuses \/ expLock[ExpOf[j]] = t
    BY <2>1 DEF StatusInv, SeenCurrent
  <2>3. rowLock[j] # s
    BY <2>1, <2>2, <1>3 DEF StatusInv, WrittenGuarded
  <2> QED BY <1>1, <2>1, <2>2, <2>3
<1>7. WrittenGuarded'
  <2> SUFFICES ASSUME NEW t \in Sessions, NEW j \in Jobs, rowLock'[j] = t
               PROVE  /\ seen'[t][j] # "absent"
                      /\ status'[j] \notin TerminalStatuses
                      /\ ExpOf[j] \in touched'[t] \/ expLock'[ExpOf[j]] = t
    BY DEF WrittenGuarded
  <2>1. t # s /\ rowLock[j] = t
    BY <1>1
  <2> QED BY <1>1, <2>1 DEF StatusInv, WrittenGuarded
<1>8. ReadAll'
  <2> SUFFICES ASSUME NEW t \in Sessions, NEW j \in Jobs, expLock'[ExpOf[j]] = t,
                      ExpOf[j] \notin touched'[t], seen'[t][j] = "absent"
               PROVE  status'[j] = "absent"
    BY DEF ReadAll
  <2>1. t # s /\ expLock[ExpOf[j]] = t /\ seen[t][j] = "absent"
    BY <1>1
  <2>2. status'[j] = status[j]
    BY <1>1, <1>3, <2>1
  <2> QED BY <1>1, <2>1, <2>2 DEF StatusInv, ReadAll
<1> QED BY <1>4, <1>5, <1>6, <1>7, <1>8 DEF StatusInv

\* A rollback.
LEMMA AbortKeeps ==
  ASSUME StatusInv, TypeOK', NEW s \in Sessions, Abort(s)
  PROVE  StatusInv'
<1> USE StatusAssumption
<1> USE DEF TypeOK
<1>1. /\ pc' = [pc EXCEPT ![s] = "idle"]
      /\ seen' = [seen EXCEPT ![s] = Nothing]
      /\ rowLock' = [j \in Jobs |-> IF rowLock[j] = s THEN NoOne ELSE rowLock[j]]
      /\ expLock' = [e \in Experiments |-> IF expLock[e] = s THEN NoOne ELSE expLock[e]]
      /\ touched' = [touched EXCEPT ![s] = {}]
      /\ UNCHANGED <<status, exp>>
  BY DEF Abort, Close
<1>2. \A j \in Jobs : status[j] # "absent" => retryOf'[j] = retryOf[j]
  BY DEF Abort
<1>3. StatusCurrent'
  BY <1>1, <1>2, StatusKept DEF StatusInv
<1>4. CancellersCancel' /\ IdleHoldsNothing'
  BY <1>1 DEF StatusInv, CancellersCancel, IdleHoldsNothing, Nothing
<1>5. SeenCurrent'
  BY <1>1 DEF StatusInv, SeenCurrent, Nothing
<1>6. WrittenGuarded'
  BY <1>1 DEF StatusInv, WrittenGuarded
<1>7. ReadAll'
  BY <1>1 DEF StatusInv, ReadAll
<1> QED BY <1>3, <1>4, <1>5, <1>6, <1>7 DEF StatusInv

\* A retry inserts its attempt and, if the old one is blocked, cancels that.
LEMMA RetryKeeps ==
  ASSUME StatusInv, TypeOK', NEW s \in Sessions, Retry(s) \/ RetryInsert(s)
  PROVE  StatusInv'
<1> USE StatusAssumption
<1> USE DEF TypeOK
<1>1. CASE Retry(s)
  <2>1. PICK j \in Jobs, k \in Jobs :
          /\ status[j] \in RetryableStatuses
          /\ status[k] = "absent" /\ rowLock[k] = NoOne /\ ExpOf[k] = ExpOf[j]
          /\ rowLock[j] = NoOne
          /\ rowLock' = [i \in Jobs |-> IF i = k \/ (i = j /\ status[j] = "BLOCKED")
                                          THEN s ELSE rowLock[i]]
          /\ seen' = [seen EXCEPT ![s][j] = IF status[j] = "BLOCKED" THEN "CANCELLED"
                                                                    ELSE status[j],
                                  ![s][k] = "QUEUED"]
          /\ retryOf' = [retryOf EXCEPT ![k] = j]
          /\ touched' = [touched EXCEPT ![s] = {ExpOf[j]}]
    BY <1>1 DEF Retry
  <2>2. /\ pc[s] = "idle" /\ pc' = [pc EXCEPT ![s] = "insert"]
        /\ UNCHANGED <<status, exp, expLock>>
    BY <1>1 DEF Retry
  <2>3. /\ j # k /\ "absent" \notin RetryableStatuses /\ "absent" \notin TerminalStatuses
        /\ status[j] # "BLOCKED" => status[j] \in TerminalStatuses
        /\ "BLOCKED" \notin TerminalStatuses
    BY <2>1 DEF RetryableStatuses, TerminalStatuses
  <2>4. StatusCurrent'
    BY <2>1, <2>2, StatusKept DEF StatusInv
  <2>5. CancellersCancel' /\ IdleHoldsNothing'
    BY <2>1, <2>2 DEF StatusInv, CancellersCancel, IdleHoldsNothing
  <2>6. /\ \A t \in Sessions, i \in Jobs : t # s => seen'[t][i] = seen[t][i]
        /\ \A i \in Jobs : i \notin {j, k} => seen'[s][i] = seen[s][i]
        /\ seen'[s][k] = "QUEUED"
        /\ seen'[s][j] = IF status[j] = "BLOCKED" THEN "CANCELLED" ELSE status[j]
    BY <2>1, <2>3
  <2>7. SeenCurrent'
    BY <2>1, <2>2, <2>3, <2>6 DEF StatusInv, SeenCurrent
  <2>8. WrittenGuarded'
    BY <2>1, <2>2, <2>3, <2>6 DEF StatusInv, WrittenGuarded, IdleHoldsNothing
  <2>9. ReadAll'
    <3>1. \A e \in Experiments : expLock'[e] # s
      BY <2>2 DEF StatusInv, IdleHoldsNothing
    <3>2. \A t \in Sessions : t # s => touched'[t] = touched[t]
      BY <2>1
    <3> SUFFICES ASSUME NEW t \in Sessions, NEW i \in Jobs, expLock'[ExpOf[i]] = t,
                        ExpOf[i] \notin touched'[t], seen'[t][i] = "absent"
                 PROVE  status'[i] = "absent"
      BY DEF ReadAll
    <3>3. t # s /\ ExpOf[i] \in Experiments
      BY <3>1
    <3>4. seen[t][i] = "absent" /\ ExpOf[i] \notin touched[t] /\ expLock[ExpOf[i]] = t
      <4>1. seen'[t][i] = seen[t][i]
        BY <2>6, <3>3
      <4>2. touched'[t] = touched[t] /\ expLock' = expLock
        BY <2>2, <3>2, <3>3
      <4> QED BY <4>1, <4>2
    <3> QED BY <2>2, <3>4 DEF StatusInv, ReadAll
  <2> QED BY <2>4, <2>5, <2>7, <2>8, <2>9 DEF StatusInv
<1>2. CASE RetryInsert(s)
  <2>1. PICK e \in touched[s] : expLock[e] = NoOne /\ expLock' = [expLock EXCEPT ![e] = s]
    BY <1>2 DEF RetryInsert
  <2>2. /\ pc[s] = "insert" /\ pc' = [pc EXCEPT ![s] = "recompute"]
        /\ UNCHANGED <<committed, seen, rowLock, touched>>
    BY <1>2 DEF RetryInsert
  <2>3. e \in Experiments
    BY <2>1
  <2>4. StatusCurrent'
    BY <2>2, StatusKept DEF StatusInv
  <2>5. CancellersCancel' /\ IdleHoldsNothing'
    BY <2>1, <2>2, <2>3 DEF StatusInv, CancellersCancel, IdleHoldsNothing
  <2>6. /\ \A f \in Experiments : expLock'[f] = IF f = e THEN s ELSE expLock[f]
        /\ \A i \in Jobs : ExpOf[i] \in Experiments
        /\ status' = status /\ seen' = seen /\ rowLock' = rowLock /\ touched' = touched
    BY <2>1, <2>2, <2>3 DEF committed
  <2>7. /\ \A f \in Experiments, t \in Sessions : expLock[f] = t => expLock'[f] = t
        /\ e \in touched[s]
    BY <2>1, <2>6
  <2>8. SeenCurrent'
    <3> SUFFICES ASSUME NEW t \in Sessions, NEW i \in Jobs,
                        seen[t][i] # "absent", rowLock[i] # t
                 PROVE  /\ seen[t][i] = status[i]
                        /\ status[i] \in TerminalStatuses \/ expLock'[ExpOf[i]] = t
      BY <2>6 DEF SeenCurrent
    <3>1. SeenCurrent
      BY DEF StatusInv
    <3>2. seen[t][i] = status[i] /\ (status[i] \in TerminalStatuses \/ expLock[ExpOf[i]] = t)
      BY <3>1 DEF SeenCurrent
    <3>3. expLock[ExpOf[i]] = t => expLock'[ExpOf[i]] = t
      BY <2>6, <2>7
    <3> QED BY <3>2, <3>3
  <2>9. WrittenGuarded'
    <3> SUFFICES ASSUME NEW t \in Sessions, NEW i \in Jobs, rowLock[i] = t
                 PROVE  /\ seen[t][i] # "absent"
                        /\ status[i] \notin TerminalStatuses
                        /\ ExpOf[i] \in touched[t] \/ expLock'[ExpOf[i]] = t
      BY <2>6 DEF WrittenGuarded
    <3> QED BY <2>6, <2>7 DEF StatusInv, WrittenGuarded
  <2>10. ReadAll'
    <3> SUFFICES ASSUME NEW t \in Sessions, NEW i \in Jobs, expLock'[ExpOf[i]] = t,
                        ExpOf[i] \notin touched'[t], seen'[t][i] = "absent"
                 PROVE  status'[i] = "absent"
      BY DEF ReadAll
    <3>1. expLock[ExpOf[i]] = t
      BY <2>6, <2>7
    <3> QED BY <2>6, <3>1 DEF StatusInv, ReadAll
  <2> QED BY <2>4, <2>5, <2>8, <2>9, <2>10 DEF StatusInv
<1> QED BY <1>1, <1>2

\* The inductive invariant, while nobody cancels over several rows and no sweep
\* runs: those sessions work with rows they loaded before the lock.
THEOREM StatusInductive ==
  ASSUME Cancellers = {}, Sweepers = {}
  PROVE  Spec => []StatusInv
<1>1. StatusInv /\ [Next]_vars => StatusInv'
  <2> SUFFICES ASSUME StatusInv, [Next]_vars PROVE StatusInv'
    OBVIOUS
  <2>1. TypeOK'
    BY NextTypes DEF StatusInv
  <2>2. ASSUME NEW s \in Sessions, Settle(s) \/ Recompute(s) \/ Commit(s) \/ Abort(s)
        PROVE StatusInv'
    BY <2>1, <2>2, SettleKeeps, RecomputeKeeps, CommitKeeps, AbortKeeps
  <2>3. ASSUME NEW s \in Sessions, Retry(s) \/ RetryInsert(s) PROVE StatusInv'
    BY <2>1, <2>3, RetryKeeps
  <2>4. ASSUME NEW s \in Sessions,
               CancelExperiment(s) \/ CancelJobs(s) \/ CancelNext(s) \/ Sweep(s)
        PROVE FALSE
    BY <2>4 DEF CancelExperiment, CancelJobs, CancelNext, Sweep, StatusInv,
                CancellersCancel
  <2>5. CASE Settled \/ UNCHANGED vars
    <3>1. UNCHANGED vars
      BY <2>5 DEF Settled
    <3>2. StatusCurrent'
      BY <3>1, StatusKept DEF StatusInv
    <3>3. CancellersCancel' /\ IdleHoldsNothing' /\ SeenCurrent'
      BY <3>1 DEF StatusInv, CancellersCancel, IdleHoldsNothing, SeenCurrent
    <3>4. WrittenGuarded' /\ ReadAll'
      BY <3>1 DEF StatusInv, WrittenGuarded, ReadAll
    <3> QED BY <2>1, <3>2, <3>3, <3>4 DEF StatusInv
  <2> QED BY <2>2, <2>3, <2>4, <2>5 DEF Next
<1> QED BY <1>1, StatusInit, PTL DEF Spec

\* However many dispatchers settle jobs and users retry them at once, the status
\* stored for an experiment is the aggregate of its jobs.
THEOREM StatusStaysCurrent ==
  ASSUME Cancellers = {}, Sweepers = {}
  PROVE  Spec => []StatusCurrent
<1>1. StatusInv => StatusCurrent
  BY DEF StatusInv
<1> QED BY <1>1, StatusInductive, PTL

-----------------------------------------------------------------------------
\* The model keys of an experiment go, while only dispatchers and retries write.

\* The current attempts depend on the rows of the experiment alone, too.
LEMMA SameCurrent ==
  ASSUME NEW e \in Experiments, NEW rows,
         \A j \in Jobs : ExpOf[j] = e =>
           /\ status'[j] = rows[j]
           /\ rows[j] # "absent" => retryOf'[j] = retryOf[j]
  PROVE  /\ Current(e, status)' = Current(e, rows)
         /\ \A S : AllIn(e, status, S)' <=> AllIn(e, rows, S)
<1>1. Current(e, status)' = Current(e, rows)
  BY DEF Current
<1>2. \A j \in Current(e, rows) : status'[j] = rows[j]
  BY DEF Current
<1> QED BY <1>1, <1>2 DEF AllIn

\* A step that commits nothing, and points only rows that nobody sees yet at the jobs
\* they retry, leaves no key behind.
LEMMA SecretsKept ==
  ASSUME SecretsDropped, UNCHANGED <<status, secrets>>,
         \A j \in Jobs : status[j] # "absent" => retryOf'[j] = retryOf[j]
  PROVE  SecretsDropped'
<1>1. \A e \in Experiments : \A S : AllIn(e, status, S)' <=> AllIn(e, status, S)
  BY SameCurrent
<1> QED BY <1>1 DEF SecretsDropped

\* The jobs of a launch wait to be sent.
LEMMA SecretsInit == Init => SecretsDropped
<1> SUFFICES ASSUME Init, NEW e \in Experiments
             PROVE  ~AllIn(e, status, SettledStatuses)
  BY DEF SecretsDropped
<1>1. PICK j \in Launched : ExpOf[j] = e
  BY LaunchAssumption
<1>2. j \in Current(e, status) /\ status[j] = "QUEUED"
  BY <1>1, StatusAssumption DEF Init, Current
<1> QED BY <1>2 DEF AllIn, SettledStatuses, TerminalStatuses

\* A commit drops the model keys of an experiment when the rows it commits need them
\* no more.
LEMMA CommitSecrets ==
  ASSUME StatusInv, SecretsDropped, NEW s \in Sessions, Commit(s)
  PROVE  SecretsDropped'
<1> USE StatusAssumption
<1> USE DEF TypeOK
<1>1. /\ retryOf' = retryOf /\ touched[s] = {}
      /\ status' = [j \in Jobs |-> IF rowLock[j] = s THEN seen[s][j] ELSE status[j]]
      /\ secrets' = [e \in Experiments |->
           IF expLock[e] = s THEN ~DropsSecrets(s, e) /\ (secrets[e] \/ s \in Retriers)
                             ELSE secrets[e]]
  BY DEF Commit
<1>2. \A j \in Jobs : rowLock[j] = s => expLock[ExpOf[j]] = s
  BY <1>1 DEF StatusInv, WrittenGuarded
<1> SUFFICES ASSUME NEW e \in Experiments, AllIn(e, status, SettledStatuses)'
             PROVE  ~secrets'[e]
  BY DEF SecretsDropped
<1>3. CASE expLock[e] = s
  <2>1. \A j \in Jobs : ExpOf[j] = e => status'[j] = seen[s][j]
    BY <1>1, <1>3 DEF StatusInv, SeenCurrent, ReadAll
  <2>2. AllIn(e, seen[s], SettledStatuses)
    BY <1>1, <2>1, SameCurrent
  <2> QED BY <1>1, <1>3, <2>2 DEF DropsSecrets
<1>4. CASE expLock[e] # s
  <2>1. \A j \in Jobs : ExpOf[j] = e => status'[j] = status[j]
    BY <1>1, <1>2, <1>4
  <2>2. AllIn(e, status, SettledStatuses)
    BY <1>1, <2>1, SameCurrent
  <2> QED BY <1>1, <1>4, <2>2 DEF SecretsDropped
<1> QED BY <1>3, <1>4

\* Once nothing of an experiment is dispatched any more, its model keys are gone.
THEOREM SecretsGo ==
  ASSUME Cancellers = {}, Sweepers = {}
  PROVE  Spec => []SecretsDropped
<1>1. StatusInv /\ SecretsDropped /\ [Next]_vars => SecretsDropped'
  <2> SUFFICES ASSUME StatusInv, SecretsDropped, [Next]_vars PROVE SecretsDropped'
    OBVIOUS
  <2> USE StatusAssumption
  <2>0. TypeOK
    BY DEF StatusInv
  <2>1. ASSUME NEW s \in Sessions, Settle(s) \/ Recompute(s) PROVE UNCHANGED committed
    BY <2>1 DEF Settle, Recompute
  <2>2. ASSUME NEW s \in Sessions, Abort(s) \/ Retry(s) \/ RetryInsert(s)
        PROVE  /\ UNCHANGED <<status, secrets>>
               /\ \A j \in Jobs : status[j] # "absent" => retryOf'[j] = retryOf[j]
    BY <2>0, <2>2 DEF Abort, Retry, RetryInsert, TypeOK
  <2>3. ASSUME NEW s \in Sessions,
               CancelExperiment(s) \/ CancelJobs(s) \/ CancelNext(s) \/ Sweep(s)
        PROVE FALSE
    BY <2>3 DEF CancelExperiment, CancelJobs, CancelNext, Sweep, StatusInv,
                CancellersCancel
  <2>4. CASE Settled \/ UNCHANGED vars
    BY <2>4, SecretsKept DEF Settled
  <2> QED BY <2>1, <2>2, <2>3, <2>4, SecretsKept, CommitSecrets DEF Next
<1> QED BY <1>1, SecretsInit, StatusInductive, PTL DEF Spec

-----------------------------------------------------------------------------
\* No circle of waiting transactions, for sessions of every kind.

\* Every nonempty set of naturals has a least element.
LEMMA HasLeast ==
  ASSUME NEW S \in SUBSET Nat, S # {}
  PROVE  \E x \in S : \A y \in S : x <= y
<1> DEFINE R == OpToRel(<, Nat)
<1>1. IsWellFoundedOn(R, Nat)
  BY NatLessThanWellFounded
<1>2. R = {ss \in Nat \X Nat : ss[1] < ss[2]}
  BY DEF OpToRel
<1> HIDE DEF R
<1>3. \E x \in S : \A y \in S : ~ (<<y, x>> \in R)
  BY <1>1, WFMin
<1>4. \A x, y \in Nat : <<y, x>> \in R <=> y < x
  BY <1>2
<1>5. PICK x \in S : \A y \in S : ~ (<<y, x>> \in R)
  BY <1>3
<1>6. \A y \in S : ~(y < x)
  BY <1>4, <1>5
<1>7. \A y \in S : x <= y
  BY <1>6
<1> QED BY <1>7

\* A nonempty set of bounded naturals has a greatest element.
LEMMA HasGreatest ==
  ASSUME NEW Bound \in Nat, NEW S \in SUBSET (0..Bound), S # {}
  PROVE  \E x \in S : \A y \in S : y <= x
<1> DEFINE T == {Bound - x : x \in S}
<1>1. T \in SUBSET Nat /\ T # {}
  <2>1. \A x \in S : Bound - x \in Nat
    OBVIOUS
  <2> QED BY <2>1
<1> HIDE DEF T
<1>2. PICK z \in T : \A y \in T : z <= y
  BY <1>1, HasLeast
<1>3. PICK x \in S : z = Bound - x
  BY DEF T
<1>4. \A y \in S : Bound - y \in T
  BY DEF T
<1>5. \A y \in S : y \in Nat /\ x \in Nat
  OBVIOUS
<1> QED BY <1>2, <1>3, <1>4, <1>5

\* Every transaction keeps the lock order.
LEMMA OrderKept == OrderInv /\ [Next]_vars => OrderInv'
<1> SUFFICES ASSUME OrderInv, [Next]_vars PROVE OrderInv'
  OBVIOUS
<1> USE StatusAssumption
<1> DEFINE Order == RowsInOrder /\ ExperimentsInOrder /\ IdleOwnsNoRow /\ InsertTouchesOne
<1>0. TypeOK /\ TypeOK' /\ Order
  BY NextTypes DEF OrderInv
<1>1. ASSUME NEW s \in Sessions, Settle(s) PROVE Order'
  <2>1. PICK j \in Jobs : /\ rowLock' = [rowLock EXCEPT ![j] = s]
                          /\ touched' = [touched EXCEPT ![s] = {ExpOf[j]}]
    BY <1>1 DEF Settle
  <2>2. /\ pc[s] = "idle" /\ pc' = [pc EXCEPT ![s] = "recompute"]
        /\ expLock' = expLock /\ todo' = todo
    BY <1>1 DEF Settle
  <2>3. RowsInOrder'
    BY <1>0, <2>1, <2>2, SMTT(30) DEF RowsInOrder, TypeOK
  <2>4. ExperimentsInOrder'
    BY <1>0, <2>1, <2>2, SMTT(30) DEF ExperimentsInOrder, TypeOK
  <2>5. IdleOwnsNoRow'
    BY <1>0, <2>1, <2>2, SMTT(30) DEF IdleOwnsNoRow, TypeOK
  <2>6. InsertTouchesOne'
    BY <1>0, <2>1, <2>2, SMTT(30) DEF InsertTouchesOne, TypeOK
  <2> QED BY <2>3, <2>4, <2>5, <2>6
<1>2. ASSUME NEW s \in Sessions, Recompute(s) PROVE Order'
  <2>1. PICK e \in Experiments :
          /\ First(e, touched[s])
          /\ expLock' = [expLock EXCEPT ![e] = s]
          /\ touched' = [touched EXCEPT ![s] = @ \ {e}]
    BY <1>2 DEF Recompute
  <2>2. /\ pc[s] \in {"recompute", "revoke"} /\ pc'[s] \in {"recompute", "revoke"}
        /\ \A t \in Sessions \ {s} : pc'[t] = pc[t]
        /\ rowLock' = rowLock /\ todo' = todo
    BY <1>0, <1>2 DEF Recompute, TypeOK
  <2>3. RowsInOrder' /\ IdleOwnsNoRow'
    BY <1>0, <2>2, SMTT(30) DEF RowsInOrder, IdleOwnsNoRow, TypeOK
  <2>4. ExperimentsInOrder'
    BY <1>0, <2>1, <2>2, SMTT(30) DEF ExperimentsInOrder, TypeOK, First
  <2>5. InsertTouchesOne'
    BY <1>0, <2>1, <2>2, SMTT(30) DEF InsertTouchesOne, TypeOK
  <2> QED BY <2>3, <2>4, <2>5
<1>3. ASSUME NEW s \in Sessions, Commit(s) \/ Abort(s) PROVE Order'
  <2>1. Close(s)
    BY <1>3 DEF Commit, Abort
  <2>2. RowsInOrder' /\ IdleOwnsNoRow'
    BY <1>0, <2>1, SMTT(30) DEF RowsInOrder, IdleOwnsNoRow, TypeOK, Close
  <2>3. ExperimentsInOrder'
    BY <1>0, <2>1, SMTT(30) DEF ExperimentsInOrder, TypeOK, Close
  <2>4. InsertTouchesOne'
    BY <1>0, <2>1, SMTT(30) DEF InsertTouchesOne, TypeOK, Close
  <2> QED BY <2>2, <2>3, <2>4
<1>4. ASSUME NEW s \in Sessions, CancelExperiment(s) \/ CancelJobs(s) PROVE Order'
  <2>1. /\ pc[s] = "idle" /\ pc' = [pc EXCEPT ![s] = "cancel"]
        /\ rowLock' = rowLock /\ expLock' = expLock /\ touched' = touched
        /\ \A t \in Sessions \ {s} : todo'[t] = todo[t]
    BY <1>0, <1>4 DEF CancelExperiment, CancelJobs, TypeOK
  <2>2. RowsInOrder' /\ IdleOwnsNoRow'
    BY <1>0, <2>1, SMTT(30) DEF RowsInOrder, IdleOwnsNoRow, TypeOK
  <2>3. ExperimentsInOrder'
    BY <1>0, <2>1, SMTT(30) DEF ExperimentsInOrder, TypeOK
  <2>4. InsertTouchesOne'
    BY <1>0, <2>1, SMTT(30) DEF InsertTouchesOne, TypeOK
  <2> QED BY <2>2, <2>3, <2>4
<1>5. ASSUME NEW s \in Sessions, CancelNext(s) PROVE Order'
  <2>1. PICK j \in Jobs :
          /\ First(j, todo[s])
          /\ rowLock' = rowLock \/ rowLock' = [rowLock EXCEPT ![j] = s]
          /\ todo' = [todo EXCEPT ![s] = @ \ {j}]
          /\ pc' = [pc EXCEPT ![s] = IF todo[s] = {j} THEN "recompute" ELSE "cancel"]
    BY <1>5 DEF CancelNext
  <2>2. /\ pc[s] = "cancel" /\ expLock' = expLock
        /\ \A t \in Sessions \ {s} : touched'[t] = touched[t]
    BY <1>0, <1>5 DEF CancelNext, TypeOK
  <2>3. RowsInOrder'
    BY <1>0, <2>1, <2>2, SMTT(30) DEF RowsInOrder, TypeOK, First
  <2>4. ExperimentsInOrder'
    BY <1>0, <2>1, <2>2, SMTT(30) DEF ExperimentsInOrder, TypeOK
  <2>5. IdleOwnsNoRow'
    BY <1>0, <2>1, <2>2, SMTT(30) DEF IdleOwnsNoRow, TypeOK
  <2>6. InsertTouchesOne'
    BY <1>0, <2>1, <2>2, SMTT(30) DEF InsertTouchesOne, TypeOK
  <2> QED BY <2>3, <2>4, <2>5, <2>6
<1>6. ASSUME NEW s \in Sessions, Retry(s) PROVE Order'
  <2>1. /\ pc[s] = "idle" /\ pc' = [pc EXCEPT ![s] = "insert"]
        /\ expLock' = expLock /\ todo' = todo
        /\ \A j \in Jobs : rowLock'[j] = s \/ rowLock'[j] = rowLock[j]
    BY <1>6 DEF Retry
  <2>2. PICK e \in Experiments : touched' = [touched EXCEPT ![s] = {e}]
    BY <1>6 DEF Retry
  <2>3. RowsInOrder' /\ IdleOwnsNoRow'
    BY <1>0, <2>1, SMTT(30) DEF RowsInOrder, IdleOwnsNoRow, TypeOK
  <2>4. ExperimentsInOrder'
    BY <1>0, <2>1, <2>2, SMTT(30) DEF ExperimentsInOrder, TypeOK
  <2>5. InsertTouchesOne'
    BY <1>0, <2>1, <2>2, SMTT(30) DEF InsertTouchesOne, TypeOK
  <2> QED BY <2>3, <2>4, <2>5
<1>7. ASSUME NEW s \in Sessions, RetryInsert(s) PROVE Order'
  <2>1. PICK e \in touched[s] : expLock' = [expLock EXCEPT ![e] = s]
    BY <1>7 DEF RetryInsert
  <2>2. /\ pc[s] = "insert" /\ pc' = [pc EXCEPT ![s] = "recompute"]
        /\ rowLock' = rowLock /\ todo' = todo /\ touched' = touched
    BY <1>7 DEF RetryInsert
  <2>3. (\A f \in touched[s] : f = e) /\ e \in Experiments
    BY <1>0, <2>1, <2>2, SMTT(30) DEF InsertTouchesOne, TypeOK
  <2>4. RowsInOrder' /\ IdleOwnsNoRow'
    BY <1>0, <2>2, SMTT(30) DEF RowsInOrder, IdleOwnsNoRow, TypeOK
  <2>5. ExperimentsInOrder'
    BY <1>0, <2>1, <2>2, <2>3, SMTT(30) DEF ExperimentsInOrder, TypeOK
  <2>6. InsertTouchesOne'
    BY <1>0, <2>2, SMTT(30) DEF InsertTouchesOne, TypeOK
  <2> QED BY <2>4, <2>5, <2>6
<1>8. ASSUME NEW s \in Sessions, Sweep(s) PROVE Order'
  <2>1. /\ pc[s] = "idle" /\ rowLock' = rowLock /\ expLock' = expLock /\ todo' = todo
        /\ pc' = [pc EXCEPT ![s] = "recompute"] \/ pc' = [pc EXCEPT ![s] = "revoke"]
        /\ \A t \in Sessions \ {s} : touched'[t] = touched[t]
    BY <1>0, <1>8 DEF Sweep, TypeOK
  <2>2. RowsInOrder' /\ IdleOwnsNoRow'
    BY <1>0, <2>1, SMTT(30) DEF RowsInOrder, IdleOwnsNoRow, TypeOK
  <2>3. ExperimentsInOrder'
    BY <1>0, <2>1, SMTT(30) DEF ExperimentsInOrder, TypeOK
  <2>4. InsertTouchesOne'
    BY <1>0, <2>1, SMTT(30) DEF InsertTouchesOne, TypeOK
  <2> QED BY <2>2, <2>3, <2>4
<1>9. ASSUME Settled \/ UNCHANGED vars PROVE Order'
  <2>1. UNCHANGED <<pc, rowLock, expLock, todo, touched>>
    BY <1>9 DEF Settled
  <2> QED BY <1>0, <2>1 DEF RowsInOrder, ExperimentsInOrder, IdleOwnsNoRow,
                            InsertTouchesOne
<1>10. Order'
  BY <1>1, <1>2, <1>3, <1>4, <1>5, <1>6, <1>7, <1>8, <1>9 DEF Next, OrderInv
<1> QED BY <1>0, <1>10 DEF OrderInv

\* In a circle of transactions waiting for experiments the greatest experiment waited
\* for is held by one that waits for a greater one; if none waits for an experiment,
\* the same holds of the rows.
LEMMA OrderBreaksCycles ==
  ASSUME NEW Bound \in Nat, Jobs \subseteq 0..Bound, Experiments \subseteq 0..Bound,
         OrderInv
  PROVE  NoWaitCycle
<1> SUFFICES ASSUME NEW C \in SUBSET Sessions, C # {},
                    \A s \in C : \E t \in C \ {s} : WaitsFor(s, t)
             PROVE  FALSE
  BY DEF NoWaitCycle
<1> DEFINE Wanted == {e \in Experiments : \E s \in C :
                        /\ pc[s] \in {"insert", "recompute", "revoke"}
                        /\ First(e, touched[s])}
           WantedRows == {j \in Jobs : \E s \in C :
                        /\ pc[s] = "cancel" /\ First(j, todo[s])}
<1>1. \A s \in C : /\ pc[s] \in {"insert", "recompute", "revoke"} =>
                         \E e \in Experiments, t \in C \ {s} :
                            First(e, touched[s]) /\ expLock[e] = t
                   /\ pc[s] = "cancel" =>
                         \E j \in Jobs, t \in C \ {s} : First(j, todo[s]) /\ rowLock[j] = t
                   /\ pc[s] \in {"cancel", "insert", "recompute", "revoke"}
  BY DEF WaitsFor
<1>2. Wanted = {}
  <2> SUFFICES ASSUME Wanted # {} PROVE FALSE
    OBVIOUS
  <2>1. PICK e \in Wanted : \A f \in Wanted : f <= e
    <3>1. Wanted \in SUBSET (0..Bound)
      OBVIOUS
    <3> HIDE DEF Wanted
    <3> QED BY <3>1, HasGreatest
  <2>2. PICK s \in C : /\ pc[s] \in {"insert", "recompute", "revoke"}
                       /\ First(e, touched[s])
    OBVIOUS
  <2>3. PICK d \in Experiments : \E t \in C \ {s} : First(d, touched[s]) /\ expLock[d] = t
    BY <1>1, <2>2
  <2>4. d = e
    BY <2>2, <2>3, StatusAssumption DEF First
  <2>5. PICK t \in C \ {s} : expLock[e] = t
    BY <2>3, <2>4
  <2>6. pc[t] \in {"recompute", "revoke"} /\ \A f \in touched[t] : e <= f
    BY <2>5 DEF OrderInv, ExperimentsInOrder
  <2>7. PICK f \in Experiments : \E u \in C \ {t} : First(f, touched[t]) /\ expLock[f] = u
    BY <1>1, <2>5, <2>6
  <2>8. f \in Wanted /\ f # e
    BY <2>5, <2>6, <2>7
  <2>9. e <= f /\ f <= e
    BY <2>1, <2>6, <2>7, <2>8 DEF First
  <2>10. e \in Nat /\ f \in Nat
    BY <2>7, StatusAssumption
  <2> QED BY <2>8, <2>9, <2>10, SMTT(30)
<1>3. \A s \in C : pc[s] = "cancel"
  BY <1>1, <1>2
<1>4. WantedRows # {}
  BY <1>1, <1>3
<1>5. PICK j \in WantedRows : \A k \in WantedRows : k <= j
  <2>1. WantedRows \in SUBSET (0..Bound)
    OBVIOUS
  <2> HIDE DEF WantedRows
  <2> QED BY <1>4, <2>1, HasGreatest
<1>6. PICK s \in C : First(j, todo[s])
  OBVIOUS
<1>7. PICK i \in Jobs : \E t \in C \ {s} : First(i, todo[s]) /\ rowLock[i] = t
  BY <1>1, <1>3
<1>8. i = j
  <2>1. j \in Nat /\ i \in Nat /\ i <= j /\ j <= i
    BY <1>6, <1>7, StatusAssumption DEF First
  <2> QED BY <2>1
<1>9. PICK t \in C : rowLock[j] = t
  BY <1>7, <1>8
<1>10. \A k \in todo[t] : j < k
  BY <1>3, <1>9 DEF OrderInv, RowsInOrder
<1>11. PICK k \in Jobs : First(k, todo[t])
  BY <1>1, <1>3
<1>12. k \in WantedRows /\ j < k
  BY <1>3, <1>10, <1>11 DEF First
<1>13. k <= j /\ j \in Nat /\ k \in Nat
  BY <1>5, <1>12, StatusAssumption
<1> QED BY <1>12, <1>13

\* No transactions wait for each other in a circle, whatever they are: cancels of any
\* jobs, retries, settles and sweeps.  The ids only have to be bounded.
THEOREM NoCircleOfWaits ==
  ASSUME NEW CONSTANT Bound \in Nat, Jobs \subseteq 0..Bound, Experiments \subseteq 0..Bound
  PROVE  Spec => []NoWaitCycle
<1>1. Init => OrderInv
  BY InitTypes, StatusAssumption DEF Init, OrderInv, RowsInOrder, ExperimentsInOrder,
     IdleOwnsNoRow, InsertTouchesOne
<1>2. OrderInv => NoWaitCycle
  BY OrderBreaksCycles
<1> QED BY <1>1, <1>2, OrderKept, PTL DEF Spec

-----------------------------------------------------------------------------
\* No experiment is declared over by mistake, for sessions of every kind.

\* What FinishedInv says of one session.
Own(s) ==
  /\ pc[s] = "idle" => /\ \A j \in Jobs : rowLock[j] # s /\ seen[s][j] = "absent"
                       /\ \A e \in Experiments : expLock[e] # s
  /\ \A j \in Jobs : rowLock[j] = s =>
       /\ seen[s][j] # "absent"
       /\ status[j] \notin TerminalStatuses
       /\ ExpOf[j] \in touched[s] \/ expLock[ExpOf[j]] = s
       /\ status[j] = "BLOCKED" => seen[s][j] = "CANCELLED"
  /\ \A j \in Jobs :
       expLock[ExpOf[j]] = s /\ ExpOf[j] \notin touched[s] /\ seen[s][j] = "absent"
         => status[j] = "absent"
  /\ \A j \in Jobs : seen[s][j] # "absent" /\ rowLock[j] # s =>
       status[j] # "absent" /\ (j \in todo[s] \/ Remembered(s, j))
  /\ pc[s] # "cancel" => todo[s] = {}
  /\ \A j \in todo[s] : rowLock[j] # s /\ seen[s][j] # "absent"

\* A step of one session: it takes free locks and gives up its own, and changes only
\* rows it has locked, under the lock of their experiment.
StepOf(s) ==
  /\ \A t \in Sessions \ {s} :
       pc'[t] = pc[t] /\ seen'[t] = seen[t] /\ todo'[t] = todo[t] /\ touched'[t] = touched[t]
  /\ \A j \in Jobs :
       rowLock'[j] = rowLock[j] \/ (rowLock[j] \in {s, NoOne} /\ rowLock'[j] \in {s, NoOne})
  /\ \A e \in Experiments :
       expLock'[e] = expLock[e] \/ (expLock[e] \in {s, NoOne} /\ expLock'[e] \in {s, NoOne})
  /\ \A j \in Jobs : status'[j] = status[j] \/
       /\ rowLock[j] = s /\ expLock[ExpOf[j]] = s
       /\ status[j] \notin TerminalStatuses /\ status'[j] # "absent"
       /\ status[j] = "BLOCKED" => status'[j] = "CANCELLED"

\* FinishedInv session by session.
LEMMA OwnOfAll ==
  FinishedInv <=> /\ TypeOK /\ NeverFalselyFinished /\ RetriedIsOver
                  /\ \A s \in Sessions : Own(s)
<1>1. (\A s \in Sessions : Own(s)) <=>
        /\ IdleHoldsNothing /\ WrittenGuarded /\ ReadAll
        /\ MemoryHarmless /\ TargetsLoaded /\ BlockedGoesCancelled
  BY DEF Own, IdleHoldsNothing, WrittenGuarded, ReadAll, MemoryHarmless, TargetsLoaded,
         BlockedGoesCancelled
<1> QED BY <1>1 DEF FinishedInv

\* A step of one session keeps what holds of another.
LEMMA OthersOwn ==
  ASSUME TypeOK, NEW s \in Sessions, StepOf(s), NEW t \in Sessions \ {s}, Own(t)
  PROVE  Own(t)'
<1> USE StatusAssumption
<1>1. pc'[t] = pc[t] /\ seen'[t] = seen[t] /\ todo'[t] = todo[t] /\ touched'[t] = touched[t]
  BY DEF StepOf
<1>2. \A j \in Jobs : rowLock'[j] = t <=> rowLock[j] = t
  BY DEF StepOf
<1>3. \A e \in Experiments : expLock'[e] = t <=> expLock[e] = t
  BY DEF StepOf
<1>4. \A j \in Jobs :
        /\ ExpOf[j] \in Experiments
        /\ rowLock[j] = t \/ expLock[ExpOf[j]] = t \/ status[j] \in TerminalStatuses
             => status'[j] = status[j]
        /\ status[j] # "absent" => status'[j] # "absent"
        /\ status[j] \in {"BLOCKED", "CANCELLED"} => status'[j] \in {"BLOCKED", "CANCELLED"}
  BY DEF StepOf, TerminalStatuses
<1>5. \A j \in Jobs : Remembered(t, j) => Remembered(t, j)'
  <2> SUFFICES ASSUME NEW j \in Jobs, Remembered(t, j) PROVE Remembered(t, j)'
    OBVIOUS
  <2>1. CASE seen[t][j] = status[j] /\ (status[j] \in TerminalStatuses \/ expLock[ExpOf[j]] = t)
    BY <1>1, <1>3, <1>4, <2>1 DEF Remembered
  <2>2. CASE seen[t][j] \in {"QUEUED"} \cup ActiveStatuses
    BY <1>1, <2>2 DEF Remembered
  <2>3. CASE /\ seen[t][j] = "BLOCKED" /\ status[j] \in {"BLOCKED", "CANCELLED"}
             /\ \E i \in Jobs :
                  ExpOf[i] = ExpOf[j] /\ seen[t][i] = "SUCCEEDED" /\ status[i] = "SUCCEEDED"
    <3>1. PICK i \in Jobs :
            ExpOf[i] = ExpOf[j] /\ seen[t][i] = "SUCCEEDED" /\ status[i] = "SUCCEEDED"
      BY <2>3
    <3>2. status'[i] = "SUCCEEDED"
      BY <1>4, <3>1 DEF TerminalStatuses
    <3> QED BY <1>1, <1>4, <2>3, <3>1, <3>2 DEF Remembered
  <2> QED BY <2>1, <2>2, <2>3 DEF Remembered
<1>6. pc'[t] = "idle" => /\ \A j \in Jobs : rowLock'[j] # t /\ seen'[t][j] = "absent"
                         /\ \A e \in Experiments : expLock'[e] # t
  BY <1>1, <1>2, <1>3 DEF Own
<1>7. \A j \in Jobs : rowLock'[j] = t =>
        /\ seen'[t][j] # "absent"
        /\ status'[j] \notin TerminalStatuses
        /\ ExpOf[j] \in touched'[t] \/ expLock'[ExpOf[j]] = t
        /\ status'[j] = "BLOCKED" => seen'[t][j] = "CANCELLED"
  BY <1>1, <1>2, <1>3, <1>4 DEF Own
<1>8. \A j \in Jobs :
        expLock'[ExpOf[j]] = t /\ ExpOf[j] \notin touched'[t] /\ seen'[t][j] = "absent"
          => status'[j] = "absent"
  BY <1>1, <1>3, <1>4 DEF Own
<1>9. \A j \in Jobs : seen'[t][j] # "absent" /\ rowLock'[j] # t =>
        status'[j] # "absent" /\ (j \in todo'[t] \/ Remembered(t, j)')
  BY <1>1, <1>2, <1>4, <1>5 DEF Own
<1>10. /\ pc'[t] # "cancel" => todo'[t] = {}
       /\ \A j \in todo'[t] : rowLock'[j] # t /\ seen'[t][j] # "absent"
  <2>1. \A j \in todo[t] : rowLock[j] # t => rowLock'[j] # t
    <3>1. todo[t] \subseteq Jobs
      BY DEF TypeOK
    <3> QED BY <1>2, <3>1
  <2> QED BY <1>1, <2>1 DEF Own
<1> QED BY <1>6, <1>7, <1>8, <1>9, <1>10 DEF Own

\* A step that commits no row leaves retried jobs over.
LEMMA RetriedKept ==
  ASSUME RetriedIsOver, UNCHANGED <<status, retryOf>>,
         \A j \in Jobs : rowLock'[j] = rowLock[j] \/ rowLock[j] = NoOne
  PROVE  RetriedIsOver'
BY DEF RetriedIsOver

\* A step that commits nothing, and points only rows that nobody sees yet at the jobs
\* they retry, declares nothing over.
LEMMA FinishedKept ==
  ASSUME NeverFalselyFinished, UNCHANGED <<status, exp>>,
         \A j \in Jobs : status[j] # "absent" => retryOf'[j] = retryOf[j]
  PROVE  NeverFalselyFinished'
<1>1. \A e \in Experiments : StatusOf(e, status)' = StatusOf(e, status)
  BY SameStatus
<1> QED BY <1>1 DEF NeverFalselyFinished

\* No session is open and no job is over before the first step.
LEMMA FinishedInit == Init => FinishedInv
<1> SUFFICES ASSUME Init PROVE FinishedInv
  OBVIOUS
<1>1. \A s \in Sessions : Own(s)
  BY StatusAssumption DEF Init, Own, Nothing
<1>2. RetriedIsOver
  BY StatusAssumption DEF Init, RetriedIsOver
<1>3. NeverFalselyFinished
  BY DEF Init, NeverFalselyFinished, Unfinished
<1> QED BY <1>1, <1>2, <1>3, InitTypes, OwnOfAll

\* The steps of a session, each with what it leaves of the session itself.
LEMMA SettleOwn ==
  ASSUME TypeOK, NEW s \in Sessions, Own(s), Settle(s)
  PROVE  Own(s)' /\ StepOf(s)
<1> USE StatusAssumption
<1>1. PICK j \in Jobs : \E new \in DispatcherMoves(j) :
        /\ rowLock[j] = NoOne
        /\ rowLock' = [rowLock EXCEPT ![j] = s]
        /\ seen' = [seen EXCEPT ![s][j] = new]
        /\ touched' = [touched EXCEPT ![s] = {ExpOf[j]}]
  BY DEF Settle
<1>2. PICK new \in DispatcherMoves(j) :
        /\ rowLock' = [rowLock EXCEPT ![j] = s]
        /\ seen' = [seen EXCEPT ![s][j] = new]
        /\ touched' = [touched EXCEPT ![s] = {ExpOf[j]}]
  BY <1>1
<1>3. new # "absent" /\ status[j] \notin TerminalStatuses /\ status[j] # "BLOCKED"
  BY DEF DispatcherMoves, TerminalStatuses
<1>4. /\ pc[s] = "idle" /\ pc' = [pc EXCEPT ![s] = "recompute"]
      /\ status' = status /\ expLock' = expLock /\ todo' = todo
  BY DEF Settle
<1>5. /\ \A i \in Jobs : /\ rowLock'[i] = IF i = j THEN s ELSE rowLock[i]
                         /\ rowLock[i] # s /\ seen[s][i] = "absent"
                         /\ seen'[s][i] = IF i = j THEN new ELSE "absent"
      /\ \A e \in Experiments : expLock'[e] # s
      /\ ExpOf[j] \in touched'[s] /\ todo'[s] = {} /\ pc'[s] = "recompute"
      /\ ExpOf \in [Jobs -> Experiments]
  BY <1>2, <1>4 DEF Own, TypeOK
<1>6. Own(s)'
  BY <1>3, <1>4, <1>5 DEF Own
<1>7. \A t \in Sessions \ {s} :
        pc'[t] = pc[t] /\ seen'[t] = seen[t] /\ todo'[t] = todo[t] /\ touched'[t] = touched[t]
  BY <1>2, <1>4 DEF TypeOK
<1>8. StepOf(s)
  BY <1>1, <1>4, <1>5, <1>7 DEF StepOf
<1> QED BY <1>6, <1>8

\* What is read for the first time is read under the lock of the experiment.
LEMMA RecomputeOwn ==
  ASSUME TypeOK, NEW s \in Sessions, Own(s), Recompute(s)
  PROVE  Own(s)' /\ StepOf(s)
<1> USE StatusAssumption
<1>1. PICK e \in Experiments :
        /\ expLock[e] \in {NoOne, s}
        /\ expLock' = [expLock EXCEPT ![e] = s]
        /\ seen' = [seen EXCEPT ![s] = [j \in Jobs |->
                      IF ExpOf[j] = e /\ @[j] = "absent" THEN status[j] ELSE @[j]]]
        /\ touched' = [touched EXCEPT ![s] = @ \ {e}]
  BY DEF Recompute
<1>2. /\ pc[s] \in {"recompute", "revoke"} /\ pc'[s] \in {"recompute", "revoke"}
      /\ \A t \in Sessions \ {s} : pc'[t] = pc[t]
      /\ status' = status /\ rowLock' = rowLock /\ todo' = todo
  BY DEF Recompute, TypeOK
<1>3. /\ \A j \in Jobs : ExpOf[j] \in Experiments
      /\ \A f \in Experiments : expLock'[f] = IF f = e THEN s ELSE expLock[f]
      /\ \A j \in Jobs : seen'[s][j] = IF ExpOf[j] = e /\ seen[s][j] = "absent"
                                         THEN status[j] ELSE seen[s][j]
      /\ touched'[s] = touched[s] \ {e} /\ todo'[s] = {}
  BY <1>1, <1>2 DEF TypeOK, Own
<1>4. \A t \in Sessions \ {s} :
        pc'[t] = pc[t] /\ seen'[t] = seen[t] /\ todo'[t] = todo[t] /\ touched'[t] = touched[t]
  BY <1>1, <1>2 DEF TypeOK
<1>5. StepOf(s)
  BY <1>1, <1>2, <1>3, <1>4 DEF StepOf
<1>6. \A j \in Jobs : rowLock'[j] = s =>
        /\ seen'[s][j] # "absent"
        /\ status'[j] \notin TerminalStatuses
        /\ ExpOf[j] \in touched'[s] \/ expLock'[ExpOf[j]] = s
        /\ status'[j] = "BLOCKED" => seen'[s][j] = "CANCELLED"
  BY <1>2, <1>3 DEF Own
<1>7. \A j \in Jobs :
        expLock'[ExpOf[j]] = s /\ ExpOf[j] \notin touched'[s] /\ seen'[s][j] = "absent"
          => status'[j] = "absent"
  BY <1>2, <1>3 DEF Own
<1>8. ASSUME NEW j \in Jobs, seen'[s][j] # "absent", rowLock'[j] # s
      PROVE  status'[j] # "absent" /\ Remembered(s, j)'
  <2>1. CASE seen[s][j] = "absent"
    <3>1. ExpOf[j] = e /\ seen'[s][j] = status'[j] /\ expLock'[ExpOf[j]] = s
      BY <1>2, <1>3, <1>8, <2>1
    <3> QED BY <1>8, <3>1 DEF Remembered
  <2>2. CASE seen[s][j] # "absent"
    <3>1. status[j] # "absent" /\ Remembered(s, j)
      BY <1>2, <1>8, <2>2 DEF Own
    <3>2. /\ seen'[s][j] = seen[s][j]
          /\ \A i \in Jobs : seen[s][i] = "SUCCEEDED" => seen'[s][i] = "SUCCEEDED"
          /\ expLock[ExpOf[j]] = s => expLock'[ExpOf[j]] = s
      BY <1>3, <2>2
    <3>3. Remembered(s, j)'
      BY <1>2, <3>1, <3>2 DEF Remembered
    <3> QED BY <1>2, <3>1, <3>3
  <2> QED BY <2>1, <2>2
<1>9. Own(s)'
  BY <1>2, <1>3, <1>6, <1>7, <1>8 DEF Own
<1> QED BY <1>5, <1>9

\* At the end of a transaction nothing is held; a commit wrote only what it had guarded.
LEMMA CloseOwn ==
  ASSUME TypeOK, NEW s \in Sessions, Own(s), Commit(s) \/ Abort(s)
  PROVE  Own(s)' /\ StepOf(s)
<1> USE StatusAssumption
<1>1. /\ pc' = [pc EXCEPT ![s] = "idle"]
      /\ seen' = [seen EXCEPT ![s] = Nothing]
      /\ rowLock' = [j \in Jobs |-> IF rowLock[j] = s THEN NoOne ELSE rowLock[j]]
      /\ expLock' = [e \in Experiments |-> IF expLock[e] = s THEN NoOne ELSE expLock[e]]
      /\ todo' = [todo EXCEPT ![s] = {}]
      /\ touched' = [touched EXCEPT ![s] = {}]
  BY DEF Commit, Abort, Close
<1>2. /\ pc'[s] = "idle" /\ todo'[s] = {}
      /\ \A j \in Jobs : ExpOf[j] \in Experiments /\ rowLock'[j] # s /\ seen'[s][j] = "absent"
      /\ \A e \in Experiments : expLock'[e] # s
  BY <1>1 DEF TypeOK, Nothing
<1>3. Own(s)'
  BY <1>2 DEF Own
<1>4. \A t \in Sessions \ {s} :
        pc'[t] = pc[t] /\ seen'[t] = seen[t] /\ todo'[t] = todo[t] /\ touched'[t] = touched[t]
  BY <1>1 DEF TypeOK
<1>5. \A j \in Jobs : status'[j] = status[j] \/
       /\ rowLock[j] = s /\ expLock[ExpOf[j]] = s
       /\ status[j] \notin TerminalStatuses /\ status'[j] # "absent"
       /\ status[j] = "BLOCKED" => status'[j] = "CANCELLED"
  <2>1. CASE Commit(s)
    <3>1. /\ touched[s] = {}
          /\ \A j \in Jobs : status'[j] = IF rowLock[j] = s THEN seen[s][j] ELSE status[j]
      BY <2>1 DEF Commit
    <3> QED BY <3>1 DEF Own
  <2>2. CASE Abort(s)
    BY <2>2 DEF Abort
  <2> QED BY <2>1, <2>2
<1>6. StepOf(s)
  BY <1>1, <1>4, <1>5 DEF StepOf
<1> QED BY <1>3, <1>6

\* A cancel request remembers its targets, and RUNNING jobs it spares.
LEMMA CancelOwn ==
  ASSUME TypeOK, NEW s \in Sessions, Own(s), CancelExperiment(s) \/ CancelJobs(s)
  PROVE  Own(s)' /\ StepOf(s)
<1> USE StatusAssumption
<1>1. /\ pc[s] = "idle" /\ pc' = [pc EXCEPT ![s] = "cancel"]
      /\ status' = status /\ rowLock' = rowLock /\ expLock' = expLock /\ touched' = touched
  BY DEF CancelExperiment, CancelJobs
<1>2. \E loaded \in SUBSET {j \in Jobs : status[j] \in JobStatuses} :
      \E targets \in SUBSET loaded :
        /\ \A j \in loaded \ targets : status[j] = "RUNNING"
        /\ Load(s, loaded)
        /\ todo' = [todo EXCEPT ![s] = targets]
  <2>1. CASE CancelJobs(s)
    <3>1. PICK targets \in SUBSET {j \in Jobs : status[j] \in JobStatuses \ TerminalStatuses} :
            Load(s, targets) /\ todo' = [todo EXCEPT ![s] = targets]
      BY <2>1 DEF CancelJobs
    <3> QED BY <3>1
  <2>2. CASE CancelExperiment(s)
    <3>1. PICK e \in Experiments : \E includeRunning \in BOOLEAN :
            LET jobs == {j \in Jobs : /\ ExpOf[j] = e
                                      /\ status[j] \in JobStatuses \ TerminalStatuses}
                targets == IF includeRunning THEN jobs
                                             ELSE {j \in jobs : status[j] # "RUNNING"} IN
            Load(s, jobs) /\ todo' = [todo EXCEPT ![s] = targets]
      BY <2>2 DEF CancelExperiment
    <3> DEFINE loaded == {j \in Jobs : /\ ExpOf[j] = e
                                       /\ status[j] \in JobStatuses \ TerminalStatuses}
    <3>2. \E includeRunning \in BOOLEAN :
            /\ Load(s, loaded)
            /\ todo' = [todo EXCEPT ![s] = IF includeRunning THEN loaded
                                              ELSE {j \in loaded : status[j] # "RUNNING"}]
      BY <3>1
    <3>3. loaded \in SUBSET {j \in Jobs : status[j] \in JobStatuses}
      OBVIOUS
    <3> HIDE DEF loaded
    <3> QED BY <3>2, <3>3
  <2> QED BY <2>1, <2>2
<1>3. PICK loaded \in SUBSET {j \in Jobs : status[j] \in JobStatuses} :
      \E targets \in SUBSET loaded :
        /\ \A j \in loaded \ targets : status[j] = "RUNNING"
        /\ Load(s, loaded)
        /\ todo' = [todo EXCEPT ![s] = targets]
  BY <1>2
<1>4. PICK targets \in SUBSET loaded :
        /\ \A j \in loaded \ targets : status[j] = "RUNNING"
        /\ todo' = [todo EXCEPT ![s] = targets]
  BY <1>3
<1>5. seen' = [seen EXCEPT ![s] = [j \in Jobs |-> IF j \in loaded THEN status[j] ELSE "absent"]]
  BY <1>3 DEF Load
<1>6. "absent" \notin JobStatuses
  BY DEF JobStatuses, ActiveStatuses, SettledStatuses, TerminalStatuses
<1>7. /\ pc'[s] = "cancel" /\ todo'[s] = targets /\ touched'[s] = touched[s]
      /\ \A j \in Jobs : /\ ExpOf[j] \in Experiments /\ rowLock'[j] # s
                         /\ seen'[s][j] = IF j \in loaded THEN status[j] ELSE "absent"
      /\ \A e \in Experiments : expLock'[e] # s
  BY <1>1, <1>4, <1>5 DEF TypeOK, Own
<1>8. \A j \in Jobs : seen'[s][j] # "absent" =>
        status'[j] # "absent" /\ (j \in todo'[s] \/ Remembered(s, j)')
  <2> SUFFICES ASSUME NEW j \in Jobs, seen'[s][j] # "absent", j \notin targets
               PROVE  seen'[s][j] \in {"QUEUED"} \cup ActiveStatuses
    BY <1>1, <1>6, <1>7 DEF Remembered
  <2>1. j \in loaded /\ seen'[s][j] = "RUNNING"
    BY <1>4, <1>7
  <2> QED BY <2>1 DEF ActiveStatuses
<1>9. \A j \in todo'[s] : rowLock'[j] # s /\ seen'[s][j] # "absent"
  BY <1>6, <1>7
<1>10. Own(s)'
  BY <1>7, <1>8, <1>9 DEF Own
<1>11. \A t \in Sessions \ {s} :
        pc'[t] = pc[t] /\ seen'[t] = seen[t] /\ todo'[t] = todo[t] /\ touched'[t] = touched[t]
  BY <1>1, <1>4, <1>5 DEF TypeOK
<1>12. StepOf(s)
  BY <1>1, <1>11 DEF StepOf
<1> QED BY <1>10, <1>12

\* A target is refreshed when it is visited: written, over, or still unfinished.
LEMMA CancelNextOwn ==
  ASSUME TypeOK, NEW s \in Sessions, Own(s), CancelNext(s)
  PROVE  Own(s)' /\ StepOf(s)
<1> USE StatusAssumption
<1>1. PICK j \in Jobs :
        /\ First(j, todo[s])
        /\ \E outcome \in CancelOutcomes(j) :
             /\ outcome.wrote => rowLock[j] = NoOne
             /\ rowLock' = IF outcome.wrote THEN [rowLock EXCEPT ![j] = s] ELSE rowLock
             /\ seen' = [seen EXCEPT ![s][j] = outcome.as]
        /\ touched' = IF status[j] \in TerminalStatuses THEN touched
                         ELSE [touched EXCEPT ![s] = @ \cup {ExpOf[j]}]
        /\ todo' = [todo EXCEPT ![s] = @ \ {j}]
        /\ pc' = [pc EXCEPT ![s] = IF todo[s] = {j} THEN "recompute" ELSE "cancel"]
  BY DEF CancelNext
<1>2. PICK outcome \in CancelOutcomes(j) :
        /\ outcome.wrote => rowLock[j] = NoOne
        /\ rowLock' = IF outcome.wrote THEN [rowLock EXCEPT ![j] = s] ELSE rowLock
        /\ seen' = [seen EXCEPT ![s][j] = outcome.as]
  BY <1>1
<1>3. status' = status /\ expLock' = expLock /\ pc[s] = "cancel"
  BY DEF CancelNext
<1>4. j \in todo[s] /\ rowLock[j] # s /\ status[j] # "absent"
  BY <1>1 DEF First, Own
<1>5. /\ outcome.wrote \in BOOLEAN /\ outcome.as # "absent"
      /\ outcome.wrote => /\ status[j] \notin TerminalStatuses
                          /\ status[j] = "BLOCKED" => outcome.as = "CANCELLED"
      /\ ~outcome.wrote => \/ outcome.as \in {"QUEUED"} \cup ActiveStatuses
                           \/ outcome.as = status[j] /\ status[j] \in TerminalStatuses
      /\ status[j] = "SUCCEEDED" => outcome.as = "SUCCEEDED"
  <2>1. status[j] \in JobStatuses
    BY <1>4 DEF TypeOK
  <2>2. /\ \A b, as : Left(b, as).wrote = b /\ Left(b, as).as = as
        /\ (j \notin noted) \in BOOLEAN
    BY DEF Left
  <2>3. \/ status[j] \in {"SUBMITTED", "RUNNING"} /\ outcome = Left(TRUE, "CANCELLING")
        \/ status[j] = "BLOCKED" /\ outcome = Left(TRUE, "CANCELLED")
        \/ status[j] = "QUEUED" /\ outcome = Left(TRUE, "CANCELLED")
        \/ status[j] = "QUEUED" /\ outcome = Left(j \notin noted, "QUEUED")
        \/ status[j] = "SUBMITTING" /\ outcome = Left(j \notin noted, "SUBMITTING")
        \/ /\ status[j] \in TerminalStatuses \cup {"CANCELLING"}
           /\ outcome = Left(FALSE, status[j])
    BY <1>2, <1>4, <2>1 DEF CancelOutcomes, JobStatuses, ActiveStatuses, SettledStatuses
  <2>4. CASE status[j] \in {"SUBMITTED", "RUNNING"} /\ outcome = Left(TRUE, "CANCELLING")
    BY <2>2, <2>4 DEF TerminalStatuses
  <2>5. CASE status[j] = "BLOCKED" /\ outcome = Left(TRUE, "CANCELLED")
    BY <2>2, <2>5 DEF TerminalStatuses
  <2>6. CASE status[j] = "QUEUED" /\ outcome = Left(TRUE, "CANCELLED")
    BY <2>2, <2>6 DEF TerminalStatuses
  <2>7. CASE status[j] = "QUEUED" /\ outcome = Left(j \notin noted, "QUEUED")
    BY <2>2, <2>7 DEF TerminalStatuses
  <2>8. CASE status[j] = "SUBMITTING" /\ outcome = Left(j \notin noted, "SUBMITTING")
    BY <2>2, <2>8 DEF TerminalStatuses, ActiveStatuses
  <2>9. CASE /\ status[j] \in TerminalStatuses \cup {"CANCELLING"}
             /\ outcome = Left(FALSE, status[j])
    <3>1. outcome.wrote = FALSE /\ outcome.as = status[j]
      BY <2>2, <2>9
    <3> QED BY <1>4, <2>9, <3>1 DEF TerminalStatuses, ActiveStatuses
  <2> QED BY <2>3, <2>4, <2>5, <2>6, <2>7, <2>8, <2>9
<1>6. /\ \A i \in Jobs : /\ ExpOf[i] \in Experiments
                         /\ seen'[s][i] = IF i = j THEN outcome.as ELSE seen[s][i]
                         /\ i # j => rowLock'[i] = rowLock[i]
      /\ rowLock'[j] = IF outcome.wrote THEN s ELSE rowLock[j]
      /\ touched'[s] = touched[s] \/ touched'[s] = touched[s] \cup {ExpOf[j]}
      /\ status[j] \notin TerminalStatuses => ExpOf[j] \in touched'[s]
      /\ todo'[s] = todo[s] \ {j} /\ todo[s] \subseteq Jobs
      /\ pc'[s] = IF todo[s] = {j} THEN "recompute" ELSE "cancel"
  BY <1>1, <1>2 DEF TypeOK
<1>7. \A i \in Jobs : rowLock'[i] = s =>
        /\ seen'[s][i] # "absent"
        /\ status'[i] \notin TerminalStatuses
        /\ ExpOf[i] \in touched'[s] \/ expLock'[ExpOf[i]] = s
        /\ status'[i] = "BLOCKED" => seen'[s][i] = "CANCELLED"
  <2> SUFFICES ASSUME NEW i \in Jobs, rowLock'[i] = s
               PROVE  /\ seen'[s][i] # "absent"
                      /\ status'[i] \notin TerminalStatuses
                      /\ ExpOf[i] \in touched'[s] \/ expLock'[ExpOf[i]] = s
                      /\ status'[i] = "BLOCKED" => seen'[s][i] = "CANCELLED"
    OBVIOUS
  <2>1. CASE i = j
    BY <1>3, <1>4, <1>5, <1>6, <2>1
  <2>2. CASE i # j
    BY <1>3, <1>6, <2>2 DEF Own
  <2> QED BY <2>1, <2>2
<1>8. \A i \in Jobs :
        expLock'[ExpOf[i]] = s /\ ExpOf[i] \notin touched'[s] /\ seen'[s][i] = "absent"
          => status'[i] = "absent"
  BY <1>3, <1>5, <1>6 DEF Own
<1>9. ASSUME NEW i \in Jobs, seen'[s][i] # "absent", rowLock'[i] # s
      PROVE  status'[i] # "absent" /\ (i \in todo'[s] \/ Remembered(s, i)')
  <2>1. CASE i = j
    <3>1. \/ seen'[s][j] \in {"QUEUED"} \cup ActiveStatuses
          \/ seen'[s][j] = status'[j] /\ status'[j] \in TerminalStatuses
      BY <1>3, <1>5, <1>6, <1>9, <2>1
    <3> QED BY <1>3, <1>4, <2>1, <3>1 DEF Remembered
  <2>2. CASE i # j
    <3>1. status[i] # "absent" /\ (i \in todo[s] \/ Remembered(s, i))
      BY <1>6, <1>9, <2>2 DEF Own
    <3>2. /\ seen'[s][i] = seen[s][i] /\ status' = status /\ expLock' = expLock
          /\ \A k \in Jobs : seen[s][k] = "SUCCEEDED" /\ status[k] = "SUCCEEDED"
               => seen'[s][k] = "SUCCEEDED"
      BY <1>3, <1>5, <1>6, <2>2
    <3>3. Remembered(s, i) => Remembered(s, i)'
      BY <3>2 DEF Remembered
    <3> QED BY <1>3, <1>6, <2>2, <3>1, <3>3
  <2> QED BY <2>1, <2>2
<1>10. /\ pc'[s] # "idle" /\ (pc'[s] # "cancel" => todo'[s] = {})
       /\ \A i \in todo'[s] : rowLock'[i] # s /\ seen'[s][i] # "absent"
  BY <1>6 DEF Own
<1>11. Own(s)'
  BY <1>7, <1>8, <1>9, <1>10 DEF Own
<1>12. \A t \in Sessions \ {s} :
        pc'[t] = pc[t] /\ seen'[t] = seen[t] /\ todo'[t] = todo[t] /\ touched'[t] = touched[t]
  BY <1>1, <1>2 DEF TypeOK
<1>13. \A i \in Jobs :
         rowLock'[i] = rowLock[i] \/ (rowLock[i] \in {s, NoOne} /\ rowLock'[i] \in {s, NoOne})
  BY <1>2, <1>5, <1>6
<1>14. StepOf(s)
  BY <1>3, <1>12, <1>13 DEF StepOf
<1> QED BY <1>11, <1>14

\* A retry writes the new attempt and a blocked one; the other kinds it retries are over.
LEMMA RetryOwn ==
  ASSUME TypeOK, NEW s \in Sessions, Own(s), Retry(s)
  PROVE  Own(s)' /\ StepOf(s)
<1> USE StatusAssumption
<1>1. PICK j \in Jobs : \E k \in Jobs :
        /\ status[j] \in RetryableStatuses
        /\ status[k] = "absent" /\ rowLock[k] = NoOne /\ ExpOf[k] = ExpOf[j]
        /\ rowLock[j] = NoOne
        /\ rowLock' = [i \in Jobs |-> IF i = k \/ (i = j /\ status[j] = "BLOCKED")
                                        THEN s ELSE rowLock[i]]
        /\ seen' = [seen EXCEPT ![s][j] = IF status[j] = "BLOCKED" THEN "CANCELLED"
                                                                  ELSE status[j],
                                ![s][k] = "QUEUED"]
        /\ touched' = [touched EXCEPT ![s] = {ExpOf[j]}]
  BY DEF Retry
<1>2. PICK k \in Jobs :
        /\ status[k] = "absent" /\ rowLock[k] = NoOne /\ ExpOf[k] = ExpOf[j]
        /\ rowLock' = [i \in Jobs |-> IF i = k \/ (i = j /\ status[j] = "BLOCKED")
                                        THEN s ELSE rowLock[i]]
        /\ seen' = [seen EXCEPT ![s][j] = IF status[j] = "BLOCKED" THEN "CANCELLED"
                                                                  ELSE status[j],
                                ![s][k] = "QUEUED"]
  BY <1>1
<1>3. /\ pc[s] = "idle" /\ pc' = [pc EXCEPT ![s] = "insert"]
      /\ status' = status /\ expLock' = expLock /\ todo' = todo
  BY DEF Retry
<1>4. /\ j # k /\ status[j] # "absent"
      /\ status[j] # "BLOCKED" => status[j] \in TerminalStatuses
      /\ status[j] = "BLOCKED" => status[j] \notin TerminalStatuses
      /\ status[k] \notin TerminalStatuses
  BY <1>1, <1>2 DEF RetryableStatuses, TerminalStatuses
<1>5. /\ \A i \in Jobs :
           /\ ExpOf[i] \in Experiments /\ rowLock[i] # s /\ seen[s][i] = "absent"
           /\ rowLock'[i] = IF i = k \/ (i = j /\ status[j] = "BLOCKED") THEN s ELSE rowLock[i]
           /\ i # j /\ i # k => seen'[s][i] = "absent"
      /\ seen'[s][k] = "QUEUED"
      /\ seen'[s][j] = IF status[j] = "BLOCKED" THEN "CANCELLED" ELSE status[j]
      /\ touched'[s] = {ExpOf[j]} /\ todo'[s] = {} /\ pc'[s] = "insert"
      /\ \A e \in Experiments : expLock'[e] # s
  BY <1>1, <1>2, <1>3, <1>4 DEF Own, TypeOK
<1>6. \A i \in Jobs : rowLock'[i] = s =>
        /\ seen'[s][i] # "absent"
        /\ status'[i] \notin TerminalStatuses
        /\ ExpOf[i] \in touched'[s]
        /\ status'[i] = "BLOCKED" => seen'[s][i] = "CANCELLED"
  BY <1>2, <1>3, <1>4, <1>5
<1>7. \A i \in Jobs : seen'[s][i] # "absent" /\ rowLock'[i] # s =>
        status'[i] # "absent" /\ Remembered(s, i)'
  <2> SUFFICES ASSUME NEW i \in Jobs, seen'[s][i] # "absent", rowLock'[i] # s
               PROVE  status'[i] # "absent" /\ Remembered(s, i)'
    OBVIOUS
  <2>1. i = j /\ status[j] # "BLOCKED"
    BY <1>5
  <2>2. seen'[s][i] = status'[i] /\ status'[i] \in TerminalStatuses
    BY <1>3, <1>4, <1>5, <2>1
  <2> QED BY <1>3, <1>4, <2>1, <2>2 DEF Remembered
<1>8. Own(s)'
  BY <1>5, <1>6, <1>7 DEF Own
<1>9. \A t \in Sessions \ {s} :
        pc'[t] = pc[t] /\ seen'[t] = seen[t] /\ todo'[t] = todo[t] /\ touched'[t] = touched[t]
  BY <1>1, <1>2, <1>3 DEF TypeOK
<1>10. \A i \in Jobs :
         rowLock'[i] = rowLock[i] \/ (rowLock[i] = NoOne /\ rowLock'[i] = s)
  BY <1>1, <1>2, <1>5
<1>11. StepOf(s)
  BY <1>3, <1>9, <1>10 DEF StepOf
<1> QED BY <1>8, <1>11

\* The flush of a retry only takes the lock of its experiment.
LEMMA RetryInsertOwn ==
  ASSUME TypeOK, NEW s \in Sessions, Own(s), RetryInsert(s)
  PROVE  Own(s)' /\ StepOf(s)
<1> USE StatusAssumption
<1>1. PICK e \in touched[s] : expLock[e] = NoOne /\ expLock' = [expLock EXCEPT ![e] = s]
  BY DEF RetryInsert
<1>2. /\ pc[s] = "insert" /\ pc' = [pc EXCEPT ![s] = "recompute"]
      /\ status' = status /\ seen' = seen /\ rowLock' = rowLock /\ todo' = todo
      /\ touched' = touched
  BY DEF RetryInsert
<1>3. /\ \A j \in Jobs : ExpOf[j] \in Experiments
      /\ \A f \in Experiments : expLock'[f] = IF f = e THEN s ELSE expLock[f]
      /\ pc'[s] = "recompute" /\ todo'[s] = {}
  BY <1>1, <1>2 DEF TypeOK, Own
<1>4. \A j \in Jobs : expLock[ExpOf[j]] = s => expLock'[ExpOf[j]] = s
  BY <1>3
<1>5. \A j \in Jobs : Remembered(s, j) => Remembered(s, j)'
  BY <1>2, <1>4 DEF Remembered
<1>6. \A j \in Jobs : rowLock'[j] = s =>
        /\ seen'[s][j] # "absent"
        /\ status'[j] \notin TerminalStatuses
        /\ ExpOf[j] \in touched'[s] \/ expLock'[ExpOf[j]] = s
        /\ status'[j] = "BLOCKED" => seen'[s][j] = "CANCELLED"
  BY <1>2, <1>4 DEF Own
<1>7. \A j \in Jobs :
        expLock'[ExpOf[j]] = s /\ ExpOf[j] \notin touched'[s] /\ seen'[s][j] = "absent"
          => status'[j] = "absent"
  BY <1>1, <1>2, <1>3 DEF Own
<1>8. \A j \in Jobs : seen'[s][j] # "absent" /\ rowLock'[j] # s =>
        status'[j] # "absent" /\ (j \in todo'[s] \/ Remembered(s, j)')
  BY <1>2, <1>5 DEF Own
<1>9. Own(s)'
  BY <1>3, <1>6, <1>7, <1>8 DEF Own
<1>10. \A t \in Sessions \ {s} :
        pc'[t] = pc[t] /\ seen'[t] = seen[t] /\ todo'[t] = todo[t] /\ touched'[t] = touched[t]
  BY <1>2 DEF TypeOK
<1>11. StepOf(s)
  BY <1>1, <1>2, <1>3, <1>10 DEF StepOf
<1> QED BY <1>9, <1>11

\* A sweep starts beside a succeeded job, or when all jobs are over.
LEMMA SweepOwn ==
  ASSUME TypeOK, NEW s \in Sessions, Own(s), Sweep(s)
  PROVE  Own(s)' /\ StepOf(s)
<1> USE StatusAssumption
<1>1. PICK e \in Experiments :
        /\ \/ GraceOver(e)
           \/ \E j \in Current(e, status) : status[j] = "SUCCEEDED"
        /\ Load(s, Current(e, status))
        /\ touched' = [touched EXCEPT ![s] = {e}]
  BY DEF Sweep
<1>2. /\ pc[s] = "idle"
      /\ pc' = [pc EXCEPT ![s] = "recompute"] \/ pc' = [pc EXCEPT ![s] = "revoke"]
      /\ status' = status /\ rowLock' = rowLock /\ expLock' = expLock /\ todo' = todo
  BY DEF Sweep
<1>3. \A j \in Current(e, status) : j \in Jobs /\ ExpOf[j] = e /\ status[j] # "absent"
  BY DEF Current
<1>4. seen' = [seen EXCEPT ![s] = [j \in Jobs |-> IF j \in Current(e, status) THEN status[j]
                                                                            ELSE "absent"]]
  BY <1>1 DEF Load
<1>5. /\ pc'[s] \in {"recompute", "revoke"} /\ todo'[s] = {} /\ touched'[s] = {e}
      /\ \A j \in Jobs : /\ ExpOf[j] \in Experiments /\ rowLock'[j] # s
                         /\ seen'[s][j] = IF j \in Current(e, status) THEN status[j] ELSE "absent"
      /\ \A f \in Experiments : expLock'[f] # s
  BY <1>1, <1>2, <1>4 DEF TypeOK, Own
<1>6. \A j \in Jobs : seen'[s][j] # "absent" => status'[j] # "absent" /\ Remembered(s, j)'
  <2> SUFFICES ASSUME NEW j \in Jobs, j \in Current(e, status)
               PROVE  Remembered(s, j)'
    BY <1>2, <1>3, <1>5
  <2>1. seen'[s][j] = status'[j] /\ status'[j] = status[j]
    BY <1>2, <1>5
  <2>2. \/ status[j] \in TerminalStatuses
        \/ status[j] \in {"QUEUED"} \cup ActiveStatuses
        \/ status[j] = "BLOCKED"
    BY <1>3 DEF TypeOK, JobStatuses, SettledStatuses
  <2>3. CASE status[j] = "BLOCKED"
    <3>1. ~GraceOver(e)
      BY <2>3 DEF GraceOver, AllIn, TerminalStatuses
    <3>2. PICK i \in Current(e, status) : status[i] = "SUCCEEDED"
      BY <1>1, <3>1
    <3>3. i \in Jobs /\ ExpOf[i] = ExpOf[j] /\ seen'[s][i] = "SUCCEEDED" /\ status'[i] = "SUCCEEDED"
      BY <1>2, <1>3, <1>5, <3>2
    <3> QED BY <2>1, <2>3, <3>3 DEF Remembered
  <2>4. CASE status[j] \in TerminalStatuses
    BY <2>1, <2>4 DEF Remembered
  <2>5. CASE status[j] \in {"QUEUED"} \cup ActiveStatuses
    BY <2>1, <2>5 DEF Remembered
  <2> QED BY <2>2, <2>3, <2>4, <2>5
<1>7. Own(s)'
  BY <1>5, <1>6 DEF Own
<1>8. \A t \in Sessions \ {s} :
        pc'[t] = pc[t] /\ seen'[t] = seen[t] /\ todo'[t] = todo[t] /\ touched'[t] = touched[t]
  BY <1>1, <1>2, <1>4 DEF TypeOK
<1>9. StepOf(s)
  BY <1>2, <1>8 DEF StepOf
<1> QED BY <1>7, <1>9

\* A status with a waiting or an active job among those it sums up is unfinished.
LEMMA AggregateUnfinished ==
  ASSUME NEW S, S \cap ({"QUEUED"} \cup ActiveStatuses) # {}
  PROVE  Aggregate(S) \in Unfinished
<1>1. CASE S \subseteq {"QUEUED"}
  <2>1. S = {"QUEUED"}
    BY <1>1
  <2>2. S \cap ActiveStatuses = {} /\ S # {"CANCELLED"} /\ S # {"SUCCEEDED"}
    BY <2>1 DEF ActiveStatuses
  <2> QED BY <1>1, <2>1, <2>2 DEF Aggregate, Unfinished
<1>2. CASE ~(S \subseteq {"QUEUED"})
  <2>1. S # {"CANCELLED"} /\ S # {"SUCCEEDED"} /\ S # {"QUEUED"}
    BY <1>2 DEF ActiveStatuses
  <2>2. S \cap ActiveStatuses # {} \/ ("QUEUED" \in S /\ S \cap ActiveStatuses = {})
    OBVIOUS
  <2> QED BY <1>2, <2>1, <2>2 DEF Aggregate, Unfinished
<1> QED BY <1>1, <1>2

\* One with a success beside something else, and nothing unfinished, is PARTIAL.
LEMMA AggregatePartial ==
  ASSUME NEW S, S \cap ({"QUEUED"} \cup ActiveStatuses) = {}, "SUCCEEDED" \in S,
         NEW x \in S, x # "SUCCEEDED"
  PROVE  Aggregate(S) = "PARTIAL"
<1>1. ~(S \subseteq {"QUEUED"}) /\ S \cap ActiveStatuses = {} /\ "QUEUED" \notin S
  OBVIOUS
<1>2. S # {"CANCELLED"} /\ S # {"SUCCEEDED"}
  OBVIOUS
<1> QED BY <1>1, <1>2 DEF Aggregate

\* A commit that declares an experiment over says of it what its rows say.
LEMMA CommitFinished ==
  ASSUME FinishedInv, NEW s \in Sessions, Commit(s)
  PROVE  NeverFalselyFinished'
<1> USE StatusAssumption
<1>1. /\ touched[s] = {} /\ pc[s] \in {"recompute", "revoke"} /\ retryOf' = retryOf
      /\ status' = [j \in Jobs |-> IF rowLock[j] = s THEN seen[s][j] ELSE status[j]]
      /\ exp' = [e \in Experiments |->
                   IF expLock[e] = s THEN StatusOf(e, seen[s]) ELSE exp[e]]
  BY DEF Commit
<1>2. /\ TypeOK /\ NeverFalselyFinished /\ RetriedIsOver /\ Own(s)
  BY OwnOfAll
<1> SUFFICES ASSUME NEW e \in Experiments, exp'[e] \notin Unfinished
             PROVE  exp'[e] = StatusOf(e, status)'
  BY DEF NeverFalselyFinished
<1>3. CASE expLock[e] # s
  <2>1. \A j \in Jobs : ExpOf[j] = e => status'[j] = status[j]
    BY <1>1, <1>2, <1>3 DEF Own
  <2>2. StatusOf(e, status)' = StatusOf(e, status)
    BY <1>1, <2>1, SameStatus
  <2> QED BY <1>1, <1>2, <1>3, <2>2 DEF NeverFalselyFinished
<1>4. CASE expLock[e] = s
  <2> DEFINE rows == Current(e, seen[s])
             known == {seen[s][j] : j \in rows}
             actual == {status'[j] : j \in rows}
  <2>1. \A j \in rows : j \in Jobs /\ ExpOf[j] = e /\ seen[s][j] # "absent"
    BY DEF Current
  <2>2. exp'[e] = Aggregate(known)
    BY <1>1, <1>4 DEF StatusOf
  <2>3. \A j \in Jobs : ExpOf[j] = e =>
          /\ status'[j] = IF rowLock[j] = s THEN seen[s][j] ELSE status[j]
          /\ seen[s][j] = "absent" <=> status'[j] = "absent"
    BY <1>1, <1>2, <1>4 DEF Own
  <2>4. Current(e, status)' = rows
    BY <1>1, <2>3 DEF Current
  <2>5. StatusOf(e, status)' = Aggregate(actual)
    BY <2>4 DEF StatusOf
  <2>6. known \cap ({"QUEUED"} \cup ActiveStatuses) = {}
    <3> HIDE DEF known
    <3> QED BY <2>2, AggregateUnfinished
  <2>7. \A j \in rows : seen[s][j] \notin {"QUEUED"} \cup ActiveStatuses
    BY <2>6
  <2>8. \A j \in rows : status'[j] = seen[s][j] \/ (rowLock[j] # s /\ Remembered(s, j))
    BY <1>1, <1>2, <2>1, <2>3 DEF Own
  <2>9. CASE \A j \in rows : status'[j] = seen[s][j]
    <3>1. actual = known
      BY <2>9
    <3> QED BY <2>2, <2>5, <3>1
  <2>10. CASE \E j \in rows : status'[j] # seen[s][j]
    <3>1. PICK j \in rows : status'[j] # seen[s][j]
      BY <2>10
    <3>2. /\ seen[s][j] = "BLOCKED"
          /\ \E i \in Jobs :
               ExpOf[i] = ExpOf[j] /\ seen[s][i] = "SUCCEEDED" /\ status[i] = "SUCCEEDED"
      BY <2>1, <2>3, <2>7, <2>8, <3>1 DEF Remembered
    <3>3. PICK i \in Jobs : ExpOf[i] = e /\ seen[s][i] = "SUCCEEDED" /\ status[i] = "SUCCEEDED"
      BY <2>1, <3>2
    <3>4. i \in rows
      BY <1>2, <3>3 DEF RetriedIsOver, Current
    <3>5. status'[i] = "SUCCEEDED"
      BY <2>3, <3>3
    <3>6. \A k \in rows : status'[k] \in {seen[s][k], "BLOCKED", "CANCELLED"}
      BY <2>1, <2>3, <2>7, <2>8 DEF Remembered
    <3>7. actual \cap ({"QUEUED"} \cup ActiveStatuses) = {}
      BY <2>7, <3>6 DEF ActiveStatuses
    <3>8. status'[j] \in {"BLOCKED", "CANCELLED"}
      BY <3>1, <3>6
    <3>9. /\ "SUCCEEDED" \in known /\ "BLOCKED" \in known
          /\ "SUCCEEDED" \in actual /\ status'[j] \in actual
      BY <3>1, <3>2, <3>3, <3>4, <3>5
    <3> HIDE DEF known, actual
    <3>10. Aggregate(known) = "PARTIAL"
      BY <2>6, <3>9, AggregatePartial
    <3>11. Aggregate(actual) = "PARTIAL"
      BY <3>7, <3>8, <3>9, AggregatePartial
    <3> QED BY <2>2, <2>5, <3>10, <3>11
  <2> QED BY <2>9, <2>10
<1> QED BY <1>3, <1>4

\* A commit or an abort leaves retried jobs over, or not retried.
LEMMA CloseRetried ==
  ASSUME FinishedInv, NEW s \in Sessions, Commit(s) \/ Abort(s)
  PROVE  RetriedIsOver'
<1> USE StatusAssumption
<1>1. TypeOK /\ RetriedIsOver /\ Own(s)
  BY OwnOfAll
<1>2. rowLock' = [j \in Jobs |-> IF rowLock[j] = s THEN NoOne ELSE rowLock[j]]
  BY DEF Commit, Abort, Close
<1> SUFFICES ASSUME NEW j \in Jobs, NEW k \in Jobs, retryOf'[k] = j
             PROVE  \/ status'[j] \in {"FAILED", "CANCELLED", "TIMED_OUT"}
                    \/ /\ status'[j] = "BLOCKED" /\ status'[k] = "absent"
                       /\ rowLock'[j] = rowLock'[k] /\ rowLock'[k] # NoOne
  BY DEF RetriedIsOver
<1>3. CASE Commit(s)
  <2>1. /\ retryOf[k] = j
        /\ \A i \in Jobs : status'[i] = IF rowLock[i] = s THEN seen[s][i] ELSE status[i]
    BY <1>3 DEF Commit
  <2>2. CASE status[j] \in {"FAILED", "CANCELLED", "TIMED_OUT"}
    BY <1>1, <2>1, <2>2 DEF Own, TerminalStatuses
  <2>3. CASE /\ status[j] = "BLOCKED" /\ status[k] = "absent"
             /\ rowLock[j] = rowLock[k] /\ rowLock[k] # NoOne
    BY <1>1, <1>2, <2>1, <2>3 DEF Own
  <2> QED BY <1>1, <2>1, <2>2, <2>3 DEF RetriedIsOver
<1>4. CASE Abort(s)
  <2>1. /\ status' = status
        /\ ~(rowLock[k] = s /\ status[k] = "absent") /\ retryOf[k] = j
    BY <1>4 DEF Abort
  <2> QED BY <1>1, <1>2, <2>1 DEF RetriedIsOver
<1> QED BY <1>3, <1>4

\* A retry points at a job that is over, or at a blocked one it has locked.
LEMMA RetryRetried ==
  ASSUME RetriedIsOver, NEW s \in Sessions, Retry(s), TypeOK
  PROVE  RetriedIsOver'
<1> USE StatusAssumption
<1>1. PICK j, k \in Jobs :
        /\ status[j] \in RetryableStatuses
        /\ status[k] = "absent" /\ rowLock[k] = NoOne
        /\ rowLock[j] = NoOne
        /\ rowLock' = [i \in Jobs |-> IF i = k \/ (i = j /\ status[j] = "BLOCKED")
                                        THEN s ELSE rowLock[i]]
        /\ retryOf' = [retryOf EXCEPT ![k] = j]
  BY DEF Retry
<1>2. status' = status
  BY DEF Retry
<1>3. \A i \in Jobs : /\ rowLock[i] # NoOne => rowLock'[i] = rowLock[i]
                      /\ retryOf'[i] = IF i = k THEN j ELSE retryOf[i]
  BY <1>1 DEF TypeOK
<1>4. status[j] = "BLOCKED" => rowLock'[j] = s /\ rowLock'[k] = s
  BY <1>1
<1> SUFFICES ASSUME NEW i \in Jobs, NEW n \in Jobs, retryOf'[n] = i
             PROVE  \/ status'[i] \in {"FAILED", "CANCELLED", "TIMED_OUT"}
                    \/ /\ status'[i] = "BLOCKED" /\ status'[n] = "absent"
                       /\ rowLock'[i] = rowLock'[n] /\ rowLock'[n] # NoOne
  BY DEF RetriedIsOver
<1>5. CASE n = k
  BY <1>1, <1>2, <1>3, <1>4, <1>5 DEF RetryableStatuses
<1>6. CASE n # k
  BY <1>2, <1>3, <1>6 DEF RetriedIsOver
<1> QED BY <1>5, <1>6

\* The inductive invariant behind NeverFalselyFinished, for sessions of every kind.
THEOREM FinishedInductive == Spec => []FinishedInv
<1>0. (TypeOK /\ NeverFalselyFinished /\ RetriedIsOver /\ \A s \in Sessions : Own(s))'
        => FinishedInv'
  BY OwnOfAll, PTL
<1>1. FinishedInv /\ [Next]_vars => FinishedInv'
  <2> SUFFICES ASSUME FinishedInv, [Next]_vars PROVE FinishedInv'
    OBVIOUS
  <2> USE StatusAssumption
  <2>0. /\ TypeOK /\ NeverFalselyFinished /\ RetriedIsOver /\ \A s \in Sessions : Own(s)
        /\ TypeOK'
    BY OwnOfAll, NextTypes
  <2>1. ASSUME NEW s \in Sessions, StepOf(s), Own(s)', NeverFalselyFinished', RetriedIsOver'
        PROVE  FinishedInv'
    <3>1. \A t \in Sessions \ {s} : Own(t)'
      BY <2>0, <2>1, OthersOwn
    <3>2. (\A t \in Sessions : Own(t))'
      BY <2>1, <3>1
    <3>3. TypeOK' /\ NeverFalselyFinished' /\ RetriedIsOver'
      BY <2>0, <2>1
    <3> QED BY <1>0, <3>2, <3>3
  <2>2. ASSUME NEW s \in Sessions, Settle(s) PROVE FinishedInv'
    <3>1. UNCHANGED committed /\ \A j \in Jobs : rowLock'[j] = rowLock[j] \/ rowLock[j] = NoOne
      BY <2>0, <2>2 DEF Settle, TypeOK
    <3> QED BY <2>0, <2>1, <2>2, <3>1, SettleOwn, FinishedKept, RetriedKept
  <2>3. ASSUME NEW s \in Sessions, Recompute(s) PROVE FinishedInv'
    <3>1. UNCHANGED committed /\ UNCHANGED rowLock
      BY <2>3 DEF Recompute
    <3> QED BY <2>0, <2>1, <2>3, <3>1, RecomputeOwn, FinishedKept, RetriedKept
  <2>4. ASSUME NEW s \in Sessions, Commit(s) PROVE FinishedInv'
    BY <2>0, <2>1, <2>4, CloseOwn, CommitFinished, CloseRetried
  <2>5. ASSUME NEW s \in Sessions, Abort(s) PROVE FinishedInv'
    <3>1. /\ UNCHANGED <<status, exp>>
          /\ \A j \in Jobs : status[j] # "absent" => retryOf'[j] = retryOf[j]
      BY <2>0, <2>5 DEF Abort, TypeOK
    <3> QED BY <2>0, <2>1, <2>5, <3>1, CloseOwn, FinishedKept, CloseRetried
  <2>6. ASSUME NEW s \in Sessions, CancelExperiment(s) \/ CancelJobs(s) PROVE FinishedInv'
    <3>1. UNCHANGED committed /\ UNCHANGED rowLock
      BY <2>6 DEF CancelExperiment, CancelJobs
    <3> QED BY <2>0, <2>1, <2>6, <3>1, CancelOwn, FinishedKept, RetriedKept
  <2>7. ASSUME NEW s \in Sessions, CancelNext(s) PROVE FinishedInv'
    <3>1. UNCHANGED committed /\ \A j \in Jobs : rowLock'[j] = rowLock[j] \/ rowLock[j] = NoOne
      <4>1. PICK j \in Jobs : \E outcome \in CancelOutcomes(j) :
              /\ outcome.wrote => rowLock[j] = NoOne
              /\ rowLock' = IF outcome.wrote THEN [rowLock EXCEPT ![j] = s] ELSE rowLock
        BY <2>7 DEF CancelNext
      <4> QED BY <2>0, <2>7, <4>1 DEF CancelNext, TypeOK
    <3> QED BY <2>0, <2>1, <2>7, <3>1, CancelNextOwn, FinishedKept, RetriedKept
  <2>8. ASSUME NEW s \in Sessions, Retry(s) PROVE FinishedInv'
    <3>1. /\ UNCHANGED <<status, exp>>
          /\ \A j \in Jobs : status[j] # "absent" => retryOf'[j] = retryOf[j]
      BY <2>0, <2>8 DEF Retry, TypeOK
    <3> QED BY <2>0, <2>1, <2>8, <3>1, RetryOwn, FinishedKept, RetryRetried
  <2>9. ASSUME NEW s \in Sessions, RetryInsert(s) PROVE FinishedInv'
    <3>1. UNCHANGED committed /\ UNCHANGED rowLock
      BY <2>9 DEF RetryInsert
    <3> QED BY <2>0, <2>1, <2>9, <3>1, RetryInsertOwn, FinishedKept, RetriedKept
  <2>10. ASSUME NEW s \in Sessions, Sweep(s) PROVE FinishedInv'
    <3>1. UNCHANGED committed /\ UNCHANGED rowLock
      BY <2>10 DEF Sweep
    <3> QED BY <2>0, <2>1, <2>10, <3>1, SweepOwn, FinishedKept, RetriedKept
  <2>11. ASSUME Settled \/ UNCHANGED vars PROVE FinishedInv'
    <3>1. UNCHANGED <<committed, session>>
      BY <2>11 DEF Settled
    <3>2. (\A s \in Sessions : Own(s))'
      BY <2>0, <3>1 DEF Own, Remembered
    <3>3. NeverFalselyFinished' /\ RetriedIsOver'
      BY <2>0, <3>1, FinishedKept, RetriedKept
    <3> QED BY <1>0, <2>0, <3>2, <3>3
  <2> QED BY <2>2, <2>3, <2>4, <2>5, <2>6, <2>7, <2>8, <2>9, <2>10, <2>11 DEF Next
<1> QED BY <1>1, FinishedInit, PTL DEF Spec

\* Whatever a session still remembers, it never declares an experiment over, or over
\* with the wrong outcome, while its jobs say otherwise.
THEOREM NeverOverByMistake == Spec => []NeverFalselyFinished
<1>1. FinishedInv => NeverFalselyFinished
  BY DEF FinishedInv
<1> QED BY <1>1, FinishedInductive, PTL

-----------------------------------------------------------------------------
\* The keys that work needs stay, for sessions of every kind.

\* A step that commits nothing, and points only rows that nobody sees yet at the jobs
\* they retry, takes no key.
LEMMA WorkKept ==
  ASSUME KeysForWork, PlatformKeyForWork, UNCHANGED <<status, secrets, apiKey>>,
         \A j \in Jobs : status[j] # "absent" => retryOf'[j] = retryOf[j]
  PROVE  KeysForWork' /\ PlatformKeyForWork'
<1>1. \A e \in Experiments : Current(e, status)' = Current(e, status)
  BY SameCurrent
<1> QED BY <1>1 DEF KeysForWork, PlatformKeyForWork

\* What a session commits of an experiment it locked: of every row that it has seen
\* over, the row is over.
LEMMA CommitSeen ==
  ASSUME TypeOK, NEW s \in Sessions, Own(s), Commit(s),
         NEW e \in Experiments, expLock[e] = s
  PROVE  /\ \A j \in Jobs : ExpOf[j] = e => (seen[s][j] = "absent" <=> status'[j] = "absent")
         /\ Current(e, status)' = Current(e, seen[s])
         /\ \A j \in Current(e, seen[s]) :
              /\ seen[s][j] \in SettledStatuses => status'[j] \in SettledStatuses
              /\ seen[s][j] \in TerminalStatuses => status'[j] \in TerminalStatuses
<1> USE StatusAssumption
<1>1. /\ touched[s] = {} /\ pc[s] \in {"recompute", "revoke"} /\ retryOf' = retryOf
      /\ status' = [j \in Jobs |-> IF rowLock[j] = s THEN seen[s][j] ELSE status[j]]
  BY DEF Commit
<1>2. \A j \in Jobs : ExpOf[j] = e =>
        /\ status'[j] = IF rowLock[j] = s THEN seen[s][j] ELSE status[j]
        /\ seen[s][j] = "absent" <=> status'[j] = "absent"
  BY <1>1 DEF Own
<1>3. Current(e, status)' = Current(e, seen[s])
  BY <1>1, <1>2 DEF Current
<1>4. ASSUME NEW j \in Current(e, seen[s])
      PROVE  /\ seen[s][j] \in SettledStatuses => status'[j] \in SettledStatuses
             /\ seen[s][j] \in TerminalStatuses => status'[j] \in TerminalStatuses
  <2>1. j \in Jobs /\ ExpOf[j] = e /\ seen[s][j] # "absent"
    BY <1>4 DEF Current
  <2>2. status'[j] = seen[s][j] \/ (status'[j] = status[j] /\ Remembered(s, j))
    BY <1>1, <1>2, <2>1 DEF Own
  <2>3. CASE seen[s][j] = "BLOCKED" /\ status[j] \in {"BLOCKED", "CANCELLED"}
    BY <2>2, <2>3 DEF SettledStatuses, TerminalStatuses
  <2>4. CASE seen[s][j] \in {"QUEUED"} \cup ActiveStatuses
    BY <2>4 DEF SettledStatuses, TerminalStatuses, ActiveStatuses
  <2>5. CASE seen[s][j] = status[j]
    BY <2>2, <2>5
  <2> QED BY <2>2, <2>3, <2>4, <2>5 DEF Remembered
<1> QED BY <1>2, <1>3, <1>4

\* A commit takes a key of an experiment only when the rows it commits need it no more.
LEMMA CommitWork ==
  ASSUME WorkInv, NEW s \in Sessions, Commit(s)
  PROVE  KeysForWork' /\ PlatformKeyForWork'
<1> USE StatusAssumption
<1>1. /\ retryOf' = retryOf /\ touched[s] = {}
      /\ status' = [j \in Jobs |-> IF rowLock[j] = s THEN seen[s][j] ELSE status[j]]
      /\ secrets' = [e \in Experiments |->
           IF expLock[e] = s THEN ~DropsSecrets(s, e) /\ (secrets[e] \/ s \in Retriers)
                             ELSE secrets[e]]
      /\ apiKey' = [e \in Experiments |->
           IF expLock[e] = s THEN ~RevokesKey(s, e) /\ (apiKey[e] \/ s \in Retriers)
                             ELSE apiKey[e]]
  BY DEF Commit
<1>2. TypeOK /\ Own(s) /\ SettlesOnly
  BY OwnOfAll DEF WorkInv
<1> SUFFICES ASSUME NEW e \in Experiments, NEW j \in Current(e, status)'
             PROVE  /\ status'[j] \in {"QUEUED", "SUBMITTING"} => secrets'[e]
                    /\ status'[j] \notin TerminalStatuses => apiKey'[e]
  BY DEF KeysForWork, PlatformKeyForWork
<1>3. j \in Jobs /\ ExpOf[j] = e
  BY DEF Current
<1>4. CASE expLock[e] # s
  <2>1. \A i \in Jobs : ExpOf[i] = e => status'[i] = status[i]
    BY <1>1, <1>2, <1>4 DEF Own
  <2>2. j \in Current(e, status) /\ status'[j] = status[j]
    BY <1>1, <1>3, <2>1, SameCurrent
  <2> QED BY <1>1, <1>4, <2>2 DEF WorkInv, KeysForWork, PlatformKeyForWork
<1>5. CASE expLock[e] = s
  <2>1. j \in Current(e, seen[s])
    BY <1>2, <1>5, CommitSeen
  <2>2. /\ seen[s][j] \in SettledStatuses => status'[j] \in SettledStatuses
        /\ seen[s][j] \in TerminalStatuses => status'[j] \in TerminalStatuses
    BY <1>2, <1>5, <2>1, CommitSeen
  <2>3. /\ status'[j] \in {"QUEUED", "SUBMITTING"} => ~DropsSecrets(s, e)
        /\ status'[j] \notin TerminalStatuses => ~RevokesKey(s, e)
    BY <2>1, <2>2 DEF DropsSecrets, RevokesKey, AllIn, SettledStatuses, TerminalStatuses
  <2>4. CASE s \in Retriers
    BY <1>1, <1>5, <2>3, <2>4
  <2>5. CASE s \notin Retriers
    <3>1. \A i \in Jobs : ExpOf[i] = e =>
            /\ status'[i] = IF rowLock[i] = s THEN seen[s][i] ELSE status[i]
            /\ status'[i] = "absent" <=> status[i] = "absent"
      BY <1>1, <1>2, <2>5 DEF SettlesOnly, Own
    <3>2. j \in Current(e, status)
      BY <1>1, <3>1 DEF Current
    <3>3. status'[j] \in {"QUEUED", "SUBMITTING"} => status[j] \in {"QUEUED", "SUBMITTING"}
      BY <1>2, <1>3, <2>5, <3>1 DEF SettlesOnly
    <3>4. status'[j] \notin TerminalStatuses => status[j] \notin TerminalStatuses
      BY <1>2, <1>3, <3>1 DEF Own
    <3>5. /\ status'[j] \in {"QUEUED", "SUBMITTING"} => secrets[e]
          /\ status'[j] \notin TerminalStatuses => apiKey[e]
      BY <3>2, <3>3, <3>4 DEF WorkInv, KeysForWork, PlatformKeyForWork
    <3> QED BY <1>1, <1>5, <2>3, <3>5
  <2> QED BY <2>4, <2>5
<1> QED BY <1>4, <1>5

\* A step that writes no row, and of the rows written changes nothing remembered.
LEMMA SettlesKept ==
  ASSUME TypeOK, SettlesOnly, NEW s \in Sessions, UNCHANGED <<status, rowLock>>,
         \A t \in Sessions \ {s} : seen'[t] = seen[t],
         \A j \in Jobs : rowLock[j] = s => seen'[s][j] = seen[s][j]
  PROVE  SettlesOnly'
BY DEF SettlesOnly

\* One target of a cancel: a row is written only if it is there, and none waits to be
\* sent that did not.
LEMMA CancelNextSettles ==
  ASSUME TypeOK, SettlesOnly, NEW s \in Sessions, Own(s), CancelNext(s)
  PROVE  SettlesOnly'
<1> USE StatusAssumption
<1>1. PICK j \in Jobs :
        /\ First(j, todo[s])
        /\ \E outcome \in CancelOutcomes(j) :
             /\ rowLock' = IF outcome.wrote THEN [rowLock EXCEPT ![j] = s] ELSE rowLock
             /\ seen' = [seen EXCEPT ![s][j] = outcome.as]
  BY DEF CancelNext
<1>2. PICK outcome \in CancelOutcomes(j) :
        /\ rowLock' = IF outcome.wrote THEN [rowLock EXCEPT ![j] = s] ELSE rowLock
        /\ seen' = [seen EXCEPT ![s][j] = outcome.as]
  BY <1>1
<1>3. status' = status /\ rowLock[j] # s
  BY <1>1 DEF CancelNext, First, Own
<1>4. outcome.wrote =>
        /\ status[j] # "absent"
        /\ outcome.as \in {"QUEUED", "SUBMITTING"} => status[j] \in {"QUEUED", "SUBMITTING"}
  BY <1>2 DEF CancelOutcomes, Left
<1>5. /\ \A t \in Sessions \ {s} : seen'[t] = seen[t]
      /\ \A i \in Jobs : seen'[s][i] = IF i = j THEN outcome.as ELSE seen[s][i]
      /\ \A i \in Jobs \ {j} : rowLock'[i] = rowLock[i]
      /\ IF outcome.wrote THEN rowLock'[j] = s ELSE rowLock'[j] = rowLock[j]
  BY <1>2 DEF TypeOK
<1> SUFFICES ASSUME NEW t \in Sessions \ Retriers, NEW i \in Jobs, rowLock'[i] = t
             PROVE  /\ status'[i] # "absent"
                    /\ seen'[t][i] \in {"QUEUED", "SUBMITTING"}
                         => status'[i] \in {"QUEUED", "SUBMITTING"}
  BY DEF SettlesOnly
<1>6. CASE i = j /\ outcome.wrote
  BY <1>3, <1>4, <1>5, <1>6
<1>7. CASE ~(i = j /\ outcome.wrote)
  <2>1. rowLock[i] = t /\ (t # s \/ i # j)
    BY <1>3, <1>5, <1>7
  <2>2. seen'[t][i] = seen[t][i]
    BY <1>5, <2>1
  <2> QED BY <1>3, <2>1, <2>2 DEF SettlesOnly
<1> QED BY <1>6, <1>7

\* Whatever a session does, only a retry writes rows that are not there yet.
LEMMA SettlesStep ==
  ASSUME FinishedInv, SettlesOnly, [Next]_vars
  PROVE  SettlesOnly'
<1> USE StatusAssumption
<1>0. TypeOK /\ \A s \in Sessions : Own(s)
  BY OwnOfAll
<1>1. ASSUME NEW s \in Sessions, Settle(s) PROVE SettlesOnly'
  <2>0. PICK j \in Jobs : \E new \in DispatcherMoves(j) :
          /\ rowLock' = [rowLock EXCEPT ![j] = s]
          /\ seen' = [seen EXCEPT ![s][j] = new]
    BY <1>1 DEF Settle
  <2>1. PICK new \in DispatcherMoves(j) :
          /\ rowLock' = [rowLock EXCEPT ![j] = s]
          /\ seen' = [seen EXCEPT ![s][j] = new]
    BY <2>0
  <2>2. /\ status[j] # "absent"
        /\ new \in {"QUEUED", "SUBMITTING"} => status[j] \in {"QUEUED", "SUBMITTING"}
    BY DEF DispatcherMoves
  <2>3. status' = status
    BY <1>1 DEF Settle
  <2> QED BY <1>0, <2>1, <2>2, <2>3 DEF SettlesOnly, TypeOK
<1>2. ASSUME NEW s \in Sessions, Recompute(s) PROVE SettlesOnly'
  <2>1. /\ UNCHANGED <<status, rowLock>>
        /\ \A t \in Sessions \ {s} : seen'[t] = seen[t]
        /\ \A j \in Jobs : seen[s][j] # "absent" => seen'[s][j] = seen[s][j]
    BY <1>0, <1>2 DEF Recompute, TypeOK
  <2>2. \A j \in Jobs : rowLock[j] = s => seen'[s][j] = seen[s][j]
    BY <1>0, <2>1 DEF Own
  <2> QED BY <1>0, <2>1, <2>2, SettlesKept
<1>3. ASSUME NEW s \in Sessions, Commit(s) \/ Abort(s) PROVE SettlesOnly'
  <2>1. /\ rowLock' = [j \in Jobs |-> IF rowLock[j] = s THEN NoOne ELSE rowLock[j]]
        /\ \A t \in Sessions \ {s} : seen'[t] = seen[t]
        /\ \A j \in Jobs : rowLock[j] # s => status'[j] = status[j]
    BY <1>0, <1>3 DEF Commit, Abort, Close, TypeOK
  <2> QED BY <1>0, <2>1 DEF SettlesOnly, TypeOK
<1>4. ASSUME NEW s \in Sessions, CancelExperiment(s) \/ CancelJobs(s) \/ Sweep(s)
      PROVE  SettlesOnly'
  <2>1. /\ UNCHANGED <<status, rowLock>> /\ pc[s] = "idle"
        /\ \A t \in Sessions \ {s} : seen'[t] = seen[t]
    BY <1>0, <1>4 DEF CancelExperiment, CancelJobs, Sweep, Load, TypeOK
  <2>2. \A j \in Jobs : rowLock[j] # s
    BY <1>0, <2>1 DEF Own
  <2> QED BY <1>0, <2>1, <2>2, SettlesKept
<1>5. ASSUME NEW s \in Sessions, Retry(s) PROVE SettlesOnly'
  <2>1. /\ s \in Retriers /\ status' = status
        /\ \A j \in Jobs : rowLock'[j] = s \/ rowLock'[j] = rowLock[j]
    BY <1>5 DEF Retry
  <2>2. \A t \in Sessions \ {s} : seen'[t] = seen[t]
    BY <1>0, <1>5 DEF Retry, TypeOK
  <2> QED BY <2>1, <2>2, SMTT(30) DEF SettlesOnly
<1>6. ASSUME NEW s \in Sessions, RetryInsert(s) PROVE SettlesOnly'
  BY <1>6 DEF RetryInsert, SettlesOnly
<1>7. CASE Settled \/ UNCHANGED vars
  BY <1>7 DEF Settled, SettlesOnly
<1> QED BY <1>0, <1>1, <1>2, <1>3, <1>4, <1>5, <1>6, <1>7, CancelNextSettles DEF Next

\* The inductive invariant behind the two theorems about keys that work needs.
THEOREM WorkInductive == Spec => []WorkInv
<1>1. Init => KeysForWork /\ PlatformKeyForWork /\ SettlesOnly
  BY StatusAssumption DEF Init, KeysForWork, PlatformKeyForWork, Current, SettlesOnly
<1>2. WorkInv /\ [Next]_vars => (KeysForWork /\ PlatformKeyForWork)'
  <2> SUFFICES ASSUME WorkInv, [Next]_vars PROVE KeysForWork' /\ PlatformKeyForWork'
    OBVIOUS
  <2>0. TypeOK /\ KeysForWork /\ PlatformKeyForWork
    BY DEF WorkInv, FinishedInv
  <2>1. ASSUME NEW s \in Sessions, Settle(s) \/ Recompute(s) \/ CancelExperiment(s)
                 \/ CancelJobs(s) \/ CancelNext(s) \/ RetryInsert(s) \/ Sweep(s)
        PROVE  UNCHANGED committed
    BY <2>1 DEF Settle, Recompute, CancelExperiment, CancelJobs, CancelNext, RetryInsert,
                Sweep
  <2>2. ASSUME NEW s \in Sessions, Abort(s) \/ Retry(s)
        PROVE  /\ UNCHANGED <<status, secrets, apiKey>>
               /\ \A j \in Jobs : status[j] # "absent" => retryOf'[j] = retryOf[j]
    BY <2>0, <2>2, StatusAssumption DEF Abort, Retry, TypeOK
  <2>3. CASE Settled \/ UNCHANGED vars
    BY <2>0, <2>3, WorkKept DEF Settled
  <2> QED BY <2>0, <2>1, <2>2, <2>3, WorkKept, CommitWork DEF Next
<1>3. WorkInv /\ [Next]_vars => SettlesOnly'
  BY SettlesStep DEF WorkInv
<1>4. Spec => [](KeysForWork /\ PlatformKeyForWork /\ SettlesOnly)
  <2>1. FinishedInv /\ KeysForWork /\ PlatformKeyForWork /\ SettlesOnly => WorkInv
    BY DEF WorkInv
  <2> QED BY <1>1, <1>2, <1>3, <2>1, FinishedInductive, PTL DEF Spec
<1>5. FinishedInv /\ KeysForWork /\ PlatformKeyForWork /\ SettlesOnly => WorkInv
  BY DEF WorkInv
<1> QED BY <1>4, <1>5, FinishedInductive, PTL

\* No settle, cancel, retry or sweep takes the model keys from a job that waits to be
\* sent.
THEOREM KeysStay == Spec => []KeysForWork
<1>1. WorkInv => KeysForWork
  BY DEF WorkInv
<1> QED BY <1>1, WorkInductive, PTL

\* Nor does a sweep, or anything that overtakes it, take the platform key from a job
\* that is not over.
THEOREM PlatformKeyStays == Spec => []PlatformKeyForWork
<1>1. WorkInv => PlatformKeyForWork
  BY DEF WorkInv
<1> QED BY <1>1, WorkInductive, PTL
=============================================================================
