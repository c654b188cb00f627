------------------------- MODULE JobRegistry_proofs -------------------------
(* Proofs about JobRegistry for every set of processes, jobs, scopes, faults. *)
EXTENDS JobRegistry, TLAPS

\* A process's memory of one job is written at that place only.
LEMMA Place ==
  ASSUME NEW P, NEW J, NEW S, NEW f \in [P -> [J -> S]],
         NEW p \in P, NEW j \in J, NEW v \in S
  PROVE  /\ [f EXCEPT ![p][j] = v] \in [P -> [J -> S]]
         /\ \A q \in P, k \in J :
              [f EXCEPT ![p][j] = v][q][k] = IF q = p /\ k = j THEN v ELSE f[q][k]
OBVIOUS

Places == {"none", "claim", "reread", "replace", "track", "first", "submit"}
Memories == JobStatuses \cup {"none"}

LEMMA GotoTypes ==
  ASSUME TypeOK, NEW p \in Processes, NEW j \in Jobs, NEW x \in Places, Goto(p, j, x)
  PROVE  /\ start' \in [Processes -> [Jobs -> Places]]
         /\ \A q \in Processes, k \in Jobs :
              start'[q][k] = IF q = p /\ k = j THEN x ELSE start[q][k]
<1>1. start \in [Processes -> [Jobs -> Places]]
  BY DEF TypeOK, Places
<1> QED BY <1>1, Place DEF Goto

LEMMA MineTypes ==
  ASSUME TypeOK, NEW p \in Processes, NEW j \in Jobs, NEW x \in Memories,
         mine' = [mine EXCEPT ![p][j] = x]
  PROVE  /\ mine' \in [Processes -> [Jobs -> Memories]]
         /\ \A q \in Processes, k \in Jobs :
              mine'[q][k] = IF q = p /\ k = j THEN x ELSE mine[q][k]
<1>1. mine \in [Processes -> [Jobs -> Memories]]
  BY DEF TypeOK, Memories
<1> QED BY <1>1, Place

LEMMA PublishedTypes ==
  ASSUME TypeOK, NEW p \in Processes, NEW j \in Jobs, NEW x \in Memories \cup {"cancel"},
         published' = [published EXCEPT ![p][j] = x]
  PROVE  /\ published' \in [Processes -> [Jobs -> Memories \cup {"cancel"}]]
         /\ \A q \in Processes, k \in Jobs :
              published'[q][k] = IF q = p /\ k = j THEN x ELSE published[q][k]
<1>1. published \in [Processes -> [Jobs -> Memories \cup {"cancel"}]]
  BY DEF TypeOK, Memories
<1> QED BY <1>1, Place

LEMMA RivalTypes ==
  ASSUME TypeOK, NEW p \in Processes, NEW j \in Jobs, NEW x \in Jobs \cup {NoJob},
         rival' = [rival EXCEPT ![p][j] = x]
  PROVE  /\ rival' \in [Processes -> [Jobs -> Jobs \cup {NoJob}]]
         /\ \A q \in Processes, k \in Jobs :
              rival'[q][k] = IF q = p /\ k = j THEN x ELSE rival[q][k]
BY Place DEF TypeOK

LEMMA PlaceNames ==
  /\ \A x \in {"none", "claim", "reread", "replace", "track", "first", "submit"} : x \in Places
  /\ \A x \in {"none", "queued", "running", "completed", "failed", "cancelled"} : x \in Memories
  /\ JobStatuses \subseteq Memories
BY DEF Places, Memories, JobStatuses, ActiveStatuses, TerminalStatuses

\* The types, after the steps of a process and then after those about one job.
LEMMA ProcessTypes ==
  ASSUME TypeOK, NEW p \in Processes,
         Submit(p) \/ ActiveForRun(p) \/ Enqueue(p) \/ ClaimSelect(p) \/ ClaimUpdate(p)
         \/ Crash(p)
  PROVE  TypeOK'
<1>1. CASE Submit(p)
  <2>1. PICK j \in Jobs : /\ mine' = [mine EXCEPT ![p][j] = "queued"]
                          /\ Goto(p, j, "claim")
    BY <1>1 DEF Submit
  <2>2. mine' \in [Processes -> [Jobs -> Memories]]
    BY <2>1, MineTypes, PlaceNames
  <2>3. start' \in [Processes -> [Jobs -> Places]]
    BY <2>1, GotoTypes, PlaceNames
  <2> QED BY <1>1, <2>2, <2>3 DEF TypeOK, Memories, Places, Submit, row
<1>2. CASE ActiveForRun(p)
  BY <1>2 DEF TypeOK, Memories, Places, ActiveForRun, memory, row
<1>3. CASE Enqueue(p)
  <2>1. PICK j \in Jobs : Goto(p, j, "claim")
    BY <1>3 DEF Enqueue
  <2>2. start' \in [Processes -> [Jobs -> Places]]
    BY <2>1, GotoTypes, PlaceNames
  <2> QED BY <1>3, <2>2 DEF TypeOK, Memories, Places, Enqueue, row
<1>4. CASE ClaimSelect(p)
  <2>1. PICK S \in SUBSET (Claimable \ stale) : picked' = [picked EXCEPT ![p] = S]
    BY <1>4 DEF ClaimSelect
  <2>2. Claimable \subseteq Jobs
    BY DEF TypeOK, Memories, Places, Claimable
  <2> QED BY <1>4, <2>1, <2>2 DEF TypeOK, Memories, Places, ClaimSelect, row
<1>5. CASE ClaimUpdate(p)
  BY <1>5 DEF TypeOK, Memories, Places, ClaimUpdate, Take
<1>6. CASE Crash(p)
  <2>1. /\ Everywhere("none") \in [Jobs -> Memories]
        /\ Everywhere("none") \in [Jobs -> Places]
        /\ Everywhere(NoJob) \in [Jobs -> Jobs \cup {NoJob}]
        /\ Everywhere("none") \in [Jobs -> Memories \cup {"cancel"}]
    BY PlaceNames DEF Everywhere
  <2> HIDE DEF Everywhere
  <2> QED BY <1>6, <2>1 DEF TypeOK, Memories, Places, Crash, row
<1> QED BY <1>1, <1>2, <1>3, <1>4, <1>5, <1>6

LEMMA JobTypes ==
  ASSUME TypeOK, NEW p \in Processes, NEW j \in Jobs,
         \/ Starting(p, j) \/ Publishing(p, j) \/ Failing(p, j)
         \/ Run(p, j) \/ Finish(p, j) \/ CancelLocal(p, j) \/ AdoptFails(p, j)
  PROVE  TypeOK'
<1>0. NoJob \in Jobs \cup {NoJob}
  OBVIOUS
<1>1. CASE ClaimInsert(p, j)
  <2>1. start' \in [Processes -> [Jobs -> Places]]
    BY <1>1, GotoTypes, PlaceNames DEF ClaimInsert
  <2>2. mine[p][j] \in Memories
    BY DEF TypeOK, Memories, Places
  <2>3. status' \in [Jobs -> Memories]
    BY <1>1, <2>2, PlaceNames DEF TypeOK, Memories, Places, ClaimInsert, row
  <2> QED BY <1>1, <2>1, <2>3 DEF TypeOK, Memories, Places, ClaimInsert, row
<1>2. CASE ClaimReread(p, j)
  <2>1. start' \in [Processes -> [Jobs -> Places]]
    BY <1>2, GotoTypes, PlaceNames DEF ClaimReread, GoneFrom
  <2>2. mine' \in [Processes -> [Jobs -> Memories]]
    BY <1>2, MineTypes, PlaceNames DEF TypeOK, Memories, Places, ClaimReread, GoneFrom
  <2>3. rival' \in [Processes -> [Jobs -> Jobs \cup {NoJob}]]
    BY <1>2, RivalTypes DEF TypeOK, Memories, Places, ClaimReread, GoneFrom, Holders
  <2> QED BY <1>2, <2>1, <2>2, <2>3 DEF TypeOK, Memories, Places, ClaimReread, row
<1>3. CASE ClaimReplace(p, j)
  <2>1. start' \in [Processes -> [Jobs -> Places]]
    BY <1>3, GotoTypes, PlaceNames DEF ClaimReplace
  <2>2. rival' \in [Processes -> [Jobs -> Jobs \cup {NoJob}]]
    BY <1>0, <1>3, RivalTypes DEF ClaimReplace
  <2>3. /\ status' \in [Jobs -> Memories]
        /\ queued' \subseteq Jobs /\ payload' \subseteq Jobs
        /\ stale' \subseteq Jobs /\ flagged' \subseteq Jobs
    <3>1. PICK h \in Jobs : IF RowActive(h) THEN End(h, "failed") ELSE UNCHANGED row
      BY <1>3 DEF ClaimReplace
    <3> QED BY <3>1, PlaceNames DEF TypeOK, Memories, Places, ClaimReplace, End, row
  <2> QED BY <1>3, <2>1, <2>2, <2>3 DEF TypeOK, Memories, Places, ClaimReplace
<1>4. CASE Track(p, j)
  BY <1>4, GotoTypes, PlaceNames DEF TypeOK, Memories, Places, Track, row
<1>5. CASE Launch(p, j)
  BY <1>5, GotoTypes, PlaceNames DEF TypeOK, Memories, Places, Launch, row
<1>6. CASE Adopt(p, j)
  BY <1>6, GotoTypes, MineTypes, PlaceNames DEF TypeOK, Memories, Places, Adopt, row
<1>7. CASE Describe(p, j)
  <2>1. mine[p][j] \in Memories \cup {"cancel"}
    BY DEF TypeOK, Memories, Places
  <2> QED BY <1>7, <2>1, PublishedTypes DEF TypeOK, Memories, Places, Describe, row
<1>8. CASE Write(p, j)
  <2>1. start' \in [Processes -> [Jobs -> Places]]
    BY <1>8, GotoTypes, PlaceNames DEF TypeOK, Memories, Places, Write, AfterFirst
  <2>2. published' \in [Processes -> [Jobs -> Memories \cup {"cancel"}]]
    BY <1>8, PublishedTypes, PlaceNames DEF Write
  <2>3. tracked' \in [Processes -> SUBSET Jobs]
    <3>1. Untrack(p, j) \/ UNCHANGED tracked
      BY <1>8 DEF Write
    <3> QED BY <3>1 DEF TypeOK, Untrack
  <2>4. /\ status' \in [Jobs -> Memories]
        /\ queued' \subseteq Jobs /\ payload' \subseteq Jobs
        /\ stale' \subseteq Jobs /\ flagged' \subseteq Jobs
    BY <1>8, PlaceNames DEF TypeOK, Memories, Places, Write, WriteRow, row
  <2> QED BY <1>8, <2>1, <2>2, <2>3, <2>4 DEF TypeOK, Memories, Places, Write
<1>9. CASE OnCancel(p, j)
  <2>1. mine' \in [Processes -> [Jobs -> Memories]]
    BY <1>9, MineTypes, PlaceNames DEF TypeOK, Memories, Places, OnCancel, CancelHere
  <2> QED BY <1>9, <2>1, PublishedTypes, PlaceNames
        DEF TypeOK, Memories, Places, OnCancel, row
<1>10. CASE ClaimFails(p, j)
  BY <1>0, <1>10, GotoTypes, RivalTypes, PlaceNames
     DEF TypeOK, Memories, Places, ClaimFails, row
<1>11. CASE FlushFails(p, j)
  BY <1>11, PublishedTypes, PlaceNames DEF TypeOK, Memories, Places, FlushFails, row
<1>12. CASE FirstFails(p, j)
  BY <1>12, GotoTypes, PublishedTypes, PlaceNames
     DEF TypeOK, Memories, Places, FirstFails, Untrack, row
<1>13. CASE Run(p, j)
  BY <1>13, MineTypes, PlaceNames DEF TypeOK, Memories, Places, Run, row
<1>14. CASE Finish(p, j)
  BY <1>14, MineTypes, PlaceNames DEF TypeOK, Memories, Places, Finish, row
<1>15. CASE CancelLocal(p, j)
  BY <1>15, MineTypes, PlaceNames
     DEF TypeOK, Memories, Places, CancelLocal, CancelHere, row
<1>16. CASE AdoptFails(p, j)
  <2>1. /\ status' \in [Jobs -> Memories]
        /\ queued' \subseteq Jobs /\ payload' \subseteq Jobs
        /\ stale' \subseteq Jobs /\ flagged' \subseteq Jobs
    <3>1. \/ /\ status' = [status EXCEPT ![j] = "failed"]
             /\ queued' = queued \ {j} /\ payload' = payload \ {j}
             /\ UNCHANGED <<flagged, stale>>
          \/ UNCHANGED <<status, queued, payload, flagged, stale>>
      BY <1>16 DEF AdoptFails, row
    <3> QED BY <3>1, PlaceNames DEF TypeOK, Memories
  <2>2. claimed' \in [Processes -> SUBSET Jobs]
    BY <1>16 DEF TypeOK, AdoptFails
  <2> QED BY <1>16, <2>1, <2>2 DEF TypeOK, Memories, Places, AdoptFails
<1> QED BY <1>1, <1>2, <1>3, <1>4, <1>5, <1>6, <1>7, <1>8, <1>9, <1>10, <1>11, <1>12,
           <1>13, <1>14, <1>15, <1>16 DEF Starting, Publishing, Failing

LEMMA NextTypes ==
  ASSUME TypeOK, [Next]_vars
  PROVE  TypeOK'
<1>1. ASSUME NEW j \in Jobs, RequestCancel(j) PROVE TypeOK'
  BY <1>1, PlaceNames DEF TypeOK, Memories, Places, RequestCancel, End, memory
<1>2. ASSUME NEW j \in Jobs, Age(j) PROVE TypeOK'
  BY <1>2 DEF TypeOK, Memories, Places, Age, memory
<1>3. CASE UNCHANGED vars
  BY <1>3 DEF TypeOK, Memories, Places, vars, row, memory
<1> QED BY <1>1, <1>2, <1>3, ProcessTypes, JobTypes DEF Next

LEMMA InitTypes == Init => TypeOK
BY PlaceNames DEF TypeOK, Memories, Places, Init, Everywhere

\* Types hold whatever the sets of processes and faults are.
THEOREM TypeCorrect == Spec => []TypeOK
<1> QED BY InitTypes, NextTypes, PTL DEF Spec

\* The steps, place by place.

LEMMA TrackKeeps ==
  ASSUME RegistryInv, TypeOK', NEW p \in Processes, NEW j \in Jobs, Track(p, j)
  PROVE  RegistryInv'
<1>0. TypeOK
  BY DEF RegistryInv
<1>1. /\ start[p][j] = "track"
      /\ \A q \in Processes, k \in Jobs :
            start'[q][k] = IF q = p /\ k = j THEN "first" ELSE start[q][k]
      /\ \A q \in Processes : tracked'[q] = IF q = p THEN tracked[p] \cup {j} ELSE tracked[q]
      /\ UNCHANGED <<status, queued, payload, flagged, mine, published, claimed>>
  BY <1>0, GotoTypes, PlaceNames DEF Track, TypeOK, row
<1>2. flagged \subseteq Jobs /\ queued \subseteq Jobs /\ payload \subseteq Jobs
  BY <1>0 DEF TypeOK
<1>3. PayloadOnlyQueued'
  BY <1>1 DEF RegistryInv, PayloadOnlyQueued, RowActive
<1>4. OneHand'
  BY <1>1 DEF RegistryInv, OneHand, Has
<1>5. QueuedIsFree'
  BY <1>1, <1>2 DEF RegistryInv, QueuedIsFree, RowActive, Has
<1>6. ClaimersRowless'
  BY <1>1 DEF RegistryInv, ClaimersRowless, Exists
<1>7. HandlesOwned'
  BY <1>1 DEF RegistryInv, HandlesOwned, Exists
<1>8. FlagEnds'
  BY <1>1 DEF RegistryInv, FlagEnds
<1>9. OwnersRow'
  BY <1>1 DEF RegistryInv, OwnersRow, Active, RowActive
<1>10. OneActive'
  BY <1>1 DEF RegistryInv, OneActive, RowActive
<1> QED BY <1>3, <1>4, <1>5, <1>6, <1>7, <1>8, <1>9, <1>10 DEF RegistryInv

LEMMA LaunchKeeps ==
  ASSUME RegistryInv, TypeOK', NEW p \in Processes, NEW j \in Jobs, Launch(p, j)
  PROVE  RegistryInv'
<1>0. TypeOK
  BY DEF RegistryInv
<1>1. /\ start[p][j] = "submit"
      /\ \A q \in Processes, k \in Jobs :
            start'[q][k] = IF q = p /\ k = j THEN "none" ELSE start[q][k]
      /\ UNCHANGED <<status, queued, payload, flagged, tracked, mine, published, claimed>>
  BY <1>0, GotoTypes, PlaceNames DEF Launch, row, TypeOK
<1>2. flagged \subseteq Jobs /\ queued \subseteq Jobs /\ payload \subseteq Jobs
  BY <1>0 DEF TypeOK
<1>3. PayloadOnlyQueued'
  BY <1>1 DEF RegistryInv, PayloadOnlyQueued, RowActive
<1>4. OneHand'
  BY <1>1 DEF RegistryInv, OneHand, Has
<1>5. QueuedIsFree'
  BY <1>1, <1>2 DEF RegistryInv, QueuedIsFree, RowActive, Has
<1>6. ClaimersRowless'
  BY <1>1 DEF RegistryInv, ClaimersRowless, Exists
<1>7. HandlesOwned'
  BY <1>1 DEF RegistryInv, HandlesOwned, Exists
<1>8. FlagEnds'
  BY <1>1 DEF RegistryInv, FlagEnds
<1>9. OwnersRow'
  BY <1>1 DEF RegistryInv, OwnersRow, Active, RowActive
<1>10. OneActive'
  BY <1>1 DEF RegistryInv, OneActive, RowActive
<1> QED BY <1>3, <1>4, <1>5, <1>6, <1>7, <1>8, <1>9, <1>10 DEF RegistryInv

LEMMA AdoptKeeps ==
  ASSUME RegistryInv, TypeOK', NEW p \in Processes, NEW j \in Jobs, Adopt(p, j)
  PROVE  RegistryInv'
<1>0. TypeOK
  BY DEF RegistryInv
<1>1. /\ j \in claimed[p]
      /\ \A q \in Processes, k \in Jobs :
            start'[q][k] = IF q = p /\ k = j THEN "track" ELSE start[q][k]
      /\ \A q \in Processes, k \in Jobs :
            mine'[q][k] = IF q = p /\ k = j THEN "queued" ELSE mine[q][k]
      /\ \A q \in Processes : claimed'[q] = IF q = p THEN claimed[p] \ {j} ELSE claimed[q]
      /\ UNCHANGED <<status, queued, payload, flagged, tracked, published>>
  BY <1>0, GotoTypes, MineTypes, PlaceNames DEF Adopt, TypeOK, row
<1>2. flagged \subseteq Jobs /\ queued \subseteq Jobs /\ payload \subseteq Jobs
  BY <1>0 DEF TypeOK
<1>3. PayloadOnlyQueued'
  BY <1>1 DEF RegistryInv, PayloadOnlyQueued, RowActive
<1>4. OneHand'
  BY <1>1 DEF RegistryInv, OneHand, Has
<1>5. QueuedIsFree'
  BY <1>1, <1>2 DEF RegistryInv, QueuedIsFree, RowActive, Has
<1>6. ClaimersRowless'
  BY <1>1 DEF RegistryInv, ClaimersRowless, Exists
<1>7. HandlesOwned'
  BY <1>1 DEF RegistryInv, HandlesOwned, Exists
<1>8. FlagEnds'
  BY <1>1 DEF RegistryInv, FlagEnds
<1>9. OwnersRow'
  BY <1>1 DEF RegistryInv, OwnersRow, Active, RowActive
<1>10. OneActive'
  BY <1>1 DEF RegistryInv, OneActive, RowActive
<1> QED BY <1>3, <1>4, <1>5, <1>6, <1>7, <1>8, <1>9, <1>10 DEF RegistryInv

LEMMA DescribeKeeps ==
  ASSUME RegistryInv, TypeOK', NEW p \in Processes, NEW j \in Jobs, Describe(p, j)
  PROVE  RegistryInv'
<1>0. TypeOK
  BY DEF RegistryInv
<1>1. /\ j \in tracked[p]
      /\ \A q \in Processes, k \in Jobs :
            published'[q][k] = IF q = p /\ k = j THEN mine[p][j] ELSE published[q][k]
      /\ UNCHANGED <<status, queued, payload, flagged, tracked, mine, start, claimed>>
  BY <1>0, PublishedTypes, PlaceNames DEF Describe, row, TypeOK, Memories
<1>2. flagged \subseteq Jobs /\ queued \subseteq Jobs /\ payload \subseteq Jobs
  BY <1>0 DEF TypeOK
<1>3. PayloadOnlyQueued'
  BY <1>1 DEF RegistryInv, PayloadOnlyQueued, RowActive
<1>4. OneHand'
  BY <1>1 DEF RegistryInv, OneHand, Has
<1>5. QueuedIsFree'
  BY <1>1 DEF RegistryInv, QueuedIsFree, RowActive, Has
<1>6. ClaimersRowless'
  BY <1>1 DEF RegistryInv, ClaimersRowless, Exists
<1>7. HandlesOwned'
  BY <1>1 DEF RegistryInv, HandlesOwned, Exists
<1>8. FlagEnds'
  BY <1>1 DEF RegistryInv, FlagEnds
<1>9. OwnersRow'
  BY <1>1 DEF RegistryInv, OwnersRow, Active, RowActive
<1>10. OneActive'
  BY <1>1 DEF RegistryInv, OneActive, RowActive
<1> QED BY <1>3, <1>4, <1>5, <1>6, <1>7, <1>8, <1>9, <1>10 DEF RegistryInv

LEMMA RunKeeps ==
  ASSUME RegistryInv, TypeOK', NEW p \in Processes, NEW j \in Jobs, Run(p, j)
  PROVE  RegistryInv'
<1>0. TypeOK
  BY DEF RegistryInv
<1>1. /\ mine[p][j] = "queued" /\ start[p][j] = "none"
      /\ \A q \in Processes, k \in Jobs :
            mine'[q][k] = IF q = p /\ k = j THEN "running" ELSE mine[q][k]
      /\ UNCHANGED <<status, queued, payload, flagged, tracked, start, published, claimed>>
  BY <1>0, MineTypes, PlaceNames DEF Run, row, TypeOK, Memories
<1>2. flagged \subseteq Jobs /\ queued \subseteq Jobs /\ payload \subseteq Jobs
  BY <1>0 DEF TypeOK
<1>3. PayloadOnlyQueued'
  BY <1>1 DEF RegistryInv, PayloadOnlyQueued, RowActive
<1>4. OneHand'
  BY <1>1 DEF RegistryInv, OneHand, Has
<1>5. QueuedIsFree'
  BY <1>1, <1>2 DEF RegistryInv, QueuedIsFree, RowActive, Has
<1>6. ClaimersRowless'
  BY <1>1 DEF RegistryInv, ClaimersRowless, Exists
<1>7. HandlesOwned'
  BY <1>1 DEF RegistryInv, HandlesOwned, Exists
<1>8. FlagEnds'
  BY <1>1 DEF RegistryInv, FlagEnds
<1>9. OwnersRow'
  BY <1>1, <1>2
     DEF RegistryInv, OwnersRow, Active, RowActive, HandlesOwned, OneHand, Has, Exists,
         ActiveStatuses, TerminalStatuses, JobStatuses
<1>10. OneActive'
  BY <1>1 DEF RegistryInv, OneActive, RowActive
<1> QED BY <1>3, <1>4, <1>5, <1>6, <1>7, <1>8, <1>9, <1>10 DEF RegistryInv

LEMMA FlushFailsKeeps ==
  ASSUME RegistryInv, TypeOK', NEW p \in Processes, NEW j \in Jobs, FlushFails(p, j)
  PROVE  RegistryInv'
<1>0. TypeOK
  BY DEF RegistryInv
<1>1. /\ published[p][j] \in JobStatuses
      /\ \A q \in Processes, k \in Jobs :
            published'[q][k] = IF q = p /\ k = j THEN "none" ELSE published[q][k]
      /\ UNCHANGED <<status, queued, payload, flagged, tracked, mine, start, claimed>>
  BY <1>0, PublishedTypes, PlaceNames DEF FlushFails, row, TypeOK
<1>2. flagged \subseteq Jobs /\ queued \subseteq Jobs /\ payload \subseteq Jobs
  BY <1>0 DEF TypeOK
<1>3. PayloadOnlyQueued'
  BY <1>1 DEF RegistryInv, PayloadOnlyQueued, RowActive
<1>4. OneHand'
  BY <1>1 DEF RegistryInv, OneHand, Has
<1>5. QueuedIsFree'
  BY <1>1 DEF RegistryInv, QueuedIsFree, RowActive, Has
<1>6. ClaimersRowless'
  BY <1>1 DEF RegistryInv, ClaimersRowless, Exists
<1>7. HandlesOwned'
  BY <1>1 DEF RegistryInv, HandlesOwned, Exists
<1>8. FlagEnds'
  BY <1>1 DEF RegistryInv, FlagEnds
<1>9. OwnersRow'
  BY <1>1 DEF RegistryInv, OwnersRow, Active, RowActive
<1>10. OneActive'
  BY <1>1 DEF RegistryInv, OneActive, RowActive
<1> QED BY <1>3, <1>4, <1>5, <1>6, <1>7, <1>8, <1>9, <1>10 DEF RegistryInv

LEMMA FirstFailsKeeps ==
  ASSUME RegistryInv, TypeOK', NEW p \in Processes, NEW j \in Jobs, FirstFails(p, j)
  PROVE  RegistryInv'
<1>0. TypeOK
  BY DEF RegistryInv
<1>1. /\ published[p][j] \in JobStatuses /\ start[p][j] = "first"
      /\ \A q \in Processes, k \in Jobs :
            published'[q][k] = IF q = p /\ k = j THEN "none" ELSE published[q][k]
      /\ \A q \in Processes, k \in Jobs :
            start'[q][k] = IF q = p /\ k = j THEN "submit" ELSE start[q][k]
      /\ \A q \in Processes : tracked'[q] = IF q = p THEN tracked[p] \ {j} ELSE tracked[q]
      /\ UNCHANGED <<status, queued, payload, flagged, mine, claimed>>
  BY <1>0, GotoTypes, PublishedTypes, PlaceNames DEF FirstFails, Untrack, TypeOK, row
<1>2. flagged \subseteq Jobs /\ queued \subseteq Jobs /\ payload \subseteq Jobs
  BY <1>0 DEF TypeOK
<1>3. PayloadOnlyQueued'
  BY <1>1 DEF RegistryInv, PayloadOnlyQueued, RowActive
<1>4. OneHand'
  BY <1>1 DEF RegistryInv, OneHand, Has
<1>5. QueuedIsFree'
  BY <1>1, <1>2 DEF RegistryInv, QueuedIsFree, RowActive, Has
<1>6. ClaimersRowless'
  BY <1>1 DEF RegistryInv, ClaimersRowless, Exists
<1>7. HandlesOwned'
  BY <1>1 DEF RegistryInv, HandlesOwned, Exists
<1>8. FlagEnds'
  BY <1>1 DEF RegistryInv, FlagEnds
<1>9. OwnersRow'
  BY <1>1 DEF RegistryInv, OwnersRow, Active, RowActive
<1>10. OneActive'
  BY <1>1 DEF RegistryInv, OneActive, RowActive
<1> QED BY <1>3, <1>4, <1>5, <1>6, <1>7, <1>8, <1>9, <1>10 DEF RegistryInv

LEMMA ClaimFailsKeeps ==
  ASSUME RegistryInv, TypeOK', NEW p \in Processes, NEW j \in Jobs, ClaimFails(p, j)
  PROVE  RegistryInv'
<1>0. TypeOK
  BY DEF RegistryInv
<1>1. /\ start[p][j] \in {"claim", "reread", "replace"}
      /\ start'[p][j] \in {"none", "submit"}
      /\ mine[p][j] # "none" => start'[p][j] = "submit"
      /\ \A q \in Processes, k \in Jobs :
            q # p \/ k # j => start'[q][k] = start[q][k]
      /\ UNCHANGED <<status, queued, payload, flagged, tracked, mine, published, claimed>>
  BY <1>0, GotoTypes, PlaceNames DEF ClaimFails, Queueing, row, TypeOK
<1>2. flagged \subseteq Jobs /\ queued \subseteq Jobs /\ payload \subseteq Jobs
  BY <1>0 DEF TypeOK
<1>3. PayloadOnlyQueued'
  BY <1>1 DEF RegistryInv, PayloadOnlyQueued, RowActive
<1>4. OneHand'
  BY <1>1 DEF RegistryInv, OneHand, Has
<1>5. QueuedIsFree'
  BY <1>1, <1>2 DEF RegistryInv, QueuedIsFree, RowActive, Has
<1>6. ClaimersRowless'
  BY <1>1 DEF RegistryInv, ClaimersRowless, Exists
<1>7. HandlesOwned'
  BY <1>1 DEF RegistryInv, HandlesOwned, Exists
<1>8. FlagEnds'
  BY <1>1 DEF RegistryInv, FlagEnds
<1>9. OwnersRow'
  BY <1>1 DEF RegistryInv, OwnersRow, Active, RowActive
<1>10. OneActive'
  BY <1>1 DEF RegistryInv, OneActive, RowActive
<1> QED BY <1>3, <1>4, <1>5, <1>6, <1>7, <1>8, <1>9, <1>10 DEF RegistryInv

LEMMA FinishKeeps ==
  ASSUME RegistryInv, TypeOK', NEW p \in Processes, NEW j \in Jobs, Finish(p, j)
  PROVE  RegistryInv'
<1>0. TypeOK
  BY DEF RegistryInv
<1>1. /\ mine[p][j] # "none"
      /\ mine'[p][j] = mine[p][j] \/ mine'[p][j] \in TerminalStatuses
      /\ \A q \in Processes, k \in Jobs :
            q # p \/ k # j => mine'[q][k] = mine[q][k]
      /\ UNCHANGED <<status, queued, payload, flagged, tracked, start, published, claimed>>
  BY <1>0, MineTypes, PlaceNames DEF Finish, row, TypeOK, Memories, TerminalStatuses
<1>2. flagged \subseteq Jobs /\ queued \subseteq Jobs /\ payload \subseteq Jobs
  BY <1>0 DEF TypeOK
<1>3. PayloadOnlyQueued'
  BY <1>1 DEF RegistryInv, PayloadOnlyQueued, RowActive
<1>4. OneHand'
  BY <1>1 DEF RegistryInv, OneHand, Has
<1>5. QueuedIsFree'
  BY <1>1, <1>2 DEF RegistryInv, QueuedIsFree, RowActive, Has
<1>6. ClaimersRowless'
  BY <1>1 DEF RegistryInv, ClaimersRowless, Exists
<1>7. HandlesOwned'
  BY <1>1, <1>2
     DEF RegistryInv, HandlesOwned, OneHand, Has, Exists, JobStatuses, ActiveStatuses,
         TerminalStatuses
<1>8. FlagEnds'
  BY <1>1 DEF RegistryInv, FlagEnds
<1>9. OwnersRow'
  BY <1>1, <1>2
     DEF RegistryInv, OwnersRow, Active, RowActive, HandlesOwned, OneHand, Has, Exists,
         ActiveStatuses, TerminalStatuses, JobStatuses
<1>10. OneActive'
  BY <1>1 DEF RegistryInv, OneActive, RowActive
<1> QED BY <1>3, <1>4, <1>5, <1>6, <1>7, <1>8, <1>9, <1>10 DEF RegistryInv

LEMMA CancelLocalKeeps ==
  ASSUME RegistryInv, TypeOK', NEW p \in Processes, NEW j \in Jobs, CancelLocal(p, j)
  PROVE  RegistryInv'
<1>0. TypeOK
  BY DEF RegistryInv
<1>1. /\ mine[p][j] # "none"
      /\ mine'[p][j] = mine[p][j] \/ mine'[p][j] \in TerminalStatuses
      /\ \A q \in Processes, k \in Jobs :
            q # p \/ k # j => mine'[q][k] = mine[q][k]
      /\ UNCHANGED <<status, queued, payload, flagged, tracked, start, published, claimed>>
  BY <1>0, MineTypes, PlaceNames
     DEF CancelLocal, CancelHere, Active, row, TypeOK, Memories, TerminalStatuses,
         ActiveStatuses
<1>2. flagged \subseteq Jobs /\ queued \subseteq Jobs /\ payload \subseteq Jobs
  BY <1>0 DEF TypeOK
<1>3. PayloadOnlyQueued'
  BY <1>1 DEF RegistryInv, PayloadOnlyQueued, RowActive
<1>4. OneHand'
  BY <1>1 DEF RegistryInv, OneHand, Has
<1>5. QueuedIsFree'
  BY <1>1, <1>2 DEF RegistryInv, QueuedIsFree, RowActive, Has
<1>6. ClaimersRowless'
  BY <1>1 DEF RegistryInv, ClaimersRowless, Exists
<1>7. HandlesOwned'
  BY <1>1, <1>2
     DEF RegistryInv, HandlesOwned, OneHand, Has, Exists, JobStatuses, ActiveStatuses,
         TerminalStatuses
<1>8. FlagEnds'
  BY <1>1 DEF RegistryInv, FlagEnds
<1>9. OwnersRow'
  BY <1>1, <1>2
     DEF RegistryInv, OwnersRow, Active, RowActive, HandlesOwned, OneHand, Has, Exists,
         ActiveStatuses, TerminalStatuses, JobStatuses
<1>10. OneActive'
  BY <1>1 DEF RegistryInv, OneActive, RowActive
<1> QED BY <1>3, <1>4, <1>5, <1>6, <1>7, <1>8, <1>9, <1>10 DEF RegistryInv

LEMMA OnCancelKeeps ==
  ASSUME RegistryInv, TypeOK', NEW p \in Processes, NEW j \in Jobs, OnCancel(p, j)
  PROVE  RegistryInv'
<1>0. TypeOK
  BY DEF RegistryInv
<1>1. /\ published[p][j] = "cancel"
      /\ mine'[p][j] = mine[p][j] \/ (mine[p][j] # "none" /\ mine'[p][j] \in TerminalStatuses)
      /\ \A q \in Processes, k \in Jobs :
            q # p \/ k # j => mine'[q][k] = mine[q][k]
      /\ \A q \in Processes, k \in Jobs :
            published'[q][k] = IF q = p /\ k = j THEN "none" ELSE published[q][k]
      /\ UNCHANGED <<status, queued, payload, flagged, tracked, start, claimed>>
  BY <1>0, MineTypes, PublishedTypes, PlaceNames
     DEF OnCancel, CancelHere, Active, row, TypeOK, Memories, TerminalStatuses,
         ActiveStatuses
<1>2. flagged \subseteq Jobs /\ queued \subseteq Jobs /\ payload \subseteq Jobs
  BY <1>0 DEF TypeOK
<1>3. PayloadOnlyQueued'
  BY <1>1 DEF RegistryInv, PayloadOnlyQueued, RowActive
<1>4. OneHand'
  BY <1>1 DEF RegistryInv, OneHand, Has
<1>5. QueuedIsFree'
  BY <1>1, <1>2 DEF RegistryInv, QueuedIsFree, RowActive, Has
<1>6. ClaimersRowless'
  BY <1>1 DEF RegistryInv, ClaimersRowless, Exists
<1>7. HandlesOwned'
  BY <1>1, <1>2
     DEF RegistryInv, HandlesOwned, OneHand, Has, Exists, JobStatuses, ActiveStatuses,
         TerminalStatuses
<1>8. FlagEnds'
  BY <1>1 DEF RegistryInv, FlagEnds
<1>9. OwnersRow'
  BY <1>1, <1>2
     DEF RegistryInv, OwnersRow, Active, RowActive, HandlesOwned, OneHand, Has, Exists,
         ActiveStatuses, TerminalStatuses, JobStatuses
<1>10. OneActive'
  BY <1>1 DEF RegistryInv, OneActive, RowActive
<1> QED BY <1>3, <1>4, <1>5, <1>6, <1>7, <1>8, <1>9, <1>10 DEF RegistryInv

LEMMA AdoptFailsKeeps ==
  ASSUME RegistryInv, TypeOK', NEW p \in Processes, NEW j \in Jobs, AdoptFails(p, j)
  PROVE  RegistryInv'
<1>0. TypeOK
  BY DEF RegistryInv
<1>1. /\ j \in claimed[p]
      /\ \A q \in Processes : claimed'[q] = IF q = p THEN claimed[p] \ {j} ELSE claimed[q]
      /\ \/ /\ RowActive(j) /\ flagged' = flagged
            /\ queued' = queued \ {j} /\ payload' = payload \ {j}
            /\ \A k \in Jobs : status'[k] = IF k = j THEN "failed" ELSE status[k]
         \/ UNCHANGED <<status, queued, payload, flagged>>
      /\ UNCHANGED <<tracked, mine, start, published>>
  BY <1>0 DEF AdoptFails, TypeOK, row
<1>2. flagged \subseteq Jobs /\ queued \subseteq Jobs /\ payload \subseteq Jobs
  BY <1>0 DEF TypeOK
<1>3. PayloadOnlyQueued'
  <2>1. CASE UNCHANGED <<status, queued, payload, flagged>>
    BY <1>1, <1>2, <2>1 DEF RegistryInv, PayloadOnlyQueued, RowActive
  <2>2. CASE ~(UNCHANGED <<status, queued, payload, flagged>>)
    BY <1>1, <1>2, <2>2 DEF RegistryInv, PayloadOnlyQueued, RowActive
  <2> QED BY <2>1, <2>2
<1>4. OneHand'
  BY <1>1 DEF RegistryInv, OneHand, Has
<1>5. QueuedIsFree'
  BY <1>1, <1>2 DEF RegistryInv, QueuedIsFree, RowActive, Has
<1>6. ClaimersRowless'
  BY <1>1, <1>2
     DEF RegistryInv, JobStatuses, ActiveStatuses, TerminalStatuses, ClaimersRowless,
         Exists, Has, OneHand, HandlesOwned, Known, Claimable, RowActive
<1>7. HandlesOwned'
  BY <1>1 DEF RegistryInv, HandlesOwned, Exists
<1>8. FlagEnds'
  <2>1. CASE UNCHANGED <<status, queued, payload, flagged>>
    BY <1>1, <1>2, <2>1
       DEF RegistryInv, FlagEnds, Exists, ActiveStatuses, TerminalStatuses, JobStatuses,
           RowActive
  <2>2. CASE ~(UNCHANGED <<status, queued, payload, flagged>>)
    BY <1>1, <1>2, <2>2
       DEF RegistryInv, FlagEnds, Exists, ActiveStatuses, TerminalStatuses, JobStatuses,
           RowActive
  <2> QED BY <2>1, <2>2
<1>9. OwnersRow'
  <2>1. CASE UNCHANGED <<status, queued, payload, flagged>>
    BY <1>1, <1>2, <2>1
       DEF RegistryInv, OwnersRow, Active, RowActive, HandlesOwned, OneHand, Has, Exists,
           ActiveStatuses, TerminalStatuses, JobStatuses
  <2>2. CASE ~(UNCHANGED <<status, queued, payload, flagged>>)
    BY <1>1, <1>2, <2>2
       DEF RegistryInv, OwnersRow, Active, RowActive, HandlesOwned, OneHand, Has, Exists,
           ActiveStatuses, TerminalStatuses, JobStatuses
  <2> QED BY <2>1, <2>2
<1>10. OneActive'
  <2>1. CASE UNCHANGED <<status, queued, payload, flagged>>
    BY <1>1, <1>2, <2>1 DEF RegistryInv, OneActive, RowActive
  <2>2. CASE ~(UNCHANGED <<status, queued, payload, flagged>>)
    BY <1>1, <1>2, <2>2 DEF RegistryInv, OneActive, RowActive
  <2> QED BY <2>1, <2>2
<1> QED BY <1>3, <1>4, <1>5, <1>6, <1>7, <1>8, <1>9, <1>10 DEF RegistryInv

LEMMA WriteKeeps ==
  ASSUME RegistryInv, TypeOK', NEW p \in Processes, NEW j \in Jobs, Write(p, j)
  PROVE  RegistryInv'
<1>0. TypeOK
  BY DEF RegistryInv
<1>1. /\ published[p][j] \in JobStatuses
      /\ \/ /\ j \in flagged /\ UNCHANGED <<status, queued, payload, flagged>>
            /\ \A q \in Processes : tracked'[q] = IF q = p THEN tracked[p] \ {j} ELSE tracked[q]
         \/ /\ j \notin flagged
            /\ published[p][j] \in TerminalStatuses \/ Holders(j) = {}
            /\ \A k \in Jobs : status'[k] = IF k = j THEN published[p][j] ELSE status[k]
            /\ payload' = IF published[p][j] \in TerminalStatuses THEN payload \ {j} ELSE payload
            /\ UNCHANGED <<queued, flagged>>
            /\ published[p][j] \in ActiveStatuses => tracked' = tracked
            /\ published[p][j] \in TerminalStatuses =>
                 \A q \in Processes : tracked'[q] = IF q = p THEN tracked[p] \ {j} ELSE tracked[q]
      /\ start'[p][j] = start[p][j] \/ (start[p][j] = "first" /\ start'[p][j] = "submit")
      /\ published'[p][j] \in {"none", "cancel"}
      /\ \A q \in Processes, k \in Jobs :
            q # p \/ k # j => start'[q][k] = start[q][k]
      /\ \A q \in Processes, k \in Jobs :
            q # p \/ k # j => published'[q][k] = published[q][k]
      /\ UNCHANGED <<mine, claimed>>
  BY <1>0, GotoTypes, PublishedTypes, PlaceNames
     DEF Write, WriteRow, AfterFirst, Untrack, row, TypeOK, Memories, JobStatuses,
         ActiveStatuses, TerminalStatuses
<1>2. flagged \subseteq Jobs /\ queued \subseteq Jobs /\ payload \subseteq Jobs
  BY <1>0 DEF TypeOK
<1>3. PayloadOnlyQueued'
  <2>1. CASE UNCHANGED <<status, queued, payload, flagged>>
    BY <1>1, <1>2, <2>1
       DEF RegistryInv, JobStatuses, ActiveStatuses, TerminalStatuses, PayloadOnlyQueued,
           RowActive, QueuedIsFree, Has, HandlesOwned, Claimable, ClaimersRowless, Exists
  <2>2. CASE ~(UNCHANGED <<status, queued, payload, flagged>>)
    BY <1>1, <1>2, <2>2
       DEF RegistryInv, JobStatuses, ActiveStatuses, TerminalStatuses, PayloadOnlyQueued,
           RowActive, QueuedIsFree, Has, HandlesOwned, Claimable, ClaimersRowless, Exists
  <2> QED BY <2>1, <2>2
<1>4. OneHand'
  BY <1>1 DEF RegistryInv, OneHand, Has
<1>5. QueuedIsFree'
  BY <1>1, <1>2
     DEF RegistryInv, JobStatuses, ActiveStatuses, TerminalStatuses, QueuedIsFree, Has,
         OneHand, Known, Claimable, HandlesOwned, ClaimersRowless, RowActive, Exists
<1>6. ClaimersRowless'
  BY <1>1, <1>2
     DEF RegistryInv, JobStatuses, ActiveStatuses, TerminalStatuses, ClaimersRowless,
         Exists, Has, OneHand, HandlesOwned, Known, Claimable, RowActive
<1>7. HandlesOwned'
  BY <1>1, <1>2
     DEF RegistryInv, HandlesOwned, OneHand, Has, Exists, JobStatuses, ActiveStatuses,
         TerminalStatuses
<1>8. FlagEnds'
  <2>1. CASE UNCHANGED <<status, queued, payload, flagged>>
    BY <1>1, <1>2, <2>1 DEF RegistryInv, FlagEnds
  <2>2. CASE ~(UNCHANGED <<status, queued, payload, flagged>>)
    BY <1>1, <1>2, <2>2 DEF RegistryInv, FlagEnds
  <2> QED BY <2>1, <2>2
<1>9. OwnersRow'
  <2>1. CASE UNCHANGED <<status, queued, payload, flagged>>
    BY <1>1, <1>2, <2>1
       DEF RegistryInv, OwnersRow, Active, RowActive, HandlesOwned, OneHand, Has, Exists,
           ActiveStatuses, TerminalStatuses, JobStatuses
  <2>2. CASE ~(UNCHANGED <<status, queued, payload, flagged>>)
    BY <1>1, <1>2, <2>2
       DEF RegistryInv, OwnersRow, Active, RowActive, HandlesOwned, OneHand, Has, Exists,
           ActiveStatuses, TerminalStatuses, JobStatuses
  <2> QED BY <2>1, <2>2
<1>10. OneActive'
  <2>1. CASE UNCHANGED <<status, queued, payload, flagged>>
    BY <1>1, <1>2, <2>1
       DEF RegistryInv, OneActive, RowActive, Holders, ActiveStatuses, TerminalStatuses,
           JobStatuses
  <2>2. CASE ~(UNCHANGED <<status, queued, payload, flagged>>)
    BY <1>1, <1>2, <2>2
       DEF RegistryInv, OneActive, RowActive, Holders, ActiveStatuses, TerminalStatuses,
           JobStatuses
  <2> QED BY <2>1, <2>2
<1> QED BY <1>3, <1>4, <1>5, <1>6, <1>7, <1>8, <1>9, <1>10 DEF RegistryInv

LEMMA ClaimInsertKeeps ==
  ASSUME RegistryInv, TypeOK', NEW p \in Processes, NEW j \in Jobs, ClaimInsert(p, j)
  PROVE  RegistryInv'
<1>0. TypeOK
  BY DEF RegistryInv
<1>g. \A x \in Places : Goto(p, j, x) =>
        \A q \in Processes, k \in Jobs :
          start'[q][k] = IF q = p /\ k = j THEN x ELSE start[q][k]
  BY <1>0, GotoTypes
<1>h. {"none", "track", "reread"} \subseteq Places
  BY DEF Places
<1>d. \/ /\ Goto(p, j, "none") /\ Holders(j) = {} /\ mine[p][j] = "none"
         /\ status' = [status EXCEPT ![j] = "queued"]
         /\ queued' = queued \cup {j} /\ payload' = payload \cup {j} /\ flagged' = flagged
      \/ /\ Goto(p, j, "track") /\ mine[p][j] # "none"
         /\ Holders(j) = {} \/ mine[p][j] \in TerminalStatuses
         /\ status' = [status EXCEPT ![j] = mine[p][j]]
         /\ UNCHANGED <<queued, payload, flagged>>
      \/ /\ Goto(p, j, "reread")
         /\ UNCHANGED <<status, queued, payload, flagged>>
  <2>1. CASE Queueing(p, j)
    BY <2>1 DEF ClaimInsert, Queueing, row, TerminalStatuses
  <2>2. CASE ~Queueing(p, j)
    BY <2>2 DEF ClaimInsert, Queueing, row
  <2> QED BY <2>1, <2>2
<1>e. start[p][j] = "claim" /\ UNCHANGED <<tracked, mine, published, claimed>>
  BY DEF ClaimInsert
<1>1. /\ start[p][j] = "claim" /\ mine[p][j] \in Memories
      /\ start'[p][j] \in {"none", "track", "reread"}
      /\ start'[p][j] = "none" =>
            /\ Holders(j) = {} /\ mine[p][j] = "none"
            /\ \A k \in Jobs : status'[k] = IF k = j THEN "queued" ELSE status[k]
            /\ queued' = queued \cup {j} /\ payload' = payload \cup {j}
            /\ flagged' = flagged
      /\ start'[p][j] = "track" =>
            /\ Holders(j) = {} \/ mine[p][j] \in TerminalStatuses
            /\ mine[p][j] # "none"
            /\ \A k \in Jobs : status'[k] = IF k = j THEN mine[p][j] ELSE status[k]
            /\ UNCHANGED <<queued, payload, flagged>>
      /\ start'[p][j] = "reread" => UNCHANGED <<status, queued, payload, flagged>>
      /\ \A q \in Processes, k \in Jobs :
            q # p \/ k # j => start'[q][k] = start[q][k]
      /\ UNCHANGED <<tracked, mine, published, claimed>>
  <2>1. start[p][j] = "claim" /\ mine[p][j] \in Memories
    BY <1>0, <1>g, <1>h, <1>d, <1>e DEF TypeOK, Memories
  <2>2. start'[p][j] \in {"none", "track", "reread"}
    BY <1>0, <1>g, <1>h, <1>d, <1>e DEF TypeOK, Memories
  <2>3. /\ start'[p][j] = "none" =>
             /\ Holders(j) = {} /\ mine[p][j] = "none"
             /\ \A k \in Jobs : status'[k] = IF k = j THEN "queued" ELSE status[k]
             /\ queued' = queued \cup {j} /\ payload' = payload \cup {j}
             /\ flagged' = flagged
    BY <1>0, <1>g, <1>h, <1>d, <1>e DEF TypeOK, Memories
  <2>4. /\ start'[p][j] = "track" =>
             /\ Holders(j) = {} \/ mine[p][j] \in TerminalStatuses
             /\ mine[p][j] # "none"
             /\ \A k \in Jobs : status'[k] = IF k = j THEN mine[p][j] ELSE status[k]
             /\ UNCHANGED <<queued, payload, flagged>>
    BY <1>0, <1>g, <1>h, <1>d, <1>e DEF TypeOK, Memories
  <2>5. start'[p][j] = "reread" => UNCHANGED <<status, queued, payload, flagged>>
    BY <1>0, <1>g, <1>h, <1>d, <1>e DEF TypeOK, Memories
  <2>6. /\ \A q \in Processes, k \in Jobs :
             q # p \/ k # j => start'[q][k] = start[q][k]
    BY <1>0, <1>g, <1>h, <1>d, <1>e DEF TypeOK, Memories
  <2>7. UNCHANGED <<tracked, mine, published, claimed>>
    BY <1>0, <1>g, <1>h, <1>d, <1>e DEF TypeOK, Memories
  <2> QED BY <2>1, <2>2, <2>3, <2>4, <2>5, <2>6, <2>7
<1>2. flagged \subseteq Jobs /\ queued \subseteq Jobs /\ payload \subseteq Jobs
  BY <1>0 DEF TypeOK
<1>3. PayloadOnlyQueued'
  <2>1. CASE start'[p][j] = "none"
    BY <1>1, <1>2, <2>1
       DEF RegistryInv, JobStatuses, ActiveStatuses, TerminalStatuses, PayloadOnlyQueued,
           RowActive, QueuedIsFree, Has, HandlesOwned, Claimable, ClaimersRowless, Exists
  <2>2. CASE start'[p][j] = "track"
    BY <1>1, <1>2, <2>2
       DEF RegistryInv, JobStatuses, ActiveStatuses, TerminalStatuses, PayloadOnlyQueued,
           RowActive, QueuedIsFree, Has, HandlesOwned, Claimable, ClaimersRowless, Exists
  <2>3. CASE start'[p][j] = "reread"
    BY <1>1, <1>2, <2>3
       DEF RegistryInv, JobStatuses, ActiveStatuses, TerminalStatuses, PayloadOnlyQueued,
           RowActive, QueuedIsFree, Has, HandlesOwned, Claimable, ClaimersRowless, Exists
  <2> QED BY <1>1, <2>1, <2>2, <2>3
<1>4. OneHand'
  <2>1. CASE start'[p][j] = "none"
    BY <1>1, <1>2, <2>1 DEF RegistryInv, OneHand, Has
  <2>2. CASE start'[p][j] = "track"
    BY <1>1, <1>2, <2>2 DEF RegistryInv, OneHand, Has
  <2>3. CASE start'[p][j] = "reread"
    BY <1>1, <1>2, <2>3 DEF RegistryInv, OneHand, Has
  <2> QED BY <1>1, <2>1, <2>2, <2>3
<1>5. QueuedIsFree'
  <2>1. CASE start'[p][j] = "none"
    BY <1>1, <1>2, <2>1
       DEF RegistryInv, JobStatuses, ActiveStatuses, TerminalStatuses, QueuedIsFree, Has,
           OneHand, Known, Claimable, HandlesOwned, ClaimersRowless, RowActive, Exists
  <2>2. CASE start'[p][j] = "track"
    BY <1>1, <1>2, <2>2
       DEF RegistryInv, JobStatuses, ActiveStatuses, TerminalStatuses, QueuedIsFree, Has,
           OneHand, Known, Claimable, HandlesOwned, ClaimersRowless, RowActive, Exists
  <2>3. CASE start'[p][j] = "reread"
    BY <1>1, <1>2, <2>3
       DEF RegistryInv, JobStatuses, ActiveStatuses, TerminalStatuses, QueuedIsFree, Has,
           OneHand, Known, Claimable, HandlesOwned, ClaimersRowless, RowActive, Exists
  <2> QED BY <1>1, <2>1, <2>2, <2>3
<1>6. ClaimersRowless'
  <2>1. CASE start'[p][j] = "none"
    BY <1>1, <1>2, <2>1 DEF RegistryInv, ClaimersRowless, OneHand, Has, Exists
  <2>2. CASE start'[p][j] = "track"
    BY <1>1, <1>2, <2>2 DEF RegistryInv, ClaimersRowless, OneHand, Has, Exists
  <2>3. CASE start'[p][j] = "reread"
    BY <1>1, <1>2, <2>3 DEF RegistryInv, ClaimersRowless, OneHand, Has, Exists
  <2> QED BY <1>1, <2>1, <2>2, <2>3
<1>7. HandlesOwned'
  <2>1. CASE start'[p][j] = "none"
    BY <1>1, <1>2, <2>1
       DEF RegistryInv, JobStatuses, ActiveStatuses, TerminalStatuses, HandlesOwned,
           ClaimersRowless, Exists, Has, OneHand, QueuedIsFree, Known, Claimable,
           RowActive
  <2>2. CASE start'[p][j] = "track"
    BY <1>1, <1>2, <2>2
       DEF RegistryInv, JobStatuses, ActiveStatuses, TerminalStatuses, HandlesOwned,
           ClaimersRowless, Exists, Has, OneHand, QueuedIsFree, Known, Claimable,
           RowActive
  <2>3. CASE start'[p][j] = "reread"
    BY <1>1, <1>2, <2>3
       DEF RegistryInv, JobStatuses, ActiveStatuses, TerminalStatuses, HandlesOwned,
           ClaimersRowless, Exists, Has, OneHand, QueuedIsFree, Known, Claimable,
           RowActive
  <2> QED BY <1>1, <2>1, <2>2, <2>3
<1>8. FlagEnds'
  <2>1. CASE start'[p][j] = "none"
    BY <1>1, <1>2, <2>1
       DEF RegistryInv, JobStatuses, ActiveStatuses, TerminalStatuses, FlagEnds, Exists,
           ClaimersRowless, QueuedIsFree, Has
  <2>2. CASE start'[p][j] = "track"
    BY <1>1, <1>2, <2>2
       DEF RegistryInv, JobStatuses, ActiveStatuses, TerminalStatuses, FlagEnds, Exists,
           ClaimersRowless, QueuedIsFree, Has
  <2>3. CASE start'[p][j] = "reread"
    BY <1>1, <1>2, <2>3
       DEF RegistryInv, JobStatuses, ActiveStatuses, TerminalStatuses, FlagEnds, Exists,
           ClaimersRowless, QueuedIsFree, Has
  <2> QED BY <1>1, <2>1, <2>2, <2>3
<1>9. OwnersRow'
  <2>1. CASE start'[p][j] = "none"
    BY <1>1, <1>2, <2>1
       DEF RegistryInv, OwnersRow, Active, RowActive, HandlesOwned, OneHand, Has, Exists,
           ActiveStatuses, TerminalStatuses, JobStatuses
  <2>2. CASE start'[p][j] = "track"
    BY <1>1, <1>2, <2>2
       DEF RegistryInv, OwnersRow, Active, RowActive, HandlesOwned, OneHand, Has, Exists,
           ActiveStatuses, TerminalStatuses, JobStatuses
  <2>3. CASE start'[p][j] = "reread"
    BY <1>1, <1>2, <2>3
       DEF RegistryInv, OwnersRow, Active, RowActive, HandlesOwned, OneHand, Has, Exists,
           ActiveStatuses, TerminalStatuses, JobStatuses
  <2> QED BY <1>1, <2>1, <2>2, <2>3
<1>10. OneActive'
  <2>1. CASE start'[p][j] = "none"
    BY <1>1, <1>2, <2>1
       DEF RegistryInv, OneActive, RowActive, Holders, ActiveStatuses, TerminalStatuses,
           JobStatuses
  <2>2. CASE start'[p][j] = "track"
    BY <1>1, <1>2, <2>2
       DEF RegistryInv, OneActive, RowActive, Holders, ActiveStatuses, TerminalStatuses,
           JobStatuses
  <2>3. CASE start'[p][j] = "reread"
    BY <1>1, <1>2, <2>3
       DEF RegistryInv, OneActive, RowActive, Holders, ActiveStatuses, TerminalStatuses,
           JobStatuses
  <2> QED BY <1>1, <2>1, <2>2, <2>3
<1> QED BY <1>3, <1>4, <1>5, <1>6, <1>7, <1>8, <1>9, <1>10 DEF RegistryInv

LEMMA ClaimRereadKeeps ==
  ASSUME RegistryInv, TypeOK', NEW p \in Processes, NEW j \in Jobs, ClaimReread(p, j)
  PROVE  RegistryInv'
<1>0. TypeOK
  BY DEF RegistryInv
<1>1. /\ start[p][j] = "reread"
      /\ start'[p][j] \in {"claim", "replace", "none"}
      /\ start'[p][j] # "none" => mine'[p][j] = mine[p][j]
      /\ start'[p][j] = "none" => mine'[p][j] = "none"
      /\ \A q \in Processes, k \in Jobs :
            q # p \/ k # j => start'[q][k] = start[q][k]
      /\ \A q \in Processes, k \in Jobs :
            q # p \/ k # j => mine'[q][k] = mine[q][k]
      /\ UNCHANGED <<status, queued, payload, flagged, tracked, published, claimed>>
  <2>1. start[p][j] = "reread"
    BY <1>0, GotoTypes, MineTypes, PlaceNames
       DEF ClaimReread, GoneFrom, row, TypeOK, Memories, Places
  <2>2. start'[p][j] \in {"claim", "replace", "none"}
    BY <1>0, GotoTypes, MineTypes, PlaceNames
       DEF ClaimReread, GoneFrom, row, TypeOK, Memories, Places
  <2>3. start'[p][j] # "none" => mine'[p][j] = mine[p][j]
    BY <1>0, GotoTypes, MineTypes, PlaceNames
       DEF ClaimReread, GoneFrom, row, TypeOK, Memories, Places
  <2>4. start'[p][j] = "none" => mine'[p][j] = "none"
    BY <1>0, GotoTypes, MineTypes, PlaceNames
       DEF ClaimReread, GoneFrom, row, TypeOK, Memories, Places
  <2>5. /\ \A q \in Processes, k \in Jobs :
             q # p \/ k # j => start'[q][k] = start[q][k]
    BY <1>0, GotoTypes, MineTypes, PlaceNames
       DEF ClaimReread, GoneFrom, row, TypeOK, Memories, Places
  <2>6. /\ \A q \in Processes, k \in Jobs :
             q # p \/ k # j => mine'[q][k] = mine[q][k]
    BY <1>0, GotoTypes, MineTypes, PlaceNames
       DEF ClaimReread, GoneFrom, row, TypeOK, Memories, Places
  <2>7. UNCHANGED <<status, queued, payload, flagged, tracked, published, claimed>>
    BY <1>0, GotoTypes, MineTypes, PlaceNames
       DEF ClaimReread, GoneFrom, row, TypeOK, Memories, Places
  <2> QED BY <2>1, <2>2, <2>3, <2>4, <2>5, <2>6, <2>7
<1>2. flagged \subseteq Jobs /\ queued \subseteq Jobs /\ payload \subseteq Jobs
  BY <1>0 DEF TypeOK
<1>3. PayloadOnlyQueued'
  BY <1>1 DEF RegistryInv, PayloadOnlyQueued, RowActive
<1>4. OneHand'
  BY <1>1 DEF RegistryInv, OneHand, Has
<1>5. QueuedIsFree'
  BY <1>1, <1>2 DEF RegistryInv, QueuedIsFree, RowActive, Has
<1>6. ClaimersRowless'
  BY <1>1 DEF RegistryInv, ClaimersRowless, Exists
<1>7. HandlesOwned'
  BY <1>1, <1>2
     DEF RegistryInv, JobStatuses, ActiveStatuses, TerminalStatuses, HandlesOwned,
         ClaimersRowless, Exists, Has, OneHand, QueuedIsFree, Known, Claimable, RowActive
<1>8. FlagEnds'
  BY <1>1 DEF RegistryInv, FlagEnds
<1>9. OwnersRow'
  BY <1>1, <1>2
     DEF RegistryInv, OwnersRow, Active, RowActive, HandlesOwned, OneHand, Has, Exists,
         ActiveStatuses, TerminalStatuses, JobStatuses
<1>10. OneActive'
  BY <1>1 DEF RegistryInv, OneActive, RowActive
<1> QED BY <1>3, <1>4, <1>5, <1>6, <1>7, <1>8, <1>9, <1>10 DEF RegistryInv

LEMMA ClaimReplaceKeeps ==
  ASSUME RegistryInv, TypeOK', NEW p \in Processes, NEW j \in Jobs, ClaimReplace(p, j)
  PROVE  RegistryInv'
<1>0. TypeOK
  BY DEF RegistryInv
<1>g. PICK g \in Jobs : IF RowActive(g) THEN End(g, "failed") ELSE UNCHANGED row
  BY DEF ClaimReplace
<1>h. \/ UNCHANGED <<status, queued, payload, flagged>>
           \/ \E h \in Jobs :
                /\ RowActive(h)
                /\ \A k \in Jobs : k # h => status'[k] = status[k]
                /\ status'[h] \in TerminalStatuses
                /\ queued' = queued \ {h} /\ payload' = payload \ {h}
                /\ flagged' = flagged \cup {h}
  <2>1. CASE RowActive(g)
    BY <1>0, <1>g, <2>1 DEF End, TypeOK, TerminalStatuses
  <2>2. CASE ~RowActive(g)
    BY <1>g, <2>2 DEF row
  <2> QED BY <2>1, <2>2
<1>1. /\ start[p][j] = "replace"
      /\ \/ UNCHANGED <<status, queued, payload, flagged>>
         \/ \E h \in Jobs :
              /\ RowActive(h)
              /\ \A k \in Jobs : k # h => status'[k] = status[k]
              /\ status'[h] \in TerminalStatuses
              /\ queued' = queued \ {h} /\ payload' = payload \ {h}
              /\ flagged' = flagged \cup {h}
      /\ \A q \in Processes, k \in Jobs :
            start'[q][k] = IF q = p /\ k = j THEN "claim" ELSE start[q][k]
      /\ UNCHANGED <<tracked, mine, published, claimed>>
  <2>1. start[p][j] = "replace"
    BY <1>0, <1>h, GotoTypes, PlaceNames DEF ClaimReplace, TypeOK
  <2>2. /\ \/ UNCHANGED <<status, queued, payload, flagged>>
          \/ \E h \in Jobs :
               /\ RowActive(h)
               /\ \A k \in Jobs : k # h => status'[k] = status[k]
               /\ status'[h] \in TerminalStatuses
               /\ queued' = queued \ {h} /\ payload' = payload \ {h}
               /\ flagged' = flagged \cup {h}
    BY <1>0, <1>h, GotoTypes, PlaceNames DEF ClaimReplace, TypeOK
  <2>3. /\ \A q \in Processes, k \in Jobs :
             start'[q][k] = IF q = p /\ k = j THEN "claim" ELSE start[q][k]
    BY <1>0, <1>h, GotoTypes, PlaceNames DEF ClaimReplace, TypeOK
  <2>4. UNCHANGED <<tracked, mine, published, claimed>>
    BY <1>0, <1>h, GotoTypes, PlaceNames DEF ClaimReplace, TypeOK
  <2> QED BY <2>1, <2>2, <2>3, <2>4
<1>2. flagged \subseteq Jobs /\ queued \subseteq Jobs /\ payload \subseteq Jobs
  BY <1>0 DEF TypeOK
<1>3. PayloadOnlyQueued'
  <2>1. CASE UNCHANGED <<status, queued, payload, flagged>>
    BY <1>1, <1>2, <2>1 DEF RegistryInv, PayloadOnlyQueued, RowActive
  <2>2. CASE ~(UNCHANGED <<status, queued, payload, flagged>>)
    BY <1>1, <1>2, <2>2 DEF RegistryInv, PayloadOnlyQueued, RowActive
  <2> QED BY <2>1, <2>2
<1>4. OneHand'
  BY <1>1 DEF RegistryInv, OneHand, Has
<1>5. QueuedIsFree'
  BY <1>1, <1>2 DEF RegistryInv, QueuedIsFree, RowActive, Has
<1>6. ClaimersRowless'
  BY <1>1, <1>2
     DEF RegistryInv, JobStatuses, ActiveStatuses, TerminalStatuses, ClaimersRowless,
         Exists, Has, OneHand, HandlesOwned, Known, Claimable, RowActive
<1>7. HandlesOwned'
  BY <1>1, <1>2
     DEF RegistryInv, HandlesOwned, OneHand, Has, Exists, JobStatuses, ActiveStatuses,
         TerminalStatuses
<1>8. FlagEnds'
  <2>1. CASE UNCHANGED <<status, queued, payload, flagged>>
    BY <1>1, <1>2, <2>1 DEF RegistryInv, FlagEnds
  <2>2. CASE ~(UNCHANGED <<status, queued, payload, flagged>>)
    BY <1>1, <1>2, <2>2 DEF RegistryInv, FlagEnds
  <2> QED BY <2>1, <2>2
<1>9. OwnersRow'
  <2>1. CASE UNCHANGED <<status, queued, payload, flagged>>
    BY <1>1, <1>2, <2>1 DEF RegistryInv, OwnersRow, Active, RowActive
  <2>2. CASE ~(UNCHANGED <<status, queued, payload, flagged>>)
    BY <1>1, <1>2, <2>2 DEF RegistryInv, OwnersRow, Active, RowActive
  <2> QED BY <2>1, <2>2
<1>10. OneActive'
  <2>1. CASE UNCHANGED <<status, queued, payload, flagged>>
    BY <1>1, <1>2, <2>1 DEF RegistryInv, OneActive, RowActive
  <2>2. CASE ~(UNCHANGED <<status, queued, payload, flagged>>)
    BY <1>1, <1>2, <2>2 DEF RegistryInv, OneActive, RowActive
  <2> QED BY <2>1, <2>2
<1> QED BY <1>3, <1>4, <1>5, <1>6, <1>7, <1>8, <1>9, <1>10 DEF RegistryInv

LEMMA SubmitKeeps ==
  ASSUME RegistryInv, TypeOK', NEW p \in Processes, Submit(p)
  PROVE  RegistryInv'
<1>0. TypeOK
  BY DEF RegistryInv
<1>j. PICK j \in Jobs : /\ ~Known(j) /\ Goto(p, j, "claim")
                         /\ mine' = [mine EXCEPT ![p][j] = "queued"]
  BY DEF Submit
<1>1. /\ ~Known(j)
      /\ \A q \in Processes, k \in Jobs :
            mine'[q][k] = IF q = p /\ k = j THEN "queued" ELSE mine[q][k]
      /\ \A q \in Processes, k \in Jobs :
            start'[q][k] = IF q = p /\ k = j THEN "claim" ELSE start[q][k]
      /\ UNCHANGED <<status, queued, payload, flagged, tracked, published, claimed>>
  BY <1>0, <1>j, GotoTypes, MineTypes, PlaceNames DEF Submit, row, TypeOK
<1>2. flagged \subseteq Jobs /\ queued \subseteq Jobs /\ payload \subseteq Jobs
  BY <1>0 DEF TypeOK
<1>3. PayloadOnlyQueued'
  BY <1>1 DEF RegistryInv, PayloadOnlyQueued, RowActive
<1>4. OneHand'
  BY <1>1, <1>2
     DEF RegistryInv, JobStatuses, ActiveStatuses, TerminalStatuses, OneHand, Has, Known,
         Claimable, QueuedIsFree, HandlesOwned, Exists
<1>5. QueuedIsFree'
  BY <1>1, <1>2
     DEF RegistryInv, JobStatuses, ActiveStatuses, TerminalStatuses, QueuedIsFree, Has,
         OneHand, Known, Claimable, HandlesOwned, ClaimersRowless, RowActive, Exists
<1>6. ClaimersRowless'
  BY <1>1, <1>2
     DEF RegistryInv, JobStatuses, ActiveStatuses, TerminalStatuses, ClaimersRowless,
         Exists, Has, OneHand, HandlesOwned, Known, Claimable, RowActive
<1>7. HandlesOwned'
  BY <1>1, <1>2
     DEF RegistryInv, JobStatuses, ActiveStatuses, TerminalStatuses, HandlesOwned,
         ClaimersRowless, Exists, Has, OneHand, QueuedIsFree, Known, Claimable, RowActive
<1>8. FlagEnds'
  BY <1>1 DEF RegistryInv, FlagEnds
<1>9. OwnersRow'
  BY <1>1, <1>2
     DEF RegistryInv, JobStatuses, ActiveStatuses, TerminalStatuses, OwnersRow, Active,
         RowActive, HandlesOwned, OneHand, Has, FlagEnds, ClaimersRowless, Known,
         Claimable, Exists
<1>10. OneActive'
  BY <1>1 DEF RegistryInv, OneActive, RowActive
<1> QED BY <1>3, <1>4, <1>5, <1>6, <1>7, <1>8, <1>9, <1>10 DEF RegistryInv

LEMMA EnqueueKeeps ==
  ASSUME RegistryInv, TypeOK', NEW p \in Processes, Enqueue(p)
  PROVE  RegistryInv'
<1>0. TypeOK
  BY DEF RegistryInv
<1>j. PICK j \in Jobs : ~Known(j) /\ Goto(p, j, "claim")
  BY DEF Enqueue
<1>1. /\ ~Known(j)
      /\ \A q \in Processes, k \in Jobs :
            start'[q][k] = IF q = p /\ k = j THEN "claim" ELSE start[q][k]
      /\ UNCHANGED <<status, queued, payload, flagged, tracked, mine, published, claimed>>
  BY <1>0, <1>j, GotoTypes, PlaceNames DEF Enqueue, row, TypeOK
<1>2. flagged \subseteq Jobs /\ queued \subseteq Jobs /\ payload \subseteq Jobs
  BY <1>0 DEF TypeOK
<1>3. PayloadOnlyQueued'
  BY <1>1 DEF RegistryInv, PayloadOnlyQueued, RowActive
<1>4. OneHand'
  BY <1>1, <1>2
     DEF RegistryInv, JobStatuses, ActiveStatuses, TerminalStatuses, OneHand, Has, Known,
         Claimable, QueuedIsFree, HandlesOwned, Exists
<1>5. QueuedIsFree'
  BY <1>1, <1>2
     DEF RegistryInv, JobStatuses, ActiveStatuses, TerminalStatuses, QueuedIsFree, Has,
         OneHand, Known, Claimable, HandlesOwned, ClaimersRowless, RowActive, Exists
<1>6. ClaimersRowless'
  BY <1>1, <1>2
     DEF RegistryInv, JobStatuses, ActiveStatuses, TerminalStatuses, ClaimersRowless,
         Exists, Has, OneHand, HandlesOwned, Known, Claimable, RowActive
<1>7. HandlesOwned'
  BY <1>1, <1>2
     DEF RegistryInv, JobStatuses, ActiveStatuses, TerminalStatuses, HandlesOwned,
         ClaimersRowless, Exists, Has, OneHand, QueuedIsFree, Known, Claimable, RowActive
<1>8. FlagEnds'
  BY <1>1 DEF RegistryInv, FlagEnds
<1>9. OwnersRow'
  BY <1>1 DEF RegistryInv, OwnersRow, Active, RowActive
<1>10. OneActive'
  BY <1>1 DEF RegistryInv, OneActive, RowActive
<1> QED BY <1>3, <1>4, <1>5, <1>6, <1>7, <1>8, <1>9, <1>10 DEF RegistryInv

LEMMA ClaimUpdateKeeps ==
  ASSUME RegistryInv, TypeOK', NEW p \in Processes, ClaimUpdate(p)
  PROVE  RegistryInv'
<1>0. TypeOK
  BY DEF RegistryInv
<1>1. /\ \E S \in SUBSET Claimable :
         /\ queued' = queued \ S /\ payload' = payload \ S
         /\ \A q \in Processes : claimed'[q] = IF q = p THEN S ELSE claimed[q]
      /\ UNCHANGED <<status, flagged, tracked, mine, start, published>>
  BY <1>0 DEF ClaimUpdate, Take, Claimable, TypeOK
<1>2. flagged \subseteq Jobs /\ queued \subseteq Jobs /\ payload \subseteq Jobs
  BY <1>0 DEF TypeOK
<1>3. PayloadOnlyQueued'
  BY <1>1 DEF RegistryInv, PayloadOnlyQueued, RowActive
<1>4. OneHand'
  BY <1>1, <1>2 DEF RegistryInv, OneHand, QueuedIsFree, Has, Known, Exists, Claimable
<1>5. QueuedIsFree'
  BY <1>1 DEF RegistryInv, QueuedIsFree, RowActive, Has
<1>6. ClaimersRowless'
  BY <1>1 DEF RegistryInv, ClaimersRowless, Exists
<1>7. HandlesOwned'
  BY <1>1, <1>2
     DEF RegistryInv, JobStatuses, ActiveStatuses, TerminalStatuses, HandlesOwned,
         ClaimersRowless, Exists, Has, OneHand, QueuedIsFree, Known, Claimable, RowActive
<1>8. FlagEnds'
  BY <1>1 DEF RegistryInv, FlagEnds
<1>9. OwnersRow'
  BY <1>1, <1>2
     DEF RegistryInv, JobStatuses, ActiveStatuses, TerminalStatuses, OwnersRow, Active,
         RowActive, HandlesOwned, OneHand, Has, FlagEnds, ClaimersRowless, Known,
         Claimable, Exists
<1>10. OneActive'
  BY <1>1 DEF RegistryInv, OneActive, RowActive
<1> QED BY <1>3, <1>4, <1>5, <1>6, <1>7, <1>8, <1>9, <1>10 DEF RegistryInv

LEMMA CrashKeeps ==
  ASSUME RegistryInv, TypeOK', NEW p \in Processes, Crash(p)
  PROVE  RegistryInv'
<1>0. TypeOK
  BY DEF RegistryInv
<1>1. /\ \A q \in Processes, k \in Jobs :
         /\ mine'[q][k] = IF q = p THEN "none" ELSE mine[q][k]
         /\ start'[q][k] = IF q = p THEN "none" ELSE start[q][k]
         /\ published'[q][k] = IF q = p THEN "none" ELSE published[q][k]
      /\ \A q \in Processes :
         /\ tracked'[q] = IF q = p THEN {} ELSE tracked[q]
         /\ claimed'[q] = IF q = p THEN {} ELSE claimed[q]
      /\ UNCHANGED <<status, queued, payload, flagged>>
  BY <1>0 DEF Crash, Everywhere, TypeOK, row
<1>2. flagged \subseteq Jobs /\ queued \subseteq Jobs /\ payload \subseteq Jobs
  BY <1>0 DEF TypeOK
<1>3. PayloadOnlyQueued'
  BY <1>1 DEF RegistryInv, PayloadOnlyQueued, RowActive
<1>4. OneHand'
  BY <1>1 DEF RegistryInv, OneHand, Has
<1>5. QueuedIsFree'
  BY <1>1, <1>2 DEF RegistryInv, QueuedIsFree, RowActive, Has
<1>6. ClaimersRowless'
  BY <1>1 DEF RegistryInv, ClaimersRowless, Exists
<1>7. HandlesOwned'
  BY <1>1 DEF RegistryInv, HandlesOwned, Exists
<1>8. FlagEnds'
  BY <1>1 DEF RegistryInv, FlagEnds
<1>9. OwnersRow'
  BY <1>1 DEF RegistryInv, OwnersRow, Active, RowActive
<1>10. OneActive'
  BY <1>1 DEF RegistryInv, OneActive, RowActive
<1> QED BY <1>3, <1>4, <1>5, <1>6, <1>7, <1>8, <1>9, <1>10 DEF RegistryInv

LEMMA RequestCancelKeeps ==
  ASSUME RegistryInv, TypeOK', NEW j \in Jobs, RequestCancel(j)
  PROVE  RegistryInv'
<1>0. TypeOK
  BY DEF RegistryInv
<1>1. /\ \/ UNCHANGED <<status, queued, payload, flagged>>
         \/ \E h \in Jobs :
              /\ RowActive(h)
              /\ \A k \in Jobs : k # h => status'[k] = status[k]
              /\ status'[h] \in TerminalStatuses
              /\ queued' = queued \ {h} /\ payload' = payload \ {h}
              /\ flagged' = flagged \cup {h}
      /\ UNCHANGED <<tracked, mine, start, published, claimed>>
  BY <1>0 DEF RequestCancel, End, memory, TypeOK, TerminalStatuses
<1>2. flagged \subseteq Jobs /\ queued \subseteq Jobs /\ payload \subseteq Jobs
  BY <1>0 DEF TypeOK
<1>3. PayloadOnlyQueued'
  <2>1. CASE UNCHANGED <<status, queued, payload, flagged>>
    BY <1>1, <1>2, <2>1 DEF RegistryInv, PayloadOnlyQueued, RowActive
  <2>2. CASE ~(UNCHANGED <<status, queued, payload, flagged>>)
    BY <1>1, <1>2, <2>2 DEF RegistryInv, PayloadOnlyQueued, RowActive
  <2> QED BY <2>1, <2>2
<1>4. OneHand'
  BY <1>1 DEF RegistryInv, OneHand, Has
<1>5. QueuedIsFree'
  BY <1>1, <1>2 DEF RegistryInv, QueuedIsFree, RowActive, Has
<1>6. ClaimersRowless'
  BY <1>1, <1>2
     DEF RegistryInv, JobStatuses, ActiveStatuses, TerminalStatuses, ClaimersRowless,
         Exists, Has, OneHand, HandlesOwned, Known, Claimable, RowActive
<1>7. HandlesOwned'
  BY <1>1, <1>2
     DEF RegistryInv, HandlesOwned, OneHand, Has, Exists, JobStatuses, ActiveStatuses,
         TerminalStatuses
<1>8. FlagEnds'
  <2>1. CASE UNCHANGED <<status, queued, payload, flagged>>
    BY <1>1, <1>2, <2>1 DEF RegistryInv, FlagEnds
  <2>2. CASE ~(UNCHANGED <<status, queued, payload, flagged>>)
    BY <1>1, <1>2, <2>2 DEF RegistryInv, FlagEnds
  <2> QED BY <2>1, <2>2
<1>9. OwnersRow'
  <2>1. CASE UNCHANGED <<status, queued, payload, flagged>>
    BY <1>1, <1>2, <2>1 DEF RegistryInv, OwnersRow, Active, RowActive
  <2>2. CASE ~(UNCHANGED <<status, queued, payload, flagged>>)
    BY <1>1, <1>2, <2>2 DEF RegistryInv, OwnersRow, Active, RowActive
  <2> QED BY <2>1, <2>2
<1>10. OneActive'
  <2>1. CASE UNCHANGED <<status, queued, payload, flagged>>
    BY <1>1, <1>2, <2>1 DEF RegistryInv, OneActive, RowActive
  <2>2. CASE ~(UNCHANGED <<status, queued, payload, flagged>>)
    BY <1>1, <1>2, <2>2 DEF RegistryInv, OneActive, RowActive
  <2> QED BY <2>1, <2>2
<1> QED BY <1>3, <1>4, <1>5, <1>6, <1>7, <1>8, <1>9, <1>10 DEF RegistryInv

\* The invariant speaks of these variables only.
LEMMA ElsewhereKeeps ==
  ASSUME RegistryInv, TypeOK',
         UNCHANGED <<status, queued, payload, flagged, tracked, mine, start, published, claimed>>
  PROVE  RegistryInv'
BY DEF RegistryInv, PayloadOnlyQueued, OneHand, QueuedIsFree, ClaimersRowless,
       HandlesOwned, FlagEnds, OwnersRow, OneActive, RowActive, Has, Exists, Active

LEMMA StepKeeps ==
  ASSUME RegistryInv, [Next]_vars
  PROVE  RegistryInv'
<1>0. TypeOK'
  BY NextTypes DEF RegistryInv
<1>1. ASSUME NEW p \in Processes,
             \/ Submit(p) \/ ActiveForRun(p) \/ Enqueue(p) \/ ClaimSelect(p)
             \/ ClaimUpdate(p) \/ Crash(p)
      PROVE  RegistryInv'
  BY <1>0, <1>1, SubmitKeeps, ElsewhereKeeps, EnqueueKeeps, ClaimUpdateKeeps, CrashKeeps
     DEF ActiveForRun, ClaimSelect, row, memory
<1>2. ASSUME NEW p \in Processes, NEW j \in Jobs, Starting(p, j)
      PROVE  RegistryInv'
  BY <1>0, <1>2, ClaimInsertKeeps, ClaimRereadKeeps, ClaimReplaceKeeps, TrackKeeps,
       LaunchKeeps, AdoptKeeps DEF Starting
<1>3. ASSUME NEW p \in Processes, NEW j \in Jobs, Publishing(p, j) \/ Failing(p, j)
      PROVE  RegistryInv'
  BY <1>0, <1>3, DescribeKeeps, WriteKeeps, OnCancelKeeps, ClaimFailsKeeps,
       FlushFailsKeeps, FirstFailsKeeps DEF Publishing, Failing
<1>4. ASSUME NEW p \in Processes, NEW j \in Jobs,
             Run(p, j) \/ Finish(p, j) \/ CancelLocal(p, j) \/ AdoptFails(p, j)
      PROVE  RegistryInv'
  BY <1>0, <1>4, RunKeeps, FinishKeeps, CancelLocalKeeps, AdoptFailsKeeps
<1>5. ASSUME NEW j \in Jobs, RequestCancel(j) \/ Age(j)
      PROVE  RegistryInv'
  BY <1>0, <1>5, RequestCancelKeeps, ElsewhereKeeps DEF Age, memory
<1>6. CASE UNCHANGED vars
  BY <1>0, <1>6, ElsewhereKeeps DEF vars, row, memory
<1> QED BY <1>1, <1>2, <1>3, <1>4, <1>5, <1>6 DEF Next

LEMMA InitKeeps == Init => RegistryInv
<1> SUFFICES ASSUME Init PROVE RegistryInv
  OBVIOUS
<1>1. TypeOK
  BY InitTypes
<1>2. /\ \A j \in Jobs : ~Exists(j) /\ ~RowActive(j)
      /\ \A p \in Processes, j \in Jobs :
           mine[p][j] = "none" /\ start[p][j] = "none" /\ published[p][j] = "none"
      /\ \A p \in Processes : tracked[p] = {} /\ claimed[p] = {}
      /\ queued = {} /\ payload = {} /\ flagged = {}
  BY DEF Init, Everywhere, Exists, RowActive, ActiveStatuses
<1> QED BY <1>1, <1>2
      DEF RegistryInv, PayloadOnlyQueued, OneHand, QueuedIsFree, ClaimersRowless,
          HandlesOwned, FlagEnds, OwnersRow, OneActive, Has, Active, ActiveStatuses

\* RegistryInv is inductive: it holds for any processes, jobs, scopes and faults.
THEOREM RegistryInductive == Spec => []RegistryInv
<1> QED BY InitKeeps, StepKeeps, PTL DEF Spec

\* No race of workers, crash or replacement puts a job in two processes (claim).
THEOREM NeverRunsTwice == Spec => []RunsOnce
<1>1. RegistryInv => RunsOnce
  <2> SUFFICES ASSUME RegistryInv, NEW j \in Jobs, NEW p \in Processes, NEW q \in Processes,
                      p \in HeldBy(j), q \in HeldBy(j)
               PROVE  p = q
    BY DEF RunsOnce
  <2>1. Has(p, j) /\ Has(q, j)
    BY DEF HeldBy, Has, Active, ActiveStatuses
  <2> QED BY <2>1 DEF RegistryInv, OneHand
<1> QED BY <1>1, RegistryInductive, PTL

\* Two processes never work in one scope unknowingly: a row of theirs is flagged.
THEOREM RivalsAreTold == Spec => []RivalTold
<1>1. RegistryInv => RivalTold
  BY DEF RegistryInv, RivalTold, OwnersRow, OneActive
<1> QED BY <1>1, RegistryInductive, PTL

\* The cancel of a row is not taken back by any step: its owner's publish finds the
\* flag, a claim skips it and a replacement wants an active row.
THEOREM CancelStays == Spec => CancelIsFinal
<1>1. RegistryInv /\ [Next]_vars =>
        \A j \in flagged : j \in flagged' /\ status'[j] = status[j] /\ ~RowActive(j)
  <2> SUFFICES ASSUME RegistryInv, [Next]_vars, NEW j \in flagged
               PROVE  j \in flagged' /\ status'[j] = status[j] /\ ~RowActive(j)
    OBVIOUS
  <2>1. TypeOK /\ j \in Jobs /\ Exists(j) /\ ~RowActive(j)
    BY DEF RegistryInv, FlagEnds, TypeOK, RowActive, Exists, ActiveStatuses,
           TerminalStatuses, JobStatuses
  <2>2. UNCHANGED <<status, flagged>> => j \in flagged' /\ status'[j] = status[j]
    OBVIOUS
  <2>3. ASSUME NEW k \in Jobs, NEW end, End(k, end), RowActive(k)
        PROVE  j \in flagged' /\ status'[j] = status[j]
    BY <2>1, <2>3 DEF End, TypeOK
  <2>4. ASSUME NEW k \in Jobs, RequestCancel(k) \/ Age(k)
        PROVE  j \in flagged' /\ status'[j] = status[j]
    BY <2>2, <2>3, <2>4 DEF RequestCancel, Age
  <2>5. ASSUME NEW p \in Processes,
               \/ Submit(p) \/ ActiveForRun(p) \/ Enqueue(p) \/ ClaimSelect(p)
               \/ ClaimUpdate(p) \/ Crash(p)
        PROVE  j \in flagged' /\ status'[j] = status[j]
    BY <2>2, <2>5
       DEF Submit, ActiveForRun, Enqueue, ClaimSelect, ClaimUpdate, Take, Crash, row
  <2>6. ASSUME NEW p \in Processes, NEW k \in Jobs, Starting(p, k)
        PROVE  j \in flagged' /\ status'[j] = status[j]
    <3>1. CASE ClaimInsert(p, k)
      <4>1. CASE UNCHANGED row
        BY <2>2, <4>1 DEF row
      <4>2. CASE ~(UNCHANGED row)
        <5>1. start[p][k] = "claim" /\ flagged' = flagged /\ \E x : status' = [status EXCEPT ![k] = x]
          BY <3>1, <4>2 DEF ClaimInsert
        <5>2. k # j
          BY <2>1, <5>1 DEF RegistryInv, ClaimersRowless
        <5> QED BY <2>1, <5>1, <5>2 DEF TypeOK
      <4> QED BY <4>1, <4>2
    <3>2. CASE ClaimReplace(p, k)
      BY <2>2, <2>3, <3>2 DEF ClaimReplace, row
    <3>3. CASE ClaimReread(p, k) \/ Track(p, k) \/ Launch(p, k) \/ Adopt(p, k)
      BY <2>2, <3>3 DEF ClaimReread, Track, Launch, Adopt, row
    <3> QED BY <2>6, <3>1, <3>2, <3>3 DEF Starting
  <2>7. ASSUME NEW p \in Processes, NEW k \in Jobs, Publishing(p, k) \/ Failing(p, k)
        PROVE  j \in flagged' /\ status'[j] = status[j]
    <3>1. CASE Write(p, k)
      BY <2>1, <2>2, <3>1 DEF Write, WriteRow, row, TypeOK
    <3>2. CASE Describe(p, k) \/ OnCancel(p, k) \/ Failing(p, k)
      BY <2>2, <3>2
         DEF Describe, OnCancel, Failing, ClaimFails, FlushFails, FirstFails, row
    <3> QED BY <2>7, <3>1, <3>2 DEF Publishing
  <2>8. ASSUME NEW p \in Processes, NEW k \in Jobs,
               Run(p, k) \/ Finish(p, k) \/ CancelLocal(p, k) \/ AdoptFails(p, k)
        PROVE  j \in flagged' /\ status'[j] = status[j]
    <3>1. CASE AdoptFails(p, k)
      <4>1. CASE RowActive(k)
        BY <2>1, <3>1, <4>1 DEF AdoptFails, TypeOK
      <4>2. CASE ~RowActive(k)
        BY <2>2, <3>1, <4>2 DEF AdoptFails, row
      <4> QED BY <4>1, <4>2
    <3>2. CASE Run(p, k) \/ Finish(p, k) \/ CancelLocal(p, k)
      BY <2>2, <3>2 DEF Run, Finish, CancelLocal, row
    <3> QED BY <2>8, <3>1, <3>2
  <2>9. CASE UNCHANGED vars
    BY <2>1, <2>2, <2>9 DEF vars, row
  <2> QED BY <2>1, <2>4, <2>5, <2>6, <2>7, <2>8, <2>9 DEF Next
<1> QED BY <1>1, RegistryInductive, PTL DEF Spec, CancelIsFinal

\* The payload of a job is stored exactly while its row is queued: whoever claims,
\* cancels, replaces or loses it takes the payload out.
THEOREM PayloadFollowsQueue == Spec => []PayloadOnlyQueued
<1>1. RegistryInv => PayloadOnlyQueued
  BY DEF RegistryInv
<1> QED BY <1>1, RegistryInductive, PTL
=============================================================================
