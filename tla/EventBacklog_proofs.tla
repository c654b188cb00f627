------------------------- MODULE EventBacklog_proofs -------------------------
(* Proofs about EventBacklog for every set of events, sizes and limits. *)
EXTENDS EventBacklog, SequenceTheorems, WellFoundedInduction, TLAPS

\* The constants keep their types.
LEMMA Sizes ==
  ASSUME NEW e \in Events
  PROVE  Size[e] \in Nat /\ Slot(e) \in Nat
BY BacklogAssumption DEF Slot

\* What an append, and what a removal of the head, do to a queue in two parts.
LEMMA AppendToFront ==
  ASSUME NEW S, NEW m \in Seq(S), NEW e \in S
  PROVE  Append(m, e) \o <<>> = Append(m \o <<>>, e)
<1>1. Append(m, e) \in Seq(S)
  BY AppendProperties
<1> QED BY <1>1, ConcatEmptySeq

LEMMA AppendToBack ==
  ASSUME NEW S, NEW m \in Seq(S), NEW d \in Seq(S), NEW e \in S
  PROVE  m \o Append(d, e) = Append(m \o d, e)
<1>1. <<e>> \in Seq(S) /\ m \o d \in Seq(S)
  BY ConcatProperties
<1>2. Append(d, e) = d \o <<e>> /\ Append(m \o d, e) = (m \o d) \o <<e>>
  BY <1>1, AppendIsConcat
<1> QED BY <1>1, <1>2, ConcatAssociative

LEMMA TailOfBoth ==
  ASSUME NEW S, NEW m \in Seq(S), NEW d \in Seq(S), m # <<>>
  PROVE  Tail(m) \o d = Tail(m \o d)
<1>1. /\ Tail(m) \in Seq(S) /\ Len(Tail(m)) = Len(m) - 1
      /\ \A i \in 1 .. Len(Tail(m)) : Tail(m)[i] = m[i + 1]
  BY HeadTailProperties
<1>2. /\ m \o d \in Seq(S) /\ Len(m \o d) = Len(m) + Len(d)
      /\ \A i \in 1 .. Len(m) + Len(d) :
           (m \o d)[i] = IF i <= Len(m) THEN m[i] ELSE d[i - Len(m)]
  BY ConcatProperties
<1>3. Len(m) \in Nat \ {0} /\ Len(d) \in Nat
  BY EmptySeq, LenProperties
<1>4. m \o d # <<>>
  BY <1>2, <1>3, EmptySeq
<1>5. /\ Tail(m \o d) \in Seq(S) /\ Len(Tail(m \o d)) = Len(m \o d) - 1
      /\ \A i \in 1 .. Len(Tail(m \o d)) : Tail(m \o d)[i] = (m \o d)[i + 1]
  BY <1>2, <1>4, HeadTailProperties
<1>6. /\ Tail(m) \o d \in Seq(S) /\ Len(Tail(m) \o d) = Len(m) - 1 + Len(d)
      /\ \A i \in 1 .. Len(m) - 1 + Len(d) :
           (Tail(m) \o d)[i]
             = IF i <= Len(m) - 1 THEN Tail(m)[i] ELSE d[i - (Len(m) - 1)]
  BY <1>1, ConcatProperties
<1>7. Len(Tail(m) \o d) = Len(Tail(m \o d))
  BY <1>2, <1>3, <1>5, <1>6
<1>8. ASSUME NEW i \in 1 .. Len(Tail(m) \o d)
      PROVE  (Tail(m) \o d)[i] = Tail(m \o d)[i]
  <2>1. i \in 1 .. Len(m) - 1 + Len(d) /\ i + 1 \in 1 .. Len(m) + Len(d)
    BY <1>3, <1>6, <1>8
  <2>2. Tail(m \o d)[i] = IF i + 1 <= Len(m) THEN m[i + 1] ELSE d[i + 1 - Len(m)]
    BY <1>2, <1>5, <1>7, <1>8, <2>1
  <2>3. CASE i <= Len(m) - 1
    BY <1>1, <1>3, <1>6, <2>1, <2>2, <2>3
  <2>4. CASE ~(i <= Len(m) - 1)
    <3>1. i - (Len(m) - 1) = i + 1 - Len(m) /\ ~(i + 1 <= Len(m))
      BY <1>3, <2>4
    <3> QED BY <1>6, <2>1, <2>2, <2>4, <3>1
  <2> QED BY <2>3, <2>4
<1> QED BY <1>5, <1>6, <1>7, <1>8, SeqEqual

-----------------------------------------------------------------------------
BacklogInv == TypeOK /\ NothingUncounted

\* Each part of the backlog is a queue of events, and its length a number.
LEMMA Lengths ==
  ASSUME TypeOK
  PROVE  Len(memory) \in Nat /\ Len(disk) \in Nat /\ Queued \in Nat
<1>1. Len(memory) \in Nat /\ Len(disk) \in Nat
  BY LenProperties DEF TypeOK
<1> QED BY <1>1 DEF Queued

LEMMA Puts ==
  ASSUME BacklogInv, NEW e \in Events,
         PutMemory(e) \/ PutDisk(e) \/ PutDiskFails(e)
  PROVE  BacklogInv'
<1>1. /\ Append(memory, e) \in Seq(Events) /\ Len(Append(memory, e)) = Len(memory) + 1
      /\ Append(disk, e) \in Seq(Events) /\ Len(Append(disk, e)) = Len(disk) + 1
  BY AppendProperties DEF BacklogInv, TypeOK
<1>2. Size[e] \in Nat /\ Slot(e) \in Nat
  BY Sizes
<1>3. Len(memory) \in Nat /\ Len(disk) \in Nat
  BY Lengths DEF BacklogInv
<1>4. CASE PutMemory(e)
  BY <1>1, <1>2, <1>3, <1>4
     DEF PutMemory, BacklogInv, TypeOK, NothingUncounted, Queued, files
<1>5. CASE PutDisk(e)
  <2>1. disk' = Append(disk, e) /\ diskBytes' = diskBytes + Size[e]
        /\ unfinished' = unfinished + 1 /\ unflushed' \in BOOLEAN
        /\ UNCHANGED <<memory, memoryBytes, disposed, diskFull, owed, uploader>>
    BY <1>5 DEF PutDisk
  <2>2. TypeOK'
    BY <1>1, <1>2, <2>1 DEF BacklogInv, TypeOK
  <2>3. Len(disk') = Len(disk) + 1 /\ Len(memory') = Len(memory)
    BY <1>1, <2>1
  <2>4. NothingUncounted'
    BY <1>3, <2>1, <2>3 DEF BacklogInv, TypeOK, NothingUncounted, Queued
  <2> QED BY <2>2, <2>4 DEF BacklogInv
<1>6. CASE PutDiskFails(e)
  BY <1>6 DEF PutDiskFails, BacklogInv, TypeOK, NothingUncounted, Queued
<1> QED BY <1>4, <1>5, <1>6

LEMMA Gets ==
  ASSUME BacklogInv, GetMemory \/ GetDisk \/ GetDiskFails
  PROVE  BacklogInv'
<1>1. ASSUME memory # <<>>
      PROVE  /\ Head(memory) \in Events /\ Tail(memory) \in Seq(Events)
             /\ Len(Tail(memory)) = Len(memory) - 1
  BY <1>1, HeadTailProperties DEF BacklogInv, TypeOK
<1>2. ASSUME disk # <<>>
      PROVE  Tail(disk) \in Seq(Events) /\ Len(Tail(disk)) = Len(disk) - 1
  BY <1>2, HeadTailProperties DEF BacklogInv, TypeOK
<1>3. Len(memory) \in Nat /\ Len(disk) \in Nat
  BY Lengths DEF BacklogInv
<1>4. CASE GetMemory
  <2>1. Slot(Head(memory)) \in Nat
    BY <1>1, <1>4, Sizes DEF GetMemory
  <2> QED BY <1>1, <1>3, <1>4, <2>1
         DEF GetMemory, BacklogInv, TypeOK, NothingUncounted, Queued, files
<1>5. CASE GetDisk
  <2>1. EndAfterRead(Tail(disk)) \in Nat
    BY DEF EndAfterRead, BacklogInv, TypeOK
  <2>2. disk' = Tail(disk) /\ disk # <<>> /\ diskBytes' = EndAfterRead(Tail(disk))
        /\ owed' = owed + 1 /\ unflushed' \in BOOLEAN
        /\ UNCHANGED <<memory, memoryBytes, unfinished, disposed, diskFull, uploader>>
    BY <1>5 DEF GetDisk
  <2>3. TypeOK'
    BY <1>2, <2>1, <2>2 DEF BacklogInv, TypeOK
  <2>4. Len(disk') = Len(disk) - 1 /\ Len(memory') = Len(memory)
    BY <1>2, <2>2
  <2>5. NothingUncounted'
    BY <1>3, <2>2, <2>4 DEF BacklogInv, TypeOK, NothingUncounted, Queued
  <2> QED BY <2>3, <2>5 DEF BacklogInv
<1>6. CASE GetDiskFails
  BY <1>6 DEF GetDiskFails, BacklogInv, TypeOK, NothingUncounted, Queued, files
<1> QED BY <1>4, <1>5, <1>6

LEMMA Closings ==
  ASSUME BacklogInv, TaskDone \/ Dispose \/ Discard \/ DiskChanges
  PROVE  BacklogInv'
<1>1. Len(memory) \in Nat /\ Len(disk) \in Nat
  BY Lengths DEF BacklogInv
<1>2. CASE TaskDone
  BY <1>1, <1>2 DEF TaskDone, BacklogInv, TypeOK, NothingUncounted, Queued, files
<1>3. CASE Dispose
  BY <1>3 DEF Dispose, BacklogInv, TypeOK, NothingUncounted, Queued
<1>4. CASE Discard
  <2>1. memory' \in Seq(Events) /\ disk' \in Seq(Events)
        /\ Len(memory') = 0 /\ Len(disk') = 0
    BY <1>4, EmptySeq DEF Discard
  <2>2. AfterDiscard = owed
    BY <1>1 DEF AfterDiscard, BacklogInv, TypeOK, NothingUncounted, Queued
  <2>3. memoryBytes' = 0 /\ diskBytes' = 0 
        /\ disposed' \in BOOLEAN /\ unflushed' \in BOOLEAN
        /\ unfinished' = owed /\ UNCHANGED <<diskFull, owed, uploader>>
    BY <1>4, <2>2 DEF Discard
  <2>4. TypeOK'
    BY <2>1, <2>3 DEF BacklogInv, TypeOK
  <2>5. NothingUncounted'
    BY <2>1, <2>3 DEF BacklogInv, TypeOK, NothingUncounted, Queued
  <2> QED BY <2>4, <2>5 DEF BacklogInv
<1>5. CASE DiskChanges
  BY <1>5 DEF DiskChanges, BacklogInv, TypeOK, NothingUncounted, Queued
<1> QED BY <1>2, <1>3, <1>4, <1>5

LEMMA BacklogInit == Init => BacklogInv
<1> SUFFICES ASSUME Init PROVE BacklogInv
  OBVIOUS
<1>1. memory \in Seq(Events) /\ disk \in Seq(Events)
      /\ Len(memory) = 0 /\ Len(disk) = 0
      /\ disposed \in BOOLEAN /\ unflushed \in BOOLEAN /\ diskFull \in BOOLEAN
  BY EmptySeq DEF Init
<1>2. memoryBytes = 0 /\ diskBytes = 0 /\ unfinished = 0 /\ owed = 0
      /\ uploader = "up"
  BY DEF Init
<1> QED BY <1>1, <1>2 DEF BacklogInv, TypeOK, NothingUncounted, Queued

LEMMA BacklogStep == BacklogInv /\ [Next]_vars => BacklogInv'
<1> SUFFICES ASSUME BacklogInv, [Next]_vars
             PROVE  BacklogInv'
  OBVIOUS
<1>1. ASSUME NEW e \in Events, PutMemory(e) \/ PutDisk(e) \/ PutDiskFails(e)
      PROVE  BacklogInv'
  BY <1>1, Puts
<1>2. CASE GetMemory \/ GetDisk \/ GetDiskFails
  BY <1>2, Gets
<1>3. CASE TaskDone \/ Dispose \/ Discard \/ DiskChanges
  BY <1>3, Closings
<1>4. CASE UNCHANGED vars
  BY <1>4 DEF vars, BacklogInv, TypeOK, NothingUncounted, Queued
<1> QED BY <1>1, <1>2, <1>3, <1>4 DEF Next

\* Safety, together: the types and the count of what has no verdict are inductive.
THEOREM BacklogInductive == Spec => []BacklogInv
BY BacklogInit, BacklogStep, PTL DEF Spec

\* Every operation of the backlog leaves its state well-typed.
THEOREM TypeCorrect == Spec => []TypeOK
<1>1. BacklogInv => TypeOK
  BY DEF BacklogInv
<1> QED BY <1>1, BacklogInductive, PTL

\* Safety: unfinished_tasks, which join, flush and dispose wait on, is what waits
\* and what the uploader holds, whatever was discarded and whatever the disk did.
THEOREM VerdictsCounted == Spec => []NothingUncounted
<1>1. BacklogInv => NothingUncounted
  BY DEF BacklogInv
<1> QED BY <1>1, BacklogInductive, PTL

-----------------------------------------------------------------------------
\* Which step of the queue each operation is.
LEMMA PutsAccept ==
  ASSUME TypeOK, NEW e \in Events, PutMemory(e) \/ PutDisk(e)
  PROVE  Fifo!Accept(e)
<1>1. CASE PutMemory(e)
  <2>1. disk = <<>> /\ memory' = Append(memory, e)
    BY <1>1 DEF PutMemory, FitsMemory
  <2>2. memory' \o disk' = Append(memory \o disk, e)
    BY <1>1, <2>1, AppendToFront DEF PutMemory, TypeOK
  <2> QED BY <1>1, <2>2 DEF PutMemory, Fifo!Accept
<1>2. CASE PutDisk(e)
  <2>1. memory' \o disk' = Append(memory \o disk, e)
    BY <1>2, AppendToBack DEF PutDisk, TypeOK
  <2> QED BY <1>2, <2>1 DEF PutDisk, Fifo!Accept
<1> QED BY <1>1, <1>2

LEMMA GetsHand ==
  ASSUME TypeOK, GetMemory \/ GetDisk
  PROVE  Fifo!Hand
<1>1. memory \o disk # <<>>
  BY ConcatEqualIffEmpty DEF GetMemory, GetDisk, TypeOK
<1>2. memory' \o disk' = Tail(memory \o disk)
  <2>1. CASE GetMemory
    BY <2>1, TailOfBoth DEF GetMemory, TypeOK
  <2>2. CASE GetDisk
    <3>1. Tail(disk) \in Seq(Events)
      BY <2>2, HeadTailProperties DEF GetDisk, TypeOK
    <3>2. memory \o disk = disk /\ memory' \o disk' = Tail(disk)
      BY <2>2, <3>1, ConcatEmptySeq DEF GetDisk, TypeOK
    <3> QED BY <3>2
  <2> QED BY <2>1, <2>2
<1> QED BY <1>1, <1>2 DEF GetMemory, GetDisk, Fifo!Hand

LEMMA EndsClose ==
  ASSUME BacklogInv, Dispose \/ Discard
  PROVE  Fifo!Close \/ Fifo!GiveUp
<1>1. CASE Dispose
  <2>1. Len(memory) = 0 /\ Len(disk) = 0 /\ owed = 0
    <3>1. Len(memory) + Len(disk) + owed = 0
      BY <1>1 DEF Dispose, BacklogInv, NothingUncounted, Queued
    <3> QED BY <3>1, Lengths DEF BacklogInv, TypeOK
  <2>2. memory = <<>> /\ disk = <<>>
    BY <2>1, EmptySeq DEF BacklogInv, TypeOK
  <2>3. memory \o disk = <<>>
    BY <2>2, ConcatEqualIffEmpty DEF BacklogInv, TypeOK
  <2> QED BY <1>1, <2>1, <2>3 DEF Dispose, Fifo!Close
<1>2. CASE Discard
  <2>1. <<>> \o <<>> = <<>>
    BY EmptySeq, ConcatEmptySeq
  <2> QED BY <1>2, <2>1 DEF Discard, Fifo!GiveUp
<1> QED BY <1>1, <1>2

\* Refinement: with any events, sizes, limits and disk failures, memory and file
\* together are one first-in first-out queue that closes only when all is settled.
THEOREM OneQueue == Spec => FifoSpec
<1>1. Init => Fifo!Init
  <2>1. <<>> \o <<>> = <<>>
    BY EmptySeq, ConcatEmptySeq
  <2> QED BY <2>1 DEF Init, Fifo!Init
<1>2. BacklogInv /\ [Next]_vars => [Fifo!Next]_Fifo!vars
  <2> SUFFICES ASSUME BacklogInv, [Next]_vars
               PROVE  [Fifo!Next]_Fifo!vars
    OBVIOUS
  <2>1. TypeOK
    BY DEF BacklogInv
  <2>2. ASSUME NEW e \in Events, PutMemory(e) \/ PutDisk(e)
        PROVE  Fifo!Next
    BY <2>1, <2>2, PutsAccept DEF Fifo!Next
  <2>3. CASE GetMemory \/ GetDisk
    BY <2>1, <2>3, GetsHand DEF Fifo!Next
  <2>4. CASE TaskDone
    BY <2>4 DEF TaskDone, Fifo!Next, Fifo!Settle
  <2>5. CASE Dispose \/ Discard
    BY <2>5, EndsClose DEF Fifo!Next
  <2>6. CASE (\E e \in Events : PutDiskFails(e)) \/ GetDiskFails \/ DiskChanges
    BY <2>6 DEF PutDiskFails, GetDiskFails, DiskChanges, Fifo!vars
  <2>7. CASE UNCHANGED vars
    BY <2>7 DEF vars, Fifo!vars
  <2> QED BY <2>2, <2>3, <2>4, <2>5, <2>6, <2>7 DEF Next
<1> QED BY <1>1, <1>2, BacklogInductive, PTL DEF Spec, FifoSpec, Fifo!Spec

-----------------------------------------------------------------------------
\* Sums over a queue.

\* Every nonempty set of naturals has a least element.
LEMMA HasLeast ==
  ASSUME NEW S \in SUBSET Nat, S # {}
  PROVE  \E x \in S : \A y \in S : x <= y
<1> DEFINE R == OpToRel(<, Nat)
<1>1. IsWellFoundedOn(R, Nat)
  BY NatLessThanWellFounded
<1>2. R = {ss \in Nat \X Nat : ss[1] < ss[2]}
  BY DEF OpToRel
<1> HIDE DEF R
<1>3. PICK x \in S : \A y \in S : ~ (<<y, x>> \in R)
  BY <1>1, WFMin
<1>4. \A y \in S : ~(y < x)
  BY <1>2, <1>3
<1> QED BY <1>4

\* f has the sums of the first events of s.
SumsOf(f, s, cost, n) ==
  /\ f \in [0..n -> Int] /\ f[0] = 0
  /\ \A i \in 1..n : f[i] = f[i - 1] + cost[s[i]]

LEMMA SumStep ==
  ASSUME NEW f, NEW s, NEW cost, NEW n \in Nat, SumsOf(f, s, cost, n), NEW i \in 1..n
  PROVE  f[i] = f[i - 1] + cost[s[i]] /\ f[i] \in Int /\ f[i - 1] \in Int
<1>1. f \in [0..n -> Int] /\ i \in 0..n /\ i - 1 \in 0..n
  BY DEF SumsOf
<1> QED BY <1>1 DEF SumsOf

LEMMA SumLast ==
  ASSUME NEW f, NEW s, NEW cost, NEW n \in Nat, SumsOf(f, s, cost, n)
  PROVE  f[n] \in Int /\ f[0] = 0 /\ f \in [0..n -> Int]
BY DEF SumsOf

\* There are sums for every number of events: the least number without would
\* extend those of its predecessor.
LEMMA SumsExist ==
  ASSUME NEW s \in Seq(Events), NEW cost \in [Events -> Int], NEW n \in 0..Len(s)
  PROVE  \E f : SumsOf(f, s, cost, n)
<1> DEFINE Without == {m \in 0..Len(s) : ~\E f : SumsOf(f, s, cost, m)}
<1> SUFFICES ASSUME Without # {} PROVE FALSE
  OBVIOUS
<1>1. Len(s) \in Nat /\ \A i \in 1..Len(s) : s[i] \in Events
  BY LenProperties, ElementOfSeq
<1>2. PICK m \in Without : \A k \in Without : m <= k
  <2>1. Without \in SUBSET Nat
    BY <1>1
  <2> QED BY <2>1, HasLeast
<1>3. m # 0
  <2>1. SumsOf([i \in 0..0 |-> 0], s, cost, 0)
    BY DEF SumsOf
  <2> QED BY <1>2, <2>1
<1>4. m \in 1..Len(s) /\ m \in Nat /\ m - 1 \in Nat /\ m - 1 \in 0..Len(s) /\ m - 1 \notin Without
  <2>1. m \in 1..Len(s)
    BY <1>1, <1>2, <1>3
  <2>2. m - 1 \in 0..Len(s) /\ ~(m <= m - 1)
    BY <1>1, <2>1
  <2>3. m - 1 \notin Without
    BY <1>2, <2>2
  <2> QED BY <1>1, <2>1, <2>2, <2>3
<1>5. PICK f : SumsOf(f, s, cost, m - 1)
  BY <1>4
<1> DEFINE g == [i \in 0..m |-> IF i = m THEN f[m - 1] + cost[s[m]] ELSE f[i]]
<1>6. cost[s[m]] \in Int /\ f[m - 1] \in Int
  BY <1>1, <1>4, <1>5 DEF SumsOf
<1>7. SumsOf(g, s, cost, m)
  <2>1. g \in [0..m -> Int] /\ g[0] = 0
    BY <1>1, <1>4, <1>5, <1>6 DEF SumsOf
  <2>2. ASSUME NEW i \in 1..m PROVE g[i] = g[i - 1] + cost[s[i]]
    <3>1. i \in 0..m /\ i - 1 \in 0..m /\ i - 1 # m
      BY <1>4, <2>2
    <3>2. CASE i = m
      BY <3>1, <3>2
    <3>3. CASE i # m
      <4>1. i \in 1..(m - 1)
        BY <1>4, <2>2, <3>3
      <4>2. f[i] = f[i - 1] + cost[s[i]]
        BY <1>4, <1>5, <4>1, SumStep
      <4> QED BY <3>1, <3>3, <4>2
    <3> QED BY <3>2, <3>3
  <2> QED BY <2>1, <2>2 DEF SumsOf
<1> QED BY <1>2, <1>7

\* Bytes is the last of the sums, whichever function has them.
LEMMA BytesAreSums ==
  ASSUME NEW s \in Seq(Events), NEW cost \in [Events -> Int], NEW f, SumsOf(f, s, cost, Len(s))
  PROVE  Bytes(s, cost) = f[Len(s)]
<1> DEFINE n == Len(s)
           rest(g) == [i \in 0..n |-> IF i = 0 THEN 0 ELSE g[i - 1] + cost[s[i]]]
           sum == CHOOSE g : g = rest(g)
<1>1. n \in Nat
  BY LenProperties
<1>2. f = rest(f)
  BY <1>1 DEF SumsOf
<1>3. sum = rest(sum)
  BY <1>2
<1>4. Bytes(s, cost) = sum[n]
  BY DEF Bytes
<1> HIDE DEF sum
<1>5. \A i \in 0..n : sum[i] = IF i = 0 THEN 0 ELSE sum[i - 1] + cost[s[i]]
  BY <1>3
<1> DEFINE Differs == {i \in 0..n : sum[i] # f[i]}
<1>6. CASE Differs = {}
  BY <1>1, <1>4, <1>6
<1>7. CASE Differs # {}
  <2>1. PICK i \in Differs : \A k \in Differs : i <= k
    <3>1. Differs \in SUBSET Nat
      BY <1>1
    <3> QED BY <1>7, <3>1, HasLeast
  <2>2. i # 0
    BY <1>5, <2>1 DEF SumsOf
  <2>3. i \in 1..n /\ i - 1 \in 0..n /\ i - 1 \notin Differs
    BY <1>1, <2>1, <2>2
  <2>4. sum[i] = sum[i - 1] + cost[s[i]] /\ f[i] = f[i - 1] + cost[s[i]]
    BY <1>1, <1>5, <2>2, <2>3 DEF SumsOf
  <2> QED BY <2>1, <2>3, <2>4
<1> QED BY <1>6, <1>7

\* An empty queue has no bytes.
LEMMA BytesOfNone ==
  ASSUME NEW cost \in [Events -> Int]
  PROVE  Bytes(<<>>, cost) = 0
<1>1. <<>> \in Seq(Events) /\ Len(<<>>) = 0
  BY EmptySeq
<1>2. SumsOf([i \in 0..0 |-> 0], <<>>, cost, 0)
  BY DEF SumsOf
<1> QED BY <1>1, <1>2, BytesAreSums

\* An event appended adds its cost.
LEMMA BytesAppended ==
  ASSUME NEW s \in Seq(Events), NEW cost \in [Events -> Int], NEW e \in Events
  PROVE  Bytes(s, cost) \in Int /\ Bytes(Append(s, e), cost) = Bytes(s, cost) + cost[e]
<1> DEFINE n == Len(s)
           t == Append(s, e)
<1>1. /\ n \in Nat /\ t \in Seq(Events) /\ Len(t) = n + 1 /\ t[n + 1] = e
      /\ \A i \in 1..n : t[i] = s[i]
  BY LenProperties, AppendProperties
<1>2. PICK f : SumsOf(f, s, cost, n)
  BY <1>1, SumsExist
<1>3. Bytes(s, cost) = f[n] /\ f[n] \in Int /\ f[0] = 0 /\ f \in [0..n -> Int]
  BY <1>1, <1>2, BytesAreSums, SumLast
<1> DEFINE g == [i \in 0..(n + 1) |-> IF i = n + 1 THEN f[n] + cost[e] ELSE f[i]]
<1> HIDE DEF t
<1>4. SumsOf(g, t, cost, n + 1)
  <2>1. g \in [0..(n + 1) -> Int] /\ g[0] = 0
    <3>1. cost[e] \in Int
      OBVIOUS
    <3> QED BY <1>1, <1>3, <3>1
  <2>2. ASSUME NEW i \in 1..(n + 1) PROVE g[i] = g[i - 1] + cost[t[i]]
    <3>1. i \in 0..(n + 1) /\ i - 1 \in 0..(n + 1) /\ i - 1 # n + 1
      BY <1>1
    <3>2. CASE i = n + 1
      <4>1. i - 1 = n
        BY <1>1, <3>2
      <4> QED BY <1>1, <3>1, <3>2, <4>1
    <3>3. CASE i # n + 1
      <4>1. i \in 1..n
        BY <1>1, <2>2, <3>3
      <4>2. f[i] = f[i - 1] + cost[s[i]] /\ t[i] = s[i]
        BY <1>1, <1>2, <4>1, SumStep
      <4> QED BY <3>1, <3>3, <4>2
    <3> QED BY <3>2, <3>3
  <2> QED BY <2>1, <2>2 DEF SumsOf
<1>5. Bytes(t, cost) = g[n + 1]
  BY <1>1, <1>4, BytesAreSums
<1>6. g[n + 1] = f[n] + cost[e]
  BY <1>1
<1> QED BY <1>3, <1>5, <1>6 DEF t

\* The head taken off takes its cost along.
LEMMA BytesOfTail ==
  ASSUME NEW s \in Seq(Events), NEW cost \in [Events -> Int], s # <<>>
  PROVE  Bytes(s, cost) \in Int /\ Bytes(Tail(s), cost) = Bytes(s, cost) - cost[Head(s)]
<1> DEFINE n == Len(s)
           t == Tail(s)
<1>1. /\ n \in Nat \ {0} /\ t \in Seq(Events) /\ Len(t) = n - 1 /\ Head(s) = s[1]
      /\ \A i \in 1..(n - 1) : t[i] = s[i + 1]
  BY LenProperties, EmptySeq, HeadTailProperties
<1>2. \A i \in 1..n : s[i] \in Events
  BY ElementOfSeq
<1>3. PICK f : SumsOf(f, s, cost, n)
  BY <1>1, SumsExist
<1>a. \A k \in 1..n : f[k] = f[k - 1] + cost[s[k]] /\ cost[s[k]] \in Int
  <2> SUFFICES ASSUME NEW k \in 1..n PROVE f[k] = f[k - 1] + cost[s[k]] /\ cost[s[k]] \in Int
    OBVIOUS
  <2>1. f[k] = f[k - 1] + cost[s[k]]
    BY <1>3 DEF SumsOf
  <2>2. cost[s[k]] \in Int
    BY <1>2
  <2> QED BY <2>1, <2>2
<1>4. /\ Bytes(s, cost) = f[n] /\ f[n] \in Int /\ f \in [0..n -> Int]
      /\ f[1] = cost[s[1]] /\ f[1] \in Int
  <2>1. cost[s[1]] \in Int /\ 1 \in 1..n
    BY <1>1, <1>2
  <2>2. f[1] = f[0] + cost[s[1]] /\ f[0] = 0 /\ f[1] \in Int
    <3>1. f[1] = f[1 - 1] + cost[s[1]] /\ 1 - 1 = 0
      BY <1>a, <2>1
    <3>2. f[0] = 0 /\ f \in [0..n -> Int] /\ 1 \in 0..n
      BY <1>1, <1>3 DEF SumsOf
    <3> QED BY <3>1, <3>2
  <2>3. Bytes(s, cost) = f[n] /\ f[n] \in Int /\ f \in [0..n -> Int]
    BY <1>1, <1>3, BytesAreSums, SumLast
  <2> QED BY <2>1, <2>2, <2>3
<1> DEFINE g == [i \in 0..(n - 1) |-> f[i + 1] - f[1]]
<1> HIDE DEF t
<1>5. SumsOf(g, t, cost, n - 1)
  <2>1. g \in [0..(n - 1) -> Int] /\ g[0] = 0
    <3>1. \A i \in 0..(n - 1) : i + 1 \in 0..n
      BY <1>1
    <3> QED BY <1>1, <1>4, <3>1
  <2>2. ASSUME NEW i \in 1..(n - 1) PROVE g[i] = g[i - 1] + cost[t[i]]
    <3>1. /\ i + 1 \in 1..n /\ i \in 0..(n - 1) /\ i - 1 \in 0..(n - 1) /\ i \in 0..n
      BY <1>1
    <3>2. f[i + 1] = f[i + 1 - 1] + cost[s[i + 1]] /\ cost[s[i + 1]] \in Int
      BY <1>a, <3>1
    <3>3. i + 1 - 1 = i /\ i - 1 + 1 = i /\ f[i] \in Int
      BY <1>4, <3>1
    <3>4. g[i] = f[i + 1] - f[1] /\ g[i - 1] = f[i] - f[1]
      BY <3>1, <3>3
    <3>5. t[i] = s[i + 1]
      BY <1>1
    <3> QED BY <1>4, <3>2, <3>3, <3>4, <3>5
  <2> QED BY <2>1, <2>2 DEF SumsOf
<1>6. Bytes(t, cost) = g[n - 1]
  BY <1>1, <1>5, BytesAreSums
<1>7. g[n - 1] = f[n] - f[1]
  BY <1>1
<1> QED BY <1>1, <1>4, <1>6, <1>7 DEF t

-----------------------------------------------------------------------------
\* The byte counters.
Slots == [e \in Events |-> Slot(e)]

\* The counters, and that the file has no bytes once nothing in it is unread.
CountersInv == BacklogInv /\ BytesCounted /\ (disk = <<>> => diskBytes = 0)

LEMMA Costs == /\ Slots \in [Events -> Int] /\ Size \in [Events -> Int]
               /\ \A e \in Events : Slots[e] = Slot(e) /\ Slot(e) \in Nat /\ Size[e] \in Nat
BY Sizes, BacklogAssumption DEF Slots

LEMMA CountersPut ==
  ASSUME CountersInv, NEW e \in Events, PutMemory(e) \/ PutDisk(e) \/ PutDiskFails(e)
  PROVE  BytesCounted' /\ (disk = <<>> => diskBytes = 0)'
<1>1. /\ memory \in Seq(Events) /\ disk \in Seq(Events) /\ memoryBytes \in Int /\ diskBytes \in Nat
      /\ memoryBytes = Bytes(memory, Slots) /\ memoryBytes <= MaxMemory
      /\ diskBytes >= Bytes(disk, Size) /\ diskBytes <= MaxDisk
      /\ MaxMemory \in Nat /\ MaxDisk \in Nat
  BY BacklogAssumption DEF CountersInv, BacklogInv, TypeOK, BytesCounted, Slots
<1>2. /\ Bytes(Append(memory, e), Slots) = memoryBytes + Slot(e)
      /\ Bytes(Append(disk, e), Size) = Bytes(disk, Size) + Size[e]
      /\ Bytes(disk, Size) \in Int /\ Size[e] \in Nat
  BY <1>1, Costs, BytesAppended
<1>3. CASE PutMemory(e)
  <2>1. /\ memory' = Append(memory, e) /\ memoryBytes' = memoryBytes + Slot(e)
        /\ disk' = disk /\ diskBytes' = diskBytes /\ memoryBytes + Slot(e) <= MaxMemory
    BY <1>3 DEF PutMemory, FitsMemory
  <2> QED BY <1>1, <1>2, <2>1 DEF CountersInv, BytesCounted, Slots
<1>4. CASE PutDisk(e)
  <2>1. /\ disk' = Append(disk, e) /\ diskBytes' = diskBytes + Size[e]
        /\ memory' = memory /\ memoryBytes' = memoryBytes /\ diskBytes + Size[e] <= MaxDisk
    BY <1>4 DEF PutDisk, FitsDisk
  <2>2. disk' # <<>>
    BY <1>1, <2>1, AppendProperties
  <2> QED BY <1>1, <1>2, <2>1, <2>2 DEF BytesCounted, Slots
<1>5. CASE PutDiskFails(e)
  BY <1>5 DEF PutDiskFails, CountersInv, BytesCounted
<1> QED BY <1>3, <1>4, <1>5

LEMMA CountersGet ==
  ASSUME CountersInv, GetMemory \/ GetDisk \/ GetDiskFails
  PROVE  BytesCounted' /\ (disk = <<>> => diskBytes = 0)'
<1>1. /\ memory \in Seq(Events) /\ disk \in Seq(Events) /\ memoryBytes \in Int /\ diskBytes \in Nat
      /\ memoryBytes = Bytes(memory, Slots) /\ memoryBytes <= MaxMemory
      /\ diskBytes >= Bytes(disk, Size) /\ diskBytes <= MaxDisk
      /\ MaxMemory \in Nat /\ MaxDisk \in Nat
  BY BacklogAssumption DEF CountersInv, BacklogInv, TypeOK, BytesCounted, Slots
<1>2. CASE GetMemory
  <2>1. /\ memory # <<>> /\ memory' = Tail(memory) /\ memoryBytes' = memoryBytes - Slot(Head(memory))
        /\ disk' = disk /\ diskBytes' = diskBytes
    BY <1>2 DEF GetMemory
  <2>2. Head(memory) \in Events
    BY <1>1, <2>1, HeadTailProperties
  <2>3. Bytes(Tail(memory), Slots) = memoryBytes - Slot(Head(memory)) /\ Slot(Head(memory)) \in Nat
    BY <1>1, <2>1, <2>2, Costs, BytesOfTail
  <2> QED BY <1>1, <2>1, <2>3 DEF CountersInv, BytesCounted, Slots
<1>3. CASE GetDisk
  <2>1. /\ disk # <<>> /\ disk' = Tail(disk) /\ diskBytes' = EndAfterRead(Tail(disk))
        /\ memory' = memory /\ memoryBytes' = memoryBytes
    BY <1>3 DEF GetDisk
  <2>2. Head(disk) \in Events
    BY <1>1, <2>1, HeadTailProperties
  <2>3. /\ Bytes(Tail(disk), Size) = Bytes(disk, Size) - Size[Head(disk)]
        /\ Bytes(disk, Size) \in Int /\ Size[Head(disk)] \in Nat
    BY <1>1, <2>1, <2>2, Costs, BytesOfTail
  <2>4. CASE Tail(disk) = <<>>
    <3>1. Bytes(Tail(disk), Size) = 0
      BY <2>4, Costs, BytesOfNone
    <3> QED BY <1>1, <2>1, <2>4, <3>1 DEF EndAfterRead, BytesCounted, Slots
  <2>5. CASE Tail(disk) # <<>>
    BY <1>1, <2>1, <2>3, <2>5 DEF EndAfterRead, BytesCounted, Slots
  <2> QED BY <2>4, <2>5
<1>4. CASE GetDiskFails
  BY <1>4 DEF GetDiskFails, CountersInv, BytesCounted
<1> QED BY <1>2, <1>3, <1>4

LEMMA CountersKept == CountersInv /\ [Next]_vars => CountersInv'
<1> SUFFICES ASSUME CountersInv, [Next]_vars PROVE CountersInv'
  OBVIOUS
<1>1. BacklogInv'
  BY BacklogStep DEF CountersInv
<1>2. ASSUME NEW e \in Events, PutMemory(e) \/ PutDisk(e) \/ PutDiskFails(e)
      PROVE  BytesCounted' /\ (disk = <<>> => diskBytes = 0)'
  BY <1>2, CountersPut
<1>3. CASE GetMemory \/ GetDisk \/ GetDiskFails
  BY <1>1, <1>3, CountersGet DEF CountersInv
<1>4. CASE TaskDone \/ Dispose \/ DiskChanges \/ UNCHANGED vars
  <2>1. UNCHANGED <<memory, disk, memoryBytes, diskBytes>>
    BY <1>4 DEF TaskDone, Dispose, DiskChanges, vars
  <2> QED BY <1>1, <2>1 DEF CountersInv, BytesCounted
<1>5. CASE Discard
  <2>1. memory' = <<>> /\ disk' = <<>> /\ memoryBytes' = 0 /\ diskBytes' = 0
    BY <1>5 DEF Discard
  <2>2. Bytes(<<>>, Slots) = 0 /\ Bytes(<<>>, Size) = 0
    BY Costs, BytesOfNone
  <2> QED BY <1>1, <2>1, <2>2, BacklogAssumption DEF CountersInv, BytesCounted, Slots
<1> QED BY <1>1, <1>2, <1>3, <1>4, <1>5 DEF Next, CountersInv

LEMMA CountersAlways == Spec => []CountersInv
<1>1. Init => CountersInv
  <2> SUFFICES ASSUME Init PROVE CountersInv
    OBVIOUS
  <2>1. BacklogInv
    BY BacklogInit
  <2>2. Bytes(<<>>, Slots) = 0 /\ Bytes(<<>>, Size) = 0
    BY Costs, BytesOfNone
  <2> QED BY <2>1, <2>2, BacklogAssumption DEF Init, CountersInv, BytesCounted, Slots
<1> QED BY <1>1, CountersKept, PTL DEF Spec

\* Safety: memory_bytes and disk_bytes are the sums of what is held, and never over
\* their limits, for every sequence of puts, reads, discards and failed appends.
THEOREM BytesAreCounted == Spec => []BytesCounted
<1>1. CountersInv => BytesCounted
  BY DEF CountersInv
<1> QED BY <1>1, CountersAlways, PTL

\* Safety: a producer that must wait always finds something queued for the uploader
\* to take, so that they never wait for each other, for all sizes and limits.
THEOREM NeverBothWait == Spec => []NoMutualWait
<1>1. CountersInv => NoMutualWait
  <2> SUFFICES ASSUME CountersInv, Queued = 0, NEW e \in Events, Admissible(e)
               PROVE  FitsMemory(e) \/ FitsDisk(e)
    BY DEF NoMutualWait
  <2>1. Len(memory) = 0 /\ Len(disk) = 0
    BY Lengths DEF Queued, CountersInv, BacklogInv
  <2>2. memory = <<>> /\ disk = <<>>
    BY <2>1, EmptySeq DEF CountersInv, BacklogInv, TypeOK
  <2>3. Bytes(<<>>, Slots) = 0
    BY Costs, BytesOfNone
  <2>4. memoryBytes = 0 /\ diskBytes = 0
    BY <2>2, <2>3 DEF CountersInv, BytesCounted, Slots
  <2>5. Slot(e) \in Nat /\ Size[e] \in Nat
    BY Sizes
  <2> QED BY <2>2, <2>4, <2>5 DEF Admissible, FitsMemory, FitsDisk
<1> QED BY <1>1, CountersAlways, PTL
=============================================================================
