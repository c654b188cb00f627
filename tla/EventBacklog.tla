---------------------------- MODULE EventBacklog ----------------------------
(***************************************************************************)
(* The backlog between a run and its uploader: sdk/qym/platform/_backlog.py. *)
(* Producers put events in memory, and in a private file once memory is     *)
(* full; one uploader takes them.  Each operation holds the one condition   *)
(* variable, so it is one step; a thread that would wait is not enabled.    *)
(***************************************************************************)
EXTENDS Integers, Sequences

CONSTANTS
  Events,
  Size,        \* the bytes of an event
  SlotBytes,   \* what a slot in memory costs besides (64)
  MaxMemory,   \* max_memory_bytes
  MaxDisk,     \* max_disk_bytes: 0 never spills
  MaxOwed      \* bound: the uploader's batch

ASSUME BacklogAssumption ==
  /\ Size \in [Events -> Nat \ {0}]
  /\ SlotBytes \in Nat /\ MaxMemory \in Nat \ {0} /\ MaxDisk \in Nat
  /\ MaxOwed \in Nat

VARIABLES
  memory,       \* _memory
  disk,         \* the records of the file not read yet
  memoryBytes,  \* memory_bytes
  diskBytes,    \* disk_bytes: the end of the file
  unfinished,   \* unfinished_tasks
  disposed,     \* _disposed
  unflushed,    \* a failed append has left its bytes in the file's buffer
  diskFull,     \* the file system takes no more bytes
  owed,         \* events the uploader has taken and not settled
  uploader      \* "up", or "dead" of an error in get

vars == <<memory, disk, memoryBytes, diskBytes, unfinished, disposed,
          unflushed, diskFull, owed, uploader>>
files == <<unflushed, diskFull>>

Slot(e) == Size[e] + SlotBytes
\* put_serialized refuses an event that neither limit can hold.
Admissible(e) == Slot(e) <= MaxMemory \/ Size[e] <= MaxDisk

TypeOK ==
  /\ memory \in Seq(Events) /\ disk \in Seq(Events)
  /\ memoryBytes \in Int /\ diskBytes \in Nat
  /\ unfinished \in Nat /\ owed \in Nat
  /\ disposed \in BOOLEAN /\ unflushed \in BOOLEAN /\ diskFull \in BOOLEAN
  /\ uploader \in {"up", "dead"}

Init ==
  /\ memory = <<>> /\ disk = <<>>
  /\ memoryBytes = 0 /\ diskBytes = 0
  /\ unfinished = 0 /\ owed = 0
  /\ disposed = FALSE /\ unflushed = FALSE /\ diskFull = FALSE
  /\ uploader = "up"

-----------------------------------------------------------------------------
\* Mutants: a later event overtakes the spilled ones; the limit is checked before
\* the event's own bytes.
FitsMemoryAnyway(e) == memoryBytes + Slot(e) <= MaxMemory
FitsMemoryOver(e) == disk = <<>> /\ memoryBytes <= MaxMemory

\* put_serialized: memory is for events that no spilled one precedes.
FitsMemory(e) == disk = <<>> /\ memoryBytes + Slot(e) <= MaxMemory
FitsDisk(e) == diskBytes + Size[e] <= MaxDisk

PutMemory(e) ==
  /\ ~disposed /\ Admissible(e) /\ FitsMemory(e)
  /\ memory' = Append(memory, e)
  /\ memoryBytes' = memoryBytes + Slot(e)
  /\ unfinished' = unfinished + 1
  /\ UNCHANGED <<disk, diskBytes, disposed, files, owed, uploader>>

\* The record is appended at the end of the file, over what a failed append left.
PutDisk(e) ==
  /\ ~disposed /\ Admissible(e) /\ ~FitsMemory(e) /\ FitsDisk(e)
  /\ ~diskFull
  /\ disk' = Append(disk, e)
  /\ diskBytes' = diskBytes + Size[e]
  /\ unflushed' = FALSE
  /\ unfinished' = unfinished + 1
  /\ UNCHANGED <<memory, memoryBytes, disposed, diskFull, owed, uploader>>

\* The append raises, and so do the seek and the truncate that should undo it: they
\* flush the same bytes first.
PutDiskFails(e) ==
  /\ ~disposed /\ Admissible(e) /\ ~FitsMemory(e) /\ FitsDisk(e)
  /\ diskFull
  /\ unflushed' = TRUE
  /\ UNCHANGED <<memory, disk, memoryBytes, diskBytes, unfinished, disposed,
                 diskFull, owed, uploader>>

\* get, by the uploader: memory first, it is older.
GetMemory ==
  /\ uploader = "up" /\ owed < MaxOwed
  /\ memory # <<>>
  /\ memory' = Tail(memory)
  /\ memoryBytes' = memoryBytes - Slot(Head(memory))
  /\ owed' = owed + 1
  /\ UNCHANGED <<disk, diskBytes, unfinished, disposed, files, uploader>>

\* Mutant: the file is truncated and its end is not reset.
EndKept(left) == diskBytes
\* What is left of disk_bytes after a record is read: 0 once the file is truncated.
EndAfterRead(left) == IF left = <<>> THEN 0 ELSE diskBytes

GetDisk ==
  /\ uploader = "up" /\ owed < MaxOwed
  /\ memory = <<>> /\ disk # <<>>
  /\ ~(unflushed /\ diskFull)
  /\ disk' = Tail(disk)
  /\ diskBytes' = EndAfterRead(Tail(disk))
  /\ unflushed' = FALSE
  /\ owed' = owed + 1
  /\ UNCHANGED <<memory, memoryBytes, unfinished, disposed, diskFull, uploader>>

\* The seek of get flushes first: it raises, and the uploader's loop ends.
GetDiskFails ==
  /\ uploader = "up" /\ owed < MaxOwed
  /\ memory = <<>> /\ disk # <<>>
  /\ unflushed /\ diskFull
  /\ uploader' = "dead"
  /\ UNCHANGED <<memory, disk, memoryBytes, diskBytes, unfinished, disposed, files, owed>>

\* task_done, once the platform has answered for the event.
TaskDone ==
  /\ uploader = "up" /\ owed > 0 /\ unfinished > 0
  /\ unfinished' = unfinished - 1
  /\ owed' = owed - 1
  /\ UNCHANGED <<memory, disk, memoryBytes, diskBytes, disposed, files, uploader>>

\* dispose, by the uploader when its loop ends.
Dispose ==
  /\ uploader = "up" /\ unfinished = 0
  /\ disposed' = TRUE
  /\ unflushed' = FALSE
  /\ UNCHANGED <<memory, disk, memoryBytes, diskBytes, unfinished, diskFull, owed, uploader>>

Queued == Len(memory) + Len(disk)
\* Mutant: it forgets the batch of the uploader.
AfterDiscardNothing == 0
\* What discard still owes a verdict.
AfterDiscard == unfinished - Queued

\* discard, after a rejection of the run: producers that wait are woken and refused.
Discard ==
  /\ disposed' = TRUE
  /\ unfinished' = AfterDiscard
  /\ memory' = <<>> /\ disk' = <<>>
  /\ memoryBytes' = 0 /\ diskBytes' = 0
  /\ unflushed' = FALSE
  /\ UNCHANGED <<diskFull, owed, uploader>>

\* The file system fills up, and is cleaned.
DiskChanges == diskFull' = ~diskFull
  /\ UNCHANGED <<memory, disk, memoryBytes, diskBytes, unfinished, disposed,
                 unflushed, owed, uploader>>

Next ==
  \/ \E e \in Events : PutMemory(e) \/ PutDisk(e) \/ PutDiskFails(e)
  \/ GetMemory \/ GetDisk \/ GetDiskFails \/ TaskDone
  \/ Dispose \/ Discard \/ DiskChanges

Spec == Init /\ [][Next]_vars

-----------------------------------------------------------------------------
\* Safety, the refinement: through memory and file the backlog is one queue, first in
\* first out, and it closes only when every event has its verdict (dispose).
Fifo == INSTANCE EventFifo WITH queue <- memory \o disk, closed <- disposed
FifoSpec == Fifo!Spec

Bytes(s, cost) ==
  LET sum[i \in 0..Len(s)] == IF i = 0 THEN 0 ELSE sum[i - 1] + cost[s[i]]
  IN sum[Len(s)]

\* Safety: the byte counters, kept by hand on six paths, are those of what is held,
\* and within the limits; the file's end is never before its unread records.
BytesCounted ==
  /\ memoryBytes = Bytes(memory, [e \in Events |-> Slot(e)]) /\ memoryBytes <= MaxMemory
  /\ diskBytes >= Bytes(disk, Size) /\ diskBytes <= MaxDisk

\* Safety: join, flush and dispose look at unfinished_tasks alone: it is what waits
\* and what the uploader has in hand, also after a discard.
NothingUncounted == unfinished = Queued + owed

\* Safety: a producer waits only while there is something to take, so it and the
\* uploader never wait for each other (everything taken frees the room of every event).
NoMutualWait ==
  Queued = 0 => \A e \in Events : Admissible(e) => FitsMemory(e) \/ FitsDisk(e)

\* The comment in put_serialized ("Keep earlier accepted records readable after a
\* partial append"): the code does not keep it, as a full disk makes get raise.
EarlierReadable == [][disk # <<>> /\ uploader = "up" => uploader' = "up"]_vars
=============================================================================
