-------------------------- MODULE LivePage_proofs ---------------------------
(* Proofs about LivePage, for any items, probes and limits.                   *)
EXTENDS LivePage, SequenceTheorems, FiniteSetTheorems, TLAPS

Rows == [digest : Revisions, body : Revisions \cup {Nothing}, loaded : BOOLEAN]
ProbeStates == [at : {"idle", "sent", "answered"}, rev : Revisions, live : BOOLEAN]
ReloadStates == [at : {"idle", "sent", "answered"}, again : BOOLEAN, queued : BOOLEAN,
                 ended : BOOLEAN, out : [Items -> Revisions], prev : [Items -> Rows]]
Requests == [at : {"sent", "answered"}, ids : SUBSET Items, out : [Items -> Revisions]]

FollowTypes ==
  /\ rev \in Revisions /\ ended \in BOOLEAN /\ out \in [Items -> Revisions]
  /\ live \in BOOLEAN /\ visible \in BOOLEAN
  /\ known \in Revisions /\ pending \in Revisions \cup {Nothing}
  /\ chain \in {"off", "armed", "probing", "reloading"}
  /\ ticking \in Probes \cup {Nothing}
  /\ probe \in [Probes -> ProbeStates]
  /\ reload \in ReloadStates
  /\ shown \in BOOLEAN /\ failed \in BOOLEAN /\ fresh \in BOOLEAN
  /\ rows \in [Items -> Rows]

LoaderTypes ==
  /\ queue \in Seq(Items)
  /\ flight \in Seq(Requests) /\ Len(flight) <= MaxInFlight
  /\ stat \in [Items -> {"none", "loading", "error", "loaded"}]
  /\ waiting \subseteq Items /\ scheduled \in BOOLEAN

(* What the page knows of the end, in inductive form: whoever says that the run*)
(* is over read it after the end, and a page that says so either is at rest    *)
(* with rows of the ended run, or has a last reload before it.                 *)
EndKnown ==
  /\ \A p \in Probes : probe[p].at = "answered" /\ ~probe[p].live => ended
  /\ ~live => ended
  /\ reload.at # "idle" /\ (reload.again \/ reload.queued) => ended
  /\ reload.at = "answered" /\ reload.again => reload.ended
  /\ ~live => \/ reload.at = "idle" /\ fresh /\ (failed \/ shown)
              \/ reload.at # "idle" /\ (reload.again \/ reload.queued)

FollowInv == FollowTypes /\ EndKnown /\ TickNotLost

(* The loader: an item that is waited for, or counts as loading, is asked for. *)
Asked(i) == i \in Range(queue) \/ \E k \in DOMAIN flight : i \in flight[k].ids

LoaderInv ==
  /\ LoaderTypes
  /\ \A i \in Items : i \in waiting \/ stat[i] = "loading" => Asked(i)
  /\ queue # <<>> => scheduled \/ Len(flight) = MaxInFlight

-----------------------------------------------------------------------------
(* Batches of at most b, of a queue of n, in which the j-th is in some.        *)
LEMMA BatchesCover ==
  ASSUME NEW n \in Nat, NEW b \in Nat \ {0}
  PROVE  (n + b - 1) \div b \in Nat /\ ((n + b - 1) \div b) * b >= n
<1> DEFINE q == (n + b - 1) \div b
           r == (n + b - 1) % b
<1>1. q \in Nat /\ r \in 0..(b - 1) /\ n + b - 1 = b * q + r
  OBVIOUS
<1> HIDE DEF q, r
<1>2. b * q \in Nat /\ b * q = q * b
  BY <1>1
<1>3. q * b >= n
  BY <1>1, <1>2
<1> QED BY <1>1, <1>3 DEF q

LEMMA BatchOf ==
  ASSUME NEW j \in Nat \ {0}, NEW b \in Nat \ {0}, NEW n \in Nat, j <= n * b
  PROVE  \E k \in 1..n : (k - 1) * b < j /\ j <= k * b
<1> DEFINE q == (j - 1) \div b
           r == (j - 1) % b
<1>1. q \in Nat /\ r \in 0..(b - 1) /\ j - 1 = b * q + r
  OBVIOUS
<1> HIDE DEF q, r
<1>2. q * b \in Nat /\ b * q = q * b /\ (q + 1) * b = q * b + b
  BY <1>1
<1>3. q * b < j /\ j <= (q + 1) * b
  BY <1>1, <1>2
<1>4. q < n
  <2> SUFFICES ASSUME q >= n PROVE FALSE
    BY <1>1
  <2>1. q * b >= n * b
    BY <1>1
  <2>2. n * b \in Nat
    OBVIOUS
  <2> QED BY <1>2, <1>3, <2>1, <2>2
<1>5. q + 1 \in 1..n /\ (q + 1) - 1 = q
  BY <1>1, <1>4
<1> QED BY <1>3, <1>5

(* What is left of a sequence without its k-th member. *)
LEMMA RemovedFrom ==
  ASSUME NEW S, NEW s \in Seq(S), NEW k \in 1..Len(s)
  PROVE  /\ RemoveAt(s, k) \in Seq(S) /\ Len(RemoveAt(s, k)) = Len(s) - 1
         /\ \A r \in 1..(Len(s) - 1) : RemoveAt(s, k)[r] = s[IF r < k THEN r ELSE r + 1]
<1> DEFINE left == SubSeq(s, 1, k - 1)
           right == SubSeq(s, k + 1, Len(s))
<1>1. Len(s) \in Nat /\ k \in Nat /\ k >= 1 /\ k <= Len(s) /\ RemoveAt(s, k) = left \o right
  BY DEF RemoveAt
<1>2. left \in Seq(S) /\ Len(left) = k - 1 /\ \A i \in 1..(k - 1) : left[i] = s[i]
  BY <1>1, SubSeqProperties
<1>3. right \in Seq(S) /\ Len(right) = Len(s) - k /\ \A i \in 1..(Len(s) - k) : right[i] = s[k + i]
  <2>1. \A i \in (k + 1)..Len(s) : s[i] \in S
    BY <1>1
  <2>2. right \in Seq(S) /\ Len(right) = (IF k + 1 <= Len(s) THEN Len(s) - (k + 1) + 1 ELSE 0)
    BY <1>1, <2>1, SubSeqProperties
  <2>3. \A i \in 1..Len(right) : right[i] = s[(k + 1) + i - 1]
    BY <1>1, <2>1, SubSeqProperties
  <2>4. Len(right) = Len(s) - k
    BY <1>1, <2>2
  <2>5. \A i \in 1..(Len(s) - k) : (k + 1) + i - 1 = k + i
    BY <1>1
  <2> QED BY <2>2, <2>3, <2>4, <2>5
<1> HIDE DEF left, right
<1>4. /\ left \o right \in Seq(S) /\ Len(left \o right) = Len(left) + Len(right)
      /\ \A i \in 1..(Len(left) + Len(right)) :
           (left \o right)[i] = IF i <= Len(left) THEN left[i] ELSE right[i - Len(left)]
  BY <1>2, <1>3, ConcatProperties
<1>5. Len(left) + Len(right) = Len(s) - 1
  BY <1>1, <1>2, <1>3
<1>6. ASSUME NEW r \in 1..(Len(s) - 1) PROVE (left \o right)[r] = s[IF r < k THEN r ELSE r + 1]
  <2>1. (left \o right)[r] = IF r <= k - 1 THEN left[r] ELSE right[r - (k - 1)]
    BY <1>2, <1>4, <1>5
  <2>2. CASE r < k
    <3>1. r <= k - 1 /\ r \in 1..(k - 1)
      BY <1>1, <2>2
    <3> QED BY <1>2, <2>1, <2>2, <3>1
  <2>3. CASE ~(r < k)
    <3>1. /\ ~(r <= k - 1) /\ r - (k - 1) \in 1..(Len(s) - k) /\ k + (r - (k - 1)) = r + 1
      BY <1>1, <2>3
    <3> QED BY <1>3, <2>1, <2>3, <3>1
  <2> QED BY <2>2, <2>3
<1> QED BY <1>1, <1>4, <1>5, <1>6

(* A request that ends leaves the others. *)
LEMMA Removed ==
  ASSUME NEW S, NEW s \in Seq(S), NEW k \in 1..Len(s)
  PROVE  /\ RemoveAt(s, k) \in Seq(S) /\ Len(RemoveAt(s, k)) = Len(s) - 1
         /\ \A m \in 1..Len(s) : m # k =>
              \E r \in 1..Len(RemoveAt(s, k)) : RemoveAt(s, k)[r] = s[m]
<1> DEFINE t == RemoveAt(s, k)
<1>1. /\ t \in Seq(S) /\ Len(t) = Len(s) - 1
      /\ \A r \in 1..(Len(s) - 1) : t[r] = s[IF r < k THEN r ELSE r + 1]
  BY RemovedFrom, Zenon
<1> HIDE DEF t
<1>2. ASSUME NEW m \in 1..Len(s), m # k
      PROVE  \E r \in 1..Len(t) : t[r] = s[m]
  <2> DEFINE r == IF m < k THEN m ELSE m - 1
  <2>1. /\ Len(s) \in Nat /\ r \in 1..(Len(s) - 1)
        /\ (IF r < k THEN r ELSE r + 1) = m
    BY <1>2
  <2> HIDE DEF r
  <2> QED BY <1>1, <2>1
<1> QED BY <1>1, <1>2 DEF t

(* Batches are apart: no position is in two, and none is behind the last. *)
LEMMA BatchesApart ==
  ASSUME NEW b \in Nat \ {0}, NEW k \in Nat, NEW m \in Nat, NEW j \in Nat,
         (k - 1) * b < j, j <= m * b
  PROVE  k <= m
<1> SUFFICES ASSUME m <= k - 1 PROVE FALSE
  OBVIOUS
<1>1. m * b <= (k - 1) * b
  OBVIOUS
<1>2. m * b \in Int /\ (k - 1) * b \in Int
  OBVIOUS
<1> QED BY <1>1, <1>2

(* The pump: the first n batches go out behind what is under way, the rest of  *)
(* the queue stays, and stays only if every request is out.                    *)
LEMMA PumpParts ==
  ASSUME queue \in Seq(Items), NEW busy \in Seq(Requests), Len(busy) <= MaxInFlight, PumpFrom(busy)
  PROVE  \E n \in Nat :
         /\ n <= MaxInFlight - Len(busy)
         /\ n = MaxInFlight - Len(busy) \/ n * MaxBatch >= Len(queue)
         /\ flight' \in Seq(Requests) /\ Len(flight') = Len(busy) + n
         /\ \A k \in 1..Len(busy) : k \in 1..Len(flight') /\ flight'[k] = busy[k]
         /\ \A k \in 1..n : flight'[Len(busy) + k].ids = Batch(queue, k)
         /\ queue' \in Seq(Items)
         /\ Len(queue') = IF n * MaxBatch < Len(queue) THEN Len(queue) - n * MaxBatch ELSE 0
         /\ \A m \in 1..Len(queue') : queue'[m] = queue[n * MaxBatch + m]
<1> DEFINE room == MaxInFlight - Len(busy)
           full == (Len(queue) + MaxBatch - 1) \div MaxBatch
           n == IF full < room THEN full ELSE room
           sent == [k \in 1..n |->
                     [at |-> "sent", ids |-> Batch(queue, k), out |-> [i \in Items |-> 0]]]
<1>1. /\ MaxInFlight \in Nat /\ MaxBatch \in Nat \ {0} /\ 0 \in Revisions
      /\ Len(queue) \in Nat /\ Len(busy) \in Nat
  BY LimitsAssumption DEF Revisions
<1>2. full \in Nat /\ full * MaxBatch >= Len(queue)
  BY <1>1, BatchesCover
<1>3. room \in Nat
  BY <1>1
<1>4. flight' = busy \o sent /\ queue' = SubSeq(queue, n * MaxBatch + 1, Len(queue))
  BY DEF PumpFrom
<1>5. \A k \in 1..n : Batch(queue, k) \subseteq Items
  BY <1>1 DEF Batch
<1> HIDE DEF full, room
<1>6. n \in Nat /\ (n = full \/ n = room) /\ n <= room /\ n * MaxBatch \in Nat
  BY <1>1, <1>2, <1>3
<1>a. n = room \/ n * MaxBatch >= Len(queue)
  BY <1>2, <1>6
<1> HIDE DEF n
<1>7. /\ sent \in Seq(Requests) /\ Len(sent) = n
      /\ \A k \in 1..n : sent[k].ids = Batch(queue, k)
  BY <1>1, <1>5, <1>6 DEF Requests
<1> HIDE DEF sent
<1>8. /\ flight' \in Seq(Requests) /\ Len(flight') = Len(busy) + n
      /\ \A k \in 1..(Len(busy) + n) : flight'[k] = IF k <= Len(busy) THEN busy[k] ELSE sent[k - Len(busy)]
  <2>1. /\ busy \o sent \in Seq(Requests) /\ Len(busy \o sent) = Len(busy) + Len(sent)
        /\ \A k \in 1..(Len(busy) + Len(sent)) :
             (busy \o sent)[k] = IF k <= Len(busy) THEN busy[k] ELSE sent[k - Len(busy)]
    BY <1>7, ConcatProperties
  <2> QED BY <1>4, <1>7, <2>1
<1>9. \A k \in 1..Len(busy) : k \in 1..Len(flight') /\ flight'[k] = busy[k]
  BY <1>1, <1>6, <1>8
<1>10. ASSUME NEW k \in 1..n PROVE flight'[Len(busy) + k].ids = Batch(queue, k)
  <2>1. /\ Len(busy) + k \in 1..(Len(busy) + n) /\ ~(Len(busy) + k <= Len(busy))
        /\ (Len(busy) + k) - Len(busy) = k
    BY <1>1, <1>6
  <2> QED BY <1>7, <1>8, <2>1
<1>11. /\ queue' \in Seq(Items)
       /\ Len(queue') = IF n * MaxBatch < Len(queue) THEN Len(queue) - n * MaxBatch ELSE 0
       /\ \A m \in 1..Len(queue') : queue'[m] = queue[n * MaxBatch + m]
  <2> DEFINE gone == n * MaxBatch
             from == gone + 1
             to == Len(queue)
  <2>1. /\ gone \in Nat /\ from \in Int /\ from >= 1 /\ to \in Int
        /\ queue' = SubSeq(queue, from, to)
    BY <1>1, <1>4, <1>6
  <2>2. \A i \in from..to : queue[i] \in Items
    <3>1. \A i \in from..to : i \in 1..Len(queue)
      BY <1>1, <2>1
    <3> QED BY <3>1, ElementOfSeq
  <2> HIDE DEF gone
  <2>3. /\ SubSeq(queue, from, to) \in Seq(Items)
        /\ Len(SubSeq(queue, from, to)) = (IF from <= to THEN to - from + 1 ELSE 0)
        /\ \A i \in 1..(to - from + 1) : SubSeq(queue, from, to)[i] = queue[from + i - 1]
    <3> HIDE DEF from, to
    <3> QED BY <2>1, <2>2, SubSeqProperties
  <2>4. \A m \in 1..Len(queue') : m \in 1..(to - from + 1) /\ from + m - 1 = gone + m
    BY <2>1, <2>3
  <2>5. /\ queue' \in Seq(Items)
        /\ Len(queue') = IF gone < Len(queue) THEN Len(queue) - gone ELSE 0
        /\ \A m \in 1..Len(queue') : queue'[m] = queue[gone + m]
    <3>1. Len(queue') = IF gone < Len(queue) THEN Len(queue) - gone ELSE 0
      BY <2>1, <2>3
    <3>2. \A m \in 1..Len(queue') : queue'[m] = queue[gone + m]
      <4> HIDE DEF from, to
      <4> QED BY <2>1, <2>3, <2>4
    <3> QED BY <2>1, <2>3, <3>1, <3>2
  <2> QED BY <2>5 DEF gone
<1> QED BY <1>6, <1>8, <1>9, <1>10, <1>11, <1>a DEF room

(* Every item of the queue goes out or stays, what is under way stays so, and  *)
(* a rest means that every request is out.                                     *)
LEMMA PumpGoesOut ==
  ASSUME queue \in Seq(Items), NEW busy \in Seq(Requests), Len(busy) <= MaxInFlight, PumpFrom(busy)
  PROVE  /\ flight' \in Seq(Requests) /\ Len(flight') <= MaxInFlight
         /\ queue' \in Seq(Items)
         /\ queue' # <<>> => Len(flight') = MaxInFlight
         /\ \A k \in 1..Len(busy) : k \in 1..Len(flight') /\ flight'[k] = busy[k]
         /\ \A j \in 1..Len(queue) :
              \/ \E m \in 1..Len(queue') : queue'[m] = queue[j]
              \/ \E k \in 1..Len(flight') : queue[j] \in flight'[k].ids
<1>1. /\ MaxInFlight \in Nat /\ MaxBatch \in Nat \ {0}
      /\ Len(queue) \in Nat /\ Len(busy) \in Nat
  BY LimitsAssumption
<1>2. PICK n \in Nat :
         /\ n <= MaxInFlight - Len(busy)
         /\ n = MaxInFlight - Len(busy) \/ n * MaxBatch >= Len(queue)
         /\ flight' \in Seq(Requests) /\ Len(flight') = Len(busy) + n
         /\ \A k \in 1..Len(busy) : k \in 1..Len(flight') /\ flight'[k] = busy[k]
         /\ \A k \in 1..n : flight'[Len(busy) + k].ids = Batch(queue, k)
         /\ queue' \in Seq(Items)
         /\ Len(queue') = IF n * MaxBatch < Len(queue) THEN Len(queue) - n * MaxBatch ELSE 0
         /\ \A m \in 1..Len(queue') : queue'[m] = queue[n * MaxBatch + m]
  BY PumpParts
<1> DEFINE gone == n * MaxBatch
<1>3. gone \in Nat
  BY <1>1
<1>4. Len(queue') = (IF gone < Len(queue) THEN Len(queue) - gone ELSE 0)
  BY <1>2
<1>5. ASSUME queue' # <<>> PROVE Len(flight') = MaxInFlight
  <2>1. Len(queue') # 0
    BY <1>2, <1>5, EmptySeq
  <2>2. gone < Len(queue) /\ ~(gone >= Len(queue))
    <3> HIDE DEF gone
    <3> QED BY <1>1, <1>3, <1>4, <2>1
  <2> QED BY <1>1, <1>2, <2>2
<1>6. ASSUME NEW j \in 1..Len(queue), j > gone
      PROVE  \E m \in 1..Len(queue') : queue'[m] = queue[j]
  <2>1. \A m \in 1..Len(queue') : queue'[m] = queue[gone + m]
    BY <1>2
  <2> HIDE DEF gone
  <2>2. j - gone \in 1..Len(queue') /\ gone + (j - gone) = j
    BY <1>1, <1>3, <1>4, <1>6
  <2> QED BY <2>1, <2>2
<1>7. ASSUME NEW j \in 1..Len(queue), j <= gone
      PROVE  \E k \in 1..Len(flight') : queue[j] \in flight'[k].ids
  <2>0. j \in Nat \ {0} /\ MaxBatch \in Nat \ {0} /\ n \in Nat
    BY <1>1
  <2>1. PICK k \in 1..n : (k - 1) * MaxBatch < j /\ j <= k * MaxBatch
    BY <1>7, <2>0, BatchOf, Zenon
  <2>2. queue[j] \in Batch(queue, k)
    BY <2>1 DEF Batch
  <2>3. Len(busy) + k \in 1..Len(flight')
    BY <1>1, <1>2
  <2> QED BY <1>2, <2>2, <2>3
<1>8. \A j \in 1..Len(queue) : j > gone \/ j <= gone
  BY <1>3
<1> QED BY <1>1, <1>2, <1>5, <1>6, <1>7, <1>8

-----------------------------------------------------------------------------
(* Steps of the loader leave the page, and steps of the page the loader.       *)
LEMMA FollowLeft ==
  ASSUME FollowInv, UNCHANGED <<server, follow, visible, probe, reload, fresh, shown, failed>>,
         rows' \in [Items -> Rows]
  PROVE  FollowInv'
BY DEF FollowInv, FollowTypes, EndKnown, TickNotLost, server, follow

LEMMA LoaderLeft ==
  ASSUME LoaderInv, UNCHANGED loader
  PROVE  LoaderInv'
BY DEF LoaderInv, LoaderTypes, Asked, loader

(* The server. *)
LEMMA ChangeKeeps == ASSUME FollowInv, NEW i \in Items, Change(i) PROVE FollowInv'
<1>1. /\ rev' \in Revisions /\ out' \in [Items -> Revisions]
      /\ UNCHANGED <<ended, follow, visible, probe, reload, fresh, cache>>
  BY LimitsAssumption DEF Change, FollowInv, FollowTypes, Revisions
<1> QED BY <1>1 DEF FollowInv, FollowTypes, EndKnown, TickNotLost, follow, cache

LEMMA EndKeeps == ASSUME FollowInv, End PROVE FollowInv'
<1>1. /\ rev' \in Revisions /\ ended' = TRUE
      /\ UNCHANGED <<out, follow, visible, probe, reload, fresh, cache>>
  BY LimitsAssumption DEF End, FollowInv, FollowTypes, Revisions
<1> QED BY <1>1 DEF FollowInv, FollowTypes, EndKnown, TickNotLost, follow, cache

LEMMA AnswerKeeps == ASSUME FollowInv, NEW p \in Probes, Answer(p) PROVE FollowInv'
<1>1. /\ probe' = [probe EXCEPT ![p] = [at |-> "answered", rev |-> rev, live |-> ~ended]]
      /\ UNCHANGED <<server, follow, visible, reload, fresh, cache>>
  BY DEF Answer
<1>2. /\ probe' \in [Probes -> ProbeStates]
      /\ \A q \in Probes : q # p => probe'[q] = probe[q]
      /\ probe'[p].at = "answered" /\ probe'[p].live = ~ended /\ probe'[p] # Idle
  BY <1>1 DEF FollowInv, FollowTypes, ProbeStates, Idle
<1>3. FollowTypes' /\ EndKnown'
  BY <1>1, <1>2 DEF FollowInv, FollowTypes, EndKnown, server, follow, cache
<1>4. TickNotLost'
  BY <1>1, <1>2 DEF FollowInv, FollowTypes, TickNotLost, follow
<1> QED BY <1>3, <1>4 DEF FollowInv

LEMMA AnswerReloadKeeps == ASSUME FollowInv, AnswerReload PROVE FollowInv'
<1>1. /\ reload' = [reload EXCEPT !.at = "answered", !.ended = ended, !.out = out]
      /\ reload.at = "sent" /\ UNCHANGED <<server, follow, visible, probe, fresh, cache>>
  BY DEF AnswerReload
<1>2. /\ reload' \in ReloadStates /\ reload'.at = "answered" /\ reload'.ended = ended
      /\ reload'.again = reload.again /\ reload'.queued = reload.queued
  BY <1>1 DEF FollowInv, FollowTypes, ReloadStates
<1>3. FollowTypes'
  BY <1>1, <1>2 DEF FollowInv, FollowTypes, server, follow, cache
<1>4. EndKnown'
  BY <1>1, <1>2 DEF FollowInv, EndKnown, server, follow, cache
<1>5. TickNotLost'
  BY <1>1, <1>2 DEF FollowInv, TickNotLost, follow
<1> QED BY <1>3, <1>4, <1>5 DEF FollowInv

-----------------------------------------------------------------------------
(* Reloads. *)
LEMMA Started ==
  ASSUME NEW again \in BOOLEAN, NEW from \in [Items -> Rows]
  PROVE  /\ Start(again, from) \in ReloadStates /\ Start(again, from).at = "sent"
         /\ Start(again, from).again = again /\ Start(again, from).queued = FALSE
<1> DEFINE zeros == [i \in Items |-> 0]
           blank == [i \in Items |-> [digest |-> 0, body |-> Nothing, loaded |-> FALSE]]
<1>1. zeros \in [Items -> Revisions] /\ blank \in [Items -> Rows]
  BY LimitsAssumption DEF Revisions, Rows
<1>2. NoReload = [at |-> "idle", again |-> FALSE, queued |-> FALSE, ended |-> FALSE,
                  out |-> zeros, prev |-> blank]
  BY DEF NoReload
<1> HIDE DEF zeros, blank
<1>3. Start(again, from) = [NoReload EXCEPT !.at = "sent", !.again = again, !.prev = from]
  BY DEF Start
<1> QED BY <1>1, <1>2, <1>3 DEF ReloadStates

LEMMA ReloadNoted ==
  ASSUME FollowInv, NEW final \in BOOLEAN, Reload(final)
  PROVE  /\ reload' \in ReloadStates /\ reload'.at # "idle"
         /\ final => reload'.again \/ reload'.queued
         /\ reload'.again \/ reload'.queued
              => final \/ (reload.at # "idle" /\ (reload.again \/ reload.queued))
         /\ reload'.at = "answered" /\ reload'.again
              => reload.at = "answered" /\ reload.again /\ reload'.ended = reload.ended
<1>1. CASE reload.at = "idle"
  <2>1. reload' = Start(final, rows)
    BY <1>1 DEF Reload
  <2> QED BY <2>1, Started DEF FollowInv, FollowTypes
<1>2. CASE reload.at # "idle"
  <2>1. reload' = [reload EXCEPT !.queued = @ \/ final]
    BY <1>2 DEF Reload
  <2>2. /\ reload' \in ReloadStates /\ reload'.at = reload.at /\ reload'.again = reload.again
        /\ reload'.queued = (reload.queued \/ final) /\ reload'.ended = reload.ended
    BY <2>1 DEF FollowInv, FollowTypes, ReloadStates
  <2> QED BY <1>2, <2>2
<1> QED BY <1>1, <1>2

(* A reload that is over, and what follows it. *)
LEMMA AfterFetchKeeps ==
  ASSUME FollowInv, NEW from \in [Items -> Rows], AfterFetch(from), reload.at # "idle",
         rows' \in [Items -> Rows], shown' \in BOOLEAN, failed' \in BOOLEAN,
         reload.again => failed' \/ shown',
         UNCHANGED <<server, live, known, pending, ticking, visible, probe>>
  PROVE  FollowInv'
<1>1. reload \in ReloadStates
  BY DEF FollowInv, FollowTypes
<1>2. CASE reload.queued
  <2>1. reload' = Start(TRUE, from) /\ UNCHANGED <<fresh, chain>>
    <3>1. (reload.again \/ reload.queued) = TRUE
      BY <1>1, <1>2 DEF ReloadStates
    <3> QED BY <1>2, <3>1 DEF AfterFetch
  <2>2. reload' \in ReloadStates /\ reload'.at = "sent" /\ reload'.again = TRUE
    BY <2>1, Started
  <2> QED BY <1>2, <2>1, <2>2 DEF FollowInv, FollowTypes, EndKnown, TickNotLost, server
<1>3. CASE ~reload.queued
  <2>1. /\ reload' = NoReload /\ fresh' = (fresh \/ (reload.again \/ reload.queued))
        /\ chain' = IF chain = "reloading" THEN "armed" ELSE chain
    BY <1>3 DEF AfterFetch
  <2>2. reload' \in ReloadStates /\ reload'.at = "idle"
    BY <2>1, LimitsAssumption DEF NoReload, ReloadStates, Revisions, Rows
  <2>3. FollowTypes'
    BY <1>1, <2>1, <2>2 DEF FollowInv, FollowTypes, ReloadStates, server
  <2>4. EndKnown'
    BY <1>3, <2>1, <2>2 DEF FollowInv, FollowTypes, EndKnown, server
  <2>5. TickNotLost'
    BY <2>1, <2>2 DEF FollowInv, TickNotLost
  <2> QED BY <2>3, <2>4, <2>5 DEF FollowInv
<1> QED BY <1>2, <1>3

LEMMA ReloadLandsKeeps == ASSUME FollowInv, ReloadLands PROVE FollowInv'
<1>1. /\ reload.at = "answered" /\ rows' = [i \in Items |-> Merged(i)]
      /\ shown' = reload.ended /\ failed' = FALSE /\ AfterFetch(rows')
      /\ UNCHANGED <<server, live, known, pending, ticking, visible, probe>>
  BY DEF ReloadLands
<1>2. reload \in ReloadStates
  BY DEF FollowInv, FollowTypes
<1>3. ASSUME NEW i \in Items PROVE Merged(i) \in Rows
  <2>1. reload.prev[i] \in Rows /\ reload.out[i] \in Revisions
    BY <1>2 DEF ReloadStates
  <2> QED BY <2>1 DEF Merged, Rows
<1>4. rows' \in [Items -> Rows]
  BY <1>1, <1>3
<1>5. reload.again => reload.ended
  BY <1>1 DEF FollowInv, EndKnown
<1>6. shown' \in BOOLEAN /\ failed' \in BOOLEAN
  BY <1>1, <1>2 DEF ReloadStates
<1> QED BY <1>1, <1>4, <1>5, <1>6, AfterFetchKeeps

LEMMA ReloadFailsKeeps == ASSUME FollowInv, ReloadFails PROVE FollowInv'
<1>1. /\ reload.at = "sent" /\ failed' = TRUE /\ AfterFetch(rows)
      /\ UNCHANGED <<server, live, known, pending, ticking, visible, probe, shown, rows>>
  BY DEF ReloadFails
<1>2. rows \in [Items -> Rows] /\ shown \in BOOLEAN
  BY DEF FollowInv, FollowTypes
<1> QED BY <1>1, <1>2, AfterFetchKeeps
-----------------------------------------------------------------------------
(* Probes. *)
LEMMA Sent ==
  ASSUME FollowTypes, NEW p \in Probes, Send(p)
  PROVE  /\ probe' \in [Probes -> ProbeStates]
         /\ \A q \in Probes : q # p => probe'[q] = probe[q]
         /\ probe'[p].at = "sent" /\ probe'[p] # Idle
<1> DEFINE sent == [Idle EXCEPT !.at = "sent"]
<1>1. 0 \in Revisions
  BY LimitsAssumption DEF Revisions
<1>2. sent \in ProbeStates /\ sent.at = "sent" /\ Idle.at = "idle"
  BY <1>1 DEF Idle, ProbeStates
<1>3. probe' = [probe EXCEPT ![p] = sent]
  BY DEF Send
<1> HIDE DEF sent
<1> QED BY <1>2, <1>3 DEF FollowTypes

LEMMA TickKeeps == ASSUME FollowInv, NEW p \in Probes, Tick(p) PROVE FollowInv'
<1>1. /\ chain' = "probing" /\ ticking' = p /\ Send(p)
      /\ UNCHANGED <<server, live, known, pending, visible, reload, fresh, cache>>
  BY DEF Tick
<1>2. /\ probe' \in [Probes -> ProbeStates]
      /\ \A q \in Probes : q # p => probe'[q] = probe[q]
      /\ probe'[p].at = "sent" /\ probe'[p] # Idle
  BY <1>1, Sent DEF FollowInv
<1>3. FollowTypes' /\ EndKnown'
  BY <1>1, <1>2 DEF FollowInv, FollowTypes, EndKnown, server, cache
<1>4. TickNotLost'
  BY <1>1, <1>2, NothingAssumption DEF TickNotLost
<1> QED BY <1>3, <1>4 DEF FollowInv

LEMMA AnnouncedKeeps == ASSUME FollowInv, NEW p \in Probes, Announced(p) PROVE FollowInv'
<1>1. Send(p) /\ UNCHANGED <<server, follow, visible, reload, fresh, cache>>
  BY DEF Announced
<1>2. /\ probe' \in [Probes -> ProbeStates]
      /\ \A q \in Probes : q # p => probe'[q] = probe[q]
      /\ probe'[p].at = "sent" /\ probe'[p] # Idle
  BY <1>1, Sent DEF FollowInv
<1>3. FollowTypes' /\ EndKnown'
  BY <1>1, <1>2 DEF FollowInv, FollowTypes, EndKnown, server, follow, cache
<1>4. TickNotLost'
  BY <1>1, <1>2 DEF FollowInv, FollowTypes, TickNotLost, follow
<1> QED BY <1>3, <1>4 DEF FollowInv

(* A probe that is idle again. *)
LEMMA Cleared ==
  ASSUME FollowTypes, NEW p \in Probes, probe' = [probe EXCEPT ![p] = Idle]
  PROVE  /\ probe' \in [Probes -> ProbeStates]
         /\ \A q \in Probes : q # p => probe'[q] = probe[q]
         /\ probe'[p].at = "idle"
BY LimitsAssumption DEF FollowTypes, Idle, ProbeStates, Revisions

LEMMA ProbeFailsKeeps == ASSUME FollowInv, NEW p \in Probes, ProbeFails(p) PROVE FollowInv'
<1>1. /\ probe' = [probe EXCEPT ![p] = Idle]
      /\ IF ticking = p THEN chain' = "armed" /\ ticking' = Nothing ELSE UNCHANGED <<chain, ticking>>
      /\ UNCHANGED <<server, live, known, pending, visible, reload, fresh, cache>>
  BY DEF ProbeFails
<1>2. /\ probe' \in [Probes -> ProbeStates]
      /\ \A q \in Probes : q # p => probe'[q] = probe[q]
      /\ probe'[p].at = "idle"
  BY <1>1, Cleared DEF FollowInv
<1>3. FollowTypes' /\ EndKnown'
  BY <1>1, <1>2 DEF FollowInv, FollowTypes, EndKnown, server, cache
<1>4. TickNotLost'
  BY <1>1, <1>2 DEF FollowInv, FollowTypes, TickNotLost
<1> QED BY <1>3, <1>4 DEF FollowInv

LEMMA HideKeeps == ASSUME FollowInv, Hide PROVE FollowInv'
BY DEF Hide, FollowInv, FollowTypes, EndKnown, TickNotLost, server, cache

LEMMA ShowKeeps == ASSUME FollowInv, Show PROVE FollowInv'
BY DEF Show, FollowInv, FollowTypes, EndKnown, TickNotLost, server, cache

(* What an answer does to the reloads: a run that is over gets a last one, and *)
(* a run that goes on at most one that is not.                                 *)
LEMMA StoppedReloads ==
  ASSUME FollowInv, NEW status \in ProbeStates, ~status.live, Stopped(status), ended
  PROVE  /\ known' \in Revisions /\ reload' \in ReloadStates
         /\ reload'.at = "answered" /\ reload'.again => reload'.ended
         /\ \/ reload'.at # "idle" /\ (reload'.again \/ reload'.queued)
            \/ ~live /\ reload' = reload
<1>1. reload \in ReloadStates /\ known \in Revisions /\ status.rev \in Revisions
  BY DEF FollowInv, FollowTypes, ProbeStates
<1>2. CASE live \/ known # status.rev
  <2>1. known' = status.rev /\ Reload(TRUE)
    BY <1>2 DEF Stopped
  <2>2. /\ reload' \in ReloadStates /\ reload'.at # "idle"
        /\ TRUE => reload'.again \/ reload'.queued
        /\ reload'.at = "answered" /\ reload'.again
             => reload.at = "answered" /\ reload.again /\ reload'.ended = reload.ended
    BY <2>1, ReloadNoted
  <2> QED BY <1>1, <2>1, <2>2 DEF FollowInv, EndKnown
<1>3. CASE ~(live \/ known # status.rev)
  BY <1>1, <1>3 DEF Stopped, FollowInv, EndKnown
<1> QED BY <1>2, <1>3

LEMMA MovedReloads ==
  ASSUME FollowInv, NEW status \in ProbeStates, Moved(status)
  PROVE  /\ known' \in Revisions /\ pending' \in Revisions \cup {Nothing} /\ reload' \in ReloadStates
         /\ reload.at # "idle" => reload'.at # "idle"
         /\ reload'.at # "idle" /\ (reload'.again \/ reload'.queued) => ended
         /\ reload'.at = "answered" /\ reload'.again => reload'.ended
<1>1. /\ reload \in ReloadStates /\ known \in Revisions /\ status.rev \in Revisions
      /\ pending \in Revisions \cup {Nothing}
  BY DEF FollowInv, FollowTypes, ProbeStates
<1>2. CASE UNCHANGED reload
  <2>1. known' \in Revisions /\ pending' \in Revisions \cup {Nothing}
    BY <1>1 DEF Moved
  <2> QED BY <1>1, <1>2, <2>1 DEF FollowInv, EndKnown
<1>3. CASE known' = status.rev /\ pending' = Nothing /\ Reload(FALSE)
  <2>1. /\ reload' \in ReloadStates /\ reload'.at # "idle"
        /\ reload'.again \/ reload'.queued
             => FALSE \/ (reload.at # "idle" /\ (reload.again \/ reload.queued))
        /\ reload'.at = "answered" /\ reload'.again
             => reload.at = "answered" /\ reload.again /\ reload'.ended = reload.ended
    BY <1>3, ReloadNoted
  <2> QED BY <1>1, <1>3, <2>1 DEF FollowInv, EndKnown
<1> QED BY <1>2, <1>3 DEF Moved

LEMMA ProbeLandsKeeps == ASSUME FollowInv, NEW p \in Probes, ProbeLands(p) PROVE FollowInv'
<1> DEFINE status == probe[p]
<1>1. /\ status.at = "answered" /\ probe' = [probe EXCEPT ![p] = Idle] /\ live' = status.live
      /\ IF status.live THEN Moved(status) ELSE Stopped(status) /\ UNCHANGED pending
      /\ ChainAfter(p, status.live)
      /\ UNCHANGED <<server, visible, fresh, cache>>
  BY DEF ProbeLands
<1>2. /\ probe' \in [Probes -> ProbeStates]
      /\ \A q \in Probes : q # p => probe'[q] = probe[q]
      /\ probe'[p].at = "idle"
  BY <1>1, Cleared DEF FollowInv
<1>3. status \in ProbeStates
  BY DEF FollowInv, FollowTypes
<1>4. status.live \in BOOLEAN /\ (~status.live => ended)
  BY <1>1, <1>3 DEF FollowInv, EndKnown, ProbeStates
<1> HIDE DEF status
<1>5. /\ chain' \in {"off", "armed", "probing", "reloading"} /\ ticking' \in Probes \cup {Nothing}
  BY <1>1 DEF ChainAfter, FollowInv, FollowTypes
<1>6. CASE status.live
  <2>1. /\ known' \in Revisions /\ pending' \in Revisions \cup {Nothing} /\ reload' \in ReloadStates
        /\ reload.at # "idle" => reload'.at # "idle"
        /\ reload'.at # "idle" /\ (reload'.again \/ reload'.queued) => ended
        /\ reload'.at = "answered" /\ reload'.again => reload'.ended
    BY <1>1, <1>3, <1>6, MovedReloads
  <2>2. FollowTypes'
    BY <1>1, <1>2, <1>4, <1>5, <2>1 DEF FollowInv, FollowTypes, server, cache
  <2>3. EndKnown'
    BY <1>1, <1>2, <1>6, <2>1 DEF FollowInv, EndKnown, server, cache
  <2>4. TickNotLost'
    <3> SUFFICES ASSUME visible PROVE TickNotLost'
      BY <1>1 DEF TickNotLost
    <3>1. CASE ~live
      BY <1>1, <1>6, <3>1 DEF ChainAfter, TickNotLost
    <3>2. CASE live /\ ticking # p
      <4>1. chain' = chain /\ ticking' = IF ticking = p \/ live # status.live THEN Nothing ELSE ticking
        BY <1>1, <1>6, <3>2 DEF ChainAfter
      <4>2. ticking' = ticking
        BY <1>4, <1>6, <3>2, <4>1 DEF FollowInv, FollowTypes
      <4>3. ticking # Nothing => probe'[ticking] = probe[ticking]
        BY <1>2, <3>2 DEF FollowInv, FollowTypes
      <4> QED BY <1>1, <2>1, <3>2, <4>1, <4>2, <4>3 DEF FollowInv, TickNotLost
    <3>3. CASE live /\ ticking = p
      <4>1. chain' = IF reload.at = "idle" /\ reload'.at # "idle" THEN "reloading" ELSE "armed"
        BY <1>1, <1>6, <3>3 DEF ChainAfter
      <4> QED BY <4>1 DEF TickNotLost
    <3> QED BY <3>1, <3>2, <3>3
  <2> QED BY <2>2, <2>3, <2>4 DEF FollowInv
<1>7. CASE ~status.live
  <2>1. /\ known' \in Revisions /\ reload' \in ReloadStates
        /\ reload'.at = "answered" /\ reload'.again => reload'.ended
        /\ \/ reload'.at # "idle" /\ (reload'.again \/ reload'.queued)
           \/ ~live /\ reload' = reload
    BY <1>1, <1>3, <1>4, <1>7, StoppedReloads
  <2>2. FollowTypes'
    BY <1>1, <1>2, <1>4, <1>5, <1>7, <2>1 DEF FollowInv, FollowTypes, server, cache
  <2>3. EndKnown'
    BY <1>1, <1>2, <1>4, <1>7, <2>1 DEF FollowInv, EndKnown, server, cache
  <2>4. TickNotLost'
    BY <1>1, <1>7 DEF TickNotLost
  <2> QED BY <2>2, <2>3, <2>4 DEF FollowInv
<1> QED BY <1>6, <1>7
-----------------------------------------------------------------------------
(* The loader. *)
LEMMA QueuedAt ==
  ASSUME NEW q \in Seq(Items), NEW i
  PROVE  i \in Range(q) <=> \E j \in 1..Len(q) : q[j] = i
BY DEF Range

LEMMA WantedKeeps ==
  ASSUME LoaderInv, NEW i \in Items, NEW state \in {"none", "loading", "error", "loaded"},
         Wanted(i, state), state = "loading" => stat[i] = "loading"
  PROVE  LoaderInv'
<1>1. /\ waiting' = waiting \cup {i} /\ scheduled' = TRUE /\ flight' = flight
      /\ IF i \notin Range(queue) /\ state # "loading"
         THEN queue' = Append(queue, i) /\ stat' = [stat EXCEPT ![i] = "loading"]
         ELSE queue' = queue /\ stat' = [stat EXCEPT ![i] = state]
  BY DEF Wanted
<1>2. queue \in Seq(Items) /\ stat \in [Items -> {"none", "loading", "error", "loaded"}]
  BY DEF LoaderInv, LoaderTypes
<1>3. CASE i \notin Range(queue) /\ state # "loading"
  <2>1. queue' = Append(queue, i) /\ stat' = [stat EXCEPT ![i] = "loading"]
    BY <1>1, <1>3
  <2>2. queue' \in Seq(Items) /\ \A r \in Range(queue) \cup {i} : r \in Range(queue')
    <3>1. /\ queue' \in Seq(Items) /\ Len(queue') = Len(queue) + 1 /\ queue'[Len(queue) + 1] = i
          /\ \A j \in 1..Len(queue) : queue'[j] = queue[j]
      BY <1>2, <2>1, AppendProperties
    <3>2. Len(queue) \in Nat /\ Len(queue) + 1 \in 1..Len(queue')
          /\ \A j \in 1..Len(queue) : j \in 1..Len(queue')
      BY <1>2, <3>1
    <3> QED BY <1>2, <3>1, <3>2, QueuedAt
  <2>3. \A r \in Items : r \in waiting' \/ stat'[r] = "loading" => Asked(r)'
    BY <1>1, <1>2, <2>1, <2>2 DEF LoaderInv, Asked
  <2>4. LoaderTypes'
    BY <1>1, <1>2, <2>1, <2>2 DEF LoaderInv, LoaderTypes
  <2> QED BY <1>1, <2>3, <2>4 DEF LoaderInv
<1>4. CASE ~(i \notin Range(queue) /\ state # "loading")
  <2>1. queue' = queue /\ stat' = [stat EXCEPT ![i] = state]
    BY <1>1, <1>4
  <2>2. Asked(i)
    BY <1>4 DEF LoaderInv, Asked
  <2>3. \A r \in Items : r \in waiting' \/ stat'[r] = "loading" => Asked(r)'
    BY <1>1, <1>2, <2>1, <2>2 DEF LoaderInv, Asked
  <2>4. LoaderTypes'
    BY <1>1, <1>2, <2>1 DEF LoaderInv, LoaderTypes
  <2> QED BY <1>1, <2>3, <2>4 DEF LoaderInv
<1> QED BY <1>3, <1>4

LEMMA EnsureKeeps == ASSUME FollowInv, LoaderInv, NEW i \in Items, Ensure(i) PROVE FollowInv' /\ LoaderInv'
<1>1. /\ Wanted(i, stat[i])
      /\ UNCHANGED <<server, follow, visible, probe, reload, fresh, shown, failed, rows>>
  BY DEF Ensure, cache
<1>2. stat[i] \in {"none", "loading", "error", "loaded"} /\ rows \in [Items -> Rows]
  BY DEF LoaderInv, LoaderTypes, FollowInv, FollowTypes
<1> QED BY <1>1, <1>2, WantedKeeps, FollowLeft

LEMMA RetryKeeps == ASSUME FollowInv, LoaderInv, NEW i \in Items, Retry(i) PROVE FollowInv' /\ LoaderInv'
<1>1. /\ Wanted(i, "none")
      /\ UNCHANGED <<server, follow, visible, probe, reload, fresh, shown, failed, rows>>
  BY DEF Retry, cache
<1>2. rows \in [Items -> Rows]
  BY DEF FollowInv, FollowTypes
<1> QED BY <1>1, <1>2, WantedKeeps, FollowLeft

LEMMA PumpKeeps == ASSUME FollowInv, LoaderInv, Pump PROVE FollowInv' /\ LoaderInv'
<1>1. /\ PumpFrom(flight) /\ scheduled' = FALSE /\ stat' = stat /\ waiting' = waiting
      /\ UNCHANGED <<server, follow, visible, probe, reload, fresh, shown, failed, rows>>
  BY DEF Pump, cache
<1>2. queue \in Seq(Items) /\ flight \in Seq(Requests) /\ Len(flight) <= MaxInFlight
  BY DEF LoaderInv, LoaderTypes
<1>3. /\ flight' \in Seq(Requests) /\ Len(flight') <= MaxInFlight
      /\ queue' \in Seq(Items)
      /\ queue' # <<>> => Len(flight') = MaxInFlight
      /\ \A k \in 1..Len(flight) : k \in 1..Len(flight') /\ flight'[k] = flight[k]
      /\ \A j \in 1..Len(queue) :
           \/ \E m \in 1..Len(queue') : queue'[m] = queue[j]
           \/ \E k \in 1..Len(flight') : queue[j] \in flight'[k].ids
  BY <1>1, <1>2, PumpGoesOut
<1>4. ASSUME NEW i \in Items, Asked(i) PROVE Asked(i)'
  <2>1. DOMAIN flight = 1..Len(flight) /\ DOMAIN flight' = 1..Len(flight')
    BY <1>2, <1>3, LenProperties
  <2>2. CASE i \in Range(queue)
    <3>1. PICK j \in 1..Len(queue) : queue[j] = i
      BY <1>2, <2>2, QueuedAt
    <3> QED BY <1>3, <2>1, <3>1, QueuedAt DEF Asked
  <2>3. CASE \E k \in DOMAIN flight : i \in flight[k].ids
    BY <1>3, <2>1, <2>3 DEF Asked
  <2> QED BY <1>4, <2>2, <2>3 DEF Asked
<1>5. LoaderInv'
  BY <1>1, <1>3, <1>4 DEF LoaderInv, LoaderTypes
<1>6. rows' \in [Items -> Rows]
  BY <1>1 DEF FollowInv, FollowTypes
<1> QED BY <1>1, <1>5, <1>6, FollowLeft

(* A request that ends: what it asked for is no longer waited for, the rest    *)
(* stays asked for.                                                            *)
LEMMA SettleKeeps ==
  ASSUME LoaderInv, NEW k \in DOMAIN flight, NEW state \in {"error", "loaded"}, Settle(k, state)
  PROVE  LoaderInv'
<1> DEFINE busy == RemoveAt(flight, k)
<1>1. /\ stat' = [i \in Items |-> IF i \in flight[k].ids THEN state ELSE stat[i]]
      /\ waiting' = waiting \ flight[k].ids /\ PumpFrom(busy) /\ scheduled' = scheduled
  BY DEF Settle
<1>2. /\ queue \in Seq(Items) /\ flight \in Seq(Requests) /\ Len(flight) <= MaxInFlight
      /\ MaxInFlight \in Nat /\ Len(flight) \in Nat /\ DOMAIN flight = 1..Len(flight)
  BY LimitsAssumption DEF LoaderInv, LoaderTypes
<1>3. /\ busy \in Seq(Requests) /\ Len(busy) = Len(flight) - 1
      /\ \A m \in 1..Len(flight) : m # k => \E r \in 1..Len(busy) : busy[r] = flight[m]
  <2>1. k \in 1..Len(flight)
    BY <1>2
  <2> QED BY <1>2, <2>1, Removed, Zenon
<1> HIDE DEF busy
<1>4. Len(busy) <= MaxInFlight
  BY <1>2, <1>3
<1>5. /\ flight' \in Seq(Requests) /\ Len(flight') <= MaxInFlight
      /\ queue' \in Seq(Items)
      /\ queue' # <<>> => Len(flight') = MaxInFlight
      /\ \A r \in 1..Len(busy) : r \in 1..Len(flight') /\ flight'[r] = busy[r]
      /\ \A j \in 1..Len(queue) :
           \/ \E m \in 1..Len(queue') : queue'[m] = queue[j]
           \/ \E r \in 1..Len(flight') : queue[j] \in flight'[r].ids
  BY <1>1, <1>2, <1>3, <1>4, PumpGoesOut
<1>6. ASSUME NEW i \in Items, Asked(i), i \notin flight[k].ids PROVE Asked(i)'
  <2>1. DOMAIN flight' = 1..Len(flight')
    BY <1>5, LenProperties
  <2>2. CASE i \in Range(queue)
    <3>1. PICK j \in 1..Len(queue) : queue[j] = i
      BY <1>2, <2>2, QueuedAt
    <3> QED BY <1>5, <2>1, <3>1, QueuedAt DEF Asked
  <2>3. CASE \E m \in DOMAIN flight : i \in flight[m].ids
    <3>1. PICK m \in 1..Len(flight) : i \in flight[m].ids
      BY <1>2, <2>3
    <3>2. PICK r \in 1..Len(busy) : busy[r] = flight[m]
      BY <1>3, <1>6, <3>1
    <3> QED BY <1>5, <2>1, <3>1, <3>2 DEF Asked
  <2> QED BY <1>6, <2>2, <2>3 DEF Asked
<1>7. \A i \in Items : i \in waiting' \/ stat'[i] = "loading" => Asked(i)'
  BY <1>1, <1>6 DEF LoaderInv
<1>8. LoaderTypes'
  BY <1>1, <1>5 DEF LoaderInv, LoaderTypes
<1> QED BY <1>5, <1>7, <1>8 DEF LoaderInv

LEMMA DetailsLandKeeps ==
  ASSUME FollowInv, LoaderInv, NEW k \in DOMAIN flight, DetailsLand(k)
  PROVE  FollowInv' /\ LoaderInv'
<1>1. /\ Settle(k, "loaded")
      /\ UNCHANGED <<server, follow, visible, probe, reload, fresh, shown, failed>>
      /\ rows' = [i \in Items |->
           IF i \in flight[k].ids
           THEN [digest |-> rows[i].digest, body |-> flight[k].out[i], loaded |-> TRUE]
           ELSE rows[i]]
  BY DEF DetailsLand
<1>2. flight[k] \in Requests /\ rows \in [Items -> Rows]
  BY DEF LoaderInv, LoaderTypes, FollowInv, FollowTypes
<1>3. ASSUME NEW i \in Items
      PROVE  [digest |-> rows[i].digest, body |-> flight[k].out[i], loaded |-> TRUE] \in Rows
  BY <1>2 DEF Requests, Rows
<1>4. rows' \in [Items -> Rows]
  BY <1>1, <1>2, <1>3
<1> QED BY <1>1, <1>4, SettleKeeps, FollowLeft

LEMMA DetailsFailKeeps ==
  ASSUME FollowInv, LoaderInv, NEW k \in DOMAIN flight, DetailsFail(k)
  PROVE  FollowInv' /\ LoaderInv'
<1>1. /\ Settle(k, "error")
      /\ UNCHANGED <<server, follow, visible, probe, reload, fresh, shown, failed, rows>>
  BY DEF DetailsFail, cache
<1>2. rows' \in [Items -> Rows]
  BY <1>1 DEF FollowInv, FollowTypes
<1> QED BY <1>1, <1>2, SettleKeeps, FollowLeft

LEMMA AnswerDetailsKeeps ==
  ASSUME FollowInv, LoaderInv, NEW k \in DOMAIN flight, AnswerDetails(k)
  PROVE  FollowInv' /\ LoaderInv'
<1> DEFINE texts == [i \in Items |-> IF i \in flight[k].ids THEN out[i] ELSE 0]
           answered == [flight[k] EXCEPT !.at = "answered", !.out = texts]
<1>1. /\ flight' = [flight EXCEPT ![k].at = "answered", ![k].out = texts]
      /\ UNCHANGED <<server, follow, visible, probe, reload, fresh, shown, failed, rows>>
      /\ UNCHANGED <<queue, stat, waiting, scheduled>>
  BY DEF AnswerDetails, cache
<1>2. flight \in Seq(Requests) /\ k \in 1..Len(flight) /\ flight[k] \in Requests
  BY DEF LoaderInv, LoaderTypes
<1>3. texts \in [Items -> Revisions]
  BY LimitsAssumption DEF FollowInv, FollowTypes, Revisions
<1> HIDE DEF texts
<1>4. answered \in Requests /\ answered.ids = flight[k].ids
  BY <1>2, <1>3 DEF Requests
<1>5. flight' = [flight EXCEPT ![k] = answered]
  BY <1>1
<1> HIDE DEF answered
<1>6. /\ flight' \in Seq(Requests) /\ Len(flight') = Len(flight)
      /\ DOMAIN flight' = DOMAIN flight
      /\ \A m \in DOMAIN flight : flight'[m].ids = flight[m].ids
  BY <1>2, <1>4, <1>5, ExceptSeq
<1>7. LoaderInv'
  BY <1>1, <1>6 DEF LoaderInv, LoaderTypes, Asked
<1>8. rows' \in [Items -> Rows]
  BY <1>1 DEF FollowInv, FollowTypes
<1> QED BY <1>1, <1>7, <1>8, FollowLeft
-----------------------------------------------------------------------------
(* Nothing is asked for twice: a queue q and requests f name every item once.  *)
OnceIn(q, f) ==
  /\ \A j \in DOMAIN q : \A m \in DOMAIN q : q[j] = q[m] => j = m
  /\ \A i \in Items : \A k \in DOMAIN f : \A m \in DOMAIN f :
       i \in f[k].ids /\ i \in f[m].ids => k = m
  /\ \A j \in DOMAIN q : \A k \in DOMAIN f : q[j] \notin f[k].ids

NamedIn(i, q, f) ==
  (\E j \in DOMAIN q : q[j] = i) \/ \E k \in DOMAIN f : i \in f[k].ids

(* What is asked for counts as loading: a retry and an item whose body went    *)
(* stale find their item neither queued nor under way.                         *)
OnceInv ==
  /\ OnceIn(queue, flight)
  /\ \A i \in Items : NamedIn(i, queue, flight) => stat[i] = "loading"

(* The pump only moves items from the queue into a request each. *)
LEMMA PumpNamesOnce ==
  ASSUME queue \in Seq(Items), NEW busy \in Seq(Requests), Len(busy) <= MaxInFlight, PumpFrom(busy),
         OnceIn(queue, busy)
  PROVE  /\ OnceIn(queue', flight')
         /\ \A i \in Items : NamedIn(i, queue', flight') => NamedIn(i, queue, busy)
<1>1. /\ MaxInFlight \in Nat /\ MaxBatch \in Nat \ {0}
      /\ Len(queue) \in Nat /\ Len(busy) \in Nat
      /\ DOMAIN queue = 1..Len(queue) /\ DOMAIN busy = 1..Len(busy)
  BY LimitsAssumption
<1>2. PICK n \in Nat :
         /\ n <= MaxInFlight - Len(busy)
         /\ n = MaxInFlight - Len(busy) \/ n * MaxBatch >= Len(queue)
         /\ flight' \in Seq(Requests) /\ Len(flight') = Len(busy) + n
         /\ \A k \in 1..Len(busy) : k \in 1..Len(flight') /\ flight'[k] = busy[k]
         /\ \A k \in 1..n : flight'[Len(busy) + k].ids = Batch(queue, k)
         /\ queue' \in Seq(Items)
         /\ Len(queue') = IF n * MaxBatch < Len(queue) THEN Len(queue) - n * MaxBatch ELSE 0
         /\ \A m \in 1..Len(queue') : queue'[m] = queue[n * MaxBatch + m]
  BY PumpParts
<1> DEFINE gone == n * MaxBatch
           OldOf(i, k) == k \in 1..Len(busy) /\ i \in busy[k].ids
           NewOf(i, k, j) == /\ k - Len(busy) \in 1..n /\ j \in 1..Len(queue) /\ queue[j] = i
                             /\ (k - Len(busy) - 1) * MaxBatch < j
                             /\ j <= (k - Len(busy)) * MaxBatch /\ j <= gone
<1>3. /\ gone \in Nat /\ DOMAIN queue' = 1..Len(queue') /\ DOMAIN flight' = 1..(Len(busy) + n)
      /\ Len(queue') = IF gone < Len(queue) THEN Len(queue) - gone ELSE 0
      /\ \A m \in 1..Len(queue') : queue'[m] = queue[gone + m]
  BY <1>1, <1>2
<1>4. \A j \in 1..Len(queue) : \A m \in 1..Len(queue) : queue[j] = queue[m] => j = m
  BY <1>1 DEF OnceIn
<1>5. \A i \in Items : \A k \in 1..Len(busy) : \A m \in 1..Len(busy) :
        i \in busy[k].ids /\ i \in busy[m].ids => k = m
  BY <1>1 DEF OnceIn
<1>6. \A j \in 1..Len(queue) : \A k \in 1..Len(busy) : queue[j] \notin busy[k].ids
  BY <1>1 DEF OnceIn
<1>7. ASSUME NEW i, NEW k \in 1..(Len(busy) + n), i \in flight'[k].ids
      PROVE  OldOf(i, k) \/ \E j \in 1..Len(queue) : NewOf(i, k, j)
  <2>1. CASE k <= Len(busy)
    <3>1. k \in 1..Len(busy)
      BY <1>1, <2>1
    <3> QED BY <1>2, <1>7, <3>1
  <2>2. CASE k > Len(busy)
    <3>1. k - Len(busy) \in 1..n /\ Len(busy) + (k - Len(busy)) = k
      BY <1>1, <2>2
    <3>2. i \in Batch(queue, k - Len(busy))
      BY <1>2, <1>7, <3>1
    <3>3. PICK j \in 1..Len(queue) : /\ queue[j] = i /\ (k - Len(busy) - 1) * MaxBatch < j
                                     /\ j <= (k - Len(busy)) * MaxBatch
      BY <3>2 DEF Batch
    <3>4. (k - Len(busy)) * MaxBatch <= gone
      <4> DEFINE r == k - Len(busy)
      <4>1. r \in Nat /\ r <= n
        BY <3>1
      <4> HIDE DEF r
      <4>2. r * MaxBatch <= n * MaxBatch
        BY <1>1, <4>1
      <4> QED BY <4>2 DEF r
    <3>5. j <= gone
      <4> DEFINE top == (k - Len(busy)) * MaxBatch
      <4>1. top \in Int /\ j \in Int /\ j <= top /\ top <= gone
        BY <1>1, <3>3, <3>4
      <4> HIDE DEF top, gone
      <4> QED BY <1>3, <4>1
    <3> QED BY <3>1, <3>3, <3>5
  <2> QED BY <1>1, <2>1, <2>2
<1>8. ASSUME NEW m \in 1..Len(queue')
      PROVE  gone + m \in 1..Len(queue) /\ queue'[m] = queue[gone + m] /\ gone + m > gone
  <2> HIDE DEF gone
  <2> QED BY <1>1, <1>3
<1>9. ASSUME NEW i, NEW k \in 1..(Len(busy) + n), NEW m \in 1..(Len(busy) + n),
             NEW j \in 1..Len(queue), NewOf(i, k, j), NewOf(i, m, j)
      PROVE  k = m
  <2> DEFINE r == k - Len(busy)
             s == m - Len(busy)
  <2>1. /\ r \in Nat /\ s \in Nat /\ j \in Nat
        /\ (r - 1) * MaxBatch < j /\ j <= s * MaxBatch
        /\ (s - 1) * MaxBatch < j /\ j <= r * MaxBatch
    BY <1>1, <1>9
  <2>2. r <= s /\ s <= r
    <3> HIDE DEF r, s
    <3> QED BY <1>1, <2>1, BatchesApart
  <2> QED BY <1>1, <2>1, <2>2
<1>10. \A i : \A k \in 1..(Len(busy) + n) : \A j \in 1..Len(queue) :
         NewOf(i, k, j) => queue[j] = i /\ j <= gone
  OBVIOUS
<1> HIDE DEF NewOf, gone
<1>11. ASSUME NEW j \in DOMAIN queue', NEW m \in DOMAIN queue', queue'[j] = queue'[m]
       PROVE  j = m
  <2>1. gone + j = gone + m
    BY <1>3, <1>4, <1>8, <1>11
  <2> QED BY <1>3, <2>1
<1>12. ASSUME NEW i \in Items, NEW k \in DOMAIN flight', NEW m \in DOMAIN flight',
              i \in flight'[k].ids, i \in flight'[m].ids
       PROVE  k = m
  <2>1. CASE OldOf(i, k) /\ OldOf(i, m)
    BY <1>5, <2>1
  <2>2. CASE \E j \in 1..Len(queue) : NewOf(i, k, j) \/ NewOf(i, m, j)
    <3>1. ~OldOf(i, k) /\ ~OldOf(i, m)
      <4>1. PICK j \in 1..Len(queue) : queue[j] = i
        BY <1>3, <1>10, <2>2
      <4> QED BY <1>6, <4>1
    <3>2. PICK j \in 1..Len(queue) : NewOf(i, k, j)
      BY <1>3, <1>7, <1>12, <3>1
    <3>3. PICK l \in 1..Len(queue) : NewOf(i, m, l)
      BY <1>3, <1>7, <1>12, <3>1
    <3>4. j = l
      BY <1>3, <1>4, <1>10, <3>2, <3>3
    <3> QED BY <1>3, <1>9, <3>2, <3>3, <3>4
  <2> QED BY <1>3, <1>7, <1>12, <2>1, <2>2
<1>13. ASSUME NEW j \in DOMAIN queue', NEW k \in DOMAIN flight', queue'[j] \in flight'[k].ids
       PROVE  FALSE
  <2>1. gone + j \in 1..Len(queue) /\ queue'[j] = queue[gone + j] /\ gone + j > gone
    BY <1>3, <1>8
  <2>2. ~OldOf(queue'[j], k)
    BY <1>6, <2>1
  <2>3. PICK l \in 1..Len(queue) : NewOf(queue'[j], k, l)
    BY <1>3, <1>7, <1>13, <2>2
  <2>4. queue[l] = queue[gone + j] /\ l <= gone
    BY <1>3, <1>10, <2>1, <2>3
  <2>5. l = gone + j
    BY <1>4, <2>1, <2>4
  <2>6. l > gone
    BY <2>1, <2>5
  <2> QED BY <1>3, <2>4, <2>6
<1>14. ASSUME NEW i \in Items, NamedIn(i, queue', flight') PROVE NamedIn(i, queue, busy)
  <2>1. CASE \E j \in DOMAIN queue' : queue'[j] = i
    <3>1. PICK j \in 1..Len(queue') : queue'[j] = i
      BY <1>3, <2>1
    <3>2. gone + j \in 1..Len(queue) /\ queue[gone + j] = i
      BY <1>8, <3>1
    <3> QED BY <1>1, <3>2 DEF NamedIn
  <2>2. CASE \E k \in DOMAIN flight' : i \in flight'[k].ids
    <3>1. PICK k \in DOMAIN flight' : i \in flight'[k].ids
      BY <2>2
    <3>2. OldOf(i, k) \/ \E j \in 1..Len(queue) : NewOf(i, k, j)
      BY <1>3, <1>7, <3>1
    <3>3. CASE OldOf(i, k)
      BY <1>1, <3>3 DEF NamedIn
    <3>4. CASE \E j \in 1..Len(queue) : NewOf(i, k, j)
      <4>1. PICK j \in 1..Len(queue) : queue[j] = i
        BY <1>3, <1>10, <3>4
      <4> QED BY <1>1, <4>1 DEF NamedIn
    <3> QED BY <3>2, <3>3, <3>4
  <2> QED BY <1>14, <2>1, <2>2 DEF NamedIn
<1>15. OnceIn(queue', flight')
  BY <1>11, <1>12, <1>13 DEF OnceIn
<1> QED BY <1>14, <1>15

LEMMA WantedOnce ==
  ASSUME LoaderInv, OnceInv, NEW i \in Items, NEW state \in {"none", "loading", "error", "loaded"},
         Wanted(i, state), state = stat[i] \/ stat[i] # "loading"
  PROVE  OnceInv'
<1>1. /\ flight' = flight
      /\ IF i \notin Range(queue) /\ state # "loading"
         THEN queue' = Append(queue, i) /\ stat' = [stat EXCEPT ![i] = "loading"]
         ELSE queue' = queue /\ stat' = [stat EXCEPT ![i] = state]
  BY DEF Wanted
<1>2. /\ queue \in Seq(Items) /\ stat \in [Items -> {"none", "loading", "error", "loaded"}]
      /\ Len(queue) \in Nat /\ DOMAIN queue = 1..Len(queue)
  BY DEF LoaderInv, LoaderTypes
<1>3. CASE i \notin Range(queue) /\ state # "loading"
  <2>1. /\ ~NamedIn(i, queue, flight)
        /\ queue' = Append(queue, i) /\ stat' = [stat EXCEPT ![i] = "loading"]
    BY <1>1, <1>3 DEF OnceInv
  <2>2. /\ DOMAIN queue' = 1..(Len(queue) + 1) /\ queue'[Len(queue) + 1] = i
        /\ \A j \in 1..Len(queue) : queue'[j] = queue[j]
    BY <1>2, <2>1, AppendProperties
  <2>3. \A j \in DOMAIN queue' : j \in DOMAIN queue \/ j = Len(queue) + 1
    BY <1>2, <2>2
  <2>4. \A j \in DOMAIN queue : queue[j] # i /\ queue'[j] = queue[j]
    BY <1>2, <2>1, <2>2 DEF NamedIn
  <2>5. \A k \in DOMAIN flight : i \notin flight[k].ids
    BY <2>1 DEF NamedIn
  <2>6. OnceIn(queue', flight')
    <3>1. \A j \in DOMAIN queue' : \A m \in DOMAIN queue' : queue'[j] = queue'[m] => j = m
      BY <2>2, <2>3, <2>4 DEF OnceInv, OnceIn
    <3>2. \A j \in DOMAIN queue' : \A k \in DOMAIN flight' : queue'[j] \notin flight'[k].ids
      BY <1>1, <2>2, <2>3, <2>4, <2>5 DEF OnceInv, OnceIn
    <3> QED BY <1>1, <3>1, <3>2 DEF OnceInv, OnceIn
  <2>7. ASSUME NEW r \in Items, NamedIn(r, queue', flight') PROVE stat'[r] = "loading"
    <3>1. r = i \/ NamedIn(r, queue, flight)
      BY <1>1, <2>2, <2>3, <2>4, <2>7 DEF NamedIn
    <3> QED BY <1>2, <2>1, <3>1 DEF OnceInv
  <2> QED BY <2>6, <2>7 DEF OnceInv
<1>4. CASE ~(i \notin Range(queue) /\ state # "loading")
  <2>1. queue' = queue /\ stat' = [stat EXCEPT ![i] = state]
    BY <1>1, <1>4
  <2>2. i \in Range(queue) => NamedIn(i, queue, flight)
    BY <1>2, QueuedAt DEF NamedIn
  <2>3. NamedIn(i, queue, flight) => stat[i] = "loading"
    BY DEF OnceInv
  <2>4. stat' = stat \/ stat' = [stat EXCEPT ![i] = "loading"]
    BY <1>2, <1>4, <2>1, <2>2, <2>3
  <2>5. \A r \in Items : stat[r] = "loading" => stat'[r] = "loading"
    BY <1>2, <2>4
  <2> QED BY <1>1, <2>1, <2>5 DEF OnceInv
<1> QED BY <1>3, <1>4

LEMMA SettleOnce ==
  ASSUME LoaderInv, OnceInv, NEW k \in DOMAIN flight, NEW state \in {"error", "loaded"},
         Settle(k, state)
  PROVE  OnceInv'
<1> DEFINE busy == RemoveAt(flight, k)
           at(r) == IF r < k THEN r ELSE r + 1
<1>1. /\ stat' = [i \in Items |-> IF i \in flight[k].ids THEN state ELSE stat[i]]
      /\ PumpFrom(busy)
  BY DEF Settle
<1>2. /\ queue \in Seq(Items) /\ flight \in Seq(Requests) /\ Len(flight) <= MaxInFlight
      /\ MaxInFlight \in Nat /\ Len(flight) \in Nat /\ DOMAIN flight = 1..Len(flight)
      /\ k \in 1..Len(flight)
  BY LimitsAssumption DEF LoaderInv, LoaderTypes
<1>3. /\ busy \in Seq(Requests) /\ Len(busy) = Len(flight) - 1
      /\ \A r \in 1..(Len(flight) - 1) : busy[r] = flight[at(r)]
  <2> HIDE DEF busy
  <2>1. flight \in Seq(Requests) /\ k \in 1..Len(flight)
    BY <1>2
  <2>2. /\ RemoveAt(flight, k) \in Seq(Requests) /\ Len(RemoveAt(flight, k)) = Len(flight) - 1
        /\ \A r \in 1..(Len(flight) - 1) : RemoveAt(flight, k)[r] = flight[IF r < k THEN r ELSE r + 1]
    BY <2>1, RemovedFrom, Zenon
  <2> QED BY <2>2 DEF busy
<1> HIDE DEF busy
<1>4. Len(busy) <= MaxInFlight /\ DOMAIN busy = 1..(Len(flight) - 1)
  <2>1. DOMAIN busy = 1..Len(busy)
    BY <1>3, LenProperties
  <2> QED BY <1>2, <1>3, <2>1
<1>5. \A r \in DOMAIN busy : at(r) \in DOMAIN flight /\ at(r) # k /\ busy[r] = flight[at(r)]
  <2>1. \A r \in 1..(Len(flight) - 1) : at(r) \in 1..Len(flight) /\ at(r) # k
    BY <1>2
  <2> QED BY <1>2, <1>3, <1>4, <2>1
<1>6. \A r \in DOMAIN busy : \A m \in DOMAIN busy : at(r) = at(m) => r = m
  BY <1>2, <1>4
<1> HIDE DEF at
<1>7. OnceIn(queue, busy)
  BY <1>5, <1>6 DEF OnceInv, OnceIn
<1>8. \A i \in Items : NamedIn(i, queue, busy) => NamedIn(i, queue, flight) /\ i \notin flight[k].ids
  <2> SUFFICES ASSUME NEW i \in Items, NamedIn(i, queue, busy)
               PROVE  NamedIn(i, queue, flight) /\ i \notin flight[k].ids
    OBVIOUS
  <2>1. CASE \E j \in DOMAIN queue : queue[j] = i
    BY <2>1 DEF NamedIn, OnceInv, OnceIn
  <2>2. CASE \E r \in DOMAIN busy : i \in busy[r].ids
    <3>1. PICK r \in DOMAIN busy : i \in busy[r].ids
      BY <2>2
    <3>2. at(r) \in DOMAIN flight /\ at(r) # k /\ i \in flight[at(r)].ids
      BY <1>5, <3>1
    <3> QED BY <3>2 DEF NamedIn, OnceInv, OnceIn
  <2> QED BY <2>1, <2>2 DEF NamedIn
<1>9. /\ OnceIn(queue', flight')
      /\ \A i \in Items : NamedIn(i, queue', flight') => NamedIn(i, queue, busy)
  BY <1>1, <1>2, <1>3, <1>4, <1>7, PumpNamesOnce
<1>10. ASSUME NEW i \in Items, NamedIn(i, queue', flight') PROVE stat'[i] = "loading"
  <2>1. NamedIn(i, queue, flight) /\ i \notin flight[k].ids
    BY <1>8, <1>9, <1>10
  <2> QED BY <1>1, <2>1 DEF OnceInv
<1> QED BY <1>9, <1>10 DEF OnceInv

-----------------------------------------------------------------------------
(* The initial state and every step. *)
LEMMA InitKeeps == Init => FollowInv /\ LoaderInv
<1> SUFFICES ASSUME Init PROVE FollowInv /\ LoaderInv
  OBVIOUS
<1> DEFINE blank == [i \in Items |-> [digest |-> 0, body |-> Nothing, loaded |-> FALSE]]
           zeros == [i \in Items |-> 0]
<1>1. 0 \in Revisions /\ zeros \in [Items -> Revisions] /\ blank \in [Items -> Rows]
  BY LimitsAssumption DEF Revisions, Rows
<1>2. NoReload = [at |-> "idle", again |-> FALSE, queued |-> FALSE, ended |-> FALSE,
                  out |-> zeros, prev |-> blank]
  BY DEF NoReload
<1>3. out = zeros /\ reload = NoReload /\ rows = NoReload.prev
  BY DEF Init
<1> HIDE DEF zeros, blank
<1>4. reload \in ReloadStates /\ reload.at = "idle" /\ rows \in [Items -> Rows]
  BY <1>1, <1>2, <1>3 DEF ReloadStates
<1>5. Idle \in ProbeStates /\ Idle.at = "idle"
  BY <1>1 DEF Idle, ProbeStates
<1>6. FollowTypes
  BY <1>1, <1>3, <1>4, <1>5 DEF Init, FollowTypes
<1>7. EndKnown /\ TickNotLost
  BY <1>4, <1>5 DEF Init, EndKnown, TickNotLost
<1>8. LoaderTypes
  <2>1. queue \in Seq(Items) /\ flight \in Seq(Requests) /\ Len(flight) = 0
    BY EmptySeq DEF Init
  <2>2. Len(flight) <= MaxInFlight
    BY <2>1, LimitsAssumption
  <2> QED BY <2>1, <2>2 DEF Init, LoaderTypes
<1>9. LoaderInv
  BY <1>8 DEF Init, LoaderInv
<1> QED BY <1>6, <1>7, <1>9 DEF FollowInv

LEMMA NextKeeps ==
  ASSUME FollowInv, LoaderInv, [Next]_vars
  PROVE  FollowInv' /\ LoaderInv'
<1>1. CASE UNCHANGED vars
  <2>1. /\ UNCHANGED <<server, follow, visible, probe, reload, fresh, shown, failed>>
        /\ UNCHANGED loader /\ rows' = rows
    BY <1>1 DEF vars, cache
  <2> QED BY <2>1, FollowLeft, LoaderLeft DEF FollowInv, FollowTypes
<1>2. ASSUME NEW i \in Items, Change(i) PROVE FollowInv' /\ LoaderInv'
  <2>1. UNCHANGED loader
    BY <1>2 DEF Change
  <2> QED BY <1>2, <2>1, ChangeKeeps, LoaderLeft
<1>3. CASE End \/ AnswerReload \/ ReloadLands \/ ReloadFails \/ Hide \/ Show
  <2>1. UNCHANGED loader
    BY <1>3 DEF End, AnswerReload, ReloadLands, ReloadFails, Hide, Show
  <2> QED BY <1>3, <2>1, EndKeeps, AnswerReloadKeeps, ReloadLandsKeeps, ReloadFailsKeeps,
             HideKeeps, ShowKeeps, LoaderLeft
<1>4. ASSUME NEW p \in Probes, Tick(p) \/ Announced(p) \/ Answer(p) \/ ProbeLands(p) \/ ProbeFails(p)
      PROVE  FollowInv' /\ LoaderInv'
  <2>1. UNCHANGED loader
    BY <1>4 DEF Tick, Announced, Answer, ProbeLands, ProbeFails
  <2> QED BY <1>4, <2>1, TickKeeps, AnnouncedKeeps, AnswerKeeps, ProbeLandsKeeps, ProbeFailsKeeps,
             LoaderLeft
<1>5. ASSUME NEW i \in Items, Ensure(i) \/ Retry(i) PROVE FollowInv' /\ LoaderInv'
  BY <1>5, EnsureKeeps, RetryKeeps
<1>6. ASSUME NEW k \in DOMAIN flight, AnswerDetails(k) \/ DetailsLand(k) \/ DetailsFail(k)
      PROVE  FollowInv' /\ LoaderInv'
  BY <1>6, AnswerDetailsKeeps, DetailsLandKeeps, DetailsFailKeeps
<1>7. CASE Microtask
  BY <1>5, <1>7, PumpKeeps DEF Microtask
<1>8. CASE Event
  BY <1>2, <1>3, <1>4, <1>5, <1>6, <1>8 DEF Event
<1> QED BY <1>1, <1>7, <1>8 DEF Next

LEMMA AlwaysKept == Spec => [](FollowInv /\ LoaderInv)
BY InitKeeps, NextKeeps, PTL DEF Spec

LEMMA OnceLeft ==
  ASSUME OnceInv, queue' = queue, stat' = stat, DOMAIN flight' = DOMAIN flight,
         \A m \in DOMAIN flight : flight'[m].ids = flight[m].ids
  PROVE  OnceInv'
BY DEF OnceInv, OnceIn, NamedIn

LEMMA OnceStep == FollowInv /\ LoaderInv /\ OnceInv /\ [Next]_vars => OnceInv'
<1> SUFFICES ASSUME LoaderInv, OnceInv, [Next]_vars PROVE OnceInv'
  OBVIOUS
<1>1. CASE UNCHANGED loader
  BY <1>1, OnceLeft DEF loader
<1>2. ASSUME NEW i \in Items, Ensure(i) PROVE OnceInv'
  <2>1. Wanted(i, stat[i]) /\ stat[i] \in {"none", "loading", "error", "loaded"}
    BY <1>2 DEF Ensure, LoaderInv, LoaderTypes
  <2> QED BY <2>1, WantedOnce
<1>3. ASSUME NEW i \in Items, Retry(i) PROVE OnceInv'
  <2>1. Wanted(i, "none") /\ stat[i] # "loading"
    BY <1>3 DEF Retry
  <2> QED BY <2>1, WantedOnce
<1>4. CASE Pump
  <2>1. PumpFrom(flight) /\ stat' = stat
    BY <1>4 DEF Pump
  <2>2. queue \in Seq(Items) /\ flight \in Seq(Requests) /\ Len(flight) <= MaxInFlight
    BY DEF LoaderInv, LoaderTypes
  <2>3. /\ OnceIn(queue', flight')
        /\ \A i \in Items : NamedIn(i, queue', flight') => NamedIn(i, queue, flight)
    BY <2>1, <2>2, PumpNamesOnce DEF OnceInv
  <2> QED BY <2>1, <2>3 DEF OnceInv
<1>5. ASSUME NEW k \in DOMAIN flight, DetailsLand(k) \/ DetailsFail(k) PROVE OnceInv'
  <2>1. Settle(k, "loaded") \/ Settle(k, "error")
    BY <1>5 DEF DetailsLand, DetailsFail
  <2> QED BY <2>1, SettleOnce
<1>6. ASSUME NEW k \in DOMAIN flight, AnswerDetails(k) PROVE OnceInv'
  <2> DEFINE texts == [i \in Items |-> IF i \in flight[k].ids THEN out[i] ELSE 0]
  <2>1. /\ flight' = [flight EXCEPT ![k].at = "answered", ![k].out = texts]
        /\ UNCHANGED <<queue, stat, waiting, scheduled>>
    BY <1>6, Zenon DEF AnswerDetails
  <2>2. flight \in Seq(Requests)
    BY DEF LoaderInv, LoaderTypes
  <2> HIDE DEF texts
  <2>3. DOMAIN flight' = DOMAIN flight
    BY <2>1, <2>2
  <2>4. ASSUME NEW m \in DOMAIN flight PROVE flight'[m].ids = flight[m].ids
    <3>1. flight[m] \in Requests
      BY <2>2, ElementOfSeq
    <3> QED BY <2>1, <2>2, <3>1 DEF Requests
  <2> QED BY <2>1, <2>3, <2>4, OnceLeft
<1>7. ASSUME NEW p \in Probes, Tick(p) \/ Announced(p) \/ Answer(p) \/ ProbeLands(p) \/ ProbeFails(p)
      PROVE  OnceInv'
  BY <1>1, <1>7 DEF Tick, Announced, Answer, ProbeLands, ProbeFails
<1>8. ASSUME NEW i \in Items, Change(i) PROVE OnceInv'
  BY <1>1, <1>8 DEF Change
<1>9. CASE End \/ AnswerReload \/ ReloadLands \/ ReloadFails \/ Hide \/ Show
  BY <1>1, <1>9 DEF End, AnswerReload, ReloadLands, ReloadFails, Hide, Show
<1>10. CASE UNCHANGED vars
  BY <1>1, <1>10 DEF vars
<1>11. CASE Microtask
  BY <1>2, <1>4, <1>11 DEF Microtask
<1>12. CASE Event
  BY <1>2, <1>3, <1>5, <1>6, <1>7, <1>8, <1>9, <1>12 DEF Event
<1> QED BY <1>10, <1>11, <1>12 DEF Next

LEMMA OnceAlways == Spec => [](LoaderInv /\ OnceInv)
<1>1. Init => OnceInv
  <2> SUFFICES ASSUME Init PROVE OnceInv
    OBVIOUS
  <2>1. DOMAIN queue = {} /\ DOMAIN flight = {}
    BY EmptySeq DEF Init
  <2> QED BY <2>1 DEF OnceInv, OnceIn, NamedIn
<1> QED BY <1>1, OnceStep, InitKeeps, NextKeeps, PTL DEF Spec

(* The page keeps its types, however answers overtake each other. *)
THEOREM TypesKept == Spec => []TypeOK
<1>1. FollowInv /\ LoaderInv => TypeOK
  BY DEF FollowInv, FollowTypes, LoaderInv, LoaderTypes, TypeOK, ProbeStates, ReloadStates, Rows
<1> QED BY <1>1, AlwaysKept, PTL

(* A page that says the run is over and has no reload under way shows the rows *)
(* of the ended run, unless the last reload failed.                            *)
THEOREM EndShown == Spec => []EndIsShown
<1>1. FollowInv => EndIsShown
  BY DEF FollowInv, EndKnown, EndIsShown
<1> QED BY <1>1, AlwaysKept, PTL

(* A visible page of a live run always waits for something that will come. *)
THEOREM TickKept == Spec => []TickNotLost
<1>1. FollowInv => TickNotLost
  BY DEF FollowInv
<1> QED BY <1>1, AlwaysKept, PTL

(* Whoever waits for the details of an item waits for a request that is made   *)
(* or will be, for every number of items, limit of requests and size of batch. *)
THEOREM NobodyIsForgotten == Spec => []NobodyForgotten
<1>1. LoaderInv => NobodyForgotten
  BY DEF LoaderInv, LoaderTypes, NobodyForgotten, Asked
<1> QED BY <1>1, AlwaysKept, PTL


(* An item is asked for once at most: it is at one place of the queue or in one*)
(* request under way, whatever settles, is retried or goes stale meanwhile.    *)
THEOREM AskedForOnce == Spec => []RequestedOnce
<1>1. LoaderInv /\ OnceInv => RequestedOnce
  <2> SUFFICES ASSUME LoaderInv, OnceInv, NEW i \in Items
               PROVE  Cardinality({k \in DOMAIN flight : i \in flight[k].ids})
                        + Cardinality({j \in DOMAIN queue : queue[j] = i}) <= 1
    BY DEF RequestedOnce
  <2> DEFINE sent == {k \in DOMAIN flight : i \in flight[k].ids}
             due == {j \in DOMAIN queue : queue[j] = i}
  <2>1. sent = {} \/ \E k : sent = {k}
    <3>1. \A k \in sent : \A m \in sent : k = m
      BY DEF OnceInv, OnceIn
    <3> HIDE DEF sent
    <3> QED BY <3>1
  <2>2. due = {} \/ \E j : due = {j}
    <3>1. \A j \in due : \A m \in due : j = m
      BY DEF OnceInv, OnceIn
    <3> HIDE DEF due
    <3> QED BY <3>1
  <2>3. sent = {} \/ due = {}
    <3>1. ASSUME NEW k \in sent, NEW j \in due PROVE FALSE
      BY DEF OnceInv, OnceIn
    <3> HIDE DEF sent, due
    <3> QED BY <3>1
  <2> HIDE DEF sent, due
  <2>4. /\ Cardinality(sent) \in {0, 1} /\ (sent = {} => Cardinality(sent) = 0)
        /\ Cardinality(due) \in {0, 1} /\ (due = {} => Cardinality(due) = 0)
    BY <2>1, <2>2, FS_EmptySet, FS_Singleton
  <2>5. Cardinality(sent) + Cardinality(due) <= 1
    BY <2>3, <2>4
  <2> QED BY <2>5 DEF sent, due
<1> QED BY <1>1, OnceAlways, PTL
=============================================================================
