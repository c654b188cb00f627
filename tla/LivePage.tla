------------------------------ MODULE LivePage ------------------------------
(* The page of one run while the run goes on (frontend, features/run-detail).  *)
(* Two parts share the cached rows of the run:                                 *)
(*   - useLiveRun probes the revision of the run, reloads the compact rows     *)
(*     when it moved, and once more when the run has ended;                    *)
(*   - DetailsLoader fetches the bodies (inputs and outputs) of the items      *)
(*     whose cards are open, and lays them over the rows.                      *)
(* Every request is read by the server and answered in steps of their own, so  *)
(* answers overtake each other. A microtask of the browser (the pump of the    *)
(* loader) comes before every other event. Times are left out: a timer may     *)
(* fire once it is set, and the throttle of reloads is a choice.               *)
EXTENDS Naturals, Sequences, SequencesExt, FiniteSets

CONSTANTS
  Items,        \* the items of the run
  Probes,       \* probes that may be under way at once (bound)
  MaxRev,       \* changes of the run, its end included (bound)
  MaxInFlight,  \* MAX_IN_FLIGHT
  MaxBatch,     \* MAX_DETAIL_ITEMS
  Nothing       \* no value: no probe, no pending revision, no body

ASSUME LimitsAssumption ==
  MaxInFlight \in Nat \ {0} /\ MaxBatch \in Nat \ {0} /\ MaxRev \in Nat
ASSUME NothingAssumption == Nothing \notin Nat /\ Nothing \notin Probes

VARIABLES
  rev,      \* server: the revision of the run
  ended,    \* server: the run has ended
  out,      \* server: per item, the revision its output is of
  live,     \* state.live and liveRef
  visible,  \* the tab is visible
  known,    \* revision.current
  pending,  \* pendingRevision.current
  chain,    \* the chain of ticks of the effect
  ticking,  \* the probe the chain waits for
  probe,    \* per probe: how far it is and its answer
  reload,   \* the reload under way
  shown,    \* the cached payload is of the ended run
  failed,   \* the last reload got no answer
  fresh,    \* the dependent queries were invalidated since the page opened
  rows,     \* the cached rows
  queue,    \* DetailsLoader.queue (queued is its range)
  flight,   \* the requests for details under way (inFlight of them)
  stat,     \* DetailsLoader.states
  waiting,  \* the items with waiters
  scheduled \* DetailsLoader.scheduled

server == <<rev, ended, out>>
follow == <<live, known, pending, chain, ticking>>
cache == <<shown, failed, rows>>
loader == <<queue, flight, stat, waiting, scheduled>>
vars == <<server, follow, visible, probe, reload, fresh, cache, loader>>

Revisions == 0..MaxRev
Idle == [at |-> "idle", rev |-> 0, live |-> FALSE]
NoReload == [at |-> "idle", again |-> FALSE, queued |-> FALSE,
             ended |-> FALSE, out |-> [i \in Items |-> 0],
             prev |-> [i \in Items |-> [digest |-> 0, body |-> Nothing, loaded |-> FALSE]]]

(* The page was opened, and its rows and texts have arrived. *)
Init ==
  /\ rev = 0 /\ ended = FALSE /\ out = [i \in Items |-> 0]
  /\ live = TRUE /\ visible = TRUE
  /\ known = 0 /\ pending = Nothing
  /\ chain = "armed" /\ ticking = Nothing
  /\ probe = [p \in Probes |-> Idle]
  /\ reload = NoReload
  /\ shown = FALSE /\ failed = FALSE
  /\ fresh = FALSE
  /\ rows = NoReload.prev
  /\ queue = <<>> /\ flight = <<>>
  /\ stat = [i \in Items |-> "none"]
  /\ waiting = {} /\ scheduled = FALSE

-----------------------------------------------------------------------------
(* The server. A change moves the revision and one item; the end moves the    *)
(* revision too, and may come with the last change of an item.                *)
Change(i) ==
  /\ ~ended /\ rev + 1 < MaxRev
  /\ rev' = rev + 1
  /\ out' = [out EXCEPT ![i] = rev + 1]
  /\ UNCHANGED <<ended, follow, visible, probe, reload, fresh, cache, loader>>

End ==
  /\ ~ended /\ rev < MaxRev
  /\ rev' = rev + 1 /\ ended' = TRUE
  /\ UNCHANGED <<out, follow, visible, probe, reload, fresh, cache, loader>>

(* /live-status is answered with what the run is now. *)
Answer(p) ==
  /\ probe[p].at = "sent"
  /\ probe' = [probe EXCEPT ![p] = [at |-> "answered", rev |-> rev, live |-> ~ended]]
  /\ UNCHANGED <<server, follow, visible, reload, fresh, cache, loader>>

(* The compact rows are read. Those of a finished run carry no digests.       *)
AnswerReload ==
  /\ reload.at = "sent"
  /\ reload' = [reload EXCEPT !.at = "answered", !.ended = ended, !.out = out]
  /\ UNCHANGED <<server, follow, visible, probe, fresh, cache, loader>>

AnswerDetails(k) ==
  /\ flight[k].at = "sent"
  /\ flight' = [flight EXCEPT ![k].at = "answered",
                            ![k].out = [i \in Items |-> IF i \in flight[k].ids THEN out[i] ELSE 0]]
  /\ UNCHANGED <<server, follow, visible, probe, reload, fresh, cache,
                 queue, stat, waiting, scheduled>>

-----------------------------------------------------------------------------
(* Reloading. *)
Start(again, from) ==
  [NoReload EXCEPT !.at = "sent", !.again = again, !.prev = from]

(* As a mistake: a reload asked for while one is under way is dropped. *)
ReloadDropping(final) ==
  reload' = IF reload.at = "idle" THEN Start(final, rows) ELSE reload

(* reload(final): while one is under way a final one is only noted. *)
Reload(final) ==
  reload' = IF reload.at = "idle" THEN Start(final, rows)
            ELSE [reload EXCEPT !.queued = @ \/ final]

(* mergeRowGroups and reuseRows: the bodies of a row stay, and still count as *)
(* loaded unless the digest of its output moved.                              *)
Merged(i) ==
  LET old == reload.prev[i]
      digest == IF reload.ended THEN old.digest ELSE reload.out[i]
  IN [digest |-> digest, body |-> old.body,
      loaded |-> old.loaded /\ digest = old.digest]

(* After a fetch, answered or not: once more when the end was noted while it  *)
(* was under way, else the reload is over. A chain that waited for it sets    *)
(* its timer.                                                                 *)
AfterFetch(from) ==
  LET again == reload.again \/ reload.queued
  IN IF reload.queued
     THEN reload' = Start(again, from) /\ UNCHANGED <<fresh, chain>>
     ELSE /\ reload' = NoReload
          /\ fresh' = (fresh \/ again)
          /\ chain' = IF chain = "reloading" THEN "armed" ELSE chain

ReloadLands ==
  /\ reload.at = "answered"
  /\ rows' = [i \in Items |-> Merged(i)]
  /\ shown' = reload.ended
  /\ failed' = FALSE
  /\ AfterFetch(rows')
  /\ UNCHANGED <<server, live, known, pending, ticking, visible, probe, loader>>

(* refetchQueries does not throw: the page goes on as if it had been answered. *)
ReloadFails ==
  /\ reload.at = "sent"
  /\ failed' = TRUE
  /\ AfterFetch(rows)
  /\ UNCHANGED <<server, live, known, pending, ticking, visible, probe, shown, rows, loader>>

-----------------------------------------------------------------------------
(* Probing: the ticks of the effect, and announcements of other tabs.         *)
Send(p) == probe' = [probe EXCEPT ![p] = [Idle EXCEPT !.at = "sent"]]

Tick(p) ==
  /\ chain = "armed" /\ probe[p] = Idle
  /\ Send(p)
  /\ chain' = "probing" /\ ticking' = p
  /\ UNCHANGED <<server, live, known, pending, visible, reload, fresh, cache, loader>>

Announced(p) ==
  /\ probe[p] = Idle
  /\ Send(p)
  /\ UNCHANGED <<server, follow, visible, reload, fresh, cache, loader>>

(* As a mistake: a page that saw the end does not look again. *)
ChainAfterOnce(p, isLive) ==
  /\ ticking' = IF ticking = p \/ live # isLive THEN Nothing ELSE ticking
  /\ chain' = IF ~isLive THEN "off"
              ELSE IF ticking # p THEN chain
              ELSE IF reload.at = "idle" /\ reload'.at # "idle" THEN "reloading" ELSE "armed"

(* The chain after the probe p: it stops with the run, starts again when the  *)
(* run is live after all, and otherwise goes on, after the reload this probe  *)
(* may have started.                                                          *)
ChainAfter(p, isLive) ==
  /\ ticking' = IF ticking = p \/ live # isLive THEN Nothing ELSE ticking
  /\ chain' = IF ~isLive THEN "off"
              ELSE IF ~live THEN IF visible THEN "armed" ELSE "off"
              ELSE IF ticking # p THEN chain
              ELSE IF reload.at = "idle" /\ reload'.at # "idle" THEN "reloading" ELSE "armed"

(* The run is no longer live: one final reload. *)
Stopped(status) ==
  IF live \/ known # status.rev
  THEN known' = status.rev /\ Reload(TRUE)
  ELSE UNCHANGED <<known, reload>>

(* The revision moved: reload now, or remember it until the throttle allows.  *)
Moved(status) ==
  IF status.rev = known /\ pending = Nothing THEN UNCHANGED <<known, pending, reload>>
  ELSE \/ known' = status.rev /\ pending' = Nothing /\ Reload(FALSE)
       \/ pending' = status.rev /\ UNCHANGED <<known, reload>>

ProbeLands(p) ==
  LET status == probe[p] IN
  /\ status.at = "answered"
  /\ probe' = [probe EXCEPT ![p] = Idle]
  /\ live' = status.live
  /\ IF status.live THEN Moved(status) ELSE Stopped(status) /\ UNCHANGED pending
  /\ ChainAfter(p, status.live)
  /\ UNCHANGED <<server, visible, fresh, cache, loader>>

(* The probe fails: only the backoff changes. *)
ProbeFails(p) ==
  /\ probe[p].at = "sent"
  /\ probe' = [probe EXCEPT ![p] = Idle]
  /\ IF ticking = p THEN chain' = "armed" /\ ticking' = Nothing ELSE UNCHANGED <<chain, ticking>>
  /\ UNCHANGED <<server, live, known, pending, visible, reload, fresh, cache, loader>>

(* A hidden tab does not tick; what is under way goes on. *)
Hide ==
  /\ visible
  /\ visible' = FALSE /\ chain' = "off" /\ ticking' = Nothing
  /\ UNCHANGED <<server, live, known, pending, probe, reload, fresh, cache, loader>>

Show ==
  /\ ~visible
  /\ visible' = TRUE /\ chain' = IF live THEN "armed" ELSE "off"
  /\ UNCHANGED <<server, live, known, pending, ticking, probe, reload, fresh, cache, loader>>

-----------------------------------------------------------------------------
(* DetailsLoader. *)
(* As a mistake: an item is queued again while its request is under way. *)
WantedAgain(i, state) ==
  /\ waiting' = waiting \cup {i}
  /\ IF i \notin Range(queue)
     THEN queue' = Append(queue, i) /\ stat' = [stat EXCEPT ![i] = "loading"]
     ELSE UNCHANGED queue /\ stat' = [stat EXCEPT ![i] = state]
  /\ scheduled' = TRUE
  /\ UNCHANGED flight

(* ensure of an item whose row is not loaded: wait, and queue it unless it is *)
(* queued or loading.                                                         *)
Wanted(i, state) ==
  /\ waiting' = waiting \cup {i}
  /\ IF i \notin Range(queue) /\ state # "loading"
     THEN queue' = Append(queue, i) /\ stat' = [stat EXCEPT ![i] = "loading"]
     ELSE UNCHANGED queue /\ stat' = [stat EXCEPT ![i] = state]
  /\ scheduled' = TRUE
  /\ UNCHANGED flight

(* A card is opened or drawn again, or the CSV export asks for every item.     *)
Ensure(i) ==
  /\ ~rows[i].loaded /\ Wanted(i, stat[i])
  /\ UNCHANGED <<server, follow, visible, probe, reload, fresh, cache>>

(* The button of a card whose details could not be loaded. *)
Retry(i) ==
  /\ ~rows[i].loaded /\ stat[i] = "error"
  /\ Wanted(i, "none")
  /\ UNCHANGED <<server, follow, visible, probe, reload, fresh, cache>>

Batch(q, k) == {q[j] : j \in {n \in 1..Len(q) : (k - 1) * MaxBatch < n /\ n <= k * MaxBatch}}

(* pump: the queue goes out in batches while there is room. *)
PumpFrom(busy) ==
  LET room == MaxInFlight - Len(busy)
      full == (Len(queue) + MaxBatch - 1) \div MaxBatch
      n == IF full < room THEN full ELSE room
  IN /\ flight' = busy \o [k \in 1..n |->
                      [at |-> "sent", ids |-> Batch(queue, k), out |-> [i \in Items |-> 0]]]
     /\ queue' = SubSeq(queue, n * MaxBatch + 1, Len(queue))

Pump ==
  /\ scheduled
  /\ scheduled' = FALSE
  /\ PumpFrom(flight)
  /\ UNCHANGED <<server, follow, visible, probe, reload, fresh, cache, stat, waiting>>

(* As a mistake: the end of a request does not pump. *)
SettleIdle(k, state) ==
  /\ stat' = [i \in Items |-> IF i \in flight[k].ids THEN state ELSE stat[i]]
  /\ waiting' = waiting \ flight[k].ids
  /\ flight' = RemoveAt(flight, k)
  /\ UNCHANGED <<queue, scheduled>>

(* The end of the request k, with the states of its items: its waiters go on  *)
(* and the pump runs.                                                         *)
Settle(k, state) ==
  /\ stat' = [i \in Items |-> IF i \in flight[k].ids THEN state ELSE stat[i]]
  /\ waiting' = waiting \ flight[k].ids
  /\ PumpFrom(RemoveAt(flight, k))
  /\ UNCHANGED scheduled

(* The full rows are laid over the cached ones, whose digests stay. *)
DetailsLand(k) ==
  /\ flight[k].at = "answered"
  /\ rows' = [i \in Items |->
       IF i \in flight[k].ids
       THEN [digest |-> rows[i].digest, body |-> flight[k].out[i], loaded |-> TRUE]
       ELSE rows[i]]
  /\ Settle(k, "loaded")
  /\ UNCHANGED <<server, follow, visible, probe, reload, fresh, shown, failed>>

DetailsFail(k) ==
  /\ flight[k].at = "sent"
  /\ Settle(k, "error")
  /\ UNCHANGED <<server, follow, visible, probe, reload, fresh, cache>>

-----------------------------------------------------------------------------
(* Several items asked for in one task go out together. *)
Microtask == Pump \/ (scheduled /\ \E i \in Items : Ensure(i))

Event ==
  \/ \E i \in Items : Change(i)
  \/ End
  \/ \E p \in Probes :
       Tick(p) \/ Announced(p) \/ Answer(p) \/ ProbeLands(p) \/ ProbeFails(p)
  \/ AnswerReload \/ ReloadLands \/ ReloadFails
  \/ Hide \/ Show
  \/ \E i \in Items : Ensure(i) \/ Retry(i)
  \/ \E k \in DOMAIN flight : AnswerDetails(k) \/ DetailsLand(k) \/ DetailsFail(k)

Next == Microtask \/ (~scheduled /\ Event)

Spec == Init /\ [][Next]_vars

-----------------------------------------------------------------------------
(* Every variable keeps its type; a row that is reloaded keeps a revision as   *)
(* its digest, the lean answer of a finished run included.                     *)
TypeOK ==
  /\ rev \in Revisions /\ ended \in BOOLEAN /\ out \in [Items -> Revisions]
  /\ live \in BOOLEAN /\ visible \in BOOLEAN
  /\ known \in Revisions /\ pending \in Revisions \cup {Nothing}
  /\ chain \in {"off", "armed", "probing", "reloading"}
  /\ ticking \in Probes \cup {Nothing}
  /\ probe \in [Probes -> [at : {"idle", "sent", "answered"}, rev : Revisions, live : BOOLEAN]]
  /\ reload.at \in {"idle", "sent", "answered"}
  /\ shown \in BOOLEAN /\ failed \in BOOLEAN /\ fresh \in BOOLEAN
  /\ rows \in [Items -> [digest : Revisions, body : Revisions \cup {Nothing}, loaded : BOOLEAN]]
  /\ queue \in Seq(Items)
  /\ stat \in [Items -> {"none", "loading", "error", "loaded"}]
  /\ waiting \subseteq Items /\ scheduled \in BOOLEAN

(* A page that says the run is over, and has no reload under way, shows rows   *)
(* read after the end (unless the last reload failed), and has asked for the   *)
(* dependent numbers again: however the probes of the ticks and of the         *)
(* announcements overtook each other, and whatever reload the end met.         *)
EndIsShown ==
  ~live /\ reload.at = "idle" => fresh /\ (failed \/ shown)

(* A visible page that says the run is live keeps looking: its timer is set,   *)
(* or the chain waits for a probe or a reload that is under way. Overlapping   *)
(* probes, a tab that was hidden, errors and an end that was taken back leave  *)
(* no page that waits for nothing.                                             *)
TickNotLost ==
  live /\ visible =>
    \/ chain = "armed"
    \/ chain = "probing" /\ ticking # Nothing /\ probe[ticking] # Idle
    \/ chain = "reloading" /\ reload.at # "idle"

(* An item is asked for by one request at most, in the queue or under way.     *)
RequestedOnce ==
  \A i \in Items :
    Cardinality({k \in DOMAIN flight : i \in flight[k].ids})
      + Cardinality({j \in DOMAIN queue : queue[j] = i}) <= 1

(* Whoever waits for the details of an item is waited for: the item is queued  *)
(* or under way, and a queue means that every request is out or that the pump  *)
(* is about to run. Every promise of ensure is resolved, as requests end.      *)
NobodyForgotten ==
  /\ \A i \in waiting : i \in Range(queue) \/ \E k \in DOMAIN flight : i \in flight[k].ids
  /\ queue # <<>> => scheduled \/ Len(flight) = MaxInFlight

(* "When a digest moved, the row is marked not loaded and the card fetches the *)
(* item again" (rowSignature.ts): a reload that brings another output than the *)
(* row had leaves no row that counts as loaded with an older body.             *)
MovedIsAskedAgain ==
  [][ReloadLands =>
       \A i \in Items :
         rows'[i].loaded /\ reload.out[i] # reload.prev[i].digest
           => rows'[i].body = reload.out[i]]_vars
=============================================================================
