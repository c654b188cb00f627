----------------------------- MODULE DraftRules -----------------------------
(* The editor of a draft of the analysis rules (frontend, useDraftRules): it   *)
(* saves by itself AUTOSAVE_MS after the last change. Several saves may be     *)
(* under way, the server applies them in any order, and the page hears only    *)
(* of the latest one. A draft can be left and opened again at any time, and it *)
(* can be published, after which the server refuses other texts.               *)
(* A rule is its text (title and instruction); Blank is one of which a part is *)
(* missing. Titles are unique in what the server stores.                       *)
EXTENDS Naturals, Sequences, SequencesExt, FiniteSets

CONSTANTS
  Texts,     \* complete rules a user may type
  Blank,     \* a rule without a title or without an instruction
  NoId,      \* the id of a rule that the server has not seen
  MaxRules,  \* rules in the list (bound)
  MaxEdits,  \* changes of the list (bound)
  MaxSaves   \* saves under way at once (bound)

ASSUME BlankAssumption == Blank \notin Texts
ASSUME NoIdAssumption == NoId \notin Nat

VARIABLES
  stored,    \* server: the rules of the version
  status,    \* server: "draft" or "published"
  ids,       \* server: ids given so far
  rules,     \* rulesRef.current
  timer,     \* the autosave timer is set
  state,     \* the SaveState shown
  open,      \* the editor is mounted
  editable,  \* the version is shown as a draft
  latest,    \* the save whose answer the mounted editor will hear of
  cached,    \* the rules of the version in the query cache
  asking,    \* the publish dialog is open
  saves,     \* the saves under way
  edits,     \* changes so far
  sends,     \* saves so far
  sent,      \* history: the texts last sent, or read when the editor opened
  applied,   \* history: the newest save applied
  overtaken, \* history: a save was applied after a newer one
  shifted    \* history: an answer met another list than the one that was sent

server == <<stored, status, ids, applied, overtaken>>
editor == <<rules, timer, state, open, editable, latest, shifted>>
vars == <<server, editor, cached, asking, saves, edits, sends, sent>>

-----------------------------------------------------------------------------
TextsOf(list) == [i \in DOMAIN list |-> list[i].text]
IsComplete(list) == \A i \in DOMAIN list : list[i].text # Blank
Settled == state \in {"idle", "saved"}

(* As a mistake: a title may come twice. *)
KeptAll(list) == list

(* normalize_analysis_rules: of rules with one title the first is kept. *)
Kept(list) ==
  LET firsts == {i \in DOMAIN list : \A j \in 1..(i - 1) : list[j].text # list[i].text}
      nth[n \in Nat] == CHOOSE i \in firsts : Cardinality({j \in firsts : j <= i}) = n
  IN [n \in 1..Cardinality(firsts) |-> list[nth[n]]]

(* _rules_with_stable_ids: the id sent, else that of the rule stored under the *)
(* title, else a new one.                                                      *)
WithIds(list) ==
  LET kept == Kept(list)
      prior(i) == {j \in DOMAIN stored : stored[j].text = kept[i].text}
      isNew(i) == kept[i].id = NoId /\ prior(i) = {}
      id(i) == IF kept[i].id # NoId THEN kept[i].id
               ELSE IF isNew(i) THEN ids + Cardinality({j \in 1..i : isNew(j)})
               ELSE stored[CHOOSE j \in prior(i) : TRUE].id
  IN [rules |-> [i \in DOMAIN kept |-> [id |-> id(i), text |-> kept[i].text]],
      ids |-> ids + Cardinality({j \in DOMAIN kept : isNew(j)})]

(* A version with one rule is opened for the first time. *)
Init ==
  /\ \E t \in Texts : stored = <<[id |-> 1, text |-> t]>>
  /\ status = "draft" /\ ids = 1
  /\ rules = stored /\ cached = stored
  /\ timer = FALSE /\ state = "idle" /\ open = TRUE /\ editable = TRUE
  /\ latest = 0 /\ asking = FALSE
  /\ saves = {} /\ edits = 0 /\ sends = 0
  /\ sent = TextsOf(stored)
  /\ applied = 0 /\ overtaken = FALSE /\ shifted = FALSE

-----------------------------------------------------------------------------
(* Changes of the list: the timer is set anew. *)
Heard == \E s \in saves : s.n = latest /\ s.heard

Change(next, moved) ==
  /\ open /\ editable /\ ~asking /\ edits < MaxEdits
  /\ rules' = next
  /\ state' = IF IsComplete(next) THEN "dirty" ELSE "invalid"
  /\ timer' = TRUE
  /\ shifted' = (shifted \/ (moved /\ Heard))
  /\ edits' = edits + 1
  /\ UNCHANGED <<server, open, editable, latest, cached, asking, saves, sends, sent>>

Update(i, text) == Change([rules EXCEPT ![i].text = text], FALSE)
Add == Len(rules) < MaxRules /\ Change(<<[id |-> NoId, text |-> Blank]>> \o rules, TRUE)
Delete(i) == Change(RemoveAt(rules, i), TRUE)

(* save.mutate of the list. *)
SaveOf(list) ==
  /\ Cardinality(saves) < MaxSaves
  /\ sends' = sends + 1
  /\ sent' = TextsOf(list)
  /\ saves' = saves \cup {[n |-> sends + 1, rules |-> list, heard |-> TRUE, at |-> "sent",
                             answer |-> <<>>, was |-> "draft"]}

(* flush, by the timer. *)
Flush ==
  /\ timer /\ timer' = FALSE
  /\ IF IsComplete(rules)
     THEN state' = "saving" /\ latest' = sends + 1 /\ SaveOf(rules)
     ELSE state' = "invalid" /\ UNCHANGED <<latest, saves, sends, sent>>
  /\ UNCHANGED <<server, rules, open, editable, shifted, cached, asking, edits>>

(* As a mistake: the timer is only cleared. *)
LeaveDropping ==
  /\ open /\ ~asking
  /\ open' = FALSE /\ timer' = FALSE /\ latest' = 0
  /\ UNCHANGED <<server, rules, state, editable, shifted, cached, asking, saves, edits, sends, sent>>

(* The editor goes: a set timer is flushed, and answers are no longer heard. *)
Leave ==
  /\ open /\ ~asking
  /\ open' = FALSE /\ timer' = FALSE /\ latest' = 0
  /\ IF timer /\ IsComplete(rules) THEN SaveOf(rules) ELSE UNCHANGED <<saves, sends, sent>>
  /\ UNCHANGED <<server, rules, state, editable, shifted, cached, asking, edits>>

(* It is opened again, with the rules of the query cache. *)
Open ==
  /\ ~open
  /\ open' = TRUE /\ rules' = cached /\ state' = "idle" /\ shifted' = FALSE
  /\ sent' = TextsOf(cached)
  /\ UNCHANGED <<server, timer, editable, latest, cached, asking, saves, edits, sends>>

-----------------------------------------------------------------------------
(* The server applies a save to a draft; a published version takes only the    *)
(* texts it has.                                                               *)
Apply(s) ==
  /\ s \in saves /\ s.at = "sent"
  /\ LET new == WithIds(s.rules)
         same == TextsOf(new.rules) = TextsOf(stored)
         ok == status = "draft" \/ same
         after == IF status = "draft" THEN new.rules ELSE stored
     IN /\ stored' = after
        /\ ids' = IF status = "draft" THEN new.ids ELSE ids
        /\ applied' = IF s.n > applied THEN s.n ELSE applied
        /\ overtaken' = (overtaken \/ s.n < applied)
        /\ saves' = (saves \ {s}) \cup
             IF s.heard
             THEN {[s EXCEPT !.at = IF ok THEN "saved" ELSE "refused",
                             !.answer = IF ok THEN after ELSE <<>>, !.was = status]}
             ELSE {}
  /\ UNCHANGED <<status, editor, cached, asking, edits, sends, sent>>

(* As a mistake: the rules stay without ids until the draft is opened again. *)
AdoptedNone(saved) == rules

(* The rules without an id take that of their place in the answer. *)
Adopted(saved) ==
  [i \in DOMAIN rules |->
     [id |-> IF rules[i].id = NoId /\ i \in DOMAIN saved THEN saved[i].id ELSE rules[i].id,
      text |-> rules[i].text]]

(* As a mistake: the editor takes any answer. *)
LandAny(s) ==
  /\ s \in saves /\ s.at = "saved"
  /\ saves' = saves \ {s}
  /\ cached' = s.answer /\ editable' = (s.was = "draft")
  /\ rules' = Adopted(s.answer) /\ state' = "saved"
  /\ shifted' = (shifted \/ Len(s.answer) # Len(rules))
  /\ UNCHANGED <<server, timer, open, latest, asking, edits, sends, sent>>

(* A save is answered: the cache takes any answer, with the status the version *)
(* had then (an answer later than the publish makes the editor editable again),*)
(* the editor that of its latest save.                                         *)
Land(s) ==
  /\ s \in saves /\ s.at = "saved"
  /\ saves' = saves \ {s}
  /\ cached' = s.answer /\ editable' = (s.was = "draft")
  /\ IF s.n = latest
     THEN /\ rules' = Adopted(s.answer) /\ state' = "saved"
          /\ shifted' = (shifted \/ Len(s.answer) # Len(rules))
     ELSE UNCHANGED <<rules, state, shifted>>
  /\ UNCHANGED <<server, timer, open, latest, asking, edits, sends, sent>>

(* A save is refused, or its answer never comes: then the server may have      *)
(* applied it, or may still do so.                                             *)
Fail(s) ==
  /\ s \in saves /\ s.heard
  /\ saves' = (saves \ {s}) \cup IF s.at = "sent" THEN {[s EXCEPT !.heard = FALSE]} ELSE {}
  /\ state' = IF s.n = latest THEN "error" ELSE state
  /\ UNCHANGED <<server, rules, timer, open, editable, latest, shifted, cached, asking, edits, sends, sent>>

(* A request that nobody waits for never reaches the server. *)
Lose(s) ==
  /\ s \in saves /\ ~s.heard
  /\ saves' = saves \ {s}
  /\ UNCHANGED <<server, editor, cached, asking, edits, sends, sent>>

-----------------------------------------------------------------------------
(* Publishing: the button is enabled while the state is settled.               *)
Ask ==
  /\ open /\ editable /\ ~asking /\ Settled /\ rules # <<>>
  /\ asking' = TRUE
  /\ UNCHANGED <<server, editor, cached, saves, edits, sends, sent>>

Cancel ==
  /\ asking /\ asking' = FALSE
  /\ UNCHANGED <<server, editor, cached, saves, edits, sends, sent>>

Publish ==
  /\ asking /\ asking' = FALSE
  /\ status' = IF stored # <<>> THEN "published" ELSE status
  /\ UNCHANGED <<stored, ids, applied, overtaken, editor, cached, saves, edits, sends, sent>>

(* The list of versions is read again: the editor is read-only. *)
Refreshed ==
  /\ status = "published" /\ editable
  /\ editable' = FALSE /\ cached' = stored
  /\ UNCHANGED <<server, rules, timer, state, open, latest, shifted, asking, saves, edits, sends, sent>>

Next ==
  \/ Add \/ Flush \/ Leave \/ Open \/ Ask \/ Cancel \/ Publish \/ Refreshed
  \/ \E i \in DOMAIN rules : Delete(i) \/ \E t \in Texts \cup {Blank} : Update(i, t)
  \/ \E s \in saves : Apply(s) \/ Land(s) \/ Fail(s) \/ Lose(s)

Spec == Init /\ [][Next]_vars

-----------------------------------------------------------------------------
Rules == [id : Nat \cup {NoId}, text : Texts \cup {Blank}]

(* Every variable keeps its type, and what the server stores is complete and   *)
(* has ids and one rule per title.                                             *)
TypeOK ==
  /\ stored \in Seq([id : 1..ids, text : Texts])
  /\ \A i, j \in DOMAIN stored : stored[i].text = stored[j].text => i = j
  /\ status \in {"draft", "published"}
  /\ ids \in Nat
  /\ rules \in Seq(Rules) /\ cached \in Seq(Rules)
  /\ state \in {"idle", "dirty", "saving", "saved", "error", "invalid"}
  /\ {timer, open, editable, asking, overtaken, shifted} \subseteq BOOLEAN
  /\ {latest, sends, applied, edits} \subseteq Nat
  /\ \A s \in saves : s.n \in 1..sends /\ s.rules \in Seq(Rules) /\ IsComplete(s.rules)

(* Text typed is not forgotten: it was sent, or the timer that will send it is *)
(* set, or a rule of the list is not complete; also when the editor is left    *)
(* within the time of the autosave.                                            *)
NothingForgotten ==
  /\ timer => open
  /\ timer \/ ~IsComplete(rules) \/ TextsOf(rules) = sent

(* "Draft saved" is true once all is quiet: if no older save was applied after *)
(* a newer one, the server has the texts that are shown (one of each title),   *)
(* whatever was typed, refused, lost or answered late before.                  *)
SavedIsStored ==
  open /\ state = "saved" /\ ~timer /\ saves = {} /\ ~overtaken /\ IsComplete(rules)
    => TextsOf(stored) = TextsOf(Kept(rules))

(* Then the rules of a draft also have the ids the server knows them by,       *)
(* unless the list was lengthened or shortened while it was being saved.       *)
AdoptedIsStored ==
  status = "draft" /\ open /\ state = "saved" /\ ~timer /\ saves = {} /\ ~overtaken /\ ~shifted /\ IsComplete(rules)
    => \A i \in DOMAIN rules : i \in DOMAIN stored => rules[i].id = stored[i].id
=============================================================================
