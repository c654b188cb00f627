----------------------------- MODULE LaunchForm -----------------------------
(* The form that launches an experiment (frontend, features/experiments/launch *)
(* with its LaunchProvider). The document is a starting point (the base: a     *)
(* default preset of an environment, or scratch) plus the user's edits.        *)
(* Three asynchronous flows write it, and the user goes on editing meanwhile:  *)
(*   - a sync after every change of the selection, which prunes what no        *)
(*     environment knows and then picks the base;                              *)
(*   - the load of a base, which lays it under the document and replays the    *)
(*     edits;                                                                  *)
(*   - a global model that waits until endpoints have their slots.             *)
(* API keys live in a store of their own, and are forgotten when the document  *)
(* stops referring to them. A slot stands for itself and for the one setting   *)
(* that it fills; a model is Inherit, that of a preset (which comes without    *)
(* its key), or one the user picked.                                           *)
EXTENDS Naturals, FiniteSets

CONSTANTS
  Envs,      \* the environments of the project
  Slots,     \* model slots, each with its setting
  Knows,     \* per environment: the settings of its form
  Confirms,  \* per environment: the slots it has confirmed
  Official,  \* environments with a default preset
  Binds,     \* per environment: the slots its preset binds
  Sets,      \* per environment: the settings its preset has a value for
  NoEnv,     \* no environment
  MaxActs,   \* acts of the user (bound)
  MaxKeys    \* API keys typed (bound)

ASSUME BoundsAssumption == MaxActs \in Nat /\ MaxKeys \in Nat
ASSUME EnvsAssumption ==
  /\ NoEnv \notin Envs /\ Official \subseteq Envs
  /\ \A e \in Envs : Confirms[e] \subseteq Knows[e] /\ Knows[e] \subseteq Slots
                     /\ Binds[e] \subseteq Knows[e] /\ Sets[e] \subseteq Knows[e]

VARIABLES
  doc,     \* docRef.current
  store,   \* SecretStore: the refs of the keys it holds
  given,   \* refs given so far
  baseKey, \* baseKeyRef.current
  touched, \* touchedRef.current
  sync,    \* the sync under way (older ones are dropped by syncGen)
  load,    \* the base load under way (older ones are dropped by baseGen)
  apply,   \* the global model that waits for its endpoints
  choice,  \* the base that the dialog asks about, while it is open
  acts,    \* acts so far
  edited,  \* history: the slots the user acted upon since the last reset
  typed,   \* history: the settings whose last edit is a value
  missed,  \* history: typed settings a base was laid without knowing
  stripped, \* history: typed settings dropped as a base or a new endpoint gave them a model
  torn,    \* history: the slots the base lost to a prune, or that it was laid without
  late     \* history: keys forgotten while the model that uses them was waiting

history == <<edited, typed, missed, stripped, torn, late>>
flows == <<sync, load, apply, choice>>
vars == <<doc, store, given, baseKey, touched, flows, acts, history>>

-----------------------------------------------------------------------------
NoKey == 0
Inherit == [model |-> "inherit", key |-> NoKey]
Keyless == [model |-> "preset", key |-> NoKey]
Bound(binding) == binding.model # "inherit"

NoSync == [at |-> "none", envs |-> {}, extras |-> {}, env |-> NoEnv]
NoLoad == [at |-> "none", kind |-> "scratch", env |-> NoEnv, envs |-> {}, extras |-> {}]
NoChoice == [kind |-> "none", env |-> NoEnv]
NoApply == [at |-> "none", binding |-> Inherit, names |-> {}, envs |-> {}, extras |-> {}]

(* The context of a selection with its extra endpoints. *)
FieldsOf(envs) == UNION {Knows[e] : e \in envs}
SlotsOf(envs, extras) == UNION {Confirms[e] \cup (extras \cap Knows[e]) : e \in envs}
Fields == FieldsOf(doc.envs)
Shown == SlotsOf(doc.envs, doc.extras)

KeyOf(kind, env) == <<kind, IF kind = "default" THEN env ELSE NoEnv>>

(* As a mistake: the key of the global model counts as unused. *)
RefsBound(d) == {d.bindings[s].key : s \in Slots} \ {NoKey}

(* docSecretRefs *)
RefsOf(d) == ({d.bindings[s].key : s \in Slots} \cup {d.global.key}) \ {NoKey}

(* pruneSecrets, with the keys that then are missed by a waiting model. *)
PruneKeys(d) ==
  /\ store' = store \cap RefsOf(d)
  /\ late' = late \cup (({apply.binding.key} \cap store) \ RefsOf(d))

(* stripBoundFields *)
Stripped(values, bindings, slots) ==
  [s \in Slots |-> IF s \in slots /\ Bound(bindings[s]) THEN "unset" ELSE values[s]]

(* The binding all endpoints share, of the first of them. *)
Common(d, slots) ==
  IF slots # {} /\ \A s, r \in slots : d.bindings[s].model = d.bindings[r].model
  THEN d.bindings[CHOOSE s \in slots : TRUE] ELSE Inherit

(* deriveGlobalModel *)
WithGlobal(d, envs, extras) ==
  IF envs = {} THEN d ELSE [d EXCEPT !.global = Common(d, SlotsOf(envs, extras))]

(* bindGlobalTo *)
BindTo(d, binding, slots) ==
  [d EXCEPT !.bindings = [s \in Slots |-> IF s \in slots THEN binding ELSE @[s]],
            !.values = [s \in Slots |-> IF s \in slots THEN "unset" ELSE @[s]]]

(* addExtraEndpoints: a new endpoint starts on the global model. *)
WithExtras(d, names) ==
  LET fresh == names \ d.extras
      next == [d EXCEPT !.extras = @ \cup fresh]
  IN IF Bound(d.global) THEN BindTo(next, d.global, fresh) ELSE next

(* pruneOrphanValues and pruneBindings *)
PrunedDoc(d, envs, extras) ==
  LET slots == SlotsOf(envs, extras)
      kept(bindings) == [s \in Slots |-> IF s \in slots THEN bindings[s] ELSE Inherit]
  IN [d EXCEPT !.values = [s \in Slots |-> IF s \in FieldsOf(envs) THEN @[s] ELSE "unset"],
               !.bindings = kept(@), !.baseBindings = kept(@)]

-----------------------------------------------------------------------------
(* A base as laid on a context: what its config says of slots and settings the *)
(* context has (baselineFrom).                                                 *)
BaseBindings(binds, envs, extras) ==
  [s \in Slots |-> IF s \in binds \cap SlotsOf(envs, extras) THEN Keyless ELSE Inherit]

BaseValues(sets, bindings, envs) ==
  [s \in Slots |-> IF s \in sets /\ ~Bound(bindings[s]) /\ (envs = {} \/ s \in FieldsOf(envs))
                   THEN "preset" ELSE "unset"]

(* As a mistake: the base replaces the edits. *)
LaidOver(d, binds, sets, envs, extras) ==
  LET base == BaseBindings(binds, envs, extras)
  IN WithGlobal([d EXCEPT !.baseBindings = base, !.bindings = base,
                          !.baseValues = BaseValues(sets, base, envs),
                          !.values = BaseValues(sets, base, envs)], envs, extras)

(* As a mistake: the edits are what differs from the new base. *)
LaidLate(d, binds, sets, envs, extras) ==
  LET next == LaidOver(d, binds, sets, envs, extras)
      edit(s) == s \in FieldsOf(envs) /\ d.values[s] \notin {"unset", next.values[s]}
  IN [next EXCEPT !.values = [s \in Slots |-> IF edit(s) THEN d.values[s] ELSE @[s]]]

(* applyBase: what differs from the old base is an edit (a key is not part of  *)
(* that), and the edits that fit the context are replayed on the new one.      *)
Laid(d, binds, sets, envs, extras) ==
  LET slots == SlotsOf(envs, extras)
      baseBindings == BaseBindings(binds, envs, extras)
      baseValues == BaseValues(sets, baseBindings, envs)
      bindings == [s \in Slots |->
        IF s \in slots /\ d.bindings[s].model # d.baseBindings[s].model
        THEN d.bindings[s] ELSE baseBindings[s]]
      values == [s \in Slots |->
        IF s \in FieldsOf(envs) /\ d.values[s] # d.baseValues[s]
        THEN d.values[s] ELSE baseValues[s]]
  IN WithGlobal([d EXCEPT !.baseBindings = baseBindings, !.baseValues = baseValues,
                          !.bindings = bindings, !.values = Stripped(values, bindings, slots)],
                envs, extras)

(* A blank form, before an environment is ticked. *)
Init ==
  /\ doc = [envs |-> {}, extras |-> {}, global |-> Inherit,
            values |-> [s \in Slots |-> "unset"], baseValues |-> [s \in Slots |-> "unset"],
            bindings |-> [s \in Slots |-> Inherit], baseBindings |-> [s \in Slots |-> Inherit],
            base |-> [kind |-> "scratch", env |-> NoEnv, at |-> "loaded"]]
  /\ store = {} /\ given = 0
  /\ baseKey = <<"none", NoEnv>> /\ touched = FALSE
  /\ sync = NoSync /\ load = NoLoad /\ apply = NoApply /\ choice = NoChoice
  /\ acts = 0
  /\ edited = {} /\ typed = {} /\ missed = {} /\ stripped = {} /\ torn = {} /\ late = {}

-----------------------------------------------------------------------------
(* The selection. *)
PickedFrom(envs) == IF envs \cap Official # {} THEN envs \cap Official ELSE envs
BaseEnvOf(envs) == IF doc.base.env \in envs THEN {doc.base.env} ELSE PickedFrom(envs)

Count == acts < MaxActs /\ acts' = acts + 1

(* An act of the user: not while the dialog is open. *)
Act == choice = NoChoice /\ Count

SyncOf(d) == [at |-> "context", envs |-> d.envs, extras |-> d.extras, env |-> NoEnv]

(* An environment is ticked or unticked. A selection that becomes empty starts *)
(* no sync, and stops none.                                                    *)
Toggle(e) ==
  /\ Act
  /\ doc' = [doc EXCEPT !.envs = IF e \in @ THEN @ \ {e} ELSE @ \cup {e}]
  /\ sync' = IF doc'.envs = {} THEN sync ELSE SyncOf(doc')
  /\ typed' = typed \cap FieldsOf(doc'.envs)
  /\ UNCHANGED <<store, given, baseKey, touched, load, apply, choice, edited, missed, stripped, torn, late>>

(* applyBaseKind: the base is shown as loading, on the selection of this time. *)
StartLoad(kind, env) ==
  /\ baseKey' = KeyOf(kind, env)
  /\ load' = [at |-> "loading", kind |-> kind, env |-> env, envs |-> doc.envs, extras |-> doc.extras]
  /\ doc' = [doc EXCEPT !.base = [kind |-> kind, env |-> env, at |-> "loading"]]

(* syncEnvironments: the context has come, and what it does not know is pruned.*)
SyncLands ==
  /\ sync.at = "context"
  /\ LET pruned == PrunedDoc(doc, sync.envs, sync.extras)
         unbound == {s \in Slots : pruned.baseBindings[s] # doc.baseBindings[s]}
         unknown == {s \in Slots : doc.baseValues[s] # "unset"} \ FieldsOf(sync.envs)
     IN /\ doc' = WithGlobal(pruned, sync.envs, sync.extras)
        /\ PruneKeys(pruned)
        /\ torn' = torn \cup unbound \cup unknown
  /\ IF doc.envs = {} THEN sync' = NoSync
     ELSE \E env \in BaseEnvOf(doc.envs) : sync' = [sync EXCEPT !.at = "presets", !.env = env]
  /\ UNCHANGED <<given, baseKey, touched, load, apply, choice, acts, edited, typed, missed, stripped>>

(* As a mistake: a base is loaded only when the form has none. *)
SyncPicksOnce ==
  /\ sync.at = "presets" /\ sync' = NoSync
  /\ LET kind == IF sync.env \in Official THEN "default" ELSE "scratch"
     IN IF baseKey[1] = "none" THEN StartLoad(kind, sync.env) ELSE UNCHANGED <<doc, baseKey, load>>
  /\ UNCHANGED <<store, given, touched, apply, choice, acts, history>>

(* syncBase: the base that the selection calls for, unless it is the last one  *)
(* asked for.                                                                  *)
SyncPicks ==
  /\ sync.at = "presets" /\ sync' = NoSync
  /\ LET wanted == IF touched THEN doc.base.kind ELSE "default"
         kind == IF sync.env \in Official THEN wanted ELSE "scratch"
     IN IF KeyOf(kind, sync.env) # baseKey
        THEN StartLoad(kind, sync.env) ELSE UNCHANGED <<doc, baseKey, load>>
  /\ UNCHANGED <<store, given, touched, apply, choice, acts, history>>

(* What describeBaseChange counts. *)
Changed == {s \in Slots : \/ doc.values[s] # doc.baseValues[s]
                          \/ doc.bindings[s].model # doc.baseBindings[s].model}

(* chooseBase: the same one again changes nothing. A dialog asks first if there*)
(* are changes; there may be some of what the model leaves out (the dataset).  *)
ChooseBase(kind, env) ==
  /\ Act
  /\ IF kind = "default" THEN env \in doc.envs \cap Official ELSE env \in BaseEnvOf(doc.envs)
  /\ KeyOf(kind, env) # baseKey
  /\ \/ Changed = {} /\ touched' = TRUE /\ StartLoad(kind, env) /\ UNCHANGED choice
     \/ choice' = [kind |-> kind, env |-> env] /\ UNCHANGED <<doc, baseKey, touched, load>>
  /\ UNCHANGED <<store, given, sync, apply, history>>

(* The dialog closes: the base chosen is loaded, whatever came meanwhile. *)
Confirm ==
  /\ choice # NoChoice /\ choice' = NoChoice
  /\ touched' = TRUE /\ StartLoad(choice.kind, choice.env)
  /\ UNCHANGED <<store, given, sync, apply, acts, history>>

Decline ==
  /\ choice # NoChoice /\ choice' = NoChoice
  /\ UNCHANGED <<doc, store, given, baseKey, touched, sync, load, apply, acts, history>>

(* The base has come, or the server says that there is none. Its key is set    *)
(* again: a change of the schema meanwhile is forgotten. The endpoints it binds*)
(* that no environment has confirmed are added, those too that the user took   *)
(* away meanwhile.                                                             *)
BaseLands(found) ==
  /\ load.at = "loading" /\ load' = NoLoad
  /\ load.kind = "scratch" => found
  /\ LET preset == found /\ load.kind = "default"
         binds == IF preset THEN Binds[load.env] ELSE {}
         sets == IF preset THEN Sets[load.env] ELSE {}
         asked == binds \ SlotsOf(load.envs, {})
         extras == load.extras \cup asked
         added == asked \cap SlotsOf(load.envs, extras)
         next == Laid(WithExtras(doc, added), binds, sets, load.envs, extras)
     IN /\ doc' = [next EXCEPT !.base = [kind |-> load.kind, at |-> IF found THEN "loaded" ELSE "failed",
                                         env |-> IF load.kind = "default" THEN load.env ELSE NoEnv]]
        /\ PruneKeys(next)
        /\ edited' = IF Bound(doc.global) THEN edited \cup (added \ doc.extras) ELSE edited
        /\ stripped' = stripped \cup {s \in typed : Bound(next.bindings[s])}
        /\ torn' = ((binds \cup sets) \ FieldsOf(load.envs))
             \cup {s \in torn \cap FieldsOf(load.envs) : doc.values[s] # doc.baseValues[s]}
  /\ missed' = missed \cup (typed \ FieldsOf(load.envs))
  /\ baseKey' = KeyOf(load.kind, load.env)
  /\ UNCHANGED <<given, touched, sync, apply, choice, acts, typed>>

(* As a mistake: the document is not told. *)
BaseThrowsQuietly ==
  /\ load.at = "loading" /\ load' = NoLoad
  /\ UNCHANGED <<doc, store, given, baseKey, touched, sync, apply, choice, acts, history>>

(* Its context could not be read: the document stays as it is. *)
BaseThrows ==
  /\ load.at = "loading" /\ load' = NoLoad
  /\ doc' = [doc EXCEPT !.base.at = "failed"]
  /\ UNCHANGED <<store, given, baseKey, touched, sync, apply, choice, acts, history>>

(* The schema of an environment changed: the base must be laid anew. *)
SchemaChanged ==
  /\ Count
  /\ doc.envs # {}
  /\ baseKey' = <<"none", NoEnv>> /\ sync' = SyncOf(doc)
  /\ UNCHANGED <<doc, store, given, touched, load, apply, choice, history>>

-----------------------------------------------------------------------------
(* Edits. A key typed goes to the store, and the document has its ref. *)
Key(k) == k \in {NoKey, doc.global.key} \/ (k = given + 1 /\ k <= MaxKeys)
Put(k) == IF k > given THEN {k} ELSE {}
Given(k) == given' = IF k > given THEN k ELSE given

(* The document is replaced, and the keys it does not use are forgotten. *)
Replace(d, k) ==
  /\ doc' = d /\ Given(k)
  /\ store' = (store \cup Put(k)) \cap RefsOf(d)
  /\ late' = late \cup (({apply.binding.key} \cap store) \ RefsOf(d))

SetValue(s, value) ==
  /\ Act
  /\ s \in Fields /\ ~(s \in Shown /\ Bound(doc.bindings[s]))
  /\ doc' = [doc EXCEPT !.values[s] = value]
  /\ edited' = edited \cup {s}
  /\ typed' = IF value = "typed" THEN typed \cup {s} ELSE typed \ {s}
  /\ missed' = missed \ {s} /\ stripped' = stripped \ {s}
  /\ UNCHANGED <<store, given, baseKey, touched, flows, torn, late>>

SetBinding(s, binding) ==
  /\ Act
  /\ s \in Shown
  /\ Key(binding.key)
  /\ Replace(IF Bound(binding) THEN BindTo(doc, binding, {s})
             ELSE [doc EXCEPT !.bindings[s] = Inherit], binding.key)
  /\ edited' = edited \cup {s}
  /\ typed' = IF Bound(binding) THEN typed \ {s} ELSE typed
  /\ UNCHANGED <<baseKey, touched, flows, missed, stripped, torn>>

(* A key for a model that came without one, or for the global model and the    *)
(* endpoints that follow it; nothing is forgotten here.                        *)
ReenterKey(s) ==
  /\ Act
  /\ s \in Shown /\ doc.bindings[s] = Keyless
  /\ given < MaxKeys /\ Given(given + 1) /\ store' = store \cup {given + 1}
  /\ LET follows(r) == r \in Shown /\ doc.bindings[r].model = doc.global.model
         slots == {s} \cup {r \in Slots : follows(s) /\ follows(r)}
     IN /\ doc' = [doc EXCEPT !.bindings = [r \in Slots |-> IF r \in slots THEN [@[r] EXCEPT !.key = given + 1] ELSE @[r]],
                              !.global.key = IF follows(s) THEN given + 1 ELSE @]
        /\ edited' = edited \cup slots
  /\ UNCHANGED <<baseKey, touched, flows, typed, missed, stripped, torn, late>>

RemoveExtra(s) ==
  /\ Act
  /\ s \in doc.extras
  /\ Replace([doc EXCEPT !.extras = @ \ {s}, !.bindings[s] = Inherit], NoKey)
  /\ edited' = edited \cup {s}
  /\ UNCHANGED <<baseKey, touched, flows, typed, missed, stripped, torn>>

(* "Undo all changes": a key stays where the model is that of the base. *)
ResetAll ==
  /\ Act
  /\ LET kept(s) == doc.bindings[s].model = doc.baseBindings[s].model
         back == [doc EXCEPT !.values = doc.baseValues,
                             !.bindings = [s \in Slots |-> IF kept(s) THEN @[s] ELSE doc.baseBindings[s]]]
     IN Replace(WithGlobal(back, doc.envs, doc.extras), NoKey)
  /\ typed' = {} /\ edited' = {}
  /\ UNCHANGED <<baseKey, touched, flows, missed, stripped, torn>>

-----------------------------------------------------------------------------
(* The global model. *)
Raw == {s \in Slots : doc.values[s] # "unset"} \ Shown

GlobalDoc(binding, slots) ==
  LET next == [doc EXCEPT !.global = binding]
  IN IF Bound(binding) THEN BindTo(next, binding, slots) ELSE next

Follow(binding, slots) ==
  /\ edited' = IF Bound(binding) THEN edited \cup slots ELSE edited
  /\ typed' = IF Bound(binding) THEN typed \ slots ELSE typed

SetGlobal(binding) ==
  /\ Act
  /\ apply.at = "none" /\ Key(binding.key)
  /\ ~Bound(binding) \/ Raw = {}
  /\ Replace(GlobalDoc(binding, Shown), binding.key)
  /\ Follow(binding, Shown)
  /\ UNCHANGED <<baseKey, touched, flows, missed, stripped, torn>>

Proposals(binding, names) ==
  [at |-> "proposals", binding |-> binding, names |-> names \ doc.extras,
   envs |-> doc.envs, extras |-> doc.extras]

(* An endpoint for this experiment only, without a model of its own. *)
AddEndpoint(s) ==
  /\ Act
  /\ apply.at = "none" /\ doc.envs # {} /\ s \notin Shown
  /\ apply' = Proposals(Inherit, {s})
  /\ UNCHANGED <<doc, store, given, baseKey, touched, sync, load, choice, history>>

(* Endpoints that have only values get their slots first; the key is stored.   *)
AwaitSlots(binding) ==
  /\ Act
  /\ apply.at = "none" /\ Key(binding.key)
  /\ Bound(binding) /\ Raw # {}
  /\ apply' = Proposals(binding, Raw)
  /\ Given(binding.key)
  /\ store' = store \cup Put(binding.key)
  /\ UNCHANGED <<doc, baseKey, touched, sync, load, choice, history>>

(* loadProposal *)
SlotsLand ==
  /\ apply.at = "proposals"
  /\ apply' = IF Bound(apply.binding) THEN [apply EXCEPT !.at = "ready"] ELSE NoApply
  /\ LET added == apply.names \cap SlotsOf(apply.envs, apply.extras \cup apply.names)
         fresh == added \ doc.extras
     IN /\ doc' = WithExtras(doc, added)
        /\ edited' = IF Bound(doc.global) THEN edited \cup fresh ELSE edited
        /\ stripped' = IF Bound(doc.global) THEN stripped \cup (typed \cap fresh) ELSE stripped
  /\ UNCHANGED <<store, given, baseKey, touched, sync, load, choice, acts, typed, missed, torn, late>>

(* The slots are shown, or the wait of waitUntil is over and some of the new   *)
(* ones are not shown yet (unseen): these stay without a model.                *)
ApplyGlobal ==
  /\ apply.at = "ready" /\ apply' = NoApply
  /\ \E unseen \in SUBSET apply.names :
       LET next == GlobalDoc(apply.binding, Shown \ unseen)
       IN /\ doc' = next /\ store' = store \cap RefsOf(next)
          /\ Follow(apply.binding, Shown \ unseen)
  /\ UNCHANGED <<given, baseKey, touched, sync, load, choice, acts, missed, stripped, torn, late>>

Own(k) == [model |-> "own", key |-> k]

Next ==
  \/ SyncLands \/ SyncPicks \/ BaseThrows \/ SlotsLand \/ ApplyGlobal \/ Confirm \/ Decline
  \/ \E found \in BOOLEAN : BaseLands(found)
  \/ SchemaChanged \/ ResetAll
  \/ \E e \in Envs : Toggle(e)
  \/ \E kind \in {"default", "scratch"}, e \in Envs : ChooseBase(kind, e)
  \/ \E s \in Slots : ReenterKey(s) \/ AddEndpoint(s) \/ RemoveExtra(s) \/ \E v \in {"unset", "typed"} : SetValue(s, v)
  \/ \E k \in 0..MaxKeys :
       \/ \E binding \in {Inherit, Own(k)} : SetGlobal(binding) \/ AwaitSlots(binding)
       \/ \E s \in Slots, binding \in {Inherit, Own(k), doc.global} : SetBinding(s, binding)

Spec == Init /\ [][Next]_vars

-----------------------------------------------------------------------------
Bindings == [model : {"inherit", "preset", "own"}, key : 0..MaxKeys]
Values == {"unset", "typed", "preset"}
Quiet == sync.at = "none" /\ load.at = "none"

(* Every variable keeps its type; a base that is shown as loading is being     *)
(* loaded, whatever superseded what.                                           *)
TypeOK ==
  /\ doc.envs \subseteq Envs /\ doc.extras \subseteq Slots
  /\ doc.values \in [Slots -> Values] /\ doc.baseValues \in [Slots -> Values]
  /\ doc.bindings \in [Slots -> Bindings] /\ doc.baseBindings \in [Slots -> Bindings]
  /\ doc.global \in Bindings
  /\ doc.base.kind \in {"default", "scratch"} /\ doc.base.env \in Envs \cup {NoEnv}
  /\ (doc.base.at = "loading") = (load.at = "loading")
  /\ store \subseteq 1..given /\ given <= MaxKeys
  /\ sync.at \in {"none", "context", "presets"} /\ apply.at \in {"none", "proposals", "ready"}
  /\ choice \in [kind : {"none", "default", "scratch"}, env : Envs \cup {NoEnv}]

(* Every key the document refers to is in the store, so that a launch sends it *)
(* (bindings.ts), whatever was bound, pruned and laid meanwhile; except a key  *)
(* that was forgotten while the global model it is for was waiting.            *)
KeysKept == RefsOf(doc) \subseteq store \cup late

(* A value typed is not lost while an environment that knows the setting stays *)
(* ticked: the syncs and the bases that land replay it. There are two ways to  *)
(* lose one, until it is typed again: a base laid on a selection without that  *)
(* environment (missed), and a base or a new endpoint that gives the setting's *)
(* slot a model, which takes the place of the value (stripped).                *)
EditsKept == \A s \in typed \ (missed \cup stripped) : doc.values[s] = "typed"

(* The comment of applyBase and the dialog before it promise more: an edit of a*)
(* setting that also exists in the new starting point is kept, the others are  *)
(* counted and reported. The code breaks it: a value whose slot the base binds *)
(* counts as kept, and stripBoundFields then drops it without a word.          *)
FittingEditsKept == \A s \in typed \ missed : doc.values[s] = "typed"

(* Once all is quiet the base is one of the selection: the preset of a ticked  *)
(* environment, and scratch only by the choice of the user or for a ticked     *)
(* environment that has no preset. (Another one may have a preset then: the    *)
(* environment a scratch base is being loaded for is picked again.)            *)
BaseOfSelection ==
  Quiet /\ doc.envs # {} /\ doc.base.at = "loaded" =>
    /\ doc.base.kind = "default" => doc.base.env \in doc.envs
    /\ doc.base.kind = "scratch" /\ ~touched => ~(doc.envs \subseteq Official)

(* The comment above syncBase promises more: an untouched form takes a default *)
(* preset if there is one, else scratch. The code breaks it: an environment    *)
(* without a preset is ticked, and one with a preset while scratch is still    *)
(* being loaded; the sync picks the first again and finds scratch asked for.   *)
DefaultElseScratch ==
  Quiet /\ doc.envs \cap Official # {} /\ doc.base.at = "loaded" /\ ~touched =>
    doc.base.kind = "default"

(* Then the document is its base and the user's edits, nothing more and nothing*)
(* less: what the user did not touch is what the preset says. Except for what  *)
(* the base lost when it was pruned or laid without its environment: the same  *)
(* environment ticked again does not bring it back.                            *)
BaseAndEdits ==
  Quiet /\ doc.envs # {} /\ doc.base.at = "loaded" =>
    \A s \in Slots \ (edited \cup torn) :
      LET preset == doc.base.kind = "default"
          bound == preset /\ s \in Binds[doc.base.env]
      IN /\ doc.bindings[s].model = IF bound THEN "preset" ELSE "inherit"
         /\ doc.values[s] = IF preset /\ ~bound /\ s \in Sets[doc.base.env] THEN "preset" ELSE "unset"
=============================================================================
