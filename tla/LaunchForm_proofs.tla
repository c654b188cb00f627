------------------------- MODULE LaunchForm_proofs --------------------------
(* Proofs about LaunchForm, for all environments, slots, presets and bounds.   *)
EXTENDS LaunchForm, TLAPS

BaseInfos == [kind : {"default", "scratch"}, env : Envs \cup {NoEnv},
              at : {"loaded", "loading", "failed"}]
(* A base comes without keys. *)
BaseBound == [model : {"inherit", "preset", "own"}, key : {NoKey}]
Documents == [envs : SUBSET Envs, extras : SUBSET Slots, global : Bindings,
              values : [Slots -> Values], baseValues : [Slots -> Values],
              bindings : [Slots -> Bindings], baseBindings : [Slots -> BaseBound],
              base : BaseInfos]

(* The types of the flows, with what they know of each other. *)
Flows ==
  /\ sync \in [at : {"none", "context", "presets"}, envs : SUBSET Envs, extras : SUBSET Slots,
               env : Envs \cup {NoEnv}]
  /\ sync.at = "presets" => sync.env \in Envs
  /\ load \in [at : {"none", "loading"}, kind : {"default", "scratch"}, env : Envs \cup {NoEnv},
               envs : SUBSET Envs, extras : SUBSET Slots]
  /\ load.at = "loading" => load.env \in Envs
  /\ apply \in [at : {"none", "proposals", "ready"}, binding : Bindings, names : SUBSET Slots,
                envs : SUBSET Envs, extras : SUBSET Slots]

(* The keys: those the document refers to are stored (KeysKept), and the key of*)
(* the model that waits is stored too, unless it was forgotten meanwhile.      *)
KeysInv ==
  /\ KeysKept
  /\ apply.at # "none" => apply.binding.key \in {NoKey} \cup store \cup late

Types ==
  /\ doc \in Documents
  /\ (doc.base.at = "loading") = (load.at = "loading")
  /\ given \in 0..MaxKeys
  /\ store \subseteq 1..given
  /\ Flows

Inv == Types /\ KeysInv

(* The dialog asks about a base of an environment. *)
ChoiceType == choice = NoChoice \/ choice \in [kind : {"default", "scratch"}, env : Envs]

-----------------------------------------------------------------------------
(* The operators on a document keep its type, and refer to no other keys than  *)
(* those it refers to.                                                         *)
LEMMA PlainBindings ==
  /\ Inherit \in BaseBound /\ Keyless \in BaseBound
  /\ BaseBound \subseteq Bindings
BY BoundsAssumption DEF Inherit, Keyless, NoKey, Bindings, BaseBound

LEMMA Contexts ==
  ASSUME NEW envs \in SUBSET Envs, NEW extras \in SUBSET Slots
  PROVE  SlotsOf(envs, extras) \subseteq Slots /\ FieldsOf(envs) \subseteq Slots
BY EnvsAssumption DEF SlotsOf, FieldsOf

LEMMA RefsOfBindings ==
  ASSUME NEW d \in Documents, NEW k
  PROVE  k \in RefsOf(d) <=> /\ k # NoKey
                             /\ k = d.global.key \/ \E s \in Slots : k = d.bindings[s].key
BY DEF RefsOf

LEMMA CommonType ==
  ASSUME NEW d \in Documents, NEW slots \in SUBSET Slots
  PROVE  /\ Common(d, slots) \in Bindings
         /\ Common(d, slots).key # NoKey => \E s \in Slots : Common(d, slots).key = d.bindings[s].key
<1>1. CASE slots # {} /\ \A s, r \in slots : d.bindings[s].model = d.bindings[r].model
  <2>1. (CHOOSE s \in slots : TRUE) \in slots
    BY <1>1
  <2> QED BY <1>1, <2>1 DEF Common, Documents
<1>2. CASE ~(slots # {} /\ \A s, r \in slots : d.bindings[s].model = d.bindings[r].model)
  <2>1. Common(d, slots) = Inherit
    BY <1>2 DEF Common
  <2> QED BY <2>1, PlainBindings DEF Inherit
<1> QED BY <1>1, <1>2

LEMMA WithGlobalDoc ==
  ASSUME NEW d \in Documents, NEW envs \in SUBSET Envs, NEW extras \in SUBSET Slots
  PROVE  /\ WithGlobal(d, envs, extras) \in Documents
         /\ RefsOf(WithGlobal(d, envs, extras)) \subseteq RefsOf(d)
         /\ WithGlobal(d, envs, extras).base = d.base
         /\ WithGlobal(d, envs, extras).bindings = d.bindings
<1> DEFINE slots == SlotsOf(envs, extras)
           w == WithGlobal(d, envs, extras)
<1>1. CASE envs = {}
  BY <1>1 DEF WithGlobal
<1>2. CASE envs # {}
  <2>1. slots \subseteq Slots
    BY Contexts
  <2>2. w = [d EXCEPT !.global = Common(d, slots)]
    BY <1>2 DEF WithGlobal
  <2>3. /\ Common(d, slots) \in Bindings
        /\ Common(d, slots).key # NoKey => \E s \in Slots : Common(d, slots).key = d.bindings[s].key
    BY <2>1, CommonType
  <2> HIDE DEF slots, w
  <2>4. w \in Documents /\ w.base = d.base /\ w.bindings = d.bindings /\ w.global = Common(d, slots)
    BY <2>2, <2>3 DEF Documents
  <2>5. ASSUME NEW k \in RefsOf(w) PROVE k \in RefsOf(d)
    BY <2>3, <2>4, RefsOfBindings
  <2> QED BY <2>4, <2>5 DEF w
<1> QED BY <1>1, <1>2

LEMMA BindToDoc ==
  ASSUME NEW d \in Documents, NEW binding \in Bindings, NEW slots
  PROVE  /\ BindTo(d, binding, slots) \in Documents
         /\ RefsOf(BindTo(d, binding, slots)) \subseteq RefsOf(d) \cup ({binding.key} \ {NoKey})
         /\ BindTo(d, binding, slots).base = d.base
<1> DEFINE t == BindTo(d, binding, slots)
<1>1. t \in Documents /\ t.base = d.base /\ t.global = d.global
  BY DEF BindTo, Documents, Values
<1>2. \A s \in Slots : t.bindings[s] = IF s \in slots THEN binding ELSE d.bindings[s]
  BY DEF BindTo, Documents
<1> HIDE DEF t
<1>3. ASSUME NEW k \in RefsOf(t) PROVE k \in RefsOf(d) \cup ({binding.key} \ {NoKey})
  BY <1>1, <1>2, RefsOfBindings
<1> QED BY <1>1, <1>3 DEF t

LEMMA WithExtrasDoc ==
  ASSUME NEW d \in Documents, NEW names \in SUBSET Slots
  PROVE  /\ WithExtras(d, names) \in Documents
         /\ RefsOf(WithExtras(d, names)) \subseteq RefsOf(d)
         /\ WithExtras(d, names).base = d.base
<1> DEFINE fresh == names \ d.extras
           next == [d EXCEPT !.extras = @ \cup fresh]
<1>1. next \in Documents /\ RefsOf(next) = RefsOf(d) /\ next.base = d.base
  BY DEF Documents, RefsOf
<1>2. d.global \in Bindings /\ ({d.global.key} \ {NoKey}) \subseteq RefsOf(d)
  BY DEF Documents, RefsOf
<1>3. WithExtras(d, names) = IF Bound(d.global) THEN BindTo(next, d.global, fresh) ELSE next
  BY DEF WithExtras
<1> HIDE DEF next, fresh
<1>4. /\ BindTo(next, d.global, fresh) \in Documents
      /\ RefsOf(BindTo(next, d.global, fresh)) \subseteq RefsOf(next) \cup ({d.global.key} \ {NoKey})
      /\ BindTo(next, d.global, fresh).base = next.base
  BY <1>1, <1>2, BindToDoc
<1> QED BY <1>1, <1>2, <1>3, <1>4

LEMMA PrunedDocDoc ==
  ASSUME NEW d \in Documents, NEW envs \in SUBSET Envs, NEW extras \in SUBSET Slots
  PROVE  /\ PrunedDoc(d, envs, extras) \in Documents
         /\ RefsOf(PrunedDoc(d, envs, extras)) \subseteq RefsOf(d)
         /\ PrunedDoc(d, envs, extras).base = d.base
<1> DEFINE p == PrunedDoc(d, envs, extras)
           slots == SlotsOf(envs, extras)
<1>1. p \in Documents /\ p.base = d.base /\ p.global = d.global
  BY PlainBindings DEF PrunedDoc, Documents, Values
<1>2. \A s \in Slots : p.bindings[s] = IF s \in slots THEN d.bindings[s] ELSE Inherit
  BY DEF PrunedDoc, Documents
<1> HIDE DEF p
<1>3. ASSUME NEW k \in RefsOf(p) PROVE k \in RefsOf(d)
  BY <1>1, <1>2, RefsOfBindings DEF Inherit
<1> QED BY <1>1, <1>3 DEF p

LEMMA LaidDoc ==
  ASSUME NEW d \in Documents, NEW binds, NEW sets, NEW envs \in SUBSET Envs, NEW extras \in SUBSET Slots
  PROVE  /\ Laid(d, binds, sets, envs, extras) \in Documents
         /\ RefsOf(Laid(d, binds, sets, envs, extras)) \subseteq RefsOf(d)
<1> DEFINE slots == SlotsOf(envs, extras)
           baseBindings == BaseBindings(binds, envs, extras)
           baseValues == BaseValues(sets, baseBindings, envs)
           bindings == [s \in Slots |->
             IF s \in slots /\ d.bindings[s].model # d.baseBindings[s].model
             THEN d.bindings[s] ELSE baseBindings[s]]
           values == [s \in Slots |->
             IF s \in FieldsOf(envs) /\ d.values[s] # d.baseValues[s]
             THEN d.values[s] ELSE baseValues[s]]
           m == [d EXCEPT !.baseBindings = baseBindings, !.baseValues = baseValues,
                          !.bindings = bindings, !.values = Stripped(values, bindings, slots)]
<1>1. /\ baseBindings \in [Slots -> BaseBound]
      /\ \A s \in Slots : baseBindings[s].key = NoKey
  BY PlainBindings DEF BaseBindings, BaseBound
<1>2. baseValues \in [Slots -> Values]
  BY DEF BaseValues, Values
<1>3. /\ bindings \in [Slots -> Bindings]
      /\ \A s \in Slots : bindings[s].key \in {d.bindings[s].key, NoKey}
  <2> HIDE DEF baseBindings
  <2> QED BY <1>1, PlainBindings DEF Documents
<1>4. Stripped(values, bindings, slots) \in [Slots -> Values]
  <2> HIDE DEF baseValues, bindings
  <2>1. values \in [Slots -> Values]
    BY <1>2 DEF Documents
  <2> QED BY <2>1 DEF Stripped, Values
<1>5. Laid(d, binds, sets, envs, extras) = WithGlobal(m, envs, extras)
  BY DEF Laid
<1> HIDE DEF baseBindings, baseValues, bindings, values
<1>6. m \in Documents /\ m.global = d.global /\ m.bindings = bindings
  BY <1>1, <1>2, <1>3, <1>4 DEF Documents
<1> HIDE DEF m
<1>7. ASSUME NEW k \in RefsOf(m) PROVE k \in RefsOf(d)
  BY <1>3, <1>6, RefsOfBindings
<1> QED BY <1>5, <1>6, <1>7, WithGlobalDoc

-----------------------------------------------------------------------------
(* What the two ways to forget keys keep. *)
LEMMA PruneKeeps ==
  ASSUME Inv, NEW d, RefsOf(d) \subseteq RefsOf(doc), PruneKeys(d),
         RefsOf(doc') \subseteq RefsOf(d), given' = given, apply' = apply
  PROVE  KeysInv' /\ store' \subseteq 1..given'
<1>1. /\ store' = store \cap RefsOf(d)
      /\ late' = late \cup (({apply.binding.key} \cap store) \ RefsOf(d))
  BY DEF PruneKeys
<1>2. KeysKept'
  BY <1>1 DEF Inv, KeysInv, KeysKept, RefsOf
<1>3. (apply.at # "none" => apply.binding.key \in {NoKey} \cup store \cup late)'
  BY <1>1 DEF Inv, KeysInv
<1> QED BY <1>1, <1>2, <1>3 DEF Inv, Types, KeysInv

LEMMA ReplaceKeeps ==
  ASSUME Inv, NEW d \in Documents, NEW k \in 0..MaxKeys, Key(k), Replace(d, k),
         RefsOf(d) \subseteq RefsOf(doc) \cup ({k} \ {NoKey}),
         d.base = doc.base, UNCHANGED flows
  PROVE  Inv'
<1>1. doc' = d /\ sync' = sync /\ load' = load /\ apply' = apply
  BY DEF Replace, flows
<1>2. Put(k) = (IF k > given THEN {k} ELSE {}) /\ given' = (IF k > given THEN k ELSE given)
  BY DEF Replace, Given, Put
<1>3. /\ store' = (store \cup Put(k)) \cap RefsOf(d)
      /\ late' = late \cup (({apply.binding.key} \cap store) \ RefsOf(d))
  BY DEF Replace
<1>4. given \in 0..MaxKeys /\ MaxKeys \in Nat /\ store \subseteq 1..given
  BY BoundsAssumption DEF Inv, Types
<1>5. given' \in 0..MaxKeys /\ store' \subseteq 1..given'
  <2>1. k \in Nat /\ k <= MaxKeys
    BY <1>4
  <2>2. CASE k > given
    <3>1. given' = k /\ store' \subseteq store \cup {k}
      BY <1>2, <1>3, <2>2
    <3>2. 1..given \subseteq 1..k /\ k \in 1..k
      BY <1>4, <2>1, <2>2
    <3> QED BY <1>4, <3>1, <3>2
  <2>3. CASE ~(k > given)
    BY <1>2, <1>3, <1>4, <2>3
  <2> QED BY <2>2, <2>3
<1>6. k \in {NoKey} \cup RefsOf(doc) \cup Put(k)
  <2>1. CASE k \in {NoKey, doc.global.key}
    BY <2>1 DEF RefsOf
  <2>2. CASE k = given + 1
    BY <1>2, <1>4, <2>2
  <2> QED BY <2>1, <2>2 DEF Key
<1>7. RefsOf(d) \subseteq store' \cup late'
  BY <1>3, <1>6 DEF Inv, KeysInv, KeysKept
<1>8. (apply.at # "none" => apply.binding.key \in {NoKey} \cup store \cup late)'
  BY <1>1, <1>3 DEF Inv, KeysInv
<1>9. Types'
  BY <1>1, <1>5 DEF Inv, Types, Flows
<1> QED BY <1>1, <1>7, <1>8, <1>9 DEF Inv, KeysInv, KeysKept

-----------------------------------------------------------------------------
(* The initial state, and one lemma for each action. *)
LEMMA InitInv == Init => Inv
<1> SUFFICES ASSUME Init PROVE Inv
  OBVIOUS
<1>1. Flows
  BY PlainBindings DEF Init, Flows, NoSync, NoLoad, NoApply
<1>2. doc \in Documents
  BY PlainBindings DEF Init, Documents, BaseInfos, Values
<1>3. RefsOf(doc) = {}
  BY DEF Init, RefsOf, Inherit
<1>4. doc.base.at = "loaded" /\ load.at = "none" /\ apply.at = "none"
  BY DEF Init, NoLoad, NoApply
<1>5. given \in 0..MaxKeys /\ store \subseteq 1..given
  BY BoundsAssumption DEF Init
<1> QED BY <1>1, <1>2, <1>3, <1>4, <1>5 DEF Inv, Types, KeysInv, KeysKept

LEMMA ToggleInv == ASSUME Inv, NEW e \in Envs, Toggle(e) PROVE Inv'
<1>1. /\ doc' \in Documents /\ doc'.base = doc.base /\ RefsOf(doc') = RefsOf(doc)
      /\ sync' = sync \/ sync' = SyncOf(doc')
  BY DEF Toggle, Inv, Types, Documents, RefsOf
<1>2. UNCHANGED <<store, given, load, apply, late>>
  BY DEF Toggle
<1>3. SyncOf(doc') \in [at : {"none", "context", "presets"}, envs : SUBSET Envs,
                       extras : SUBSET Slots, env : Envs \cup {NoEnv}]
      /\ SyncOf(doc').at = "context"
  BY <1>1 DEF SyncOf, Documents
<1>4. Flows'
  BY <1>1, <1>2, <1>3 DEF Inv, Types, Flows
<1> QED BY <1>1, <1>2, <1>4 DEF Inv, Types, KeysInv, KeysKept

LEMMA SyncLandsInv == ASSUME Inv, SyncLands PROVE Inv'
<1> DEFINE pruned == PrunedDoc(doc, sync.envs, sync.extras)
<1>1. sync.envs \in SUBSET Envs /\ sync.extras \in SUBSET Slots /\ doc \in Documents
  BY DEF Inv, Types, Flows
<1>2. pruned \in Documents /\ RefsOf(pruned) \subseteq RefsOf(doc) /\ pruned.base = doc.base
  BY <1>1, PrunedDocDoc
<1>3. doc' = WithGlobal(pruned, sync.envs, sync.extras) /\ PruneKeys(pruned)
  BY DEF SyncLands
<1>4. UNCHANGED <<given, load, apply>>
  BY DEF SyncLands
<1> HIDE DEF pruned
<1>5. doc' \in Documents /\ RefsOf(doc') \subseteq RefsOf(pruned) /\ doc'.base = doc.base
  BY <1>1, <1>2, <1>3, WithGlobalDoc
<1>6. KeysInv' /\ store' \subseteq 1..given'
  BY <1>2, <1>3, <1>4, <1>5, PruneKeeps
<1>7. BaseEnvOf(doc.envs) \subseteq Envs
  BY <1>1 DEF BaseEnvOf, PickedFrom, Documents
<1>8. \/ sync' = NoSync
      \/ \E env \in BaseEnvOf(doc.envs) : sync' = [sync EXCEPT !.at = "presets", !.env = env]
  BY DEF SyncLands
<1>9. Flows'
  <2>1. Flows
    BY DEF Inv, Types
  <2>2. CASE sync' = NoSync
    BY <1>4, <2>1, <2>2 DEF Flows, NoSync
  <2>3. ASSUME NEW env \in Envs, sync' = [sync EXCEPT !.at = "presets", !.env = env]
        PROVE  Flows'
    BY <1>4, <2>1, <2>3 DEF Flows
  <2> QED BY <1>7, <1>8, <2>2, <2>3
<1> QED BY <1>4, <1>5, <1>6, <1>9 DEF Inv, Types

LEMMA StartLoadInv ==
  ASSUME Inv, NEW kind \in {"default", "scratch"}, NEW env \in Envs, StartLoad(kind, env),
         sync' = sync \/ sync' = NoSync, UNCHANGED <<store, given, apply, late>>
  PROVE  Inv'
<1>1. doc \in Documents /\ Flows
  BY DEF Inv, Types
<1>2. doc' = [doc EXCEPT !.base = [kind |-> kind, env |-> env, at |-> "loading"]]
  BY DEF StartLoad
<1>3. /\ doc' \in Documents /\ doc'.base.at = "loading" /\ RefsOf(doc') = RefsOf(doc)
  BY <1>1, <1>2 DEF Documents, BaseInfos, RefsOf
<1>4. Flows' /\ load'.at = "loading"
  BY <1>1 DEF StartLoad, Flows, NoSync, Documents
<1> QED BY <1>3, <1>4 DEF Inv, Types, KeysInv, KeysKept

LEMMA SyncPicksInv == ASSUME Inv, SyncPicks PROVE Inv'
<1> DEFINE wanted == IF touched THEN doc.base.kind ELSE "default"
           kind == IF sync.env \in Official THEN wanted ELSE "scratch"
<1>1. sync.env \in Envs /\ kind \in {"default", "scratch"}
  BY DEF SyncPicks, Inv, Types, Flows, Documents, BaseInfos
<1>2. sync' = NoSync /\ UNCHANGED <<store, given, apply, late>>
  BY DEF SyncPicks, history
<1>3. StartLoad(kind, sync.env) \/ UNCHANGED <<doc, baseKey, load>>
  BY DEF SyncPicks
<1>4. CASE UNCHANGED <<doc, baseKey, load>>
  BY <1>2, <1>4 DEF Inv, Types, Flows, NoSync, KeysInv, KeysKept
<1> HIDE DEF kind
<1> QED BY <1>1, <1>2, <1>3, <1>4, StartLoadInv

LEMMA ChooseBaseInv ==
  ASSUME Inv, NEW kind \in {"default", "scratch"}, NEW env \in Envs, ChooseBase(kind, env)
  PROVE  Inv'
<1>1. UNCHANGED <<store, given, sync, apply, late>> /\ (StartLoad(kind, env) \/ UNCHANGED <<doc, load>>)
  BY DEF ChooseBase, history
<1>2. CASE StartLoad(kind, env)
  BY <1>1, <1>2, StartLoadInv
<1>3. CASE UNCHANGED <<doc, load>>
  BY <1>1, <1>3 DEF Inv, Types, Flows, KeysInv, KeysKept
<1> QED BY <1>1, <1>2, <1>3

LEMMA DialogInv == ASSUME Inv, ChoiceType, Confirm \/ Decline PROVE Inv'
<1>1. CASE Confirm
  <2>1. choice.kind \in {"default", "scratch"} /\ choice.env \in Envs
    BY <1>1 DEF Confirm, ChoiceType
  <2>2. StartLoad(choice.kind, choice.env) /\ UNCHANGED <<store, given, sync, apply, late>>
    BY <1>1 DEF Confirm, history
  <2> QED BY <2>1, <2>2, StartLoadInv
<1>2. CASE Decline
  BY <1>2 DEF Decline, history, Inv, Types, Flows, KeysInv, KeysKept
<1> QED BY <1>1, <1>2

LEMMA BaseLandsInv == ASSUME Inv, NEW found \in BOOLEAN, BaseLands(found) PROVE Inv'
<1> DEFINE preset == found /\ load.kind = "default"
           binds == IF preset THEN Binds[load.env] ELSE {}
           sets == IF preset THEN Sets[load.env] ELSE {}
           asked == binds \ SlotsOf(load.envs, {})
           extras == load.extras \cup asked
           added == asked \cap SlotsOf(load.envs, extras)
           next == Laid(WithExtras(doc, added), binds, sets, load.envs, extras)
           base == [kind |-> load.kind, at |-> IF found THEN "loaded" ELSE "failed",
                    env |-> IF load.kind = "default" THEN load.env ELSE NoEnv]
<1>1. /\ doc \in Documents /\ load.envs \in SUBSET Envs /\ load.extras \in SUBSET Slots
      /\ load.kind \in {"default", "scratch"} /\ load.env \in Envs
  BY DEF BaseLands, Inv, Types, Flows
<1>2. binds \subseteq Slots
  BY <1>1, EnvsAssumption
<1>3. doc' = [next EXCEPT !.base = base] /\ PruneKeys(next) /\ load' = NoLoad
  BY DEF BaseLands
<1>4. UNCHANGED <<given, sync, apply>>
  BY DEF BaseLands
<1>5. base \in BaseInfos /\ base.at # "loading"
  BY <1>1 DEF BaseInfos
<1> HIDE DEF binds, sets, base
<1>6. extras \in SUBSET Slots /\ added \in SUBSET Slots
  BY <1>1, <1>2
<1> HIDE DEF added, extras
<1>7. /\ WithExtras(doc, added) \in Documents
      /\ RefsOf(WithExtras(doc, added)) \subseteq RefsOf(doc)
  BY <1>1, <1>6, WithExtrasDoc
<1>8. next \in Documents /\ RefsOf(next) \subseteq RefsOf(doc)
  BY <1>1, <1>6, <1>7, LaidDoc
<1> HIDE DEF next
<1>9. /\ doc' \in Documents /\ RefsOf(doc') = RefsOf(next) /\ doc'.base = base
  BY <1>3, <1>5, <1>8 DEF Documents, RefsOf
<1>10. KeysInv' /\ store' \subseteq 1..given'
  BY <1>3, <1>4, <1>8, <1>9, PruneKeeps
<1>11. Flows' /\ load'.at = "none"
  BY <1>3, <1>4 DEF Inv, Types, Flows, NoLoad
<1> QED BY <1>4, <1>5, <1>9, <1>10, <1>11 DEF Inv, Types

LEMMA BaseThrowsInv == ASSUME Inv, BaseThrows PROVE Inv'
<1>1. doc' = [doc EXCEPT !.base.at = "failed"] /\ load' = NoLoad
  BY DEF BaseThrows
<1>2. UNCHANGED <<store, given, sync, apply, late>>
  BY DEF BaseThrows, history
<1>3. doc' \in Documents /\ RefsOf(doc') = RefsOf(doc) /\ doc'.base.at = "failed"
  BY <1>1 DEF Inv, Types, Documents, BaseInfos, RefsOf
<1>4. Flows' /\ load'.at = "none"
  BY <1>1, <1>2 DEF Inv, Types, Flows, NoLoad
<1> QED BY <1>2, <1>3, <1>4 DEF Inv, Types, KeysInv, KeysKept

LEMMA SchemaChangedInv == ASSUME Inv, SchemaChanged PROVE Inv'
<1>1. sync' = SyncOf(doc) /\ UNCHANGED <<doc, store, given, load, apply, late>>
  BY DEF SchemaChanged, history
<1>2. Flows'
  BY <1>1 DEF SyncOf, Inv, Types, Flows, Documents
<1> QED BY <1>1, <1>2 DEF Inv, Types, KeysInv, KeysKept

LEMMA SetValueInv ==
  ASSUME Inv, NEW s \in Slots, NEW value \in {"unset", "typed"}, SetValue(s, value)
  PROVE  Inv'
<1>1. doc' = [doc EXCEPT !.values[s] = value] /\ UNCHANGED <<store, given, sync, load, apply, late>>
  BY DEF SetValue, flows
<1>2. doc' \in Documents /\ RefsOf(doc') = RefsOf(doc) /\ doc'.base = doc.base
  BY <1>1 DEF Inv, Types, Documents, Values, RefsOf
<1> QED BY <1>1, <1>2 DEF Inv, Types, Flows, KeysInv, KeysKept

LEMMA SetBindingInv ==
  ASSUME Inv, NEW s \in Slots, NEW binding \in Bindings, SetBinding(s, binding)
  PROVE  Inv'
<1> DEFINE d == IF Bound(binding) THEN BindTo(doc, binding, {s})
                ELSE [doc EXCEPT !.bindings[s] = Inherit]
<1>1. Replace(d, binding.key) /\ Key(binding.key) /\ UNCHANGED flows
  BY DEF SetBinding
<1>2. doc \in Documents /\ binding.key \in 0..MaxKeys
  BY DEF Inv, Types, Bindings
<1>3. /\ d \in Documents /\ d.base = doc.base
      /\ RefsOf(d) \subseteq RefsOf(doc) \cup ({binding.key} \ {NoKey})
  <2>1. CASE Bound(binding)
    BY <1>2, <2>1, BindToDoc
  <2>2. CASE ~Bound(binding)
    <3>1. d = [doc EXCEPT !.bindings[s] = Inherit]
      BY <2>2
    <3> HIDE DEF d
    <3>2. d \in Documents /\ d.base = doc.base /\ d.global = doc.global
      BY <1>2, <3>1, PlainBindings DEF Documents
    <3>3. \A r \in Slots : d.bindings[r].key \in {doc.bindings[r].key, NoKey}
      BY <1>2, <3>1 DEF Documents, Inherit
    <3>4. ASSUME NEW k \in RefsOf(d) PROVE k \in RefsOf(doc)
      BY <1>2, <3>2, <3>3, RefsOfBindings
    <3> QED BY <3>2, <3>4
  <2> QED BY <2>1, <2>2
<1> HIDE DEF d
<1> QED BY <1>1, <1>2, <1>3, ReplaceKeeps

LEMMA ReenterKeyInv == ASSUME Inv, NEW s \in Slots, ReenterKey(s) PROVE Inv'
<1> DEFINE follows(r) == r \in Shown /\ doc.bindings[r].model = doc.global.model
           slots == {s} \cup {r \in Slots : follows(s) /\ follows(r)}
<1>1. /\ given < MaxKeys /\ given \in 0..MaxKeys /\ MaxKeys \in Nat
      /\ store' = store \cup {given + 1}
  BY BoundsAssumption DEF ReenterKey, Inv, Types
<1>2. given' = given + 1
  BY <1>1 DEF ReenterKey, Given
<1>3. given' \in 0..MaxKeys /\ store' \subseteq 1..given'
  <2>1. 1..given \subseteq 1..(given + 1) /\ given + 1 \in 1..(given + 1) /\ given + 1 \in 0..MaxKeys
    BY <1>1
  <2> QED BY <1>1, <1>2, <2>1 DEF Inv, Types
<1>4. doc' = [doc EXCEPT !.bindings = [r \in Slots |-> IF r \in slots THEN [@[r] EXCEPT !.key = given + 1] ELSE @[r]],
                         !.global.key = IF follows(s) THEN given + 1 ELSE @]
  BY DEF ReenterKey
<1>5. doc \in Documents /\ given + 1 \in 0..MaxKeys
  BY <1>1 DEF Inv, Types
<1> HIDE DEF follows, slots
<1>6. /\ doc' \in Documents /\ doc'.base = doc.base
      /\ doc'.global.key \in {doc.global.key, given + 1}
      /\ \A r \in Slots : doc'.bindings[r].key \in {doc.bindings[r].key, given + 1}
  BY <1>4, <1>5 DEF Documents, Bindings
<1>7. ASSUME NEW k \in RefsOf(doc') PROVE k \in RefsOf(doc) \cup {given + 1}
  BY <1>5, <1>6, RefsOfBindings
<1>8. UNCHANGED <<sync, load, apply, late>>
  BY DEF ReenterKey, flows
<1> QED BY <1>1, <1>3, <1>6, <1>7, <1>8 DEF Inv, Types, Flows, KeysInv, KeysKept
LEMMA RemoveExtraInv == ASSUME Inv, NEW s \in Slots, RemoveExtra(s) PROVE Inv'
<1> DEFINE d == [doc EXCEPT !.extras = @ \ {s}, !.bindings[s] = Inherit]
<1>1. Replace(d, NoKey) /\ UNCHANGED flows
  BY DEF RemoveExtra
<1>2. doc \in Documents
  BY DEF Inv, Types
<1>3. /\ d \in Documents /\ d.base = doc.base /\ d.global = doc.global
      /\ \A r \in Slots : d.bindings[r].key \in {doc.bindings[r].key, NoKey}
  BY <1>2, PlainBindings DEF Documents, Inherit
<1> HIDE DEF d
<1>4. ASSUME NEW k \in RefsOf(d) PROVE k \in RefsOf(doc)
  BY <1>2, <1>3, RefsOfBindings
<1>5. NoKey \in 0..MaxKeys /\ Key(NoKey)
  BY BoundsAssumption DEF NoKey, Key
<1> QED BY <1>1, <1>3, <1>4, <1>5, ReplaceKeeps

(* A base has no keys, so what is undone refers to none. *)
LEMMA ResetAllInv == ASSUME Inv, ResetAll PROVE Inv'
<1> DEFINE kept(s) == doc.bindings[s].model = doc.baseBindings[s].model
           back == [doc EXCEPT !.values = doc.baseValues,
                               !.bindings = [s \in Slots |-> IF kept(s) THEN @[s] ELSE doc.baseBindings[s]]]
           d == WithGlobal(back, doc.envs, doc.extras)
<1>1. Replace(d, NoKey) /\ UNCHANGED flows
  BY DEF ResetAll
<1>2. doc \in Documents /\ doc.envs \in SUBSET Envs /\ doc.extras \in SUBSET Slots
  BY DEF Inv, Types, Documents
<1>3. /\ back \in Documents /\ back.base = doc.base /\ back.global = doc.global
      /\ \A s \in Slots : back.bindings[s].key \in {doc.bindings[s].key, NoKey}
  BY <1>2, PlainBindings DEF Documents, BaseBound
<1> HIDE DEF back
<1>4. ASSUME NEW k \in RefsOf(back) PROVE k \in RefsOf(doc)
  BY <1>2, <1>3, RefsOfBindings
<1>5. d \in Documents /\ RefsOf(d) \subseteq RefsOf(back) /\ d.base = back.base
  BY <1>2, <1>3, WithGlobalDoc
<1> HIDE DEF d
<1>6. NoKey \in 0..MaxKeys /\ Key(NoKey)
  BY BoundsAssumption DEF NoKey, Key
<1> QED BY <1>1, <1>3, <1>4, <1>5, <1>6, ReplaceKeeps

(* The document with a global model refers to its key besides. *)
LEMMA GlobalDocDoc ==
  ASSUME doc \in Documents, NEW binding \in Bindings, NEW slots
  PROVE  /\ GlobalDoc(binding, slots) \in Documents /\ GlobalDoc(binding, slots).base = doc.base
         /\ RefsOf(GlobalDoc(binding, slots)) \subseteq RefsOf(doc) \cup ({binding.key} \ {NoKey})
<1> DEFINE next == [doc EXCEPT !.global = binding]
<1>1. /\ next \in Documents /\ next.base = doc.base
      /\ next.global = binding /\ next.bindings = doc.bindings
  BY DEF Documents
<1>2. GlobalDoc(binding, slots) = IF Bound(binding) THEN BindTo(next, binding, slots) ELSE next
  BY DEF GlobalDoc
<1> HIDE DEF next
<1>3. ASSUME NEW k \in RefsOf(next) PROVE k \in RefsOf(doc) \cup ({binding.key} \ {NoKey})
  BY <1>1, RefsOfBindings
<1>4. /\ BindTo(next, binding, slots) \in Documents
      /\ RefsOf(BindTo(next, binding, slots)) \subseteq RefsOf(next) \cup ({binding.key} \ {NoKey})
      /\ BindTo(next, binding, slots).base = next.base
  BY <1>1, BindToDoc
<1> QED BY <1>1, <1>2, <1>3, <1>4

LEMMA SetGlobalInv == ASSUME Inv, NEW binding \in Bindings, SetGlobal(binding) PROVE Inv'
<1>1. Replace(GlobalDoc(binding, Shown), binding.key) /\ Key(binding.key) /\ UNCHANGED flows
  BY DEF SetGlobal
<1>2. doc \in Documents /\ binding.key \in 0..MaxKeys
  BY DEF Inv, Types, Bindings
<1> QED BY <1>1, <1>2, GlobalDocDoc, ReplaceKeeps

(* An apply that starts to wait has the type of one. *)
LEMMA ProposalsType ==
  ASSUME doc \in Documents, NEW binding \in Bindings, NEW names \in SUBSET Slots
  PROVE  Proposals(binding, names) \in
           [at : {"none", "proposals", "ready"}, binding : Bindings, names : SUBSET Slots,
            envs : SUBSET Envs, extras : SUBSET Slots]
BY DEF Proposals, Documents

LEMMA AddEndpointInv == ASSUME Inv, NEW s \in Slots, AddEndpoint(s) PROVE Inv'
<1>1. apply' = Proposals(Inherit, {s}) /\ UNCHANGED <<doc, store, given, sync, load, late>>
  BY DEF AddEndpoint, history
<1>2. Flows'
  BY <1>1, PlainBindings, ProposalsType DEF Inv, Types, Flows
<1>3. apply'.binding.key = NoKey
  BY <1>1 DEF Proposals, Inherit
<1> QED BY <1>1, <1>2, <1>3 DEF Inv, Types, KeysInv, KeysKept

LEMMA AwaitSlotsInv == ASSUME Inv, NEW binding \in Bindings, AwaitSlots(binding) PROVE Inv'
<1> DEFINE k == binding.key
<1>1. /\ apply' = Proposals(binding, Raw) /\ Key(k) /\ store' = store \cup Put(k)
      /\ given' = (IF k > given THEN k ELSE given) /\ UNCHANGED <<doc, sync, load, late>>
  BY DEF AwaitSlots, Given, history
<1>2. k \in 0..MaxKeys /\ given \in 0..MaxKeys /\ MaxKeys \in Nat /\ store \subseteq 1..given
  BY BoundsAssumption DEF Inv, Types, Bindings
<1> HIDE DEF k
<1>5. given' \in 0..MaxKeys /\ store' \subseteq 1..given'
  <2>1. CASE k > given
    <3>1. 1..given \subseteq 1..k /\ k \in 1..k
      BY <1>2, <2>1
    <3> QED BY <1>1, <1>2, <2>1, <3>1 DEF Put
  <2>2. CASE ~(k > given)
    BY <1>1, <1>2, <2>2 DEF Put
  <2> QED BY <2>1, <2>2
<1>6. k \in {NoKey} \cup RefsOf(doc) \cup Put(k)
  <2>1. CASE k \in {NoKey, doc.global.key}
    BY <2>1 DEF RefsOf
  <2>2. CASE k = given + 1
    BY <1>2, <2>2 DEF Put
  <2> QED BY <1>1, <2>1, <2>2 DEF Key
<1>7. Raw \in SUBSET Slots
  BY DEF Raw
<1>8. Flows'
  BY <1>1, <1>7, ProposalsType DEF Inv, Types, Flows
<1>9. apply'.binding.key = k
  BY <1>1 DEF Proposals, k
<1> QED BY <1>1, <1>5, <1>6, <1>8, <1>9 DEF Inv, Types, KeysInv, KeysKept

LEMMA SlotsLandInv == ASSUME Inv, SlotsLand PROVE Inv'
<1> DEFINE added == apply.names \cap SlotsOf(apply.envs, apply.extras \cup apply.names)
<1>1. /\ doc' = WithExtras(doc, added)
      /\ apply' = IF Bound(apply.binding) THEN [apply EXCEPT !.at = "ready"] ELSE NoApply
  BY DEF SlotsLand
<1>2. UNCHANGED <<store, given, sync, load, late>>
  BY DEF SlotsLand
<1>3. doc \in Documents /\ added \in SUBSET Slots
  BY DEF Inv, Types, Flows
<1> HIDE DEF added
<1>4. doc' \in Documents /\ RefsOf(doc') \subseteq RefsOf(doc) /\ doc'.base = doc.base
  BY <1>1, <1>3, WithExtrasDoc
<1>5. Flows'
  BY <1>1, <1>2, PlainBindings DEF Inv, Types, Flows, NoApply
<1>6. apply'.at = "none" \/ (apply'.binding = apply.binding /\ apply.at # "none")
  BY <1>1 DEF SlotsLand, NoApply, Inv, Types, Flows
<1> QED BY <1>2, <1>4, <1>5, <1>6 DEF Inv, Types, KeysInv, KeysKept

LEMMA ApplyGlobalInv == ASSUME Inv, ApplyGlobal PROVE Inv'
<1> PICK unseen \in SUBSET apply.names :
       /\ doc' = GlobalDoc(apply.binding, Shown \ unseen)
       /\ store' = store \cap RefsOf(GlobalDoc(apply.binding, Shown \ unseen))
  BY DEF ApplyGlobal
<1> DEFINE next == GlobalDoc(apply.binding, Shown \ unseen)
<1>1. /\ doc' = next /\ store' = store \cap RefsOf(next)
      /\ apply' = NoApply /\ apply.at = "ready"
  BY DEF ApplyGlobal
<1>2. UNCHANGED <<given, sync, load, late>>
  BY DEF ApplyGlobal
<1>3. doc \in Documents /\ apply.binding \in Bindings
  BY DEF Inv, Types, Flows
<1>4. /\ next \in Documents /\ next.base = doc.base
      /\ RefsOf(next) \subseteq RefsOf(doc) \cup ({apply.binding.key} \ {NoKey})
  BY <1>3, GlobalDocDoc
<1> HIDE DEF next
<1>5. RefsOf(doc') \subseteq store' \cup late'
  BY <1>1, <1>2, <1>4 DEF Inv, KeysInv, KeysKept
<1>6. Flows' /\ apply'.at = "none"
  BY <1>1, <1>2, PlainBindings DEF Inv, Types, Flows, NoApply
<1> QED BY <1>1, <1>2, <1>4, <1>5, <1>6 DEF Inv, Types, KeysInv, KeysKept

-----------------------------------------------------------------------------
(* No step of the form, of the user or of an answer, breaks the invariant. *)
LEMMA NextInv == ASSUME Inv, ChoiceType, [Next]_vars PROVE Inv'
<1>1. CASE UNCHANGED vars
  BY <1>1 DEF vars, flows, history, Inv, Types, Flows, KeysInv, KeysKept, RefsOf
<1>2. \A k \in 0..MaxKeys : Own(k) \in Bindings
  BY DEF Own, Bindings
<1>3. Inherit \in Bindings /\ doc.global \in Bindings
  BY PlainBindings DEF Inv, Types, Documents
<1>4. CASE SyncLands \/ SyncPicks \/ BaseThrows \/ SlotsLand \/ ApplyGlobal \/ SchemaChanged \/ ResetAll
           \/ Confirm \/ Decline
  BY <1>4, SyncLandsInv, SyncPicksInv, BaseThrowsInv, SlotsLandInv, ApplyGlobalInv,
     SchemaChangedInv, ResetAllInv, DialogInv
<1>5. ASSUME NEW found \in BOOLEAN, BaseLands(found) PROVE Inv'
  BY <1>5, BaseLandsInv
<1>6. ASSUME NEW e \in Envs, Toggle(e) PROVE Inv'
  BY <1>6, ToggleInv
<1>7. ASSUME NEW kind \in {"default", "scratch"}, NEW e \in Envs, ChooseBase(kind, e) PROVE Inv'
  BY <1>7, ChooseBaseInv
<1>8. ASSUME NEW s \in Slots,
             ReenterKey(s) \/ AddEndpoint(s) \/ RemoveExtra(s) \/ \E v \in {"unset", "typed"} : SetValue(s, v)
      PROVE  Inv'
  BY <1>8, ReenterKeyInv, AddEndpointInv, RemoveExtraInv, SetValueInv
<1>9. ASSUME NEW k \in 0..MaxKeys, NEW binding \in {Inherit, Own(k)}, SetGlobal(binding) \/ AwaitSlots(binding)
      PROVE  Inv'
  <2>1. binding \in Bindings
    BY <1>2, <1>3
  <2> QED BY <1>9, <2>1, SetGlobalInv, AwaitSlotsInv
<1>10. ASSUME NEW k \in 0..MaxKeys, NEW s \in Slots, NEW binding \in {Inherit, Own(k), doc.global},
              SetBinding(s, binding)
       PROVE  Inv'
  <2>1. binding \in Bindings
    BY <1>2, <1>3
  <2> QED BY <1>10, <2>1, SetBindingInv
<1> QED BY <1>1, <1>4, <1>5, <1>6, <1>7, <1>8, <1>9, <1>10 DEF Next

(* The dialog opens by a choice, and closes. *)
LEMMA NextChoice == ASSUME ChoiceType, [Next]_vars PROVE ChoiceType'
<1>1. CASE UNCHANGED vars
  BY <1>1 DEF vars, flows, ChoiceType
<1>2. ASSUME choice' = choice \/ choice' = NoChoice PROVE ChoiceType'
  BY <1>2 DEF ChoiceType, NoChoice
<1>3. CASE SyncLands \/ SyncPicks \/ BaseThrows \/ SlotsLand \/ ApplyGlobal \/ SchemaChanged \/ ResetAll
  BY <1>2, <1>3 DEF SyncLands, SyncPicks, BaseThrows, SlotsLand, ApplyGlobal, SchemaChanged, ResetAll, flows
<1>4. CASE Confirm \/ Decline
  BY <1>2, <1>4 DEF Confirm, Decline
<1>5. ASSUME NEW found \in BOOLEAN, BaseLands(found) PROVE ChoiceType'
  BY <1>2, <1>5 DEF BaseLands
<1>6. ASSUME NEW e \in Envs, Toggle(e) PROVE ChoiceType'
  BY <1>2, <1>6 DEF Toggle
<1>7. ASSUME NEW kind \in {"default", "scratch"}, NEW e \in Envs, ChooseBase(kind, e) PROVE ChoiceType'
  BY <1>2, <1>7 DEF ChooseBase, ChoiceType
<1>8. ASSUME NEW s \in Slots,
             ReenterKey(s) \/ AddEndpoint(s) \/ RemoveExtra(s) \/ \E v \in {"unset", "typed"} : SetValue(s, v)
      PROVE  ChoiceType'
  BY <1>2, <1>8 DEF ReenterKey, AddEndpoint, RemoveExtra, SetValue, flows
<1>9. ASSUME NEW binding, SetGlobal(binding) \/ AwaitSlots(binding) PROVE ChoiceType'
  BY <1>2, <1>9 DEF SetGlobal, AwaitSlots, flows
<1>10. ASSUME NEW s, NEW binding, SetBinding(s, binding) PROVE ChoiceType'
  BY <1>2, <1>10 DEF SetBinding, flows
<1> QED BY <1>1, <1>3, <1>4, <1>5, <1>6, <1>7, <1>8, <1>9, <1>10 DEF Next

LEMMA AlwaysChoice == Spec => []ChoiceType
<1>1. Init => ChoiceType
  BY DEF Init, ChoiceType
<1> QED BY <1>1, NextChoice, PTL DEF Spec

LEMMA AlwaysInv == Spec => []Inv
BY InitInv, NextInv, AlwaysChoice, PTL DEF Spec

(* Whatever the user does while syncs, bases and endpoints come, the form      *)
(* keeps its types, and a base shown as loading is being loaded.               *)
THEOREM TypesKept == Spec => []TypeOK
<1>1. Inv /\ ChoiceType => TypeOK
  <2> SUFFICES ASSUME Inv, ChoiceType PROVE TypeOK
    OBVIOUS
  <2>1. doc \in Documents /\ Flows /\ given \in 0..MaxKeys /\ MaxKeys \in Nat
    BY BoundsAssumption DEF Inv, Types
  <2>2. doc.base \in BaseInfos /\ doc.baseBindings \in [Slots -> Bindings]
    BY <2>1, PlainBindings DEF Documents
  <2>3. given <= MaxKeys
    BY <2>1
  <2>4. choice \in [kind : {"none", "default", "scratch"}, env : Envs \cup {NoEnv}]
    BY DEF ChoiceType, NoChoice
  <2> QED BY <2>1, <2>2, <2>3, <2>4 DEF Inv, Types, TypeOK, Documents, BaseInfos, Flows
<1> QED BY <1>1, AlwaysInv, AlwaysChoice, PTL

(* A key the document refers to is never forgotten, except while the global    *)
(* model it is for waits for its endpoints.                                    *)
THEOREM KeysAreKept == Spec => []KeysKept
<1>1. Inv => KeysKept
  BY DEF Inv, KeysInv
<1> QED BY <1>1, AlwaysInv, PTL

-----------------------------------------------------------------------------
(* What the operators leave of the values the user typed. *)

(* What makes EditsKept inductive: a value typed is one of a setting that is   *)
(* shown, a sync that prunes has the selection of the document, or the document*)
(* has none and so nothing typed, and no base holds what a user typed.         *)
EditInv ==
  /\ EditsKept
  /\ typed \subseteq Fields
  /\ sync.at = "context" => doc.envs \in {{}, sync.envs}
  /\ \A s \in Slots : doc.baseValues[s] # "typed"

LEMMA WithGlobalValues ==
  ASSUME NEW d \in Documents, NEW envs, NEW extras
  PROVE  /\ WithGlobal(d, envs, extras).values = d.values
         /\ WithGlobal(d, envs, extras).baseValues = d.baseValues
         /\ WithGlobal(d, envs, extras).envs = d.envs
         /\ WithGlobal(d, envs, extras).bindings = d.bindings
BY DEF WithGlobal, Documents

LEMMA BindToValues ==
  ASSUME NEW d \in Documents, NEW binding, NEW slots
  PROVE  /\ BindTo(d, binding, slots).envs = d.envs
         /\ BindTo(d, binding, slots).baseValues = d.baseValues
         /\ \A s \in Slots :
              /\ s \notin slots => BindTo(d, binding, slots).values[s] = d.values[s]
              /\ s \in slots => BindTo(d, binding, slots).bindings[s] = binding
BY DEF BindTo, Documents

LEMMA WithExtrasValues ==
  ASSUME NEW d \in Documents, NEW names \in SUBSET Slots
  PROVE  /\ WithExtras(d, names).envs = d.envs
         /\ WithExtras(d, names).baseValues = d.baseValues
         /\ \A s \in Slots :
              \/ WithExtras(d, names).values[s] = d.values[s]
              \/ /\ Bound(d.global) /\ s \in names \ d.extras
                 /\ Bound(WithExtras(d, names).bindings[s])
<1> DEFINE fresh == names \ d.extras
           next == [d EXCEPT !.extras = @ \cup fresh]
<1>1. /\ next \in Documents /\ next.envs = d.envs /\ next.baseValues = d.baseValues
      /\ next.values = d.values
  BY DEF Documents
<1>2. WithExtras(d, names) = IF Bound(d.global) THEN BindTo(next, d.global, fresh) ELSE next
  BY DEF WithExtras
<1> HIDE DEF next
<1>3. CASE Bound(d.global)
  <2>1. WithExtras(d, names) = BindTo(next, d.global, fresh)
    BY <1>2, <1>3
  <2>2. /\ BindTo(next, d.global, fresh).envs = next.envs
        /\ BindTo(next, d.global, fresh).baseValues = next.baseValues
        /\ \A s \in Slots :
              /\ s \notin fresh => BindTo(next, d.global, fresh).values[s] = next.values[s]
              /\ s \in fresh => BindTo(next, d.global, fresh).bindings[s] = d.global
    BY <1>1, BindToValues
  <2> QED BY <1>1, <1>3, <2>1, <2>2
<1>4. CASE ~Bound(d.global)
  BY <1>1, <1>2, <1>4
<1> QED BY <1>3, <1>4

(* next is d on another base: a value that was an edit is kept, unless its slot*)
(* is bound, and what binds is what the new base binds or what d did.          *)
Replayed(d, next, binds, envs, extras) ==
  /\ next.envs = d.envs
  /\ \A s \in Slots :
       /\ next.baseValues[s] # "typed"
       /\ \/ s \notin FieldsOf(envs) \/ d.values[s] = d.baseValues[s]
          \/ next.values[s] = d.values[s] \/ Bound(next.bindings[s])
       /\ s \in binds \cap SlotsOf(envs, extras) /\ Bound(d.bindings[s]) => Bound(next.bindings[s])

LEMMA LaidValues ==
  ASSUME NEW d \in Documents, NEW binds, NEW sets, NEW envs \in SUBSET Envs, NEW extras \in SUBSET Slots
  PROVE  Replayed(d, Laid(d, binds, sets, envs, extras), binds, envs, extras)
<1> DEFINE slots == SlotsOf(envs, extras)
           baseBindings == BaseBindings(binds, envs, extras)
           baseValues == BaseValues(sets, baseBindings, envs)
           bindings == [s \in Slots |->
             IF s \in slots /\ d.bindings[s].model # d.baseBindings[s].model
             THEN d.bindings[s] ELSE baseBindings[s]]
           values == [s \in Slots |->
             IF s \in FieldsOf(envs) /\ d.values[s] # d.baseValues[s]
             THEN d.values[s] ELSE baseValues[s]]
           m == [d EXCEPT !.baseBindings = baseBindings, !.baseValues = baseValues,
                          !.bindings = bindings, !.values = Stripped(values, bindings, slots)]
<1>1. /\ baseBindings \in [Slots -> BaseBound]
      /\ \A s \in Slots : s \in binds \cap slots => Bound(baseBindings[s])
  BY PlainBindings DEF BaseBindings, BaseBound, Bound, Keyless
<1>2. baseValues \in [Slots -> Values] /\ \A s \in Slots : baseValues[s] # "typed"
  BY DEF BaseValues, Values
<1> HIDE DEF baseBindings, baseValues
<1>3. bindings \in [Slots -> Bindings] /\ values \in [Slots -> Values]
  BY <1>1, <1>2, PlainBindings DEF Documents
<1>4. \A s \in Slots : /\ s \in binds \cap slots /\ Bound(d.bindings[s]) => Bound(bindings[s])
                       /\ \/ s \notin FieldsOf(envs) \/ d.values[s] = d.baseValues[s]
                          \/ values[s] = d.values[s]
  BY <1>1
<1>5. Laid(d, binds, sets, envs, extras) = WithGlobal(m, envs, extras)
  BY DEF Laid, baseBindings, baseValues
<1> HIDE DEF bindings, values
<1>6. /\ Stripped(values, bindings, slots) \in [Slots -> Values]
      /\ \A s \in Slots : Stripped(values, bindings, slots)[s] = values[s] \/ Bound(bindings[s])
  BY <1>3 DEF Stripped, Values
<1>7. /\ m \in Documents /\ m.envs = d.envs /\ m.baseValues = baseValues
      /\ m.bindings = bindings /\ m.values = Stripped(values, bindings, slots)
  BY <1>1, <1>2, <1>3, <1>6 DEF Documents
<1> HIDE DEF m
<1> QED BY <1>2, <1>4, <1>5, <1>6, <1>7, WithGlobalValues DEF Replayed

-----------------------------------------------------------------------------
(* The steps and the values typed. *)

(* A step that leaves the selection, the syncs and the base alone, and keeps   *)
(* the values that are still called typed.                                     *)
LEMMA EditStep ==
  ASSUME EditInv, sync' = sync, doc'.envs = doc.envs,
         \A s \in Slots : doc'.baseValues[s] # "typed",
         typed' \subseteq Fields,
         \A s \in typed' \ (missed' \cup stripped') : doc'.values[s] = "typed"
  PROVE  EditInv'
BY DEF EditInv, EditsKept, Fields

LEMMA ToggleEdits == ASSUME Inv, EditInv, NEW e \in Envs, Toggle(e) PROVE EditInv'
<1>1. /\ doc'.values = doc.values /\ doc'.baseValues = doc.baseValues
      /\ sync' = IF doc'.envs = {} THEN sync ELSE SyncOf(doc')
      /\ typed' = typed \cap FieldsOf(doc'.envs) /\ missed' = missed /\ stripped' = stripped
  BY DEF Toggle, Inv, Types, Documents
<1>2. sync'.at = "context" => doc'.envs \in {{}, sync'.envs}
  BY <1>1 DEF SyncOf
<1> QED BY <1>1, <1>2 DEF EditInv, EditsKept, Fields

LEMMA SyncLandsEdits == ASSUME Inv, EditInv, SyncLands PROVE EditInv'
<1> DEFINE pruned == PrunedDoc(doc, sync.envs, sync.extras)
<1>1. sync.envs \in SUBSET Envs /\ sync.extras \in SUBSET Slots /\ doc \in Documents
  BY DEF Inv, Types, Flows
<1>2. /\ pruned \in Documents /\ pruned.envs = doc.envs /\ pruned.baseValues = doc.baseValues
      /\ \A s \in Slots : s \in FieldsOf(sync.envs) => pruned.values[s] = doc.values[s]
  <2>1. pruned \in Documents
    BY <1>1, PrunedDocDoc
  <2> QED BY <1>1, <2>1 DEF PrunedDoc, Documents
<1>3. /\ doc' = WithGlobal(pruned, sync.envs, sync.extras)
      /\ typed' = typed /\ missed' = missed /\ stripped' = stripped
  BY DEF SyncLands
<1> HIDE DEF pruned
<1>4. doc'.values = pruned.values /\ doc'.baseValues = pruned.baseValues /\ doc'.envs = pruned.envs
  BY <1>2, <1>3, WithGlobalValues
<1>5. sync'.at # "context"
  <2>1. \/ sync' = NoSync
        \/ \E env : sync' = [sync EXCEPT !.at = "presets", !.env = env]
    BY DEF SyncLands
  <2>2. CASE sync' = NoSync
    BY <2>2 DEF NoSync
  <2>3. ASSUME NEW env, sync' = [sync EXCEPT !.at = "presets", !.env = env]
        PROVE  sync'.at # "context"
    BY <2>3 DEF Inv, Types, Flows
  <2> QED BY <2>1, <2>2, <2>3
<1>6. typed \subseteq FieldsOf(sync.envs) /\ typed \subseteq Slots
  <2>1. doc.envs \in {{}, sync.envs} /\ FieldsOf({}) = {}
    BY DEF SyncLands, EditInv, FieldsOf
  <2>2. typed \subseteq FieldsOf(doc.envs) /\ FieldsOf(sync.envs) \subseteq Slots
    BY <1>1, Contexts DEF EditInv, Fields
  <2> QED BY <2>1, <2>2
<1> QED BY <1>2, <1>3, <1>4, <1>5, <1>6 DEF EditInv, EditsKept, Fields

LEMMA StartLoadEdits ==
  ASSUME Inv, EditInv, UNCHANGED <<typed, missed, stripped>>, sync' = sync \/ sync' = NoSync,
         \/ UNCHANGED doc
         \/ \E kind, env : StartLoad(kind, env)
  PROVE  EditInv'
<1>1. doc'.values = doc.values /\ doc'.baseValues = doc.baseValues /\ doc'.envs = doc.envs
  BY DEF StartLoad, Inv, Types, Documents
<1>2. sync'.at = "context" => sync' = sync
  BY DEF NoSync
<1> QED BY <1>1, <1>2 DEF EditInv, EditsKept, Fields

LEMMA BaseLandsEdits == ASSUME Inv, EditInv, NEW found \in BOOLEAN, BaseLands(found) PROVE EditInv'
<1> DEFINE preset == found /\ load.kind = "default"
           binds == IF preset THEN Binds[load.env] ELSE {}
           sets == IF preset THEN Sets[load.env] ELSE {}
           asked == binds \ SlotsOf(load.envs, {})
           extras == load.extras \cup asked
           added == asked \cap SlotsOf(load.envs, extras)
           with == WithExtras(doc, added)
           next == Laid(with, binds, sets, load.envs, extras)
           base == [kind |-> load.kind, at |-> IF found THEN "loaded" ELSE "failed",
                    env |-> IF load.kind = "default" THEN load.env ELSE NoEnv]
<1>1. /\ doc \in Documents /\ load.envs \in SUBSET Envs /\ load.extras \in SUBSET Slots
      /\ load.kind \in {"default", "scratch"} /\ load.env \in Envs
  BY DEF BaseLands, Inv, Types, Flows
<1>2. binds \subseteq Slots
  BY <1>1, EnvsAssumption
<1>3. /\ doc' = [next EXCEPT !.base = base]
      /\ typed' = typed /\ stripped' = stripped \cup {s \in typed : Bound(next.bindings[s])}
      /\ missed' = missed \cup (typed \ FieldsOf(load.envs)) /\ sync' = sync
  BY DEF BaseLands
<1> HIDE DEF binds, sets, base
<1>4. extras \in SUBSET Slots /\ added \in SUBSET Slots /\ added \subseteq binds \cap SlotsOf(load.envs, extras)
  BY <1>1, <1>2
<1> HIDE DEF added, extras
<1>5. /\ with \in Documents /\ with.envs = doc.envs /\ with.baseValues = doc.baseValues
      /\ \A s \in Slots : \/ with.values[s] = doc.values[s]
                          \/ s \in added /\ Bound(with.bindings[s])
  BY <1>1, <1>4, WithExtrasDoc, WithExtrasValues
<1> HIDE DEF with
<1>6. /\ next \in Documents /\ next.envs = doc.envs
      /\ \A s \in Slots :
           /\ next.baseValues[s] # "typed"
           /\ \/ s \notin FieldsOf(load.envs) \/ with.values[s] = with.baseValues[s]
              \/ next.values[s] = with.values[s] \/ Bound(next.bindings[s])
           /\ s \in binds \cap SlotsOf(load.envs, extras) /\ Bound(with.bindings[s])
                => Bound(next.bindings[s])
  <2> HIDE DEF next
  <2>1. with \in Documents /\ with.envs = doc.envs
    BY <1>5
  <2>2. next = Laid(with, binds, sets, load.envs, extras)
    BY DEF next
  <2>3. next \in Documents
    BY <1>1, <1>4, <2>1, <2>2, LaidDoc
  <2>4. Replayed(with, next, binds, load.envs, extras)
    BY <1>1, <1>4, <2>1, <2>2, LaidValues
  <2> QED BY <2>1, <2>3, <2>4 DEF Replayed
<1> HIDE DEF next
<1>7. doc'.values = next.values /\ doc'.baseValues = next.baseValues /\ doc'.envs = doc.envs
  BY <1>3, <1>6 DEF Documents
<1>8. typed \subseteq Slots
  BY <1>1, Contexts DEF EditInv, Fields, Documents
<1>9. ASSUME NEW s \in typed' \ (missed' \cup stripped') PROVE doc'.values[s] = "typed"
  <2>1. /\ s \in typed \ (missed \cup stripped) /\ s \in FieldsOf(load.envs) /\ ~Bound(next.bindings[s])
        /\ s \in Slots
    BY <1>3, <1>8, <1>9
  <2>2. doc.values[s] = "typed" /\ doc.baseValues[s] # "typed"
    BY <2>1 DEF EditInv, EditsKept
  <2>3. with.values[s] = doc.values[s]
    BY <1>4, <1>5, <1>6, <2>1
  <2> QED BY <1>5, <1>6, <1>7, <2>1, <2>2, <2>3
<1> QED BY <1>3, <1>6, <1>7, <1>9 DEF EditInv, EditsKept, Fields

LEMMA SetValueEdits ==
  ASSUME Inv, EditInv, NEW s \in Slots, NEW value \in {"unset", "typed"}, SetValue(s, value)
  PROVE  EditInv'
<1>1. /\ doc' = [doc EXCEPT !.values[s] = value] /\ s \in Fields
      /\ typed' = (IF value = "typed" THEN typed \cup {s} ELSE typed \ {s})
      /\ sync' = sync /\ missed' = missed \ {s} /\ stripped' = stripped \ {s}
  BY DEF SetValue, flows
<1>2. /\ doc'.envs = doc.envs /\ doc'.baseValues = doc.baseValues
      /\ \A r \in Slots : doc'.values[r] = IF r = s THEN value ELSE doc.values[r]
  BY <1>1 DEF Inv, Types, Documents
<1>3. typed' \subseteq Fields /\ Fields \subseteq Slots
  BY <1>1, Contexts DEF EditInv, Fields, Inv, Types, Documents
<1>4. \A r \in typed' \ (missed' \cup stripped') : doc'.values[r] = "typed"
  BY <1>1, <1>2, <1>3 DEF EditInv, EditsKept
<1>5. \A r \in Slots : doc'.baseValues[r] # "typed"
  BY <1>2 DEF EditInv
<1> QED BY <1>1, <1>2, <1>3, <1>4, <1>5, EditStep

(* A step that gives slots a model: what was typed there is no longer, or is   *)
(* counted as stripped, and the other settings keep their values.              *)
LEMMA StripStep ==
  ASSUME Inv, EditInv, NEW slots, sync' = sync, missed' = missed,
         doc'.envs = doc.envs, doc'.baseValues = doc.baseValues,
         \A s \in Slots : s \notin slots => doc'.values[s] = doc.values[s],
         typed' \subseteq typed, typed' \ stripped' \subseteq typed \ (stripped \cup slots)
  PROVE  EditInv'
<1>1. typed' \subseteq Fields /\ Fields \subseteq Slots
  BY Contexts DEF EditInv, Fields, Inv, Types, Documents
<1>2. ASSUME NEW s \in typed' \ (missed' \cup stripped') PROVE doc'.values[s] = "typed"
  <2>1. s \in typed \ (missed \cup stripped) /\ s \in Slots \ slots
    BY <1>1
  <2> QED BY <2>1 DEF EditInv, EditsKept
<1>3. \A s \in Slots : doc'.baseValues[s] # "typed"
  BY DEF EditInv
<1> QED BY <1>1, <1>2, <1>3, EditStep

(* The same when nothing is stripped. *)
LEMMA BindStep ==
  ASSUME Inv, EditInv, NEW slots, sync' = sync, missed' = missed, stripped' = stripped,
         doc'.envs = doc.envs, doc'.baseValues = doc.baseValues,
         \A s \in Slots : s \notin slots => doc'.values[s] = doc.values[s],
         typed' \subseteq typed \ slots
  PROVE  EditInv'
<1>1. typed' \subseteq typed /\ typed' \ stripped' \subseteq typed \ (stripped \cup slots)
  OBVIOUS
<1> QED BY <1>1, StripStep

LEMMA SetBindingEdits ==
  ASSUME Inv, EditInv, NEW s \in Slots, NEW binding \in Bindings, SetBinding(s, binding)
  PROVE  EditInv'
<1>1. /\ doc' = IF Bound(binding) THEN BindTo(doc, binding, {s})
                ELSE [doc EXCEPT !.bindings[s] = Inherit]
      /\ typed' = IF Bound(binding) THEN typed \ {s} ELSE typed
      /\ sync' = sync /\ missed' = missed /\ stripped' = stripped
  BY DEF SetBinding, Replace, flows
<1>2. doc \in Documents
  BY DEF Inv, Types
<1>3. CASE Bound(binding)
  <2>1. /\ doc'.envs = doc.envs /\ doc'.baseValues = doc.baseValues
        /\ \A r \in Slots : r \notin {s} => doc'.values[r] = doc.values[r]
    BY <1>1, <1>2, <1>3, BindToValues
  <2>2. typed' \subseteq typed \ {s}
    BY <1>1, <1>3
  <2> QED BY <1>1, <2>1, <2>2, BindStep
<1>4. CASE ~Bound(binding)
  <2>1. doc'.envs = doc.envs /\ doc'.baseValues = doc.baseValues /\ doc'.values = doc.values
    BY <1>1, <1>2, <1>4 DEF Documents
  <2>2. typed' \subseteq typed \ {}
    BY <1>1, <1>4
  <2> QED BY <1>1, <2>1, <2>2, BindStep
<1> QED BY <1>3, <1>4

(* The user's steps that leave the values alone. *)
LEMMA OtherEdits ==
  ASSUME Inv, EditInv, NEW s \in Slots, ReenterKey(s) \/ RemoveExtra(s) \/ AddEndpoint(s)
  PROVE  EditInv'
<1>1. doc \in Documents
  BY DEF Inv, Types
<1>2. sync' = sync /\ missed' = missed /\ stripped' = stripped /\ typed' = typed
  BY DEF ReenterKey, RemoveExtra, AddEndpoint, flows, history
<1>3. CASE ReenterKey(s)
  <2> DEFINE follows(r) == r \in Shown /\ doc.bindings[r].model = doc.global.model
             slots == {s} \cup {r \in Slots : follows(s) /\ follows(r)}
  <2>1. doc' = [doc EXCEPT !.bindings = [r \in Slots |-> IF r \in slots THEN [@[r] EXCEPT !.key = given + 1] ELSE @[r]],
                           !.global.key = IF follows(s) THEN given + 1 ELSE @]
    BY <1>3 DEF ReenterKey
  <2> HIDE DEF follows, slots
  <2>2. doc'.envs = doc.envs /\ doc'.baseValues = doc.baseValues /\ doc'.values = doc.values
    BY <1>1, <2>1 DEF Documents
  <2> QED BY <1>2, <2>2, BindStep
<1>4. CASE RemoveExtra(s)
  <2>1. doc' = [doc EXCEPT !.extras = @ \ {s}, !.bindings[s] = Inherit]
    BY <1>4 DEF RemoveExtra, Replace
  <2>2. doc'.envs = doc.envs /\ doc'.baseValues = doc.baseValues /\ doc'.values = doc.values
    BY <1>1, <2>1 DEF Documents
  <2> QED BY <1>2, <2>2, BindStep
<1>5. CASE AddEndpoint(s)
  <2>1. doc' = doc
    BY <1>5 DEF AddEndpoint
  <2> QED BY <1>2, <2>1, BindStep
<1> QED BY <1>3, <1>4, <1>5

LEMMA ResetAllEdits == ASSUME Inv, EditInv, ResetAll PROVE EditInv'
<1> DEFINE kept(s) == doc.bindings[s].model = doc.baseBindings[s].model
           back == [doc EXCEPT !.values = doc.baseValues,
                               !.bindings = [s \in Slots |-> IF kept(s) THEN @[s] ELSE doc.baseBindings[s]]]
<1>1. /\ doc' = WithGlobal(back, doc.envs, doc.extras)
      /\ sync' = sync /\ missed' = missed /\ stripped' = stripped /\ typed' = {}
  BY DEF ResetAll, Replace, flows
<1>2. back \in Documents /\ back.envs = doc.envs /\ back.baseValues = doc.baseValues
  BY PlainBindings DEF Inv, Types, Documents
<1> HIDE DEF back
<1>3. doc'.envs = doc.envs /\ doc'.baseValues = doc.baseValues
  BY <1>1, <1>2, WithGlobalValues
<1>4. typed' \subseteq typed \ Slots
  BY <1>1
<1> QED BY <1>1, <1>3, <1>4, BindStep

LEMMA GlobalEdits ==
  ASSUME Inv, EditInv, NEW binding \in Bindings, NEW slots, doc' = GlobalDoc(binding, slots), Follow(binding, slots),
         sync' = sync, missed' = missed, stripped' = stripped
  PROVE  EditInv'
<1> DEFINE next == [doc EXCEPT !.global = binding]
<1>1. /\ next \in Documents /\ next.envs = doc.envs
      /\ next.baseValues = doc.baseValues /\ next.values = doc.values
  BY DEF Inv, Types, Documents
<1>2. doc' = IF Bound(binding) THEN BindTo(next, binding, slots) ELSE next
  BY DEF GlobalDoc
<1> HIDE DEF next
<1>3. typed' = IF Bound(binding) THEN typed \ slots ELSE typed
  BY DEF Follow
<1>4. CASE Bound(binding)
  <2>1. /\ doc'.envs = next.envs /\ doc'.baseValues = next.baseValues
        /\ \A s \in Slots : s \notin slots => doc'.values[s] = next.values[s]
    BY <1>1, <1>2, <1>4, BindToValues
  <2>2. typed' \subseteq typed \ slots
    BY <1>3, <1>4
  <2> QED BY <1>1, <2>1, <2>2, BindStep
<1>5. CASE ~Bound(binding)
  <2>1. typed' \subseteq typed \ {}
    BY <1>3, <1>5
  <2> QED BY <1>1, <1>2, <1>5, <2>1, BindStep
<1> QED BY <1>4, <1>5

LEMMA SlotsLandEdits == ASSUME Inv, EditInv, SlotsLand PROVE EditInv'
<1> DEFINE added == apply.names \cap SlotsOf(apply.envs, apply.extras \cup apply.names)
           fresh == IF Bound(doc.global) THEN added \ doc.extras ELSE {}
<1>1. /\ doc' = WithExtras(doc, added)
      /\ stripped' = IF Bound(doc.global) THEN stripped \cup (typed \cap (added \ doc.extras)) ELSE stripped
      /\ typed' = typed /\ sync' = sync /\ missed' = missed
  BY DEF SlotsLand
<1>2. doc \in Documents /\ added \in SUBSET Slots
  BY DEF Inv, Types, Flows
<1>3. typed' \ stripped' \subseteq typed \ (stripped \cup fresh)
  BY <1>1
<1> HIDE DEF added
<1>4. /\ doc'.envs = doc.envs /\ doc'.baseValues = doc.baseValues
      /\ \A s \in Slots : s \notin fresh => doc'.values[s] = doc.values[s]
  BY <1>1, <1>2, WithExtrasValues
<1> HIDE DEF fresh
<1> QED BY <1>1, <1>3, <1>4, StripStep

(* The steps that may move the base without a new one. *)
LEMMA BaseEdits ==
  ASSUME Inv, EditInv,
         \/ SyncPicks \/ BaseThrows \/ SchemaChanged \/ Confirm \/ Decline
         \/ \E kind \in {"default", "scratch"} : \E env \in Envs : ChooseBase(kind, env)
  PROVE  EditInv'
<1>1. CASE SyncPicks
  BY <1>1, StartLoadEdits DEF SyncPicks, history
<1>2. CASE BaseThrows
  <2>1. /\ doc'.envs = doc.envs /\ doc'.baseValues = doc.baseValues /\ doc'.values = doc.values
        /\ sync' = sync /\ typed' = typed /\ missed' = missed /\ stripped' = stripped
    BY <1>2 DEF BaseThrows, history, Inv, Types, Documents
  <2> QED BY <2>1, BindStep
<1>3. CASE SchemaChanged
  <2>1. /\ sync' = SyncOf(doc) /\ doc' = doc
        /\ typed' = typed /\ missed' = missed /\ stripped' = stripped
    BY <1>3 DEF SchemaChanged, history
  <2> QED BY <2>1 DEF SyncOf, EditInv, EditsKept, Fields
<1>4. ASSUME NEW kind \in {"default", "scratch"}, NEW env \in Envs, ChooseBase(kind, env)
      PROVE  EditInv'
  BY <1>4, StartLoadEdits DEF ChooseBase, history
<1>5. CASE Confirm \/ Decline
  BY <1>5, StartLoadEdits DEF Confirm, Decline, history
<1> QED BY <1>1, <1>2, <1>3, <1>4, <1>5

-----------------------------------------------------------------------------
(* No step loses what was typed. *)
LEMMA InitEdits == Init => EditInv
BY DEF Init, EditInv, EditsKept, NoSync

LEMMA NextEdits == ASSUME Inv, EditInv, [Next]_vars PROVE EditInv'
<1>1. CASE UNCHANGED vars
  BY <1>1 DEF vars, flows, history, EditInv, EditsKept, Fields
<1>2. \A k \in 0..MaxKeys : Own(k) \in Bindings
  BY DEF Own, Bindings
<1>3. Inherit \in Bindings /\ doc.global \in Bindings /\ apply.binding \in Bindings
  BY PlainBindings DEF Inv, Types, Documents, Flows
<1>4. CASE SyncLands \/ SlotsLand \/ ResetAll
  BY <1>4, SyncLandsEdits, SlotsLandEdits, ResetAllEdits
<1>5. CASE \/ SyncPicks \/ BaseThrows \/ SchemaChanged \/ Confirm \/ Decline
           \/ \E kind \in {"default", "scratch"} : \E env \in Envs : ChooseBase(kind, env)
  BY <1>5, BaseEdits
<1>6. CASE ApplyGlobal
  <2> PICK unseen \in SUBSET apply.names :
         /\ doc' = GlobalDoc(apply.binding, Shown \ unseen)
         /\ Follow(apply.binding, Shown \ unseen)
    BY <1>6 DEF ApplyGlobal
  <2>1. sync' = sync /\ missed' = missed /\ stripped' = stripped
    BY <1>6 DEF ApplyGlobal
  <2> QED BY <1>3, <2>1, GlobalEdits
<1>7. ASSUME NEW found \in BOOLEAN, BaseLands(found) PROVE EditInv'
  BY <1>7, BaseLandsEdits
<1>8. ASSUME NEW e \in Envs, Toggle(e) PROVE EditInv'
  BY <1>8, ToggleEdits
<1>9. ASSUME NEW s \in Slots,
             ReenterKey(s) \/ AddEndpoint(s) \/ RemoveExtra(s) \/ \E v \in {"unset", "typed"} : SetValue(s, v)
      PROVE  EditInv'
  BY <1>9, OtherEdits, SetValueEdits
<1>10. ASSUME NEW k \in 0..MaxKeys, NEW binding \in {Inherit, Own(k)}, SetGlobal(binding) \/ AwaitSlots(binding)
       PROVE  EditInv'
  <2>1. binding \in Bindings
    BY <1>2, <1>3
  <2>2. CASE SetGlobal(binding)
    <3>1. /\ doc' = GlobalDoc(binding, Shown) /\ Follow(binding, Shown)
          /\ sync' = sync /\ missed' = missed /\ stripped' = stripped
      BY <2>2 DEF SetGlobal, Replace, flows
    <3> QED BY <2>1, <3>1, GlobalEdits
  <2>3. CASE AwaitSlots(binding)
    <3>1. doc' = doc /\ sync' = sync /\ typed' = typed /\ missed' = missed /\ stripped' = stripped
      BY <2>3 DEF AwaitSlots, history
    <3> QED BY <3>1, BindStep
  <2> QED BY <1>10, <2>2, <2>3
<1>11. ASSUME NEW k \in 0..MaxKeys, NEW s \in Slots, NEW binding \in {Inherit, Own(k), doc.global},
              SetBinding(s, binding)
       PROVE  EditInv'
  <2>1. binding \in Bindings
    BY <1>2, <1>3
  <2> QED BY <1>11, <2>1, SetBindingEdits
<1> QED BY <1>1, <1>4, <1>5, <1>6, <1>7, <1>8, <1>9, <1>10, <1>11 DEF Next

(* A value typed survives every sync and every base that lands, in whatever    *)
(* order they answer, while an environment that knows its setting stays ticked;*)
(* unless a base is laid without that environment, or a base or a new endpoint *)
(* gives its slot a model (layering.ts: stripBoundFields).                     *)
THEOREM EditsAreKept == Spec => []EditsKept
<1>1. Inv /\ EditInv /\ [Next]_vars => EditInv'
  BY NextEdits
<1>2. EditInv => EditsKept
  BY DEF EditInv
<1> QED BY <1>1, <1>2, AlwaysInv, InitEdits, PTL DEF Spec

-----------------------------------------------------------------------------
(* The steps that edit the document and leave its base alone.                  *)
OnlyEdits ==
  /\ UNCHANGED <<baseKey, touched, sync, load, choice, torn>>
  /\ doc'.envs = doc.envs /\ doc'.base = doc.base
  /\ doc'.baseBindings = doc.baseBindings /\ doc'.baseValues = doc.baseValues
  /\ \A s \in Slots \ edited' :
       /\ s \notin edited
       /\ doc'.bindings[s].model = doc.bindings[s].model /\ doc'.values[s] = doc.values[s]

(* d has the base of c, and outside these slots its models and its values. *)
SameBut(d, c, slots) ==
  /\ d.envs = c.envs /\ d.base = c.base
  /\ d.baseBindings = c.baseBindings /\ d.baseValues = c.baseValues
  /\ \A s \in Slots \ slots : d.bindings[s] = c.bindings[s] /\ d.values[s] = c.values[s]

LEMMA WithGlobalSame ==
  ASSUME NEW d \in Documents, NEW envs, NEW extras
  PROVE  SameBut(WithGlobal(d, envs, extras), d, {})
BY DEF WithGlobal, Documents, SameBut

LEMMA BindToSame ==
  ASSUME NEW d \in Documents, NEW binding, NEW slots
  PROVE  SameBut(BindTo(d, binding, slots), d, slots)
BY DEF BindTo, Documents, SameBut

LEMMA WithExtrasSame ==
  ASSUME NEW d \in Documents, NEW names \in SUBSET Slots
  PROVE  SameBut(WithExtras(d, names), d, IF Bound(d.global) THEN names \ d.extras ELSE {})
<1> DEFINE fresh == names \ d.extras
           next == [d EXCEPT !.extras = @ \cup fresh]
<1>1. next \in Documents /\ SameBut(next, d, {})
  BY DEF Documents, SameBut
<1>2. WithExtras(d, names) = IF Bound(d.global) THEN BindTo(next, d.global, fresh) ELSE next
  BY DEF WithExtras
<1> HIDE DEF next, fresh
<1>3. SameBut(BindTo(next, d.global, fresh), next, fresh)
  BY <1>1, BindToSame
<1>4. SameBut(BindTo(next, d.global, fresh), d, fresh)
  BY <1>1, <1>3 DEF SameBut
<1> QED BY <1>1, <1>2, <1>4 DEF fresh

LEMMA GlobalDocSame ==
  ASSUME doc \in Documents, NEW binding, NEW slots
  PROVE  SameBut(GlobalDoc(binding, slots), doc, IF Bound(binding) THEN slots ELSE {})
<1> DEFINE next == [doc EXCEPT !.global = binding]
<1>1. SameBut(next, doc, {})
  BY DEF Documents, SameBut
<1>2. GlobalDoc(binding, slots) = IF Bound(binding) THEN BindTo(next, binding, slots) ELSE next
  BY DEF GlobalDoc
<1>3. SameBut(BindTo(next, binding, slots), doc, slots)
  BY DEF Documents, SameBut, BindTo
<1> HIDE DEF next
<1> QED BY <1>1, <1>2, <1>3

(* A step whose edits are counted leaves the rest as it was. *)
LEMMA SameOnlyEdits ==
  ASSUME NEW slots, SameBut(doc', doc, slots), edited' = edited \cup slots,
         UNCHANGED <<baseKey, touched, sync, load, choice, torn>>
  PROVE  OnlyEdits
BY DEF SameBut, OnlyEdits

LEMMA SetValueOnly ==
  ASSUME Inv, NEW s \in Slots, NEW value, SetValue(s, value)
  PROVE  OnlyEdits
<1>1. doc' = [doc EXCEPT !.values[s] = value] /\ doc \in Documents
  BY DEF SetValue, Inv, Types
<1>2. SameBut(doc', doc, {s})
  BY <1>1 DEF SameBut, Documents
<1>3. edited' = edited \cup {s} /\ UNCHANGED <<baseKey, touched, sync, load, choice, torn>>
  BY DEF SetValue, flows
<1> QED BY <1>2, <1>3, SameOnlyEdits

LEMMA SetBindingOnly ==
  ASSUME Inv, NEW s \in Slots, NEW binding, SetBinding(s, binding)
  PROVE  OnlyEdits
<1>1. /\ doc' = IF Bound(binding) THEN BindTo(doc, binding, {s})
                ELSE [doc EXCEPT !.bindings[s] = Inherit]
      /\ doc \in Documents
  BY DEF SetBinding, Replace, Inv, Types
<1>2. SameBut([doc EXCEPT !.bindings[s] = Inherit], doc, {s})
  BY <1>1 DEF SameBut, Documents
<1>3. SameBut(doc', doc, {s})
  BY <1>1, <1>2, BindToSame
<1>4. edited' = edited \cup {s} /\ UNCHANGED <<baseKey, touched, sync, load, choice, torn>>
  BY DEF SetBinding, flows
<1> QED BY <1>3, <1>4, SameOnlyEdits

LEMMA RemoveExtraOnly == ASSUME Inv, NEW s \in Slots, RemoveExtra(s) PROVE OnlyEdits
<1>1. doc' = [doc EXCEPT !.extras = @ \ {s}, !.bindings[s] = Inherit] /\ doc \in Documents
  BY DEF RemoveExtra, Replace, Inv, Types
<1>2. SameBut(doc', doc, {s})
  BY <1>1 DEF SameBut, Documents
<1>3. edited' = edited \cup {s} /\ UNCHANGED <<baseKey, touched, sync, load, choice, torn>>
  BY DEF RemoveExtra, flows
<1> QED BY <1>2, <1>3, SameOnlyEdits

LEMMA ReenterKeyOnly == ASSUME Inv, NEW s \in Slots, ReenterKey(s) PROVE OnlyEdits
<1> DEFINE follows(r) == r \in Shown /\ doc.bindings[r].model = doc.global.model
           slots == {s} \cup {r \in Slots : follows(s) /\ follows(r)}
<1>1. /\ doc' = [doc EXCEPT !.bindings = [r \in Slots |-> IF r \in slots THEN [@[r] EXCEPT !.key = given + 1] ELSE @[r]],
                            !.global.key = IF follows(s) THEN given + 1 ELSE @]
      /\ edited' = edited \cup slots
  BY DEF ReenterKey
<1>2. doc \in Documents
  BY DEF Inv, Types
<1> HIDE DEF follows, slots
<1>3. SameBut(doc', doc, slots)
  BY <1>1, <1>2 DEF SameBut, Documents
<1>4. UNCHANGED <<baseKey, touched, sync, load, choice, torn>>
  BY DEF ReenterKey, flows
<1> QED BY <1>1, <1>3, <1>4, SameOnlyEdits

(* A model that waits for its endpoints changes nothing yet. *)
LEMMA WaitOnly ==
  ASSUME Inv, \/ \E s \in Slots : AddEndpoint(s)
              \/ \E binding : AwaitSlots(binding)
  PROVE  OnlyEdits
<1>1. doc' = doc /\ edited' = edited /\ UNCHANGED <<baseKey, touched, sync, load, choice, torn>>
  BY DEF AddEndpoint, AwaitSlots, history
<1> QED BY <1>1 DEF OnlyEdits

LEMMA GlobalOnly ==
  ASSUME Inv, NEW binding, NEW shown, doc' = GlobalDoc(binding, shown), Follow(binding, shown),
         UNCHANGED <<baseKey, touched, sync, load, choice, torn>>
  PROVE  OnlyEdits
<1> DEFINE slots == IF Bound(binding) THEN shown ELSE {}
<1>1. SameBut(doc', doc, slots)
  BY GlobalDocSame DEF Inv, Types
<1>2. edited' = edited \cup slots
  BY DEF Follow
<1> HIDE DEF slots
<1> QED BY <1>1, <1>2, SameOnlyEdits

LEMMA SlotsLandOnly == ASSUME Inv, SlotsLand PROVE OnlyEdits
<1> DEFINE added == apply.names \cap SlotsOf(apply.envs, apply.extras \cup apply.names)
           slots == IF Bound(doc.global) THEN added \ doc.extras ELSE {}
<1>1. doc' = WithExtras(doc, added) /\ doc \in Documents /\ added \in SUBSET Slots
  BY DEF SlotsLand, Inv, Types, Flows
<1>2. edited' = edited \cup slots /\ UNCHANGED <<baseKey, touched, sync, load, choice, torn>>
  BY DEF SlotsLand
<1> HIDE DEF added
<1>3. SameBut(doc', doc, slots)
  BY <1>1, WithExtrasSame
<1> HIDE DEF slots
<1> QED BY <1>2, <1>3, SameOnlyEdits

(* These are the edits; the other steps move the base or the selection. *)
LEMMA NextEditsOrMoves ==
  ASSUME Inv, Next
  PROVE  \/ OnlyEdits
         \/ SyncLands \/ SyncPicks \/ BaseThrows \/ SchemaChanged \/ ResetAll \/ Confirm \/ Decline
         \/ \E found \in BOOLEAN : BaseLands(found)
         \/ \E e \in Envs : Toggle(e)
         \/ \E kind \in {"default", "scratch"} : \E e \in Envs : ChooseBase(kind, e)
<1>1. CASE SlotsLand
  BY <1>1, SlotsLandOnly
<1>2. CASE ApplyGlobal
  <2> PICK unseen \in SUBSET apply.names :
         /\ doc' = GlobalDoc(apply.binding, Shown \ unseen)
         /\ Follow(apply.binding, Shown \ unseen)
    BY <1>2 DEF ApplyGlobal
  <2>1. UNCHANGED <<baseKey, touched, sync, load, choice, torn>>
    BY <1>2 DEF ApplyGlobal
  <2> QED BY <2>1, GlobalOnly
<1>3. ASSUME NEW s \in Slots,
             ReenterKey(s) \/ AddEndpoint(s) \/ RemoveExtra(s) \/ \E v \in {"unset", "typed"} : SetValue(s, v)
      PROVE  OnlyEdits
  BY <1>3, ReenterKeyOnly, WaitOnly, RemoveExtraOnly, SetValueOnly
<1>4. ASSUME NEW binding, SetGlobal(binding) \/ AwaitSlots(binding)
      PROVE  OnlyEdits
  BY <1>4, GlobalOnly, WaitOnly DEF SetGlobal, Replace, flows
<1>5. ASSUME NEW s \in Slots, NEW binding, SetBinding(s, binding) PROVE OnlyEdits
  BY <1>5, SetBindingOnly
<1> QED BY <1>1, <1>2, <1>3, <1>4, <1>5 DEF Next

-----------------------------------------------------------------------------
(* The base and the selection. *)

(* The base, loaded or being loaded, is one that the selection calls for. *)
Fits ==
  /\ doc.base.kind = "default" => doc.base.env \in doc.envs
  /\ doc.base.kind = "scratch" /\ ~touched => ~(doc.envs \subseteq Official)

(* What makes BaseOfSelection inductive: the load under way is that of the base*)
(* that the document shows, the key last asked for is its key unless it was    *)
(* dropped, the environment a sync has picked stays ticked until another sync  *)
(* begins, that of the preset the dialog asks about stays ticked while it is   *)
(* open, and the base fits whenever no sync is under way that may replace it.  *)
BaseInv ==
  /\ load.at = "loading" => doc.base.kind = load.kind /\ doc.base.env = load.env
  /\ baseKey \in {<<"none", NoEnv>>, KeyOf(doc.base.kind, doc.base.env)}
  /\ sync.at = "presets" => doc.envs = {} \/ sync.env \in doc.envs
  /\ choice.kind = "default" => choice.env \in doc.envs
  /\ sync.at = "none" => doc.envs = {} \/ doc.base.at = "failed" \/ Fits

LEMMA Keys ==
  ASSUME NEW kind \in {"default", "scratch"}, NEW env
  PROVE  /\ KeyOf(kind, env) # <<"none", NoEnv>>
         /\ \A k \in {"default", "scratch"} : \A n :
              KeyOf(kind, env) = KeyOf(k, n) => k = kind /\ (kind = "default" => n = env)
BY DEF KeyOf

(* A load that starts shows its base as loading. *)
LEMMA StartLoadBase ==
  ASSUME Inv, NEW kind, NEW env, StartLoad(kind, env)
  PROVE  /\ doc'.base.kind = kind /\ doc'.base.env = env /\ doc'.envs = doc.envs
         /\ load'.kind = kind /\ load'.env = env /\ baseKey' = KeyOf(kind, env)
BY DEF StartLoad, Inv, Types, Documents

LEMMA InitBase == Init => BaseInv
BY DEF Init, BaseInv, NoSync, NoLoad, NoChoice

LEMMA EditsBase == ASSUME BaseInv, OnlyEdits PROVE BaseInv'
BY DEF BaseInv, OnlyEdits, Fits

LEMMA ToggleBase == ASSUME Inv, BaseInv, NEW e \in Envs, Toggle(e) PROVE BaseInv'
<1>1. /\ doc'.base = doc.base /\ UNCHANGED <<baseKey, touched, load>>
      /\ sync' = IF doc'.envs = {} THEN sync ELSE SyncOf(doc')
      /\ choice'.kind # "default"
  BY DEF Toggle, Act, NoChoice, Inv, Types, Documents
<1>2. doc'.envs = {} \/ sync'.at = "context"
  BY <1>1 DEF SyncOf
<1> QED BY <1>1, <1>2 DEF BaseInv

LEMMA SyncLandsBase == ASSUME Inv, BaseInv, SyncLands PROVE BaseInv'
<1> DEFINE pruned == PrunedDoc(doc, sync.envs, sync.extras)
<1>1. sync.envs \in SUBSET Envs /\ sync.extras \in SUBSET Slots /\ doc \in Documents
  BY DEF Inv, Types, Flows
<1>2. pruned \in Documents /\ pruned.base = doc.base /\ pruned.envs = doc.envs
  <2>1. pruned \in Documents /\ pruned.base = doc.base
    BY <1>1, PrunedDocDoc
  <2> QED BY <1>1, <2>1 DEF PrunedDoc, Documents
<1>3. doc' = WithGlobal(pruned, sync.envs, sync.extras) /\ UNCHANGED <<baseKey, touched, load, choice>>
  BY DEF SyncLands
<1> HIDE DEF pruned
<1>4. doc'.base = doc.base /\ doc'.envs = doc.envs
  BY <1>2, <1>3, WithGlobalSame DEF SameBut
<1>5. \/ doc.envs = {} /\ sync' = NoSync
      \/ \E env \in BaseEnvOf(doc.envs) : sync' = [sync EXCEPT !.at = "presets", !.env = env]
  BY DEF SyncLands
<1>6. BaseEnvOf(doc.envs) \subseteq doc.envs
  BY DEF BaseEnvOf, PickedFrom
<1>7. doc'.envs = {} \/ (sync'.at = "presets" /\ sync'.env \in doc'.envs)
  <2>1. ASSUME NEW env \in BaseEnvOf(doc.envs), sync' = [sync EXCEPT !.at = "presets", !.env = env]
        PROVE  sync'.at = "presets" /\ sync'.env \in doc'.envs
    BY <1>4, <1>6, <2>1 DEF Inv, Types, Flows
  <2> QED BY <1>4, <1>5, <2>1
<1> QED BY <1>3, <1>4, <1>7 DEF BaseInv

(* The base of the environment that the sync picked: scratch is taken only     *)
(* where it has no preset, or where the user chose so.                         *)
LEMMA SyncPicksBase == ASSUME Inv, BaseInv, SyncPicks PROVE BaseInv'
<1> DEFINE wanted == IF touched THEN doc.base.kind ELSE "default"
           kind == IF sync.env \in Official THEN wanted ELSE "scratch"
<1>1. doc.base.kind \in {"default", "scratch"} /\ kind \in {"default", "scratch"}
  BY DEF Inv, Types, Documents, BaseInfos
<1>2. kind = "scratch" /\ ~touched => sync.env \notin Official
  OBVIOUS
<1>3. sync' = NoSync /\ UNCHANGED <<touched, choice>>
  BY DEF SyncPicks
<1>4. \/ KeyOf(kind, sync.env) # baseKey /\ StartLoad(kind, sync.env)
      \/ KeyOf(kind, sync.env) = baseKey /\ UNCHANGED <<doc, baseKey, load>>
  BY DEF SyncPicks
<1>5. doc.envs = {} \/ sync.env \in doc.envs
  BY DEF SyncPicks, BaseInv
<1> HIDE DEF kind
<1>6. CASE StartLoad(kind, sync.env)
  <2>1. /\ doc'.base.kind = kind /\ doc'.base.env = sync.env /\ doc'.envs = doc.envs
        /\ load'.kind = kind /\ load'.env = sync.env /\ baseKey' = KeyOf(kind, sync.env)
    BY <1>6, StartLoadBase
  <2>2. doc'.envs = {} \/ Fits'
    BY <1>2, <1>3, <1>5, <2>1 DEF Fits
  <2> QED BY <1>3, <2>1, <2>2 DEF BaseInv, NoSync
<1>7. CASE KeyOf(kind, sync.env) = baseKey /\ UNCHANGED <<doc, baseKey, load>>
  <2>1. baseKey = KeyOf(doc.base.kind, doc.base.env)
    BY <1>1, <1>7, Keys DEF BaseInv
  <2>2. doc.base.kind = kind /\ (kind = "default" => doc.base.env = sync.env)
    BY <1>1, <1>7, <2>1, Keys
  <2>3. doc.envs = {} \/ Fits
    BY <1>2, <1>5, <2>2 DEF Fits
  <2> QED BY <1>3, <1>7, <2>3 DEF BaseInv, Fits, NoSync
<1> QED BY <1>4, <1>6, <1>7

(* A base that the user chose fits, when it is one of a ticked environment. *)
LEMMA ChosenBase ==
  ASSUME Inv, BaseInv, NEW kind \in {"default", "scratch"}, NEW env,
         StartLoad(kind, env), touched' = TRUE, sync' = sync, choice' \in {choice, NoChoice},
         kind = "default" => env \in doc.envs
  PROVE  BaseInv'
<1>1. /\ doc'.base.kind = kind /\ doc'.base.env = env /\ doc'.envs = doc.envs
      /\ load'.kind = kind /\ load'.env = env /\ baseKey' = KeyOf(kind, env)
  BY StartLoadBase
<1>2. Fits'
  BY <1>1 DEF Fits
<1>3. choice'.kind = "default" => choice'.env \in doc'.envs
  BY <1>1 DEF BaseInv, NoChoice
<1> QED BY <1>1, <1>2, <1>3 DEF BaseInv

LEMMA ChooseBaseBase ==
  ASSUME Inv, BaseInv, NEW kind \in {"default", "scratch"}, NEW env \in Envs, ChooseBase(kind, env)
  PROVE  BaseInv'
<1>1. sync' = sync /\ (kind = "default" => env \in doc.envs)
  BY DEF ChooseBase
<1>2. CASE StartLoad(kind, env) /\ touched' = TRUE /\ choice' = choice
  BY <1>1, <1>2, ChosenBase
<1>3. CASE choice' = [kind |-> kind, env |-> env] /\ UNCHANGED <<doc, baseKey, touched, load>>
  BY <1>1, <1>3 DEF BaseInv, Fits
<1> QED BY <1>2, <1>3 DEF ChooseBase

LEMMA DialogBase == ASSUME Inv, ChoiceType, BaseInv, Confirm \/ Decline PROVE BaseInv'
<1>1. CASE Confirm
  <2>1. choice.kind \in {"default", "scratch"} /\ (choice.kind = "default" => choice.env \in doc.envs)
    BY <1>1 DEF Confirm, ChoiceType, BaseInv
  <2>2. /\ StartLoad(choice.kind, choice.env) /\ touched' = TRUE /\ sync' = sync
        /\ choice' = NoChoice
    BY <1>1 DEF Confirm
  <2> QED BY <2>1, <2>2, ChosenBase
<1>2. CASE Decline
  BY <1>2 DEF Decline, BaseInv, Fits, NoChoice
<1> QED BY <1>1, <1>2

(* A base that lands keeps the kind and the environment it was asked for with. *)
LEMMA BaseLandsBase == ASSUME Inv, BaseInv, NEW found \in BOOLEAN, BaseLands(found) PROVE BaseInv'
<1> DEFINE base == [kind |-> load.kind, at |-> IF found THEN "loaded" ELSE "failed",
                    env |-> IF load.kind = "default" THEN load.env ELSE NoEnv]
<1>1. doc'.base = base /\ doc'.envs = doc.envs
  <2> DEFINE preset == found /\ load.kind = "default"
             binds == IF preset THEN Binds[load.env] ELSE {}
             sets == IF preset THEN Sets[load.env] ELSE {}
             asked == binds \ SlotsOf(load.envs, {})
             extras == load.extras \cup asked
             added == asked \cap SlotsOf(load.envs, extras)
             next == Laid(WithExtras(doc, added), binds, sets, load.envs, extras)
  <2>1. /\ doc \in Documents /\ load.envs \in SUBSET Envs /\ load.extras \in SUBSET Slots
        /\ load.env \in Envs
    BY DEF BaseLands, Inv, Types, Flows
  <2>2. binds \subseteq Slots
    BY <2>1, EnvsAssumption
  <2>3. doc' = [next EXCEPT !.base = base]
    BY DEF BaseLands
  <2> HIDE DEF binds, sets, base
  <2>4. extras \in SUBSET Slots /\ added \in SUBSET Slots
    BY <2>1, <2>2
  <2> HIDE DEF added, extras
  <2>5. WithExtras(doc, added) \in Documents /\ WithExtras(doc, added).envs = doc.envs
    BY <2>1, <2>4, WithExtrasDoc, WithExtrasSame DEF SameBut
  <2>6. next \in Documents
    BY <2>1, <2>4, <2>5, LaidDoc
  <2>7. Replayed(WithExtras(doc, added), next, binds, load.envs, extras)
    BY <2>1, <2>4, <2>5, LaidValues
  <2> HIDE DEF next
  <2>8. next.envs = doc.envs
    BY <2>5, <2>7 DEF Replayed
  <2> QED BY <2>3, <2>6, <2>8 DEF Documents
<1>2. /\ load' = NoLoad /\ baseKey' = KeyOf(load.kind, load.env) /\ UNCHANGED <<touched, sync, choice>>
      /\ load.at = "loading"
  BY DEF BaseLands
<1>3. base.kind = doc.base.kind /\ (base.kind = "default" => base.env = doc.base.env)
  BY <1>2 DEF BaseInv
<1>4. baseKey' = KeyOf(base.kind, base.env)
  BY <1>2 DEF KeyOf
<1>5. doc.base.at # "failed"
  BY <1>2 DEF Inv, Types
<1> HIDE DEF base
<1>6. Fits => Fits'
  BY <1>1, <1>2, <1>3 DEF Fits
<1> QED BY <1>1, <1>2, <1>4, <1>5, <1>6 DEF BaseInv, NoLoad

LEMMA BaseThrowsBase == ASSUME Inv, BaseInv, BaseThrows PROVE BaseInv'
<1>1. doc' = [doc EXCEPT !.base.at = "failed"] /\ doc \in Documents
  BY DEF BaseThrows, Inv, Types
<1>2. /\ doc'.base.at = "failed" /\ doc'.base.kind = doc.base.kind /\ doc'.base.env = doc.base.env
      /\ doc'.envs = doc.envs
  BY <1>1 DEF Documents, BaseInfos
<1>3. load' = NoLoad /\ UNCHANGED <<baseKey, touched, sync, choice>>
  BY DEF BaseThrows
<1> QED BY <1>2, <1>3 DEF BaseInv, NoLoad

LEMMA SchemaChangedBase == ASSUME Inv, BaseInv, SchemaChanged PROVE BaseInv'
<1>1. baseKey' = <<"none", NoEnv>> /\ sync' = SyncOf(doc) /\ UNCHANGED <<doc, touched, load, choice>>
  BY DEF SchemaChanged
<1> QED BY <1>1 DEF BaseInv, SyncOf

LEMMA ResetAllBase == ASSUME Inv, BaseInv, ResetAll PROVE BaseInv'
<1> DEFINE kept(s) == doc.bindings[s].model = doc.baseBindings[s].model
           back == [doc EXCEPT !.values = doc.baseValues,
                               !.bindings = [s \in Slots |-> IF kept(s) THEN @[s] ELSE doc.baseBindings[s]]]
<1>1. doc' = WithGlobal(back, doc.envs, doc.extras) /\ UNCHANGED <<baseKey, touched, sync, load, choice>>
  BY DEF ResetAll, Replace, flows
<1>2. back \in Documents /\ back.base = doc.base /\ back.envs = doc.envs
  BY PlainBindings DEF Inv, Types, Documents
<1> HIDE DEF back
<1>3. doc'.base = doc.base /\ doc'.envs = doc.envs
  BY <1>1, <1>2, WithGlobalSame DEF SameBut
<1> QED BY <1>1, <1>3 DEF BaseInv, Fits

LEMMA NextBase == ASSUME Inv, ChoiceType, BaseInv, [Next]_vars PROVE BaseInv'
<1>1. CASE UNCHANGED vars
  BY <1>1 DEF vars, flows, BaseInv, Fits
<1>2. CASE Next
  BY <1>2, NextEditsOrMoves, EditsBase, ToggleBase, SyncLandsBase, SyncPicksBase, ChooseBaseBase,
     BaseLandsBase, BaseThrowsBase, SchemaChangedBase, ResetAllBase, DialogBase
<1> QED BY <1>1, <1>2

LEMMA AlwaysBase == Spec => []BaseInv
<1>1. Inv /\ ChoiceType /\ BaseInv /\ [Next]_vars => BaseInv'
  BY NextBase
<1> QED BY <1>1, AlwaysInv, AlwaysChoice, InitBase, PTL DEF Spec

(* Whatever superseded what, a form that has come to rest on a loaded base has *)
(* one of its selection: the preset of a ticked environment, and scratch only  *)
(* by choice or for an environment without a preset.                           *)
THEOREM BaseFitsSelection == Spec => []BaseOfSelection
<1>1. BaseInv => BaseOfSelection
  BY DEF BaseInv, Fits, BaseOfSelection, Quiet
<1> QED BY <1>1, AlwaysBase, PTL

-----------------------------------------------------------------------------
(* The document is its base and the edits. *)
PresetModel(base, s) ==
  IF base.kind = "default" /\ s \in Binds[base.env] THEN "preset" ELSE "inherit"
PresetValue(base, s) ==
  IF base.kind = "default" /\ s \notin Binds[base.env] /\ s \in Sets[base.env] THEN "preset" ELSE "unset"

(* What makes BaseAndEdits inductive: what was not edited is what the base that*)
(* was laid last says, while another is being loaded too; and a base that is   *)
(* loaded says what its preset does.                                           *)
LaidInv ==
  /\ \A s \in Slots \ edited : doc.bindings[s].model = doc.baseBindings[s].model
  /\ \A s \in Slots \ (edited \cup torn) : doc.values[s] = doc.baseValues[s]
  /\ doc.base.at = "loaded" => \A s \in Slots \ torn :
       /\ doc.baseBindings[s].model = PresetModel(doc.base, s)
       /\ doc.baseValues[s] = PresetValue(doc.base, s)

LEMMA InitLaid == Init => LaidInv
BY DEF Init, LaidInv, PresetModel, PresetValue, Inherit

LEMMA EditsLaid == ASSUME LaidInv, OnlyEdits PROVE LaidInv'
BY DEF LaidInv, OnlyEdits, PresetModel, PresetValue

(* A step that moves neither the settings nor what the base said of them. *)
LEMMA TablesLaid ==
  ASSUME LaidInv, edited' = edited, torn' = torn,
         doc'.values = doc.values, doc'.bindings = doc.bindings,
         doc'.baseValues = doc.baseValues, doc'.baseBindings = doc.baseBindings,
         doc'.base = doc.base \/ doc'.base.at # "loaded"
  PROVE  LaidInv'
<1>1. CASE doc'.base = doc.base
  BY <1>1 DEF LaidInv, PresetModel, PresetValue
<1>2. CASE doc'.base.at # "loaded"
  BY <1>2 DEF LaidInv
<1> QED BY <1>1, <1>2

LEMMA MovesLaid ==
  ASSUME Inv, LaidInv,
         \/ SyncPicks \/ BaseThrows \/ SchemaChanged \/ Confirm \/ Decline
         \/ \E e \in Envs : Toggle(e)
         \/ \E kind \in {"default", "scratch"} : \E env \in Envs : ChooseBase(kind, env)
  PROVE  LaidInv'
<1>1. doc \in Documents
  BY DEF Inv, Types
<1>2. ASSUME NEW kind, NEW env, StartLoad(kind, env), UNCHANGED history PROVE LaidInv'
  BY <1>1, <1>2, TablesLaid DEF StartLoad, history, Documents
<1>3. CASE SyncPicks
  BY <1>2, <1>3, TablesLaid DEF SyncPicks, history
<1>4. CASE BaseThrows
  <2>1. doc' = [doc EXCEPT !.base.at = "failed"] /\ edited' = edited /\ torn' = torn
    BY <1>4 DEF BaseThrows, history
  <2> QED BY <1>1, <2>1, TablesLaid DEF Documents, BaseInfos
<1>5. CASE SchemaChanged
  BY <1>5, TablesLaid DEF SchemaChanged, history
<1>6. ASSUME NEW e \in Envs, Toggle(e) PROVE LaidInv'
  BY <1>1, <1>6, TablesLaid DEF Toggle, Documents
<1>7. ASSUME NEW kind, NEW env, ChooseBase(kind, env) PROVE LaidInv'
  BY <1>2, <1>7, TablesLaid DEF ChooseBase, history
<1>8. CASE Confirm \/ Decline
  BY <1>2, <1>8, TablesLaid DEF Confirm, Decline, history
<1> QED BY <1>3, <1>4, <1>5, <1>6, <1>7, <1>8

(* A prune takes a model from the document and from the base alike; a value of *)
(* the base that it takes is counted as lost.                                  *)
LEMMA SyncLandsLaid == ASSUME Inv, LaidInv, SyncLands PROVE LaidInv'
<1> DEFINE pruned == PrunedDoc(doc, sync.envs, sync.extras)
           slots == SlotsOf(sync.envs, sync.extras)
           fields == FieldsOf(sync.envs)
<1>1. sync.envs \in SUBSET Envs /\ sync.extras \in SUBSET Slots /\ doc \in Documents
  BY DEF Inv, Types, Flows
<1>2. /\ pruned \in Documents /\ pruned.base = doc.base /\ pruned.baseValues = doc.baseValues
      /\ \A s \in Slots :
           /\ pruned.values[s] = IF s \in fields THEN doc.values[s] ELSE "unset"
           /\ pruned.bindings[s] = IF s \in slots THEN doc.bindings[s] ELSE Inherit
           /\ pruned.baseBindings[s] = IF s \in slots THEN doc.baseBindings[s] ELSE Inherit
  <2>1. pruned \in Documents /\ pruned.base = doc.base
    BY <1>1, PrunedDocDoc
  <2> QED BY <1>1, <2>1 DEF PrunedDoc, Documents
<1>3. /\ doc' = WithGlobal(pruned, sync.envs, sync.extras) /\ edited' = edited
      /\ torn' = torn \cup {s \in Slots : pruned.baseBindings[s] # doc.baseBindings[s]}
                      \cup ({s \in Slots : doc.baseValues[s] # "unset"} \ fields)
  BY DEF SyncLands
<1> HIDE DEF pruned, slots, fields
<1>4. SameBut(doc', pruned, {})
  BY <1>2, <1>3, WithGlobalSame
<1>5. ASSUME NEW s \in Slots, s \notin edited' PROVE (doc'.bindings[s].model = doc'.baseBindings[s].model)
  <2>1. doc.bindings[s].model = doc.baseBindings[s].model
    BY <1>3, <1>5 DEF LaidInv
  <2> QED BY <1>2, <1>4, <2>1 DEF SameBut
<1>6. ASSUME NEW s \in Slots, s \notin edited' \cup torn' PROVE doc'.values[s] = doc'.baseValues[s]
  <2>1. doc.values[s] = doc.baseValues[s] /\ (s \notin fields => doc.baseValues[s] = "unset")
    BY <1>3, <1>6 DEF LaidInv
  <2> QED BY <1>2, <1>4, <2>1 DEF SameBut
<1>7. ASSUME doc'.base.at = "loaded", NEW s \in Slots, s \notin torn'
      PROVE  /\ doc'.baseBindings[s].model = PresetModel(doc'.base, s)
             /\ doc'.baseValues[s] = PresetValue(doc'.base, s)
  <2>1. doc'.base = doc.base
    BY <1>2, <1>4 DEF SameBut
  <2>2. /\ doc.baseBindings[s].model = PresetModel(doc.base, s)
        /\ doc.baseValues[s] = PresetValue(doc.base, s)
    BY <1>3, <1>7, <2>1 DEF LaidInv
  <2>3. pruned.baseBindings[s] = doc.baseBindings[s]
    BY <1>3, <1>7
  <2> QED BY <1>2, <1>4, <2>1, <2>2, <2>3 DEF SameBut
<1> QED BY <1>5, <1>6, <1>7 DEF LaidInv

LEMMA ResetAllLaid == ASSUME Inv, LaidInv, ResetAll PROVE LaidInv'
<1> DEFINE kept(s) == doc.bindings[s].model = doc.baseBindings[s].model
           back == [doc EXCEPT !.values = doc.baseValues,
                               !.bindings = [s \in Slots |-> IF kept(s) THEN @[s] ELSE doc.baseBindings[s]]]
<1>1. doc' = WithGlobal(back, doc.envs, doc.extras) /\ torn' = torn
  BY DEF ResetAll, Replace
<1>2. /\ back \in Documents /\ back.base = doc.base /\ back.values = doc.baseValues
      /\ back.baseValues = doc.baseValues /\ back.baseBindings = doc.baseBindings
      /\ \A s \in Slots : back.bindings[s].model = doc.baseBindings[s].model
  BY PlainBindings DEF Inv, Types, Documents
<1> HIDE DEF back
<1>3. SameBut(doc', back, {})
  BY <1>1, <1>2, WithGlobalSame
<1> QED BY <1>1, <1>2, <1>3 DEF SameBut, LaidInv, PresetModel, PresetValue

(* next is d on the base with these models and values. *)
Laying(d, next, binds, sets, envs, extras) ==
  \A s \in Slots :
    LET bound == s \in binds \cap SlotsOf(envs, extras)
        unedited == d.bindings[s].model = d.baseBindings[s].model
    IN /\ next.baseBindings[s].model = IF bound THEN "preset" ELSE "inherit"
       /\ next.baseValues[s] =
            IF s \in sets /\ ~bound /\ (envs = {} \/ s \in FieldsOf(envs)) THEN "preset" ELSE "unset"
       /\ unedited => next.bindings[s] = next.baseBindings[s]
       /\ unedited /\ (s \notin FieldsOf(envs) \/ d.values[s] = d.baseValues[s])
            => next.values[s] = next.baseValues[s]

LEMMA LaidLaying ==
  ASSUME NEW d \in Documents, NEW binds, NEW sets, NEW envs \in SUBSET Envs, NEW extras \in SUBSET Slots
  PROVE  Laying(d, Laid(d, binds, sets, envs, extras), binds, sets, envs, extras)
<1> DEFINE slots == SlotsOf(envs, extras)
           next == Laid(d, binds, sets, envs, extras)
           bound(s) == s \in binds \cap slots
           says(s) == s \in sets /\ ~bound(s) /\ (envs = {} \/ s \in FieldsOf(envs))
           baseBindings == BaseBindings(binds, envs, extras)
           baseValues == BaseValues(sets, baseBindings, envs)
           bindings == [s \in Slots |->
             IF s \in slots /\ d.bindings[s].model # d.baseBindings[s].model
             THEN d.bindings[s] ELSE baseBindings[s]]
           values == [s \in Slots |->
             IF s \in FieldsOf(envs) /\ d.values[s] # d.baseValues[s]
             THEN d.values[s] ELSE baseValues[s]]
           m == [d EXCEPT !.baseBindings = baseBindings, !.baseValues = baseValues,
                          !.bindings = bindings, !.values = Stripped(values, bindings, slots)]
<1>1. \A s \in Slots : baseBindings[s] = IF bound(s) THEN Keyless ELSE Inherit
  BY DEF BaseBindings
<1>2. baseBindings \in [Slots -> BaseBound]
  BY PlainBindings DEF BaseBindings
<1>3. Bound(Keyless) /\ ~Bound(Inherit) /\ Keyless.model = "preset" /\ Inherit.model = "inherit"
  BY DEF Bound, Keyless, Inherit
<1> HIDE DEF baseBindings
<1>4. \A s \in Slots : baseValues[s] = IF says(s) THEN "preset" ELSE "unset"
  BY <1>1, <1>3 DEF BaseValues
<1>5. baseValues \in [Slots -> Values]
  BY DEF BaseValues, Values
<1>6. next = WithGlobal(m, envs, extras)
  BY DEF Laid, baseBindings
<1> HIDE DEF baseValues, says, next
<1>7. bindings \in [Slots -> Bindings] /\ values \in [Slots -> Values]
  BY <1>2, <1>5, PlainBindings DEF Documents
<1>8. \A s \in Slots :
        /\ d.bindings[s].model = d.baseBindings[s].model => bindings[s] = baseBindings[s]
        /\ s \notin FieldsOf(envs) \/ d.values[s] = d.baseValues[s] => values[s] = baseValues[s]
  OBVIOUS
<1> HIDE DEF bindings, values
<1>9. /\ Stripped(values, bindings, slots) \in [Slots -> Values]
      /\ \A s \in Slots : Stripped(values, bindings, slots)[s] =
                            IF s \in slots /\ Bound(bindings[s]) THEN "unset" ELSE values[s]
  BY <1>7 DEF Stripped, Values
<1>10. /\ m \in Documents /\ m.baseBindings = baseBindings /\ m.baseValues = baseValues
       /\ m.bindings = bindings /\ m.values = Stripped(values, bindings, slots)
  BY <1>2, <1>5, <1>7, <1>9 DEF Documents
<1> HIDE DEF m
<1>11. SameBut(next, m, {})
  BY <1>6, <1>10, WithGlobalSame
<1>12. ASSUME NEW s \in Slots
       PROVE  /\ next.baseBindings[s] = baseBindings[s] /\ next.baseValues[s] = baseValues[s]
              /\ next.bindings[s] = bindings[s]
              /\ next.values[s] = IF s \in slots /\ Bound(bindings[s]) THEN "unset" ELSE values[s]
  BY <1>9, <1>10, <1>11 DEF SameBut
<1>13. ASSUME NEW s \in Slots,
              d.bindings[s].model = d.baseBindings[s].model,
              s \notin FieldsOf(envs) \/ d.values[s] = d.baseValues[s]
       PROVE  next.values[s] = next.baseValues[s]
  <2>1. bindings[s] = baseBindings[s] /\ values[s] = baseValues[s]
    BY <1>8, <1>13
  <2>2. Bound(bindings[s]) => bound(s)
    BY <1>1, <1>3, <2>1
  <2>3. bound(s) => baseValues[s] = "unset"
    BY <1>4 DEF says
  <2> QED BY <1>12, <2>1, <2>2, <2>3
<1>14. ASSUME NEW s \in Slots
       PROVE  next.baseBindings[s].model = IF bound(s) THEN "preset" ELSE "inherit"
  BY <1>1, <1>3, <1>12
<1>15. ASSUME NEW s \in Slots
       PROVE  next.baseValues[s] = IF says(s) THEN "preset" ELSE "unset"
  BY <1>4, <1>12
<1> QED BY <1>8, <1>12, <1>13, <1>14, <1>15 DEF Laying, next, says

(* An endpoint of the experiment has a slot where an environment knows it. *)
LEMMA ExtrasGiveSlots ==
  ASSUME NEW envs, NEW extras, NEW more, extras \subseteq more
  PROVE  /\ SlotsOf(envs, extras) \subseteq SlotsOf(envs, more)
         /\ FieldsOf(envs) \cap more \subseteq SlotsOf(envs, more)
BY DEF SlotsOf, FieldsOf

LEMMA BaseLandsLaid == ASSUME Inv, LaidInv, NEW found \in BOOLEAN, BaseLands(found) PROVE LaidInv'
<1> DEFINE preset == found /\ load.kind = "default"
           binds == IF preset THEN Binds[load.env] ELSE {}
           sets == IF preset THEN Sets[load.env] ELSE {}
           asked == binds \ SlotsOf(load.envs, {})
           extras == load.extras \cup asked
           added == asked \cap SlotsOf(load.envs, extras)
           with == WithExtras(doc, added)
           next == Laid(with, binds, sets, load.envs, extras)
           base == [kind |-> load.kind, at |-> IF found THEN "loaded" ELSE "failed",
                    env |-> IF load.kind = "default" THEN load.env ELSE NoEnv]
           fields == FieldsOf(load.envs)
           followed == IF Bound(doc.global) THEN added \ doc.extras ELSE {}
<1>1. /\ doc \in Documents /\ load.envs \in SUBSET Envs /\ load.extras \in SUBSET Slots
      /\ load.kind \in {"default", "scratch"} /\ load.env \in Envs
  BY DEF BaseLands, Inv, Types, Flows
<1>2. binds \subseteq Slots
  BY <1>1, EnvsAssumption
<1>3. /\ doc' = [next EXCEPT !.base = base] /\ edited' = edited \cup followed
      /\ torn' = ((binds \cup sets) \ fields)
                   \cup {s \in torn \cap fields : doc.values[s] # doc.baseValues[s]}
  BY DEF BaseLands
<1>4. base.at = "loaded" => \A s \in Slots :
        /\ PresetModel(base, s) = IF s \in binds THEN "preset" ELSE "inherit"
        /\ PresetValue(base, s) = IF s \notin binds /\ s \in sets THEN "preset" ELSE "unset"
  BY <1>1 DEF PresetModel, PresetValue
<1>5. binds \cap fields \subseteq SlotsOf(load.envs, extras)
  BY ExtrasGiveSlots
<1> HIDE DEF binds, sets, base
<1>6. extras \in SUBSET Slots /\ added \in SUBSET Slots
  BY <1>1, <1>2
<1> HIDE DEF added, extras
<1>7. with \in Documents /\ SameBut(with, doc, followed)
  BY <1>1, <1>6, WithExtrasDoc, WithExtrasSame
<1> HIDE DEF with, followed
<1>8. next \in Documents
  BY <1>1, <1>6, <1>7, LaidDoc
<1>9. Laying(with, next, binds, sets, load.envs, extras)
  BY <1>1, <1>6, <1>7, LaidLaying
<1> HIDE DEF next
<1>10. /\ doc'.bindings = next.bindings /\ doc'.baseBindings = next.baseBindings
       /\ doc'.values = next.values /\ doc'.baseValues = next.baseValues /\ doc'.base = base
  BY <1>3, <1>8 DEF Documents
<1>11. ASSUME NEW s \in Slots, s \notin edited'
       PROVE  /\ with.bindings[s].model = with.baseBindings[s].model
              /\ with.values[s] = doc.values[s] /\ with.baseValues[s] = doc.baseValues[s]
  <2>1. doc.bindings[s].model = doc.baseBindings[s].model /\ s \notin followed
    BY <1>3, <1>11 DEF LaidInv
  <2> QED BY <1>7, <2>1 DEF SameBut
<1>12. ASSUME NEW s \in Slots, s \notin edited'
       PROVE  doc'.bindings[s].model = doc'.baseBindings[s].model
  BY <1>9, <1>10, <1>11, <1>12 DEF Laying
<1>13. ASSUME NEW s \in Slots, s \notin edited' \cup torn'
       PROVE  doc'.values[s] = doc'.baseValues[s]
  <2>1. s \notin fields \/ doc.values[s] = doc.baseValues[s]
    BY <1>3, <1>13 DEF LaidInv
  <2>2. /\ with.bindings[s].model = with.baseBindings[s].model
        /\ s \notin fields \/ with.values[s] = with.baseValues[s]
    BY <1>11, <1>13, <2>1
  <2> QED BY <1>9, <1>10, <2>2 DEF Laying
<1>14. ASSUME doc'.base.at = "loaded", NEW s \in Slots, s \notin torn'
       PROVE  /\ doc'.baseBindings[s].model = PresetModel(doc'.base, s)
              /\ doc'.baseValues[s] = PresetValue(doc'.base, s)
  <2>1. s \in binds \cup sets => s \in fields
    BY <1>3, <1>14
  <2>2. s \in binds => s \in SlotsOf(load.envs, extras)
    BY <1>5, <2>1
  <2>3. /\ next.baseBindings[s].model = IF s \in binds THEN "preset" ELSE "inherit"
        /\ next.baseValues[s] = IF s \notin binds /\ s \in sets THEN "preset" ELSE "unset"
    BY <1>9, <2>1, <2>2 DEF Laying
  <2> QED BY <1>4, <1>10, <1>14, <2>3
<1> QED BY <1>12, <1>13, <1>14 DEF LaidInv

LEMMA NextLaid == ASSUME Inv, LaidInv, [Next]_vars PROVE LaidInv'
<1>1. CASE UNCHANGED vars
  BY <1>1 DEF vars, history, LaidInv, PresetModel, PresetValue
<1>2. CASE Next
  BY <1>2, NextEditsOrMoves, EditsLaid, MovesLaid, SyncLandsLaid, ResetAllLaid, BaseLandsLaid
<1> QED BY <1>1, <1>2

(* Whatever was pruned, laid and laid again while the user went on editing,    *)
(* what he did not touch is what the preset of the base says.                  *)
THEOREM BaseAndEditsAre == Spec => []BaseAndEdits
<1>1. Inv /\ LaidInv /\ [Next]_vars => LaidInv'
  BY NextLaid
<1>2. LaidInv => BaseAndEdits
  <2> SUFFICES ASSUME LaidInv, doc.base.at = "loaded", NEW s \in Slots \ (edited \cup torn)
               PROVE  /\ doc.bindings[s].model = PresetModel(doc.base, s)
                      /\ doc.values[s] = PresetValue(doc.base, s)
    BY DEF BaseAndEdits, PresetModel, PresetValue
  <2> QED BY DEF LaidInv
<1> QED BY <1>1, <1>2, AlwaysInv, InitLaid, PTL DEF Spec
=============================================================================
