------------------------- MODULE DraftRules_proofs --------------------------
(* Proofs about DraftRules, for every set of texts and all bounds.            *)
EXTENDS DraftRules, SequenceTheorems, FiniteSetTheorems, WellFoundedInduction, TLAPS

(* An answer gives the rules ids, and leaves their texts as they are typed. *)
LEMMA AdoptedTexts ==
  ASSUME NEW saved
  PROVE  /\ TextsOf(Adopted(saved)) = TextsOf(rules)
         /\ IsComplete(Adopted(saved)) = IsComplete(rules)
<1>1. /\ DOMAIN Adopted(saved) = DOMAIN rules
      /\ \A i \in DOMAIN rules : Adopted(saved)[i].text = rules[i].text
  BY DEF Adopted
<1> QED BY <1>1 DEF TextsOf, IsComplete

LEMMA InitForgetsNothing == Init => NothingForgotten
BY DEF Init, NothingForgotten

(* A change sets the timer. *)
LEMMA ChangeForgetsNothing ==
  ASSUME NEW next, NEW moved, Change(next, moved)
  PROVE  NothingForgotten'
BY DEF Change, NothingForgotten

(* A save takes along the list as it is. *)
LEMMA FlushForgetsNothing ==
  ASSUME NothingForgotten, Flush
  PROVE  NothingForgotten'
<1>1. CASE IsComplete(rules)
  BY <1>1 DEF Flush, SaveOf, NothingForgotten, TextsOf, server
<1>2. CASE ~IsComplete(rules)
  BY <1>2 DEF Flush, NothingForgotten, IsComplete
<1> QED BY <1>1, <1>2

LEMMA LeaveForgetsNothing ==
  ASSUME NothingForgotten, Leave
  PROVE  NothingForgotten'
<1>1. CASE timer /\ IsComplete(rules)
  BY <1>1 DEF Leave, SaveOf, NothingForgotten, TextsOf
<1>2. CASE ~(timer /\ IsComplete(rules))
  <2>1. timer' = FALSE /\ rules' = rules /\ sent' = sent
    BY <1>2 DEF Leave
  <2>2. ~IsComplete(rules) \/ TextsOf(rules) = sent
    BY <1>2 DEF NothingForgotten
  <2> QED BY <2>1, <2>2 DEF NothingForgotten, TextsOf, IsComplete
<1> QED BY <1>1, <1>2

(* The editor shows what the cache has; no timer was set while it was gone. *)
LEMMA OpenForgetsNothing ==
  ASSUME NothingForgotten, Open
  PROVE  NothingForgotten'
BY DEF Open, NothingForgotten, TextsOf

LEMMA LandForgetsNothing ==
  ASSUME NothingForgotten, NEW s \in saves, Land(s)
  PROVE  NothingForgotten'
<1>1. timer' = timer /\ open' = open /\ sent' = sent
  BY DEF Land
<1>2. CASE s.n = latest
  <2>1. rules' = Adopted(s.answer)
    BY <1>2 DEF Land
  <2>2. TextsOf(rules)' = TextsOf(rules) /\ IsComplete(rules)' = IsComplete(rules)
    BY <2>1, AdoptedTexts DEF TextsOf, IsComplete
  <2> QED BY <1>1, <2>2 DEF NothingForgotten
<1>3. CASE s.n # latest
  <2>1. rules' = rules
    BY <1>3 DEF Land
  <2> QED BY <1>1, <2>1 DEF NothingForgotten, TextsOf, IsComplete
<1> QED BY <1>2, <1>3

(* The steps that leave the list, its timer and what was sent alone. *)
LEMMA OthersForgetNothing ==
  ASSUME NothingForgotten, UNCHANGED <<rules, timer, open, sent>>
  PROVE  NothingForgotten'
BY DEF NothingForgotten, TextsOf, IsComplete

LEMMA NextForgetsNothing ==
  ASSUME NothingForgotten, [Next]_vars
  PROVE  NothingForgotten'
<1>1. CASE Add
  BY <1>1, ChangeForgetsNothing DEF Add
<1>2. ASSUME NEW i \in DOMAIN rules, Delete(i) PROVE NothingForgotten'
  BY <1>2, ChangeForgetsNothing DEF Delete
<1>3. ASSUME NEW i \in DOMAIN rules, NEW t \in Texts \cup {Blank}, Update(i, t)
      PROVE  NothingForgotten'
  BY <1>3, ChangeForgetsNothing DEF Update
<1>4. CASE Flush
  BY <1>4, FlushForgetsNothing
<1>5. CASE Leave
  BY <1>5, LeaveForgetsNothing
<1>6. CASE Open
  BY <1>6, OpenForgetsNothing
<1>7. ASSUME NEW s \in saves, Land(s) PROVE NothingForgotten'
  BY <1>7, LandForgetsNothing
<1>8. ASSUME NEW s \in saves, Apply(s) \/ Fail(s) \/ Lose(s) PROVE NothingForgotten'
  BY <1>8, OthersForgetNothing DEF Apply, Fail, Lose, editor
<1>9. CASE Ask \/ Cancel \/ Publish \/ Refreshed
  BY <1>9, OthersForgetNothing DEF Ask, Cancel, Publish, Refreshed, editor
<1>10. CASE UNCHANGED vars
  BY <1>10, OthersForgetNothing DEF vars, editor
<1> QED
  BY <1>1, <1>2, <1>3, <1>4, <1>5, <1>6, <1>7, <1>8, <1>9, <1>10 DEF Next

(* What the user typed is never forgotten: it was sent, or the autosave that   *)
(* sends it is set, or the list is not complete yet (useDraftRules).           *)
THEOREM ForgetsNothing == Spec => []NothingForgotten
BY InitForgetsNothing, NextForgetsNothing, PTL DEF Spec

-----------------------------------------------------------------------------
(* Ranks: members of a finite set of positions counted from below.            *)
Rank(F, i) == Cardinality({j \in F : j <= i})

LEMMA HasLeast ==
  ASSUME NEW S \in SUBSET Nat, S # {}
  PROVE  \E x \in S : \A y \in S : x <= y
<1> DEFINE R == OpToRel(<, Nat)
<1>1. IsWellFoundedOn(R, Nat)
  BY NatLessThanWellFounded
<1>2. R = {ss \in Nat \X Nat : ss[1] < ss[2]}
  BY DEF OpToRel
<1> HIDE DEF R
<1>3. PICK x \in S : \A y \in S : ~ (<<y, x>> \in R)
  BY <1>1, WFMin
<1>4. \A y \in S : ~(y < x)
  BY <1>2, <1>3
<1> QED BY <1>4

LEMMA Ranked ==
  ASSUME NEW N \in Nat, NEW F \in SUBSET (1..N), NEW i \in 0..N
  PROVE  IsFiniteSet({j \in F : j <= i}) /\ Rank(F, i) \in Nat /\ Rank(F, i) <= Cardinality(F)
<1>1. IsFiniteSet(1..N) /\ Cardinality(1..N) = N
  BY FS_Interval
<1>2. IsFiniteSet(F) /\ Cardinality(F) \in Nat /\ Cardinality(F) <= N
  BY <1>1, FS_Subset, FS_CardinalityType
<1> DEFINE G == {j \in F : j <= i}
<1>3. G \subseteq F
  OBVIOUS
<1> HIDE DEF G
<1>4. IsFiniteSet(G) /\ Cardinality(G) \in Nat /\ Cardinality(G) <= Cardinality(F)
  BY <1>2, <1>3, FS_Subset, FS_CardinalityType
<1> QED BY <1>4 DEF G, Rank

LEMMA Ranks ==
  ASSUME NEW N \in Nat, NEW F \in SUBSET (1..N)
  PROVE  /\ Cardinality(F) \in Nat /\ Cardinality(F) <= N
         /\ \A i \in 0..N : Rank(F, i) \in Nat /\ Rank(F, i) <= Cardinality(F)
<1>1. IsFiniteSet(1..N) /\ Cardinality(1..N) = N
  BY FS_Interval
<1>2. Cardinality(F) \in Nat /\ Cardinality(F) <= N
  BY <1>1, FS_Subset, FS_CardinalityType
<1> QED BY <1>2, Ranked

(* The next position adds itself, if it is a member. *)
LEMMA RankNext ==
  ASSUME NEW N \in Nat, NEW F \in SUBSET (1..N), NEW i \in 1..N
  PROVE  Rank(F, i) = IF i \in F THEN Rank(F, i - 1) + 1 ELSE Rank(F, i - 1)
<1> DEFINE G == {j \in F : j <= i - 1}
           H == {j \in F : j <= i}
<1>1. IsFiniteSet(G) /\ Cardinality(G) \in Nat
  <2>1. i - 1 \in 0..N
    OBVIOUS
  <2> QED BY <2>1, Ranked, FS_CardinalityType
<1>2. i \notin G /\ (i \in F => H = G \cup {i}) /\ (i \notin F => H = G)
  <2>1. \A j \in F : j <= i <=> j <= i - 1 \/ j = i
    OBVIOUS
  <2>2. i \notin G
    OBVIOUS
  <2>3. \A j : j \in H <=> j \in G \/ (j \in F /\ j = i)
    BY <2>1
  <2> HIDE DEF G, H
  <2> QED BY <2>2, <2>3
<1> HIDE DEF G, H
<1>3. i \in F => Cardinality(H) = Cardinality(G) + 1
  BY <1>1, <1>2, FS_AddElement
<1> QED BY <1>2, <1>3 DEF G, H, Rank

(* Ranks tell members apart, and every rank up to the number of them is one's. *)
LEMMA RankOrders ==
  ASSUME NEW N \in Nat, NEW F \in SUBSET (1..N), NEW i \in F, NEW k \in F, i < k
  PROVE  Rank(F, i) < Rank(F, k)
<1> DEFINE G == {j \in F : j <= i}
           H == {j \in F : j <= k}
<1>1. i \in 0..N /\ k \in 0..N
  OBVIOUS
<1>2. IsFiniteSet(H) /\ Cardinality(H) \in Nat /\ IsFiniteSet(G) /\ Cardinality(G) \in Nat
  BY <1>1, Ranked, FS_CardinalityType
<1>3. G \subseteq H /\ k \in H /\ k \notin G
  <2>1. \A j \in F : j <= i => j <= k
    OBVIOUS
  <2>2. k <= k /\ ~(k <= i)
    OBVIOUS
  <2> QED BY <2>1, <2>2
<1> HIDE DEF G, H
<1>4. Cardinality(G) <= Cardinality(H) /\ (Cardinality(G) = Cardinality(H) => G = H)
  BY <1>2, <1>3, FS_Subset
<1>5. Cardinality(G) < Cardinality(H)
  BY <1>2, <1>3, <1>4
<1> QED BY <1>5 DEF G, H, Rank

LEMMA RankTells ==
  ASSUME NEW N \in Nat, NEW F \in SUBSET (1..N), NEW i \in F, NEW k \in F, Rank(F, i) = Rank(F, k)
  PROVE  i = k
<1>1. Rank(F, i) \in Nat /\ i \in Int /\ k \in Int
  <2>1. i \in 0..N /\ i \in Int /\ k \in Int
    OBVIOUS
  <2> QED BY <2>1, Ranks
<1>2. (i < k => Rank(F, i) < Rank(F, k)) /\ (k < i => Rank(F, k) < Rank(F, i))
  BY RankOrders
<1> QED BY <1>1, <1>2

LEMMA RankTaken ==
  ASSUME NEW N \in Nat, NEW F \in SUBSET (1..N), NEW n \in 1..Cardinality(F)
  PROVE  \E i \in F : Rank(F, i) = n
<1> DEFINE Reached == {i \in 0..N : Rank(F, i) >= n}
<1>1. Cardinality(F) \in Nat /\ Cardinality(F) <= N /\ \A i \in 0..N : Rank(F, i) \in Nat
  BY Ranks
<1>2. Rank(F, N) = Cardinality(F) /\ Rank(F, 0) = 0
  <2>1. \A j \in F : j <= N /\ ~(j <= 0)
    OBVIOUS
  <2>2. {j \in F : j <= N} = F /\ {j \in F : j <= 0} = {}
    BY <2>1
  <2> QED BY <2>2, FS_EmptySet DEF Rank
<1>3. PICK i \in Reached : \A k \in Reached : i <= k
  <2>1. Reached \in SUBSET Nat /\ N \in Reached
    BY <1>1, <1>2
  <2> HIDE DEF Reached
  <2> QED BY <2>1, HasLeast
<1>4. i # 0
  BY <1>1, <1>2, <1>3
<1>5. i \in 1..N /\ i - 1 \in 0..N /\ i - 1 \notin Reached
  BY <1>3, <1>4
<1>6. Rank(F, i - 1) < n /\ Rank(F, i) >= n /\ Rank(F, i - 1) \in Nat /\ Rank(F, i) \in Nat
  BY <1>1, <1>3, <1>5
<1>7. Rank(F, i) = IF i \in F THEN Rank(F, i - 1) + 1 ELSE Rank(F, i - 1)
  BY <1>5, RankNext
<1>8. i \in F /\ Rank(F, i) = n
  BY <1>1, <1>6, <1>7
<1> QED BY <1>8

(* All positions: each is its own rank. *)
LEMMA RankOfAll ==
  ASSUME NEW N \in Nat, NEW F \in SUBSET (1..N), Cardinality(F) = N
  PROVE  F = 1..N /\ \A i \in 1..N : Rank(F, i) = i
<1>1. F = 1..N
  <2>1. IsFiniteSet(1..N) /\ Cardinality(1..N) = N
    BY FS_Interval
  <2> QED BY <2>1, FS_Subset
<1>2. ASSUME NEW i \in 1..N PROVE Rank(F, i) = i
  <2>1. {j \in F : j <= i} = 1..i
    BY <1>1
  <2>2. Cardinality(1..i) = i
    BY FS_Interval
  <2> QED BY <2>1, <2>2 DEF Rank
<1> QED BY <1>1, <1>2

-----------------------------------------------------------------------------
(* The server's list: of the rules with one title the first.                  *)
Firsts(list) == {i \in DOMAIN list : \A j \in 1..(i - 1) : list[j].text # list[i].text}

(* The n-th of them is the first of n-th rank. *)
LEMMA KeptAre ==
  ASSUME NEW N \in Nat, NEW list, DOMAIN list = 1..N
  PROVE  /\ Firsts(list) \in SUBSET (1..N)
         /\ Cardinality(Firsts(list)) \in Nat /\ Cardinality(Firsts(list)) <= N
         /\ DOMAIN Kept(list) = 1..Cardinality(Firsts(list))
         /\ \A n \in DOMAIN Kept(list) :
              \E i \in Firsts(list) : Rank(Firsts(list), i) = n /\ Kept(list)[n] = list[i]
<1> DEFINE F == Firsts(list)
           nth == [n \in Nat |-> CHOOSE i \in F : Rank(F, i) = n]
<1>1. F \in SUBSET (1..N)
  BY DEF Firsts
<1>2. Kept(list) = [n \in 1..Cardinality(F) |-> list[nth[n]]]
  BY DEF Kept, Firsts, Rank
<1> HIDE DEF F
<1>3. Cardinality(F) \in Nat /\ Cardinality(F) <= N
  BY <1>1, Ranks
<1>4. ASSUME NEW n \in 1..Cardinality(F)
      PROVE  \E i \in F : Rank(F, i) = n /\ Kept(list)[n] = list[i]
  <2>1. \E i \in F : Rank(F, i) = n
    BY <1>1, RankTaken
  <2>2. n \in Nat /\ nth[n] = CHOOSE i \in F : Rank(F, i) = n
    BY <1>3
  <2>3. nth[n] \in F /\ Rank(F, nth[n]) = n
    BY <2>1, <2>2
  <2>4. Kept(list)[n] = list[nth[n]]
    BY <1>2
  <2> QED BY <2>3, <2>4
<1>5. DOMAIN Kept(list) = 1..Cardinality(F)
  BY <1>2
<1> QED BY <1>1, <1>3, <1>4, <1>5 DEF F

(* What is kept are rules of the list, a title once. *)
LEMMA KeptFrom ==
  ASSUME NEW R, NEW list \in Seq(R)
  PROVE  /\ Kept(list) \in Seq(R)
         /\ \A n \in DOMAIN Kept(list) : \E i \in DOMAIN list : Kept(list)[n] = list[i]
         /\ \A n \in DOMAIN Kept(list) : \A m \in DOMAIN Kept(list) :
              Kept(list)[n].text = Kept(list)[m].text => n = m
         /\ IsComplete(list) => IsComplete(Kept(list))
<1> DEFINE F == Firsts(list)
           N == Len(list)
           kept == Kept(list)
<1>1. N \in Nat /\ DOMAIN list = 1..N /\ \A i \in 1..N : list[i] \in R
  BY LenProperties, ElementOfSeq
<1> HIDE DEF N
<1>2. /\ F \in SUBSET (1..N) /\ Cardinality(F) \in Nat
      /\ DOMAIN kept = 1..Cardinality(F)
      /\ \A n \in DOMAIN kept : \E i \in F : Rank(F, i) = n /\ kept[n] = list[i]
  BY <1>1, KeptAre
<1>3. \A i \in F : \A j \in 1..(i - 1) : list[j].text # list[i].text
  BY DEF Firsts
<1>4. kept = [n \in 1..Cardinality(F) |-> kept[n]]
  BY <1>2 DEF Kept
<1> HIDE DEF F, kept
<1>5. \A n \in DOMAIN kept : \E i \in DOMAIN list : kept[n] = list[i]
  BY <1>1, <1>2
<1>6. kept \in Seq(R)
  <2>1. \A n \in 1..Cardinality(F) : kept[n] \in R
    BY <1>1, <1>2
  <2> QED BY <1>2, <1>4, <2>1, SeqDef
<1>7. ASSUME NEW n \in DOMAIN kept, NEW m \in DOMAIN kept, kept[n].text = kept[m].text
      PROVE  n = m
  <2>1. PICK i \in F : Rank(F, i) = n /\ kept[n] = list[i]
    BY <1>2
  <2>2. PICK k \in F : Rank(F, k) = m /\ kept[m] = list[k]
    BY <1>2
  <2>3. i \in 1..N /\ k \in 1..N /\ list[i].text = list[k].text
    BY <1>2, <1>7, <2>1, <2>2
  <2>4. i = k
    <3>1. ~(i < k)
      <4> SUFFICES ASSUME i < k PROVE FALSE
        OBVIOUS
      <4>1. i \in 1..(k - 1)
        BY <1>1, <2>3
      <4> QED BY <1>3, <2>3, <4>1
    <3>2. ~(k < i)
      <4> SUFFICES ASSUME k < i PROVE FALSE
        OBVIOUS
      <4>1. k \in 1..(i - 1)
        BY <1>1, <2>3
      <4> QED BY <1>3, <2>3, <4>1
    <3> QED BY <1>1, <2>3, <3>1, <3>2
  <2> QED BY <2>1, <2>2, <2>4
<1>8. IsComplete(list) => IsComplete(kept)
  BY <1>5 DEF IsComplete
<1> QED BY <1>5, <1>6, <1>7, <1>8 DEF kept

(* If nothing is dropped the list stays as it is. *)
LEMMA KeptWhole ==
  ASSUME NEW R, NEW list \in Seq(R), DOMAIN Kept(list) = DOMAIN list
  PROVE  \A i \in DOMAIN list : Kept(list)[i] = list[i]
<1> DEFINE F == Firsts(list)
           N == Len(list)
<1>1. N \in Nat /\ DOMAIN list = 1..N
  BY LenProperties
<1> HIDE DEF N
<1>2. /\ F \in SUBSET (1..N) /\ Cardinality(F) \in Nat
      /\ DOMAIN Kept(list) = 1..Cardinality(F)
      /\ \A n \in DOMAIN Kept(list) : \E i \in F : Rank(F, i) = n /\ Kept(list)[n] = list[i]
  BY <1>1, KeptAre
<1> HIDE DEF F
<1>3. Cardinality(F) = N
  <2> DEFINE c == Cardinality(F)
  <2>1. 1..c = 1..N /\ c \in Nat
    BY <1>1, <1>2
  <2> HIDE DEF c
  <2>2. \A m \in Nat : Cardinality(1..m) = m
    BY FS_Interval
  <2>3. Cardinality(1..c) = c /\ Cardinality(1..N) = N
    BY <1>1, <2>1, <2>2
  <2> QED BY <2>1, <2>3 DEF c
<1>4. F = 1..N /\ \A i \in 1..N : Rank(F, i) = i
  BY <1>1, <1>2, <1>3, RankOfAll
<1>5. ASSUME NEW n \in DOMAIN list PROVE Kept(list)[n] = list[n]
  <2>1. PICK i \in F : Rank(F, i) = n /\ Kept(list)[n] = list[i]
    BY <1>2
  <2>2. i = n
    BY <1>4, <2>1
  <2> QED BY <2>1, <2>2
<1> QED BY <1>5

(* Which texts are kept depends on the texts alone. *)
LEMMA KeptTexts ==
  ASSUME NEW N \in Nat, NEW a, NEW b, DOMAIN a = 1..N, DOMAIN b = 1..N,
         \A i \in 1..N : a[i].text = b[i].text
  PROVE  TextsOf(Kept(a)) = TextsOf(Kept(b))
<1>1. Firsts(a) = Firsts(b)
  <2>1. ASSUME NEW i \in 1..N, NEW j \in 1..(i - 1) PROVE j \in 1..N
    OBVIOUS
  <2> QED BY <2>1 DEF Firsts
<1> DEFINE F == Firsts(a)
<1>2. /\ F \in SUBSET (1..N) /\ Cardinality(F) \in Nat
      /\ DOMAIN Kept(a) = 1..Cardinality(F)
      /\ \A n \in DOMAIN Kept(a) : \E i \in F : Rank(F, i) = n /\ Kept(a)[n] = a[i]
  BY KeptAre
<1>3. /\ DOMAIN Kept(b) = 1..Cardinality(F)
      /\ \A n \in DOMAIN Kept(b) : \E i \in F : Rank(F, i) = n /\ Kept(b)[n] = b[i]
  <2>1. /\ DOMAIN Kept(b) = 1..Cardinality(Firsts(b))
        /\ \A n \in DOMAIN Kept(b) :
             \E i \in Firsts(b) : Rank(Firsts(b), i) = n /\ Kept(b)[n] = b[i]
    BY KeptAre
  <2> QED BY <1>1, <2>1
<1> HIDE DEF F
<1>4. ASSUME NEW n \in 1..Cardinality(F) PROVE Kept(a)[n].text = Kept(b)[n].text
  <2>1. PICK i \in F : Rank(F, i) = n /\ Kept(a)[n] = a[i]
    BY <1>2
  <2>2. PICK k \in F : Rank(F, k) = n /\ Kept(b)[n] = b[k]
    BY <1>3
  <2>3. i = k
    BY <1>2, <2>1, <2>2, RankTells
  <2> QED BY <1>2, <2>1, <2>2, <2>3
<1> QED BY <1>2, <1>3, <1>4 DEF TextsOf

(* The texts the server makes of a list of texts. *)
OneEach(texts) == TextsOf(Kept([i \in DOMAIN texts |-> [text |-> texts[i]]]))

LEMMA OneEachOf ==
  ASSUME NEW R, NEW list \in Seq(R)
  PROVE  OneEach(TextsOf(list)) = TextsOf(Kept(list))
<1> DEFINE b == [i \in DOMAIN TextsOf(list) |-> [text |-> TextsOf(list)[i]]]
<1>1. Len(list) \in Nat /\ DOMAIN list = 1..Len(list)
  BY LenProperties
<1>2. DOMAIN b = DOMAIN list /\ \A i \in DOMAIN list : b[i].text = list[i].text
  BY DEF TextsOf
<1>3. OneEach(TextsOf(list)) = TextsOf(Kept(b))
  BY DEF OneEach
<1> HIDE DEF b
<1>4. TextsOf(Kept(list)) = TextsOf(Kept(b))
  BY <1>1, <1>2, KeptTexts
<1> QED BY <1>3, <1>4

-----------------------------------------------------------------------------
(* What is under way and what the server has, in inductive form.              *)
IdsOf(list) == [i \in DOMAIN list |-> list[i].id]

(* Ids come from the server, so that no list has one it has not given. *)
Given == 1..ids
StoredRules == [id : Given, text : Texts]
ListedRules == [id : Given \cup {NoId}, text : Texts \cup {Blank}]
Saves == [n : 1..sends, rules : Seq(ListedRules), heard : BOOLEAN,
          at : {"sent", "saved", "refused"}, answer : Seq(StoredRules),
          was : {"draft", "published"}]

TypeInv ==
  /\ ids \in Nat /\ {latest, sends, applied, edits} \subseteq Nat
  /\ {timer, open, editable, asking, overtaken, shifted} \subseteq BOOLEAN
  /\ status \in {"draft", "published"}
  /\ state \in {"idle", "dirty", "saving", "saved", "error", "invalid"}
  /\ stored \in Seq(StoredRules) /\ cached \in Seq(StoredRules)
  /\ \A i \in DOMAIN stored : \A j \in DOMAIN stored : stored[i].text = stored[j].text => i = j
  /\ rules \in Seq(ListedRules)
  /\ \A s \in saves : s \in Saves /\ IsComplete(s.rules)

(* Numbers of saves: the one the editor hears of is the newest, a save is      *)
(* applied once, and only an answer somebody waits for is kept.                *)
NumbersInv ==
  /\ latest \in {0, sends} /\ applied <= sends
  /\ ~open => latest = 0
  /\ open /\ state = "saved" => latest = sends /\ sends # 0
  /\ \A s \in saves : \A r \in saves : s.n = r.n => s = r
  /\ \A s \in saves : s.at = "sent" => s.n # applied
  /\ \A s \in saves : s.at # "sent" => s.heard

(* Texts: the newest save has those last sent, and once it is answered the     *)
(* server has them, unless an older save came after it.                        *)
TextsInv ==
  /\ \A s \in saves : s.n = latest => TextsOf(s.rules) = sent
  /\ \A s \in saves : s.at = "saved" /\ s.n = latest /\ ~overtaken
       => applied = sends /\ s.answer = stored /\ TextsOf(stored) = OneEach(sent)
  /\ open /\ state = "saved" /\ ~overtaken
       => applied = sends /\ TextsOf(stored) = OneEach(sent)

(* Ids: the list has those it was sent with while nothing moved, the answer    *)
(* keeps them, and once it has landed the list has those of the server.        *)
IdsInv ==
  /\ \A s \in saves : s.n = latest /\ s.heard /\ ~shifted => IdsOf(rules) = IdsOf(s.rules)
  /\ \A s \in saves : s.at = "saved" /\ s.n = latest /\ ~overtaken /\ status = "draft"
       => /\ DOMAIN s.answer = DOMAIN Kept(s.rules)
          /\ \A i \in DOMAIN s.answer :
               Kept(s.rules)[i].id # NoId => s.answer[i].id = Kept(s.rules)[i].id
  /\ open /\ state = "saved" /\ ~overtaken /\ ~shifted /\ status = "draft"
       => IdsOf(rules) = IdsOf(stored)

DraftInv == TypeInv /\ NumbersInv /\ TextsInv /\ IdsInv

-----------------------------------------------------------------------------
(* What _rules_with_stable_ids makes of a list. *)
LEMMA IdsAreGiven ==
  ASSUME TypeInv, NEW list \in Seq(ListedRules), IsComplete(list)
  PROVE  /\ DOMAIN WithIds(list).rules = DOMAIN Kept(list)
         /\ \A i \in DOMAIN Kept(list) : WithIds(list).rules[i].text = Kept(list)[i].text
         /\ \A i \in DOMAIN Kept(list) :
              Kept(list)[i].id # NoId => WithIds(list).rules[i].id = Kept(list)[i].id
         /\ WithIds(list).ids \in Nat /\ ids <= WithIds(list).ids
         /\ WithIds(list).rules \in Seq([id : 1..WithIds(list).ids, text : Texts])
         /\ \A i \in DOMAIN WithIds(list).rules : \A j \in DOMAIN WithIds(list).rules :
              WithIds(list).rules[i].text = WithIds(list).rules[j].text => i = j
<1> DEFINE kept == Kept(list)
           prior(i) == {j \in DOMAIN stored : stored[j].text = kept[i].text}
           isNew(i) == kept[i].id = NoId /\ prior(i) = {}
           before(i) == {j \in 1..i : isNew(j)}
           id(i) == IF kept[i].id # NoId THEN kept[i].id
                    ELSE IF isNew(i) THEN ids + Cardinality(before(i))
                    ELSE stored[CHOOSE j \in prior(i) : TRUE].id
           fresh == {j \in DOMAIN kept : isNew(j)}
           given == [i \in DOMAIN kept |-> [id |-> id(i), text |-> kept[i].text]]
           count == ids + Cardinality(fresh)
<1>1. WithIds(list).rules = given /\ WithIds(list).ids = count
  BY DEF WithIds
<1>2. /\ ids \in Nat /\ stored \in Seq(StoredRules)
  BY DEF TypeInv
<1>3. /\ kept \in Seq(ListedRules)
      /\ \A n \in DOMAIN kept : \A m \in DOMAIN kept : kept[n].text = kept[m].text => n = m
      /\ IsComplete(kept)
  BY KeptFrom
<1> HIDE DEF kept
<1>4. /\ Len(kept) \in Nat /\ DOMAIN kept = 1..Len(kept)
      /\ \A i \in DOMAIN kept : kept[i] \in ListedRules
  BY <1>3, LenProperties, ElementOfSeq
<1>5. \A i \in DOMAIN kept : /\ kept[i].id \in Given \cup {NoId}
                             /\ kept[i].text \in Texts
  BY <1>3, <1>4 DEF ListedRules, IsComplete
<1> HIDE DEF isNew
<1>6. IsFiniteSet(fresh) /\ Cardinality(fresh) \in Nat
  <2>1. IsFiniteSet(DOMAIN kept)
    BY <1>4, FS_Interval
  <2>2. fresh \subseteq DOMAIN kept
    OBVIOUS
  <2> HIDE DEF fresh
  <2> QED BY <2>1, <2>2, FS_Subset, FS_CardinalityType
<1>7. ASSUME NEW i \in DOMAIN kept, isNew(i)
      PROVE  Cardinality(before(i)) \in Nat /\ Cardinality(before(i)) >= 1
             /\ Cardinality(before(i)) <= Cardinality(fresh)
  <2>1. before(i) \subseteq fresh /\ i \in before(i)
    BY <1>4, <1>7
  <2> DEFINE B == before(i)
  <2> HIDE DEF fresh, B, before
  <2>2. B \subseteq fresh /\ i \in B
    BY <2>1 DEF B
  <2>3. IsFiniteSet(B) /\ Cardinality(B) \in Nat /\ Cardinality(B) <= Cardinality(fresh)
    BY <1>6, <2>2, FS_Subset, FS_CardinalityType
  <2>4. Cardinality(B) # 0
    BY <2>2, <2>3, FS_EmptySet
  <2> QED BY <2>3, <2>4 DEF B
<1> HIDE DEF before, fresh
<1>8. count \in Nat /\ ids <= count
  BY <1>2, <1>6
<1>9. ASSUME NEW i \in DOMAIN kept PROVE id(i) \in 1..count
  <2>1. CASE kept[i].id # NoId
    <3>1. id(i) = kept[i].id /\ kept[i].id \in 1..ids
      BY <1>5, <2>1 DEF Given
    <3> HIDE DEF id, count
    <3> QED BY <1>2, <1>8, <3>1
  <2>2. CASE kept[i].id = NoId /\ isNew(i)
    <3>1. id(i) = ids + Cardinality(before(i))
      BY <2>2
    <3> HIDE DEF id
    <3> QED BY <1>2, <1>6, <1>7, <2>2, <3>1
  <2>3. CASE kept[i].id = NoId /\ ~isNew(i)
    <3>1. prior(i) # {}
      BY <2>3 DEF isNew
    <3>2. (CHOOSE j \in prior(i) : TRUE) \in DOMAIN stored
      <4> DEFINE P == prior(i)
      <4>1. P # {} /\ P \subseteq DOMAIN stored
        BY <3>1
      <4> HIDE DEF P
      <4>2. (CHOOSE j \in P : TRUE) \in P
        BY <4>1
      <4>3. (CHOOSE j \in P : TRUE) \in DOMAIN stored
        BY <4>1, <4>2
      <4> QED BY <4>3 DEF P
    <3>3. id(i) = stored[CHOOSE j \in prior(i) : TRUE].id
      BY <2>3
    <3> DEFINE p == CHOOSE j \in prior(i) : TRUE
    <3> HIDE DEF p
    <3>4. id(i) = stored[p].id /\ p \in DOMAIN stored
      BY <3>2, <3>3 DEF p
    <3> HIDE DEF id, count
    <3>5. stored[p] \in StoredRules
      BY <1>2, <3>4, ElementOfSeq
    <3> QED BY <1>2, <1>8, <3>4, <3>5 DEF StoredRules, Given
  <2> QED BY <2>1, <2>2, <2>3
<1> HIDE DEF count
<1>10. given \in Seq([id : 1..count, text : Texts])
  <2> HIDE DEF id
  <2>1. \A i \in 1..Len(kept) : [id |-> id(i), text |-> kept[i].text] \in [id : 1..count, text : Texts]
    BY <1>4, <1>5, <1>9
  <2> QED BY <1>4, <2>1, SeqDef
<1>11. \A i \in DOMAIN kept : kept[i].id # NoId => given[i].id = kept[i].id
  OBVIOUS
<1> HIDE DEF id
<1>12. DOMAIN given = DOMAIN kept /\ \A i \in DOMAIN kept : given[i].text = kept[i].text
  OBVIOUS
<1>13. \A i \in DOMAIN given : \A j \in DOMAIN given : given[i].text = given[j].text => i = j
  BY <1>3, <1>12
<1> HIDE DEF given
<1>14. /\ DOMAIN given = DOMAIN Kept(list)
       /\ \A i \in DOMAIN Kept(list) : given[i].text = Kept(list)[i].text
       /\ \A i \in DOMAIN Kept(list) : Kept(list)[i].id # NoId => given[i].id = Kept(list)[i].id
  BY <1>11, <1>12 DEF kept
<1> QED BY <1>1, <1>8, <1>10, <1>13, <1>14

-----------------------------------------------------------------------------
(* Changes of the list. *)
LEMMA ChangeKeeps ==
  ASSUME DraftInv, NEW next \in Seq(ListedRules), NEW moved \in BOOLEAN,
         ~moved => IdsOf(next) = IdsOf(rules), Change(next, moved)
  PROVE  DraftInv'
<1>1. /\ rules' = next /\ timer' = TRUE /\ state' \in {"dirty", "invalid"}
      /\ shifted' = (shifted \/ (moved /\ Heard)) /\ edits' = edits + 1
      /\ UNCHANGED <<server, open, editable, latest, cached, asking, saves, sends, sent>>
  BY DEF Change
<1>2. TypeInv'
  <2>1. edits' \in Nat /\ shifted' \in BOOLEAN /\ rules' \in Seq(ListedRules)
    BY <1>1 DEF DraftInv, TypeInv, Heard
  <2> QED BY <1>1, <2>1 DEF DraftInv, TypeInv, server, Given, StoredRules, ListedRules, Saves, IsComplete
<1>3. NumbersInv'
  BY <1>1 DEF DraftInv, NumbersInv, server
<1>4. TextsInv'
  BY <1>1 DEF DraftInv, TextsInv, server, TextsOf
<1>5. IdsInv'
  <2>1. ASSUME NEW s \in saves, s.n = latest, s.heard, ~shifted'
        PROVE  IdsOf(next) = IdsOf(s.rules)
    <3>1. ~moved /\ ~shifted
      BY <1>1, <2>1 DEF Heard
    <3> QED BY <2>1, <3>1 DEF DraftInv, IdsInv
  <2> QED BY <1>1, <2>1 DEF DraftInv, IdsInv, IdsOf, server
<1> QED BY <1>2, <1>3, <1>4, <1>5 DEF DraftInv

LEMMA UpdateKeeps ==
  ASSUME DraftInv, NEW i \in DOMAIN rules, NEW t \in Texts \cup {Blank}, Update(i, t)
  PROVE  DraftInv'
<1> DEFINE next == [rules EXCEPT ![i].text = t]
<1>1. rules \in Seq(ListedRules)
  BY DEF DraftInv, TypeInv
<1>2. /\ rules[i] \in ListedRules /\ Len(rules) \in Nat /\ DOMAIN rules = 1..Len(rules)
      /\ \A k \in DOMAIN rules : rules[k] \in ListedRules
  BY <1>1, ElementOfSeq, LenProperties
<1>3. [rules[i] EXCEPT !.text = t] \in ListedRules /\ [rules[i] EXCEPT !.text = t].id = rules[i].id
  BY <1>2 DEF ListedRules
<1>4. next = [k \in 1..Len(rules) |-> IF k = i THEN [rules[i] EXCEPT !.text = t] ELSE rules[k]]
  BY <1>2
<1> HIDE DEF next
<1>5. next \in Seq(ListedRules) /\ IdsOf(next) = IdsOf(rules)
  <2>1. \A k \in 1..Len(rules) : next[k] \in ListedRules /\ next[k].id = rules[k].id
    BY <1>2, <1>3, <1>4
  <2>2. DOMAIN next = 1..Len(rules)
    BY <1>4
  <2>3. next \in [1..Len(rules) -> ListedRules]
    BY <1>4, <2>1
  <2> QED BY <1>2, <2>1, <2>2, <2>3, SeqDef DEF IdsOf
<1>6. Change(next, FALSE)
  BY DEF Update, next
<1> QED BY <1>5, <1>6, ChangeKeeps

LEMMA AddKeeps == ASSUME DraftInv, Add PROVE DraftInv'
<1> DEFINE blank == [id |-> NoId, text |-> Blank]
<1>1. rules \in Seq(ListedRules) /\ blank \in ListedRules
  BY DEF DraftInv, TypeInv, ListedRules
<1>2. Change(<<blank>> \o rules, TRUE)
  BY DEF Add
<1> HIDE DEF blank
<1>3. <<blank>> \o rules \in Seq(ListedRules)
  BY <1>1, ConcatProperties
<1> QED BY <1>2, <1>3, ChangeKeeps

LEMMA DeleteKeeps == ASSUME DraftInv, NEW i \in DOMAIN rules, Delete(i) PROVE DraftInv'
<1>1. rules \in Seq(ListedRules) /\ Len(rules) \in Nat /\ i \in 1..Len(rules)
  BY LenProperties DEF DraftInv, TypeInv
<1>2. RemoveAt(rules, i) \in Seq(ListedRules)
  <2>1. SubSeq(rules, 1, i - 1) \in Seq(ListedRules)
    BY <1>1, SubSeqProperties
  <2>2. SubSeq(rules, i + 1, Len(rules)) \in Seq(ListedRules)
    <3>1. \A k \in (i + 1)..Len(rules) : rules[k] \in ListedRules
      BY <1>1
    <3> QED BY <1>1, <3>1, SubSeqProperties
  <2> QED BY <2>1, <2>2, ConcatProperties DEF RemoveAt
<1>3. Change(RemoveAt(rules, i), TRUE)
  BY DEF Delete
<1> QED BY <1>2, <1>3, ChangeKeeps

-----------------------------------------------------------------------------
(* A save that goes out is the newest, and has the list as it is. *)
LEMMA Sending ==
  ASSUME TypeInv, NumbersInv, IsComplete(rules), SaveOf(rules), ids' = ids
  PROVE  /\ sends' = sends + 1 /\ sends' \in Nat /\ sent' = TextsOf(rules)
         /\ \A s \in saves' : s \in Saves' /\ IsComplete(s.rules)
         /\ \A s \in saves' :
              \/ s \in saves /\ s.n <= sends
              \/ s.n = sends + 1 /\ s.rules = rules /\ s.heard /\ s.at = "sent"
         /\ \A s \in saves' : \A r \in saves' : s.n = r.n => s = r
<1> DEFINE new == [n |-> sends + 1, rules |-> rules, heard |-> TRUE, at |-> "sent",
                   answer |-> <<>>, was |-> "draft"]
<1>1. /\ sends' = sends + 1 /\ sent' = TextsOf(rules) /\ saves' = saves \cup {new}
      /\ sends \in Nat /\ rules \in Seq(ListedRules)
  BY DEF SaveOf, TypeInv
<1>2. Given' = Given /\ StoredRules' = StoredRules /\ ListedRules' = ListedRules
  BY DEF Given, StoredRules, ListedRules
<1>3. new \in Saves'
  <2>1. <<>> \in Seq(StoredRules)
    BY EmptySeq
  <2> QED BY <1>1, <1>2, <2>1 DEF Saves
<1>4. ASSUME NEW s \in saves PROVE s \in Saves' /\ IsComplete(s.rules) /\ s.n <= sends /\ s.n \in Nat
  <2>1. s \in Saves /\ IsComplete(s.rules)
    BY DEF TypeInv
  <2> QED BY <1>1, <1>2, <2>1 DEF Saves
<1>5. new.n = sends + 1 /\ new.rules = rules /\ new.heard /\ new.at = "sent"
  OBVIOUS
<1> HIDE DEF new
<1>6. \A s \in saves' : \A r \in saves' : s.n = r.n => s = r
  BY <1>1, <1>4, <1>5 DEF NumbersInv
<1>7. IsComplete(new.rules)
  BY <1>5
<1> QED BY <1>1, <1>3, <1>4, <1>5, <1>6, <1>7

(* While the editor hears of no save there is nothing to say of one. *)
LEMMA Unheard ==
  ASSUME TypeInv', latest' = 0, ~(open' /\ state' = "saved")
  PROVE  TextsInv' /\ IdsInv'
<1>1. \A s \in saves' : s.n # latest'
  BY DEF TypeInv, Saves
<1> QED BY <1>1 DEF TextsInv, IdsInv

LEMMA FlushKeeps == ASSUME DraftInv, NothingForgotten, Flush PROVE DraftInv'
<1>1. /\ timer' = FALSE /\ timer
      /\ UNCHANGED <<server, rules, open, editable, shifted, cached, asking, edits>>
  BY DEF Flush
<1>2. /\ Given' = Given /\ StoredRules' = StoredRules /\ ListedRules' = ListedRules /\ ids' = ids
  BY <1>1 DEF Given, StoredRules, ListedRules, server
<1>3. CASE IsComplete(rules)
  <2>1. state' = "saving" /\ latest' = sends + 1 /\ SaveOf(rules)
    BY <1>3 DEF Flush
  <2>2. open
    BY <1>1 DEF NothingForgotten
  <2>3. /\ sends' = sends + 1 /\ sends' \in Nat /\ sent' = TextsOf(rules)
        /\ \A s \in saves' : s \in Saves' /\ IsComplete(s.rules)
        /\ \A s \in saves' :
             \/ s \in saves /\ s.n <= sends
             \/ s.n = sends + 1 /\ s.rules = rules /\ s.heard /\ s.at = "sent"
        /\ \A s \in saves' : \A r \in saves' : s.n = r.n => s = r
    BY <1>2, <1>3, <2>1, Sending DEF DraftInv
  <2>4. TypeInv'
    <3>1. latest' \in Nat
      BY <2>1, <2>3
    <3>2. \A s \in saves' : IsComplete(s.rules)'
      BY <2>3 DEF IsComplete
    <3> QED BY <1>1, <1>2, <2>1, <2>3, <3>1, <3>2 DEF DraftInv, TypeInv, server
  <2>5. sends \in Nat /\ applied \in Nat /\ applied <= sends
    BY DEF DraftInv, TypeInv, NumbersInv
  <2>6. NumbersInv'
    <3>1. \A s \in saves' : s.at = "sent" => s.n # applied
      BY <2>3, <2>5 DEF DraftInv, NumbersInv
    <3>2. \A s \in saves' : s.at # "sent" => s.heard
      BY <2>3 DEF DraftInv, NumbersInv
    <3>3. applied <= sends' /\ applied' = applied
      BY <1>1, <2>3, <2>5 DEF server
    <3> QED BY <1>1, <2>1, <2>2, <2>3, <3>1, <3>2, <3>3 DEF NumbersInv
  <2>7. \A s \in saves' : s.n = latest' => s.rules = rules /\ s.at = "sent"
    BY <2>1, <2>3, <2>5
  <2>8. TextsInv'
    BY <2>1, <2>3, <2>7 DEF TextsInv, TextsOf
  <2>9. IdsInv'
    BY <1>1, <2>1, <2>7 DEF IdsInv, IdsOf
  <2> QED BY <2>4, <2>6, <2>8, <2>9 DEF DraftInv
<1>4. CASE ~IsComplete(rules)
  <2>1. state' = "invalid" /\ UNCHANGED <<latest, saves, sends, sent>>
    BY <1>4 DEF Flush
  <2>2. TypeInv'
    BY <1>1, <1>2, <2>1 DEF DraftInv, TypeInv, server, Saves, IsComplete
  <2>3. NumbersInv'
    BY <1>1, <2>1 DEF DraftInv, NumbersInv, server
  <2>4. TextsInv'
    BY <1>1, <2>1 DEF DraftInv, TextsInv, server, TextsOf
  <2>5. IdsInv'
    BY <1>1, <2>1 DEF DraftInv, IdsInv, server, IdsOf
  <2> QED BY <2>2, <2>3, <2>4, <2>5 DEF DraftInv
<1> QED BY <1>3, <1>4

LEMMA LeaveKeeps == ASSUME DraftInv, Leave PROVE DraftInv'
<1>1. /\ open' = FALSE /\ timer' = FALSE /\ latest' = 0
      /\ UNCHANGED <<server, rules, state, editable, shifted, cached, asking, edits>>
  BY DEF Leave
<1>2. /\ Given' = Given /\ StoredRules' = StoredRules /\ ListedRules' = ListedRules /\ ids' = ids
  BY <1>1 DEF Given, StoredRules, ListedRules, server
<1>3. sends \in Nat /\ applied \in Nat /\ applied <= sends
  BY DEF DraftInv, TypeInv, NumbersInv
<1>a. latest' \in Nat /\ {open, timer}' \subseteq BOOLEAN
  BY <1>1
<1>4. CASE timer /\ IsComplete(rules)
  <2>1. SaveOf(rules)
    BY <1>4 DEF Leave
  <2>2. /\ sends' = sends + 1 /\ sends' \in Nat /\ sent' = TextsOf(rules)
        /\ \A s \in saves' : s \in Saves' /\ IsComplete(s.rules)
        /\ \A s \in saves' :
             \/ s \in saves /\ s.n <= sends
             \/ s.n = sends + 1 /\ s.rules = rules /\ s.heard /\ s.at = "sent"
        /\ \A s \in saves' : \A r \in saves' : s.n = r.n => s = r
    BY <1>2, <1>4, <2>1, Sending DEF DraftInv
  <2>3. TypeInv'
    <3>1. \A s \in saves' : IsComplete(s.rules)'
      BY <2>2 DEF IsComplete
    <3> QED BY <1>1, <1>2, <1>a, <2>2, <3>1 DEF DraftInv, TypeInv, server
  <2>4. NumbersInv'
    <3>1. \A s \in saves' : s.at = "sent" => s.n # applied
      BY <1>3, <2>2 DEF DraftInv, NumbersInv
    <3>2. \A s \in saves' : s.at # "sent" => s.heard
      BY <2>2 DEF DraftInv, NumbersInv
    <3>3. applied <= sends' /\ applied' = applied
      BY <1>1, <1>3, <2>2 DEF server
    <3> QED BY <1>1, <2>2, <3>1, <3>2, <3>3 DEF NumbersInv
  <2> QED BY <1>1, <2>3, <2>4, Unheard DEF DraftInv
<1>5. CASE ~(timer /\ IsComplete(rules))
  <2>1. UNCHANGED <<saves, sends, sent>>
    BY <1>5 DEF Leave
  <2>2. TypeInv'
    BY <1>1, <1>2, <1>a, <2>1 DEF DraftInv, TypeInv, server, Saves, IsComplete
  <2>3. NumbersInv'
    BY <1>1, <2>1 DEF DraftInv, NumbersInv, server
  <2> QED BY <1>1, <2>2, <2>3, Unheard DEF DraftInv
<1> QED BY <1>4, <1>5

(* The cache has stored rules, which are rules of a list. *)
LEMMA StoredListed ==
  ASSUME NEW A, NEW B, A \subseteq B, NEW s \in Seq(A)
  PROVE  s \in Seq(B)
<1>1. Len(s) \in Nat /\ s \in [1..Len(s) -> A]
  BY LenProperties
<1>2. s \in [1..Len(s) -> B]
  BY <1>1
<1> QED BY <1>1, <1>2, SeqDef

LEMMA OpenKeeps == ASSUME DraftInv, Open PROVE DraftInv'
<1>1. /\ ~open /\ rules' = cached /\ state' = "idle" /\ open' = TRUE /\ shifted' = FALSE
      /\ UNCHANGED <<server, timer, editable, latest, cached, asking, saves, edits, sends>>
  BY DEF Open
<1>2. /\ Given' = Given /\ StoredRules' = StoredRules /\ ListedRules' = ListedRules
  BY <1>1 DEF Given, StoredRules, ListedRules, server
<1>3. cached \in Seq(ListedRules)
  <2>1. StoredRules \subseteq ListedRules /\ cached \in Seq(StoredRules)
    BY DEF DraftInv, TypeInv, StoredRules, ListedRules
  <2> QED BY <2>1, StoredListed
<1>4. TypeInv'
  BY <1>1, <1>2, <1>3 DEF DraftInv, TypeInv, server, Saves, IsComplete
<1>5. NumbersInv' /\ latest' = 0
  BY <1>1 DEF DraftInv, NumbersInv, server
<1> QED BY <1>1, <1>4, <1>5, Unheard DEF DraftInv

-----------------------------------------------------------------------------
(* The server applies a save. *)
LEMMA ApplyKeeps ==
  ASSUME DraftInv, NEW s \in saves, Apply(s)
  PROVE  DraftInv'
<1> DEFINE new == WithIds(s.rules)
           same == TextsOf(new.rules) = TextsOf(stored)
           ok == status = "draft" \/ same
           answered == [s EXCEPT !.at = IF ok THEN "saved" ELSE "refused",
                                 !.answer = IF ok THEN stored' ELSE <<>>, !.was = status]
<1>1. /\ s.at = "sent"
      /\ stored' = (IF status = "draft" THEN new.rules ELSE stored)
      /\ ids' = (IF status = "draft" THEN new.ids ELSE ids)
      /\ applied' = (IF s.n > applied THEN s.n ELSE applied)
      /\ overtaken' = (overtaken \/ s.n < applied)
      /\ UNCHANGED <<status, editor, cached, asking, edits, sends, sent>>
  BY DEF Apply
<1>2. saves' = (saves \ {s}) \cup (IF s.heard THEN {answered} ELSE {})
  BY <1>1 DEF Apply
<1>3. /\ s \in Saves /\ IsComplete(s.rules) /\ s.rules \in Seq(ListedRules)
      /\ s.n \in Nat \ {0} /\ s.n <= sends /\ s.heard \in BOOLEAN
      /\ ids \in Nat /\ applied \in Nat /\ sends \in Nat /\ latest \in Nat /\ applied <= sends
      /\ s.n # applied /\ stored \in Seq(StoredRules)
  BY <1>1 DEF DraftInv, TypeInv, NumbersInv, Saves
<1>4. /\ DOMAIN new.rules = DOMAIN Kept(s.rules)
      /\ \A i \in DOMAIN Kept(s.rules) : new.rules[i].text = Kept(s.rules)[i].text
      /\ \A i \in DOMAIN Kept(s.rules) :
           Kept(s.rules)[i].id # NoId => new.rules[i].id = Kept(s.rules)[i].id
      /\ new.ids \in Nat /\ ids <= new.ids
      /\ new.rules \in Seq([id : 1..new.ids, text : Texts])
      /\ \A i \in DOMAIN new.rules : \A j \in DOMAIN new.rules :
           new.rules[i].text = new.rules[j].text => i = j
  BY <1>3, IdsAreGiven DEF DraftInv
<1> HIDE DEF new
<1>5. TextsOf(new.rules) = OneEach(TextsOf(s.rules))
  <2>1. OneEach(TextsOf(s.rules)) = TextsOf(Kept(s.rules))
    BY <1>3, OneEachOf
  <2>2. TextsOf(new.rules) = TextsOf(Kept(s.rules))
    BY <1>4 DEF TextsOf
  <2> QED BY <2>1, <2>2
<1>6. /\ ids' \in Nat /\ ids <= ids' /\ stored' \in Seq(StoredRules')
      /\ \A i \in DOMAIN stored' : \A j \in DOMAIN stored' :
           stored'[i].text = stored'[j].text => i = j
  <2>1. CASE status = "draft"
    <3>1. stored' = new.rules /\ ids' = new.ids
      BY <1>1, <2>1
    <3>2. StoredRules' = [id : 1..new.ids, text : Texts]
      BY <3>1 DEF StoredRules, Given
    <3> QED BY <1>4, <3>1, <3>2
  <2>2. CASE status # "draft"
    <3>1. stored' = stored /\ ids' = ids
      BY <1>1, <2>2
    <3>2. StoredRules' = StoredRules
      BY <3>1 DEF StoredRules, Given
    <3> QED BY <1>3, <3>1, <3>2 DEF DraftInv, TypeInv
  <2> QED BY <2>1, <2>2
<1>7. Given \subseteq Given' /\ StoredRules \subseteq StoredRules' /\ ListedRules \subseteq ListedRules'
  <2>1. Given \subseteq Given'
    BY <1>3, <1>6 DEF Given
  <2> QED BY <2>1 DEF StoredRules, ListedRules
<1>8. /\ rules \in Seq(ListedRules') /\ cached \in Seq(StoredRules')
      /\ \A r \in saves : r.rules \in Seq(ListedRules') /\ r.answer \in Seq(StoredRules')
  <2>1. /\ \A q \in Seq(ListedRules) : q \in Seq(ListedRules')
        /\ \A q \in Seq(StoredRules) : q \in Seq(StoredRules')
    BY <1>7, StoredListed
  <2>2. /\ rules \in Seq(ListedRules) /\ cached \in Seq(StoredRules)
        /\ \A r \in saves : r.rules \in Seq(ListedRules) /\ r.answer \in Seq(StoredRules)
    BY DEF DraftInv, TypeInv, Saves
  <2> QED BY <2>1, <2>2
<1>9. /\ answered.n = s.n /\ answered.rules = s.rules /\ answered.heard = s.heard
      /\ answered.at \in {"saved", "refused"}
      /\ answered.at = "saved" => ok /\ answered.answer = stored'
      /\ answered \in [n : 1..sends, rules : {s.rules}, heard : BOOLEAN,
                       at : {"sent", "saved", "refused"}, answer : {stored', <<>>},
                       was : {"draft", "published"}]
  BY <1>3 DEF Saves, DraftInv, TypeInv
<1> HIDE DEF answered
<1>10. \A r \in saves' : \/ r \in saves /\ r # s
                         \/ r = answered /\ s.heard
  BY <1>2
<1>11. TypeInv'
  <2>1. answered \in Saves'
    <3>1. stored' \in Seq(StoredRules') /\ <<>> \in Seq(StoredRules') /\ sends' = sends
          /\ s.rules \in Seq(ListedRules')
      BY <1>1, <1>6, <1>8, EmptySeq
    <3> QED BY <1>9, <3>1 DEF Saves
  <2>2. ASSUME NEW r \in saves PROVE r \in Saves' /\ IsComplete(r.rules)
    <3>1. r \in Saves /\ IsComplete(r.rules)
      BY DEF DraftInv, TypeInv
    <3>2. r.rules \in Seq(ListedRules') /\ r.answer \in Seq(StoredRules') /\ sends' = sends
      BY <1>1, <1>8
    <3> QED BY <3>1, <3>2 DEF Saves
  <2>3. IsComplete(answered.rules)
    BY <1>3, <1>9
  <2>4. \A r \in saves' : r \in Saves' /\ IsComplete(r.rules)'
    BY <1>10, <2>1, <2>2, <2>3 DEF IsComplete
  <2>5. applied' \in Nat /\ overtaken' \in BOOLEAN
    BY <1>1, <1>3 DEF DraftInv, TypeInv
  <2>6. rules' \in Seq(ListedRules') /\ cached' \in Seq(StoredRules')
    BY <1>1, <1>8 DEF editor
  <2> QED BY <1>1, <1>6, <2>4, <2>5, <2>6 DEF DraftInv, TypeInv, editor
<1>12. NumbersInv'
  <2>1. applied' <= sends
    BY <1>1, <1>3
  <2>2. \A r \in saves' : \A q \in saves' : r.n = q.n => r = q
    BY <1>9, <1>10 DEF DraftInv, NumbersInv
  <2>3. ASSUME NEW r \in saves', r.at = "sent" PROVE r.n # applied'
    <3>1. r \in saves /\ r # s
      BY <1>9, <1>10, <2>3
    <3>2. r.n # s.n /\ r.n # applied
      BY <2>3, <3>1 DEF DraftInv, NumbersInv
    <3> QED BY <1>1, <3>2
  <2>4. \A r \in saves' : r.at # "sent" => r.heard
    BY <1>9, <1>10 DEF DraftInv, NumbersInv
  <2> QED BY <1>1, <2>1, <2>2, <2>3, <2>4 DEF DraftInv, NumbersInv, editor
<1>13. applied = sends => overtaken'
  <2>1. applied = sends => s.n < applied
    BY <1>3
  <2>2. s.n < applied => overtaken'
    BY <1>1
  <2> QED BY <2>1, <2>2
<1>14. s.n = latest => applied' = sends /\ TextsOf(s.rules) = sent
  BY <1>1, <1>3 DEF DraftInv, NumbersInv, TextsInv
<1>15. ok /\ s.n = latest => TextsOf(stored') = OneEach(sent)
  BY <1>1, <1>5, <1>14
<1>16. TextsInv'
  <2>1. \A r \in saves' : r.n = latest => TextsOf(r.rules) = sent
    BY <1>9, <1>10, <1>14 DEF DraftInv, TextsInv
  <2>2. ASSUME NEW r \in saves', r.at = "saved", r.n = latest, ~overtaken'
        PROVE  applied' = sends /\ r.answer = stored' /\ TextsOf(stored') = OneEach(sent)
    <3>1. ~overtaken
      BY <1>1, <2>2
    <3>2. r = answered
      BY <1>10, <1>13, <2>2, <3>1 DEF DraftInv, TextsInv
    <3> QED BY <1>9, <1>14, <1>15, <2>2, <3>2
  <2>3. open /\ state = "saved" => overtaken'
    BY <1>1, <1>13 DEF DraftInv, TextsInv
  <2> QED BY <1>1, <2>1, <2>2, <2>3 DEF TextsInv, TextsOf, editor
<1>17. IdsInv'
  <2>1. \A r \in saves' : r.n = latest /\ r.heard /\ ~shifted => IdsOf(rules) = IdsOf(r.rules)
    BY <1>9, <1>10 DEF DraftInv, IdsInv
  <2>2. ASSUME NEW r \in saves', r.at = "saved", r.n = latest, ~overtaken', status = "draft"
        PROVE  /\ DOMAIN r.answer = DOMAIN Kept(r.rules)
               /\ \A i \in DOMAIN r.answer :
                    Kept(r.rules)[i].id # NoId => r.answer[i].id = Kept(r.rules)[i].id
    <3>1. ~overtaken
      BY <1>1, <2>2
    <3>2. r = answered
      BY <1>10, <1>13, <2>2, <3>1 DEF DraftInv, TextsInv
    <3>3. r.answer = new.rules /\ r.rules = s.rules
      BY <1>1, <1>9, <2>2, <3>2
    <3> QED BY <1>4, <3>3
  <2>3. open /\ state = "saved" => overtaken'
    BY <1>1, <1>13 DEF DraftInv, TextsInv
  <2>4. UNCHANGED <<status, rules, shifted, latest, open, state>>
    BY <1>1 DEF editor
  <2> QED BY <2>1, <2>2, <2>3, <2>4 DEF IdsInv, IdsOf, Kept
<1> QED BY <1>11, <1>12, <1>16, <1>17 DEF DraftInv

-----------------------------------------------------------------------------
(* Steps that leave the list and its last save, some of the others gone. *)
LEMMA QuietKeeps ==
  ASSUME DraftInv, saves' \subseteq saves, status' \in {"draft", "published"},
         status' = "draft" => status = "draft",
         cached' \in Seq(StoredRules), {editable, asking}' \subseteq BOOLEAN,
         UNCHANGED <<stored, ids, applied, overtaken, editor, edits, sends, sent>> \/
         UNCHANGED <<stored, ids, applied, overtaken, rules, timer, state, open, latest, shifted,
                     edits, sends, sent>>
  PROVE  DraftInv'
<1>1. UNCHANGED <<stored, ids, applied, overtaken, rules, timer, state, open, latest, shifted,
                  edits, sends, sent>>
  BY DEF editor
<1>2. Given' = Given /\ StoredRules' = StoredRules /\ ListedRules' = ListedRules /\ Saves' = Saves
  BY <1>1 DEF Given, StoredRules, ListedRules, Saves
<1>3. TypeInv'
  BY <1>1, <1>2 DEF DraftInv, TypeInv, IsComplete
<1>4. NumbersInv'
  BY <1>1 DEF DraftInv, NumbersInv
<1>5. TextsInv'
  BY <1>1 DEF DraftInv, TextsInv, TextsOf
<1>6. IdsInv'
  BY <1>1 DEF DraftInv, IdsInv, IdsOf
<1> QED BY <1>3, <1>4, <1>5, <1>6 DEF DraftInv

(* The newest save is answered: the list takes ids, place by place. *)
LEMMA LandKeeps ==
  ASSUME DraftInv, NEW s \in saves, Land(s)
  PROVE  DraftInv'
<1>1. /\ s.at = "saved" /\ saves' = saves \ {s} /\ cached' = s.answer
      /\ editable' = (s.was = "draft")
      /\ UNCHANGED <<server, timer, open, latest, asking, edits, sends, sent>>
  BY DEF Land
<1>2. /\ s \in Saves /\ s.answer \in Seq(StoredRules) /\ s.rules \in Seq(ListedRules)
      /\ s.n \in Nat \ {0} /\ rules \in Seq(ListedRules) /\ s.heard
  BY <1>1 DEF DraftInv, TypeInv, NumbersInv, Saves
<1>3. CASE s.n # latest
  <2>1. UNCHANGED <<rules, state, shifted>>
    BY <1>3 DEF Land
  <2>2. /\ saves' \subseteq saves /\ status' = status /\ {editable, asking}' \subseteq BOOLEAN
        /\ status \in {"draft", "published"}
    BY <1>1 DEF DraftInv, TypeInv, server
  <2>3. UNCHANGED <<stored, ids, applied, overtaken, rules, timer, state, open, latest, shifted,
                    edits, sends, sent>>
    BY <1>1, <2>1 DEF server
  <2> QED BY <1>1, <1>2, <2>2, <2>3, QuietKeeps
<1>4. CASE s.n = latest
  <2>1. /\ rules' = Adopted(s.answer) /\ state' = "saved"
        /\ shifted' = (shifted \/ Len(s.answer) # Len(rules))
    BY <1>4 DEF Land
  <2>2. /\ Given' = Given /\ StoredRules' = StoredRules /\ ListedRules' = ListedRules /\ Saves' = Saves
    BY <1>1 DEF Given, StoredRules, ListedRules, Saves, server
  <2>3. /\ Len(rules) \in Nat /\ DOMAIN rules = 1..Len(rules)
        /\ \A i \in DOMAIN rules : rules[i] \in ListedRules
        /\ Len(s.answer) \in Nat /\ DOMAIN s.answer = 1..Len(s.answer)
        /\ \A i \in DOMAIN s.answer : s.answer[i] \in StoredRules
    BY <1>2, LenProperties, ElementOfSeq
  <2>4. DOMAIN rules' = DOMAIN rules /\
        \A i \in DOMAIN rules :
          rules'[i] = [id |-> IF rules[i].id = NoId /\ i \in DOMAIN s.answer
                              THEN s.answer[i].id ELSE rules[i].id,
                       text |-> rules[i].text]
    BY <2>1 DEF Adopted
  <2>5. rules' \in Seq(ListedRules)
    <3>1. \A i \in DOMAIN rules : rules'[i] \in ListedRules
      BY <2>3, <2>4 DEF ListedRules, StoredRules
    <3>2. rules' \in [1..Len(rules) -> ListedRules]
      BY <2>1, <2>3, <3>1 DEF Adopted
    <3> QED BY <2>3, <3>2, SeqDef
  <2>6. TypeInv'
    <3>1. shifted' \in BOOLEAN /\ editable' \in BOOLEAN
      BY <1>1, <2>1 DEF DraftInv, TypeInv
    <3> QED BY <1>1, <1>2, <2>1, <2>2, <2>5, <3>1 DEF DraftInv, TypeInv, server, IsComplete
  <2>7. latest = sends /\ sends # 0
    BY <1>2, <1>4 DEF DraftInv, NumbersInv
  <2>8. NumbersInv'
    BY <1>1, <2>7 DEF DraftInv, NumbersInv, server
  <2>9. \A r \in saves' : r.n # latest
    BY <1>1, <1>4 DEF DraftInv, NumbersInv
  <2>10. ~overtaken => applied = sends /\ s.answer = stored /\ TextsOf(stored) = OneEach(sent)
    BY <1>1, <1>4 DEF DraftInv, TextsInv
  <2>11. TextsInv'
    BY <1>1, <2>9, <2>10 DEF TextsInv, TextsOf, server
  <2>12. ASSUME ~overtaken, ~shifted', status = "draft"
         PROVE  IdsOf(rules') = IdsOf(stored)
    <3>1. ~shifted /\ Len(s.answer) = Len(rules) /\ s.answer = stored
      BY <2>1, <2>10, <2>12
    <3>2. IdsOf(rules) = IdsOf(s.rules)
      BY <1>2, <1>4, <3>1 DEF DraftInv, IdsInv
    <3>3. DOMAIN rules = DOMAIN s.rules /\ \A i \in DOMAIN rules : rules[i].id = s.rules[i].id
      <4>1. DOMAIN IdsOf(rules) = DOMAIN rules /\ DOMAIN IdsOf(s.rules) = DOMAIN s.rules
        BY DEF IdsOf
      <4>2. /\ \A i \in DOMAIN rules : IdsOf(rules)[i] = rules[i].id
            /\ \A i \in DOMAIN s.rules : IdsOf(s.rules)[i] = s.rules[i].id
        BY DEF IdsOf
      <4> QED BY <3>2, <4>1, <4>2
    <3>4. /\ DOMAIN s.answer = DOMAIN Kept(s.rules)
          /\ \A i \in DOMAIN s.answer :
               Kept(s.rules)[i].id # NoId => s.answer[i].id = Kept(s.rules)[i].id
      BY <1>1, <1>4, <2>12 DEF DraftInv, IdsInv
    <3>5. DOMAIN Kept(s.rules) = DOMAIN s.rules /\ DOMAIN s.answer = DOMAIN rules
      BY <2>3, <3>1, <3>3, <3>4
    <3>6. \A i \in DOMAIN s.rules : Kept(s.rules)[i] = s.rules[i]
      BY <1>2, <3>5, KeptWhole
    <3>7. ASSUME NEW i \in DOMAIN rules PROVE rules'[i].id = stored[i].id
      <4>1. rules'[i].id = IF rules[i].id = NoId /\ i \in DOMAIN s.answer
                           THEN s.answer[i].id ELSE rules[i].id
        BY <2>4
      <4>2. i \in DOMAIN s.answer /\ rules[i].id = Kept(s.rules)[i].id
        BY <3>3, <3>5, <3>6
      <4>3. rules[i].id # NoId => s.answer[i].id = rules[i].id
        BY <3>4, <4>2
      <4> QED BY <3>1, <4>1, <4>2, <4>3
    <3> QED BY <2>4, <3>1, <3>5, <3>7 DEF IdsOf
  <2>13. IdsInv'
    BY <1>1, <2>9, <2>12 DEF IdsInv, IdsOf, server
  <2> QED BY <2>6, <2>8, <2>11, <2>13 DEF DraftInv
<1> QED BY <1>3, <1>4

LEMMA FailKeeps ==
  ASSUME DraftInv, NEW s \in saves, Fail(s)
  PROVE  DraftInv'
<1> DEFINE gone == [s EXCEPT !.heard = FALSE]
<1>1. /\ s.heard
      /\ saves' = (saves \ {s}) \cup (IF s.at = "sent" THEN {gone} ELSE {})
      /\ state' = (IF s.n = latest THEN "error" ELSE state)
      /\ UNCHANGED <<server, rules, timer, open, editable, latest, shifted, cached, asking,
                     edits, sends, sent>>
  BY DEF Fail
<1>2. s \in Saves /\ IsComplete(s.rules)
  BY DEF DraftInv, TypeInv
<1>3. /\ gone \in Saves /\ gone.n = s.n /\ gone.rules = s.rules /\ gone.at = s.at /\ ~gone.heard
  BY <1>2 DEF Saves
<1> HIDE DEF gone
<1>4. \A r \in saves' : (r \in saves /\ r # s) \/ (r = gone /\ s.at = "sent")
  BY <1>1
<1>5. Given' = Given /\ StoredRules' = StoredRules /\ ListedRules' = ListedRules /\ Saves' = Saves
  BY <1>1 DEF Given, StoredRules, ListedRules, Saves, server
<1>6. TypeInv'
  <2>1. \A r \in saves' : r \in Saves /\ IsComplete(r.rules)
    BY <1>2, <1>3, <1>4 DEF DraftInv, TypeInv
  <2>2. state' \in {"idle", "dirty", "saving", "saved", "error", "invalid"}
    BY <1>1 DEF DraftInv, TypeInv
  <2> QED BY <1>1, <1>5, <2>1, <2>2 DEF DraftInv, TypeInv, server, IsComplete
<1>7. state' = "saved" => state = "saved"
  BY <1>1
<1>8. NumbersInv'
  <2>1. \A r \in saves' : \A q \in saves' : r.n = q.n => r = q
    BY <1>3, <1>4 DEF DraftInv, NumbersInv
  <2>2. \A r \in saves' : (r.at = "sent" => r.n # applied) /\ (r.at # "sent" => r.heard)
    BY <1>3, <1>4 DEF DraftInv, NumbersInv
  <2> QED BY <1>1, <1>7, <2>1, <2>2 DEF DraftInv, NumbersInv, server
<1>9. TextsInv'
  <2>1. \A r \in saves' : r.n = latest => TextsOf(r.rules) = sent
    BY <1>3, <1>4 DEF DraftInv, TextsInv
  <2>2. \A r \in saves' : r.at = "saved" => r \in saves
    BY <1>3, <1>4
  <2> QED BY <1>1, <1>7, <2>1, <2>2 DEF DraftInv, TextsInv, TextsOf, server
<1>10. IdsInv'
  <2>1. \A r \in saves' : r.heard => r \in saves
    BY <1>3, <1>4
  <2>2. \A r \in saves' : r.at = "saved" => r \in saves
    BY <1>3, <1>4
  <2> QED BY <1>1, <1>7, <2>1, <2>2 DEF DraftInv, IdsInv, IdsOf, server
<1> QED BY <1>6, <1>8, <1>9, <1>10 DEF DraftInv

LEMMA NextDraft ==
  ASSUME DraftInv, NothingForgotten, [Next]_vars
  PROVE  DraftInv'
<1>0. /\ status \in {"draft", "published"} /\ cached \in Seq(StoredRules)
      /\ stored \in Seq(StoredRules) /\ {editable, asking} \subseteq BOOLEAN
  BY DEF DraftInv, TypeInv
<1>1. CASE Add
  BY <1>1, AddKeeps
<1>2. ASSUME NEW i \in DOMAIN rules, Delete(i) PROVE DraftInv'
  BY <1>2, DeleteKeeps
<1>3. ASSUME NEW i \in DOMAIN rules, NEW t \in Texts \cup {Blank}, Update(i, t) PROVE DraftInv'
  BY <1>3, UpdateKeeps
<1>4. CASE Flush
  BY <1>4, FlushKeeps
<1>5. CASE Leave
  BY <1>5, LeaveKeeps
<1>6. CASE Open
  BY <1>6, OpenKeeps
<1>7. ASSUME NEW s \in saves, Apply(s) PROVE DraftInv'
  BY <1>7, ApplyKeeps
<1>8. ASSUME NEW s \in saves, Land(s) PROVE DraftInv'
  BY <1>8, LandKeeps
<1>9. ASSUME NEW s \in saves, Fail(s) PROVE DraftInv'
  BY <1>9, FailKeeps
<1>10. ASSUME NEW s \in saves, Lose(s) PROVE DraftInv'
  BY <1>0, <1>10, QuietKeeps DEF Lose, server, editor
<1>11. CASE Ask \/ Cancel
  BY <1>0, <1>11, QuietKeeps DEF Ask, Cancel, server, editor
<1>12. CASE Publish
  <2>1. status' = "published" \/ status' = status
    BY <1>12 DEF Publish
  <2> QED BY <1>0, <1>12, <2>1, QuietKeeps DEF Publish, editor
<1>13. CASE Refreshed
  BY <1>0, <1>13, QuietKeeps DEF Refreshed, server
<1>14. CASE UNCHANGED vars
  BY <1>0, <1>14, QuietKeeps DEF vars, server, editor
<1> QED BY <1>1, <1>2, <1>3, <1>4, <1>5, <1>6, <1>7, <1>8, <1>9, <1>10, <1>11, <1>12, <1>13, <1>14 DEF Next

LEMMA InitDraft == Init => DraftInv
<1> SUFFICES ASSUME Init PROVE DraftInv
  OBVIOUS
<1>1. PICK t \in Texts : stored = <<[id |-> 1, text |-> t]>>
  BY DEF Init
<1>2. ids = 1 /\ Given = {1} /\ rules = stored /\ cached = stored
  BY DEF Init, Given
<1>3. [id |-> 1, text |-> t] \in StoredRules /\ [id |-> 1, text |-> t] \in ListedRules
  BY <1>2 DEF StoredRules, ListedRules
<1>4. stored \in Seq(StoredRules) /\ stored \in Seq(ListedRules) /\ DOMAIN stored = {1}
  BY <1>1, <1>3
<1>5. TypeInv
  <2>1. \A i \in DOMAIN stored : \A j \in DOMAIN stored : i = j
    BY <1>4
  <2>2. ids \in Nat /\ {latest, sends, applied, edits} \subseteq Nat
    BY <1>2 DEF Init
  <2>3. /\ {timer, open, editable, asking, overtaken, shifted} \subseteq BOOLEAN
        /\ status = "draft" /\ state = "idle" /\ saves = {}
    BY DEF Init
  <2> QED BY <1>2, <1>4, <2>1, <2>2, <2>3 DEF TypeInv
<1>6. NumbersInv /\ TextsInv /\ IdsInv
  BY DEF Init, NumbersInv, TextsInv, IdsInv
<1> QED BY <1>5, <1>6 DEF DraftInv

LEMMA DraftAlways == Spec => [](DraftInv /\ NothingForgotten)
BY InitDraft, NextDraft, InitForgetsNothing, NextForgetsNothing, PTL DEF Spec

(* Every list keeps its type through edits, saves and answers; what the server *)
(* stores is complete, has a title once, and only ids that it has given.       *)
THEOREM TypesKept == Spec => []TypeOK
<1>1. DraftInv => TypeOK
  <2> SUFFICES ASSUME DraftInv PROVE TypeOK
    OBVIOUS
  <2>1. StoredRules = [id : 1..ids, text : Texts]
    BY DEF StoredRules, Given
  <2>2. StoredRules \subseteq Rules /\ ListedRules \subseteq Rules
    BY DEF StoredRules, ListedRules, Rules, Given, DraftInv, TypeInv
  <2>3. /\ \A q \in Seq(StoredRules) : q \in Seq(Rules)
        /\ \A q \in Seq(ListedRules) : q \in Seq(Rules)
    BY <2>2, StoredListed
  <2>4. \A s \in saves : s.n \in 1..sends /\ s.rules \in Seq(Rules) /\ IsComplete(s.rules)
    BY <2>3 DEF DraftInv, TypeInv, Saves
  <2> QED BY <2>1, <2>3, <2>4 DEF DraftInv, TypeInv, TypeOK
<1> QED BY <1>1, DraftAlways, PTL

(* "Draft saved": when all is quiet and no older save came after a newer one,  *)
(* the server has the texts that are shown, one of each title.                 *)
THEOREM SavedStands == Spec => []SavedIsStored
<1>1. DraftInv /\ NothingForgotten => SavedIsStored
  <2> SUFFICES ASSUME DraftInv, NothingForgotten,
                      open, state = "saved", ~timer, ~overtaken, IsComplete(rules)
               PROVE  TextsOf(stored) = TextsOf(Kept(rules))
    BY DEF SavedIsStored
  <2>1. TextsOf(rules) = sent
    BY DEF NothingForgotten
  <2>2. TextsOf(stored) = OneEach(sent)
    BY DEF DraftInv, TextsInv
  <2>3. rules \in Seq(ListedRules)
    BY DEF DraftInv, TypeInv
  <2>4. OneEach(TextsOf(rules)) = TextsOf(Kept(rules))
    BY <2>3, OneEachOf
  <2> QED BY <2>1, <2>2, <2>4
<1> QED BY <1>1, DraftAlways, PTL

(* Then the rules of a draft have the server's ids, place by place, unless the *)
(* list was lengthened or shortened while it was saved.                        *)
THEOREM AdoptedStands == Spec => []AdoptedIsStored
<1>1. DraftInv => AdoptedIsStored
  <2> SUFFICES ASSUME DraftInv, status = "draft", open, state = "saved", ~overtaken, ~shifted,
                      NEW i \in DOMAIN rules, i \in DOMAIN stored
               PROVE  rules[i].id = stored[i].id
    BY DEF AdoptedIsStored
  <2>1. IdsOf(rules) = IdsOf(stored)
    BY DEF DraftInv, IdsInv
  <2>2. IdsOf(rules)[i] = rules[i].id /\ IdsOf(stored)[i] = stored[i].id
    BY DEF IdsOf
  <2> QED BY <2>1, <2>2
<1> QED BY <1>1, DraftAlways, PTL
=============================================================================
