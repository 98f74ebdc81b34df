------------------------ MODULE ReviewSessionProofs ------------------------
(***************************************************************************)
(* Proofs about the Review page, for any decks, dictionary, session and    *)
(* drill sizes and any number of reloads: for a user who starts nothing    *)
(* while the page loads (`Patient`).                                       *)
(***************************************************************************)
EXTENDS ReviewSession, FiniteSetTheorems, SequenceTheorems, TLAPS

Asking == [id : Card, card : CardRow \cup {None}]
Rows == [id : Card, card : CardRow]

SessionTyped ==
  /\ cards \in [Card -> CardRow \cup {None}]
  /\ list \in Seq(Asking) /\ idx \in Nat /\ idx <= Len(list)
  /\ started \in BOOLEAN /\ drill \in BOOLEAN /\ shown \in BOOLEAN
  /\ results \in Seq(Card)
  /\ ~drill => \A i \in 1..Len(list) : list[i] \in Rows
  /\ saving # None => saving \in Saving

TasksTyped ==
  /\ DOMAIN loads = 1..MaxLoads
  /\ \A i \in 1..MaxLoads : loads[i] # None /\ loads[i].stage = "due_read" =>
       IsFiniteSet(loads[i].cards) /\ loads[i].cards \subseteq Rows
  /\ tab \in Tabs
  /\ \A t \in trouble : t.id \in Card
  /\ IsFiniteSet(trouble)
  /\ drilling # None => IsFiniteSet(drilling) /\ drilling \subseteq Asking

NoLoads == \A i \in 1..MaxLoads : loads[i] = None
Reviewing == started /\ ~drill /\ idx < Len(list)

\* The recap names the cards that have been done, and the one being saved.
Recap ==
  /\ Len(results) = idx + (IF saving = None THEN 0 ELSE 1)
  /\ \A i \in 1..Len(results) : results[i] = list[i].id

\* What is being saved is the card on the screen.
SavingFits ==
  saving # None => /\ Reviewing /\ shown
                   /\ saving.id = list[idx + 1].id /\ saving.card = list[idx + 1].card

\* No reload and no drill is on its way into a review.
ReviewAlone == Reviewing => NoLoads /\ drilling = None

ShownFits == shown => OnCard /\ seen = list[idx + 1].id

SessionInv ==
  SessionTyped /\ TasksTyped /\ Recap /\ SavingFits /\ ReviewAlone /\ ShownFits

-----------------------------------------------------------------------------
LEMMA FiniteDecks ==
  \A t \in Tabs : IsFiniteSet(DeckOf(t)) /\ DeckOf(t) \subseteq Card
<1>1. IsFiniteSet(Word) /\ IsFiniteSet(Kanji) BY ReviewAssumption
<1> QED BY <1>1 DEF Card, DeckOf

\* A shuffled list has the snapshots it was made of.
LEMMA OrderedList ==
  ASSUME NEW T, NEW S \in SUBSET T, IsFiniteSet(S), NEW f \in Orders(S)
  PROVE  /\ f \in Seq(T) /\ Len(f) = Cardinality(S) /\ Len(f) \in Nat
         /\ \A i \in 1..Len(f) : f[i] \in S
         /\ \A i, j \in 1..Len(f) : i # j => f[i] # f[j]
<1>1. Cardinality(S) \in Nat BY FS_CardinalityType
<1>2. f \in [1..Cardinality(S) -> S] /\ DOMAIN f = 1..Cardinality(S)
      /\ \A i, j \in DOMAIN f : i # j => f[i] # f[j]
  BY DEF Orders
<1>3. f \in Seq(S) /\ Len(f) = Cardinality(S) BY <1>1, <1>2
<1>4. f \in Seq(T) BY <1>3
<1> QED BY <1>1, <1>2, <1>3, <1>4

LEMMA FiniteSnapshots ==
  ASSUME NEW S, IsFiniteSet(S)
  PROVE  IsFiniteSet({Snapshot(c) : c \in S})
<1> DEFINE T == {Snapshot(c) : c \in S}
           f == [c \in S |-> Snapshot(c)]
<1>1. f \in Surjection(S, T) BY DEF Surjection
<1> QED BY <1>1, FS_Surjection

LEMMA FiniteAsked ==
  ASSUME NEW S, IsFiniteSet(S)
  PROVE  IsFiniteSet(Asked(S))
<1> DEFINE f == [t \in S |-> Snapshot(t.id)]
<1>1. f \in Surjection(S, Asked(S)) BY DEF Surjection, Asked
<1> QED BY <1>1, FS_Surjection

LEMMA FiniteTrouble ==
  ASSUME NEW S, IsFiniteSet(S)
  PROVE  IsFiniteSet({[id |-> c, drilled |-> drills[c]] : c \in S})
<1> DEFINE T == {[id |-> c, drilled |-> drills[c]] : c \in S}
           f == [c \in S |-> [id |-> c, drilled |-> drills[c]]]
<1>1. f \in Surjection(S, T) BY DEF Surjection
<1> QED BY <1>1, FS_Surjection

\* A card that can be chosen has a row.
LEMMA SnapshotShape ==
  ASSUME SessionTyped, NEW c \in Card
  PROVE  /\ Snapshot(c) \in Asking
         /\ Active(c) => Snapshot(c) \in Rows
BY DEF Snapshot, SessionTyped, Asking, Rows, Active

-----------------------------------------------------------------------------
(* Steps that leave the session alone, and steps that begin one.           *)

LEMMA QuietStep ==
  ASSUME SessionInv, cards' \in [Card -> CardRow \cup {None}], TasksTyped',
         UNCHANGED <<list, idx, shown, started, drill, results, saving, seen>>,
         drilling' = drilling,
         loads' = loads \/ ~Reviewing
  PROVE  SessionInv'
<1>1. SessionTyped' BY DEF SessionInv, SessionTyped
<1>2. Recap' BY DEF SessionInv, Recap
<1>3. Reviewing' = Reviewing BY DEF Reviewing
<1>4. SavingFits' BY <1>3 DEF SessionInv, SavingFits
<1>5. ReviewAlone' BY <1>3 DEF SessionInv, ReviewAlone, NoLoads
<1>6. ShownFits' BY DEF SessionInv, ShownFits, OnCard
<1> QED BY <1>1, <1>2, <1>4, <1>5, <1>6 DEF SessionInv

LEMMA ResetStep ==
  ASSUME SessionInv, TasksTyped',
         NEW S, IsFiniteSet(S), S \subseteq Asking, Reset(Kept(S)),
         ~Reviewing, UNCHANGED <<cards, saving>>,
         started' \in BOOLEAN, drill' \in BOOLEAN,
         drill' \/ (~started' /\ S \subseteq Rows)
  PROVE  SessionInv'
<1>1. saving = None BY DEF SessionInv, SavingFits
<1>2. /\ list' \in Orders(Kept(S)) /\ idx' = 0 /\ shown' = FALSE /\ results' = <<>>
  BY DEF Reset
<1>3. Kept(S) \subseteq S /\ IsFiniteSet(Kept(S)) BY FS_Subset DEF Kept
<1>4. list' \in Seq(Asking) /\ Len(list') \in Nat
      /\ \A i \in 1..Len(list') : list'[i] \in Kept(S)
  BY <1>2, <1>3, OrderedList
<1>5. SessionTyped'
  <2>1. ~drill' => \A i \in 1..Len(list') : list'[i] \in Rows BY <1>3, <1>4
  <2>2. results' \in Seq(Card) BY <1>2, EmptySeq
  <2>5. idx' \in Nat /\ idx' <= Len(list') BY <1>2, <1>4
  <2>6. shown' \in BOOLEAN BY <1>2
  <2>3. cards' \in [Card -> CardRow \cup {None}] /\ (saving' # None => saving' \in Saving)
    BY <1>1 DEF SessionInv, SessionTyped
  <2> QED BY <1>4, <2>1, <2>2, <2>3, <2>5, <2>6 DEF SessionTyped
<1>6. Recap' BY <1>1, <1>2, EmptySeq DEF Recap
<1>7. ~Reviewing' BY DEF Reviewing
<1>8. SavingFits' /\ ReviewAlone' /\ ShownFits'
  BY <1>1, <1>2, <1>7 DEF SavingFits, ReviewAlone, ShownFits
<1> QED BY <1>5, <1>6, <1>8 DEF SessionInv

\* A task that moves on.
LEMMA TaskMoves ==
  ASSUME TasksTyped, NEW i \in 1..MaxLoads, NEW from, NEW to, Goes(i, from, to),
         to # None /\ to.stage = "due_read" =>
           IsFiniteSet(to.cards) /\ to.cards \subseteq Rows
  PROVE  /\ DOMAIN loads' = 1..MaxLoads
         /\ \A j \in 1..MaxLoads : loads'[j] # None /\ loads'[j].stage = "due_read" =>
              IsFiniteSet(loads'[j].cards) /\ loads'[j].cards \subseteq Rows
         /\ loads[i] # None
<1>1. loads' = [loads EXCEPT ![i] = to] /\ DOMAIN loads = 1..MaxLoads /\ loads[i] # None
  BY DEF Goes, TasksTyped
<1>2. loads'[i] = to /\ \A j \in 1..MaxLoads : j # i => loads'[j] = loads[j] BY <1>1
<1> QED BY <1>1, <1>2 DEF TasksTyped

LEMMA SpawnMoves ==
  ASSUME TasksTyped, Spawn, UNCHANGED <<tab, trouble, drilling>>
  PROVE  TasksTyped'
<1>1. PICK i \in 1..MaxLoads : loads' = [loads EXCEPT ![i] = Load] BY DEF Spawn
<1>2. Load.stage = "begin" BY DEF Load
<1>3. \A j \in 1..MaxLoads : loads'[j] = loads[j] \/ loads'[j] = Load
  BY <1>1 DEF TasksTyped
<1>4. DOMAIN loads' = 1..MaxLoads BY <1>1 DEF TasksTyped
<1> QED BY <1>2, <1>3, <1>4 DEF TasksTyped

LEMMA LoadNotReviewing ==
  ASSUME SessionInv, NEW i \in 1..MaxLoads, loads[i] # None
  PROVE  ~Reviewing /\ saving = None
BY DEF SessionInv, ReviewAlone, NoLoads, SavingFits

LEMMA LoadStepSound ==
  ASSUME SessionInv, NEW i \in 1..MaxLoads, LoadStep(i)
  PROVE  SessionInv'
<1>0. SessionTyped /\ TasksTyped BY DEF SessionInv
<1>1. CASE ReadKanji(i)
  <2>1. PICK missing : Goes(i, "begin", [stage |-> "ensure", missing |-> missing])
    BY <1>1 DEF ReadKanji
  <2>2. TasksTyped'
    BY <1>0, <1>1, <2>1, TaskMoves DEF ReadKanji, TasksTyped
  <2>3. loads[i] # None BY <2>1 DEF Goes
  <2> QED
    BY <1>0, <1>1, <2>2, <2>3, LoadNotReviewing, QuietStep
       DEF ReadKanji, store, session, SessionTyped
<1>2. CASE PutKanji(i)
  <2>1. Goes(i, "ensure", [stage |-> "due"]) BY <1>2 DEF PutKanji
  <2>2. TasksTyped' BY <1>0, <1>2, <2>1, TaskMoves DEF PutKanji, TasksTyped
  <2>3. loads[i] # None BY <2>1 DEF Goes
  <2>4. Fresh \in CardRow BY DEF Fresh, CardRow
  <2>5. cards' \in [Card -> CardRow \cup {None}]
    BY <1>0, <1>2, <2>4 DEF PutKanji, SessionTyped
  <2> QED
    BY <1>2, <2>2, <2>3, <2>5, LoadNotReviewing, QuietStep DEF PutKanji, session
<1>3. CASE ReadDue(i)
  <2>1. PICK S \in Chosen(tab), from \in {"begin", "due"} :
          Goes(i, from, [stage |-> "due_read", cards |-> {Snapshot(c) : c \in S}])
    BY <1>3 DEF ReadDue
  <2>2. S \subseteq Card /\ IsFiniteSet(S) /\ \A c \in S : Active(c)
    <3>1. IsFiniteSet(DeckOf(tab)) /\ DeckOf(tab) \subseteq Card
      BY <1>0, FiniteDecks DEF TasksTyped
    <3>2. S \subseteq DeckOf(tab) /\ \A c \in S : Active(c) BY DEF Chosen
    <3> QED BY <3>1, <3>2, FS_Subset
  <2>3. IsFiniteSet({Snapshot(c) : c \in S}) BY <2>2, FiniteSnapshots
  <2>4. {Snapshot(c) : c \in S} \subseteq Rows BY <1>0, <2>2, SnapshotShape
  <2> PICK T : T = {Snapshot(c) : c \in S} OBVIOUS
  <2>5. Goes(i, from, [stage |-> "due_read", cards |-> T])
        /\ IsFiniteSet(T) /\ T \subseteq Rows
    BY <2>1, <2>3, <2>4
  <2>6. TasksTyped' BY <1>0, <1>3, <2>5, TaskMoves DEF ReadDue, TasksTyped
  <2>7. loads[i] # None BY <2>5 DEF Goes
  <2> QED
    BY <1>0, <1>3, <2>6, <2>7, LoadNotReviewing, QuietStep
       DEF ReadDue, store, session, SessionTyped
<1>4. CASE SetDue(i)
  <2>1. Goes(i, "due_read", [stage |-> "rest"]) BY <1>4 DEF SetDue
  <2>2. TasksTyped' BY <1>0, <1>4, <2>1, TaskMoves DEF SetDue, TasksTyped
  <2>3. loads[i] # None /\ loads[i].stage = "due_read" BY <2>1 DEF Goes
  <2>4. IsFiniteSet(loads[i].cards) /\ loads[i].cards \subseteq Rows
    BY <1>0, <2>3 DEF TasksTyped
  <2>5. Rows \subseteq Asking BY DEF Rows, Asking
  <2> PICK S : S = loads[i].cards OBVIOUS
  <2>6. Reset(Kept(S)) /\ started' = FALSE /\ drill' = FALSE /\ UNCHANGED <<cards, saving>>
    BY <1>4 DEF SetDue, store
  <2> QED BY <2>2, <2>3, <2>4, <2>5, <2>6, LoadNotReviewing, ResetStep
<1>5. CASE SetTrouble(i)
  <2>1. Goes(i, "rest", None) BY <1>5 DEF SetTrouble
  <2>2. PICK S \in SUBSET {c \in DeckOf(tab) : CanStruggle(c)} :
          trouble' = {[id |-> c, drilled |-> drills[c]] : c \in S}
    BY <1>5 DEF SetTrouble
  <2>3. IsFiniteSet(S) /\ S \subseteq Card
    BY <1>0, FiniteDecks, FS_Subset DEF TasksTyped
  <2>4. IsFiniteSet(trouble') /\ \A t \in trouble' : t.id \in Card
    BY <2>2, <2>3, FiniteTrouble
  <2>5. TasksTyped' BY <1>0, <1>5, <2>1, <2>4, TaskMoves DEF SetTrouble, TasksTyped
  <2>6. loads[i] # None BY <2>1 DEF Goes
  <2> QED
    BY <1>0, <1>5, <2>5, <2>6, LoadNotReviewing, QuietStep
       DEF SetTrouble, store, session, SessionTyped
<1>6. CASE KanjiFails(i)
  <2>1. Goes(i, "ensure", [stage |-> "due"]) BY <1>6 DEF KanjiFails
  <2>2. TasksTyped' BY <1>0, <1>6, <2>1, TaskMoves DEF KanjiFails, TasksTyped
  <2>3. loads[i] # None BY <2>1 DEF Goes
  <2> QED
    BY <1>0, <1>6, <2>2, <2>3, LoadNotReviewing, QuietStep
       DEF KanjiFails, store, session, SessionTyped
<1> QED BY <1>1, <1>2, <1>3, <1>4, <1>5, <1>6 DEF LoadStep

-----------------------------------------------------------------------------
(* The user's presses.                                                     *)

LEMMA StartReviewSound ==
  ASSUME Patient, SessionInv, StartReview
  PROVE  SessionInv'
<1>0. SessionTyped /\ TasksTyped BY DEF SessionInv
<1>1. ~started /\ started' = TRUE /\ ~Loading
      /\ UNCHANGED <<cards, tab, list, idx, shown, drill, results, trouble, loads, drilling,
                     saving, seen>>
  BY DEF StartReview, MayPress, store, tasks
<1>2. NoLoads /\ drilling = None BY <1>0, <1>1 DEF Loading, NoLoads, TasksTyped
<1>3. saving = None BY <1>1 DEF SessionInv, SavingFits, Reviewing
<1>4. SessionTyped' BY <1>0, <1>1 DEF SessionTyped
<1>5. TasksTyped' BY <1>0, <1>1 DEF TasksTyped
<1>6. Recap' BY <1>1 DEF SessionInv, Recap
<1>7. ShownFits' BY <1>1 DEF SessionInv, ShownFits, OnCard
<1>8. SavingFits' /\ ReviewAlone'
  BY <1>1, <1>2, <1>3 DEF SavingFits, ReviewAlone, NoLoads
<1> QED BY <1>4, <1>5, <1>6, <1>7, <1>8 DEF SessionInv

LEMMA StartDrillSound ==
  ASSUME SessionInv, StartDrill
  PROVE  SessionInv'
<1>0. SessionTyped /\ TasksTyped BY DEF SessionInv
<1>1. ~started /\ ~Reviewing BY DEF StartDrill, Reviewing
<1>2. UNCHANGED <<cards, tab, trouble, loads, saving>> BY DEF StartDrill, store
<1>3. PICK S \in Batches :
        \/ tab = "words" /\ drilling' = Asked(S) /\ UNCHANGED <<session, seen>>
        \/ tab = "kanji" /\ BeginDrill(Asked(S)) /\ UNCHANGED drilling
  BY DEF StartDrill
<1>4. S \subseteq trouble /\ IsFiniteSet(S)
  BY <1>0, FS_Subset DEF Batches, TasksTyped
<1>5. IsFiniteSet(Asked(S)) /\ Asked(S) \subseteq Asking
  <2>1. \A t \in S : Snapshot(t.id) \in Asking
    BY <1>0, <1>4, SnapshotShape DEF TasksTyped
  <2> QED BY <1>4, <2>1, FiniteAsked DEF Asked
<1> PICK T : T = Asked(S) OBVIOUS
<1>6. TasksTyped' BY <1>0, <1>2, <1>3, <1>5 DEF TasksTyped
<1>7. CASE drilling' = T /\ UNCHANGED <<session, seen>>
  <2>1. UNCHANGED <<list, idx, shown, started, drill, results, seen>>
    BY <1>7 DEF session
  <2>2. SessionTyped' BY <1>0, <1>2, <2>1 DEF SessionTyped
  <2>3. Recap' BY <1>2, <2>1 DEF SessionInv, Recap
  <2>4. ~Reviewing' BY <1>1, <2>1 DEF Reviewing
  <2>5. SavingFits' /\ ReviewAlone' /\ ShownFits'
    BY <1>1, <1>2, <2>1, <2>4 DEF SessionInv, SavingFits, ReviewAlone, ShownFits, OnCard
  <2> QED BY <1>6, <2>2, <2>3, <2>5 DEF SessionInv
<1>8. CASE BeginDrill(T)
  BY <1>1, <1>2, <1>5, <1>6, <1>8, ResetStep DEF BeginDrill
<1> QED BY <1>3, <1>7, <1>8

LEMMA DrillReadySound ==
  ASSUME SessionInv, DrillReady
  PROVE  SessionInv'
<1>0. SessionTyped /\ TasksTyped BY DEF SessionInv
<1>1. drilling # None /\ drilling' = None /\ BeginDrill(drilling)
      /\ UNCHANGED <<cards, tab, trouble, loads, saving>>
  BY DEF DrillReady, store
<1>2. ~Reviewing BY <1>1 DEF SessionInv, ReviewAlone
<1>3. IsFiniteSet(drilling) /\ drilling \subseteq Asking BY <1>0, <1>1 DEF TasksTyped
<1>4. TasksTyped' BY <1>0, <1>1 DEF TasksTyped
<1> PICK S : S = drilling OBVIOUS
<1>5. Reset(Kept(S)) /\ started' = TRUE /\ drill' = TRUE BY <1>1 DEF BeginDrill
<1> QED BY <1>1, <1>2, <1>3, <1>4, <1>5, ResetStep

LEMMA RevealSound ==
  ASSUME SessionInv, RevealAnswer
  PROVE  SessionInv'
<1>0. SessionTyped /\ TasksTyped BY DEF SessionInv
<1>1. OnCard /\ ~shown /\ shown' = TRUE /\ seen' = list[idx + 1].id
      /\ UNCHANGED <<cards, tab, list, idx, started, drill, results, trouble, loads,
                     drilling, saving>>
  BY DEF RevealAnswer, store, tasks
<1>2. SessionTyped' BY <1>0, <1>1 DEF SessionTyped
<1>3. TasksTyped' BY <1>0, <1>1 DEF TasksTyped
<1>4. Recap' BY <1>1 DEF SessionInv, Recap
<1>5. Reviewing' = Reviewing BY <1>1 DEF Reviewing
<1>6. SavingFits' /\ ReviewAlone'
  BY <1>1, <1>5 DEF SessionInv, SavingFits, ReviewAlone, NoLoads
<1>7. ShownFits' BY <1>1 DEF ShownFits, OnCard
<1> QED BY <1>2, <1>3, <1>4, <1>6, <1>7 DEF SessionInv

\* An answer is added to the recap.
LEMMA RecapGrows ==
  ASSUME SessionInv, CanRate, results' = Append(results, list[idx + 1].id), list' = list
  PROVE  /\ results' \in Seq(Card) /\ Len(results') = idx + 1
         /\ \A i \in 1..Len(results') : results'[i] = list'[i].id
         /\ list[idx + 1] \in Asking /\ idx < Len(list) /\ idx + 1 <= Len(list)
<1>1. SessionTyped /\ Recap /\ saving = None /\ OnCard
  BY DEF SessionInv, CanRate
<1>2. idx < Len(list) /\ idx \in Nat /\ Len(list) \in Nat BY <1>1 DEF OnCard, SessionTyped
<1>3. list[idx + 1] \in Asking BY <1>1, <1>2, ElementOfSeq DEF SessionTyped
<1>4. list[idx + 1].id \in Card BY <1>3 DEF Asking
<1> PICK c : c = list[idx + 1].id OBVIOUS
<1>5. results \in Seq(Card) /\ Len(results) = idx BY <1>1, <1>2 DEF SessionTyped, Recap
<1>6. results' = Append(results, c) /\ c \in Card BY <1>4
<1>7. results' \in Seq(Card) /\ Len(results') = idx + 1
      /\ \A i \in 1..idx : results'[i] = results[i]
      /\ results'[idx + 1] = c
  BY <1>5, <1>6, AppendProperties
<1>8. \A i \in 1..Len(results') : i \in 1..idx \/ i = idx + 1 BY <1>2, <1>7
<1> QED BY <1>1, <1>2, <1>3, <1>5, <1>7, <1>8 DEF Recap

LEMMA RateDrillSound ==
  ASSUME SessionInv, RateDrill
  PROVE  SessionInv'
<1>0. SessionTyped /\ TasksTyped BY DEF SessionInv
<1>1. CanRate /\ drill /\ saving = None /\ results' = Append(results, list[idx + 1].id)
      /\ idx' = idx + 1 /\ shown' = FALSE
      /\ UNCHANGED <<cards, tab, list, started, drill, trouble, loads, drilling, saving>>
  BY DEF RateDrill, CanRate, Advance, tasks
<1>2. /\ results' \in Seq(Card) /\ Len(results') = idx + 1
      /\ \A i \in 1..Len(results') : results'[i] = list'[i].id
      /\ idx < Len(list) /\ idx + 1 <= Len(list)
  BY <1>1, RecapGrows
<1>3. idx' \in Nat BY <1>0, <1>1 DEF SessionTyped
<1>4. SessionTyped' BY <1>0, <1>1, <1>2, <1>3 DEF SessionTyped
<1>5. TasksTyped' BY <1>0, <1>1 DEF TasksTyped
<1>6. Recap' BY <1>1, <1>2, <1>3 DEF Recap
<1>7. SavingFits' /\ ReviewAlone' /\ ShownFits'
  BY <1>1 DEF SavingFits, ReviewAlone, ShownFits, Reviewing
<1> QED BY <1>4, <1>5, <1>6, <1>7 DEF SessionInv

LEMMA RateSound ==
  ASSUME SessionInv, NEW again \in BOOLEAN, Rate(again)
  PROVE  SessionInv'
<1>0. SessionTyped /\ TasksTyped BY DEF SessionInv
<1> PICK s : s = list[idx + 1] OBVIOUS
<1> PICK r : r = [id |-> s.id, card |-> s.card, again |-> again] OBVIOUS
<1>1. CanRate /\ ~drill /\ results' = Append(results, list[idx + 1].id) /\ saving' = r
      /\ UNCHANGED <<cards, tab, list, idx, shown, started, drill, trouble, loads, drilling,
                     seen>>
  BY DEF Rate, store
<1>2. /\ results' \in Seq(Card) /\ Len(results') = idx + 1
      /\ \A i \in 1..Len(results') : results'[i] = list'[i].id
      /\ idx < Len(list) /\ idx + 1 <= Len(list)
  BY <1>1, RecapGrows
<1>3. s \in Rows BY <1>0, <1>1, <1>2 DEF SessionTyped
<1>4. r \in Saving /\ r # None /\ r.id = s.id /\ r.card = s.card
  BY <1>3, NoneAssumption DEF Rows, Saving
<1>5. SessionTyped' BY <1>0, <1>1, <1>2, <1>4 DEF SessionTyped
<1>6. TasksTyped' BY <1>0, <1>1 DEF TasksTyped
<1>7. Recap' BY <1>1, <1>2, <1>4 DEF Recap
<1>8. Reviewing /\ Reviewing' /\ shown BY <1>1 DEF Reviewing, CanRate, OnCard
<1>9. SavingFits' BY <1>1, <1>4, <1>8 DEF SavingFits
<1>10. ReviewAlone' BY <1>1, <1>8 DEF SessionInv, ReviewAlone, NoLoads
<1>11. ShownFits' BY <1>1 DEF SessionInv, ShownFits, OnCard
<1> QED BY <1>5, <1>6, <1>7, <1>9, <1>10, <1>11 DEF SessionInv

\* A card that is written stays a card.
LEMMA PutShape ==
  ASSUME SessionTyped, saving # None, PutCardLogged
  PROVE  /\ saving.id \in Card /\ saving.card \in CardRow
         /\ cards'[saving.id] \in CardRow
         /\ cards'[saving.id].reps = saving.card.reps + 1
         /\ \A c \in Card : c # saving.id => cards'[c] = cards[c]
         /\ cards' \in [Card -> CardRow \cup {None}]
<1>1. saving \in Saving BY DEF SessionTyped
<1>2. saving.id \in Card /\ saving.card \in CardRow BY <1>1 DEF Saving
<1>3. PICK next \in ApplyReview(saving.card, saving.again) :
        cards' = [cards EXCEPT ![saving.id] = next]
  BY DEF PutCardLogged
<1>4. next \in CardRow /\ next.reps = saving.card.reps + 1
  BY <1>2 DEF ApplyReview, CardRow
<1> QED BY <1>2, <1>3, <1>4 DEF SessionTyped

LEMMA SavedSound ==
  ASSUME SessionInv, Saved
  PROVE  SessionInv'
<1>0. SessionTyped /\ TasksTyped BY DEF SessionInv
<1>1. saving # None /\ saving' = None /\ (PutCardLogged \/ UNCHANGED store)
      /\ idx' = idx + 1 /\ shown' = FALSE
      /\ UNCHANGED <<tab, list, started, drill, results, trouble, loads, drilling>>
  BY DEF Saved, Advance
<1>2. Reviewing /\ NoLoads /\ drilling = None
  BY <1>1 DEF SessionInv, SavingFits, ReviewAlone
<1>3. cards' \in [Card -> CardRow \cup {None}]
  BY <1>0, <1>1, PutShape DEF store, SessionTyped
<1>4. idx + 1 <= Len(list) /\ idx + 1 \in Nat BY <1>0, <1>2 DEF Reviewing, SessionTyped
<1>5. SessionTyped' BY <1>0, <1>1, <1>3, <1>4 DEF SessionTyped
<1>6. TasksTyped' BY <1>0, <1>1 DEF TasksTyped
<1>7. Recap' BY <1>0, <1>1, <1>4 DEF SessionInv, Recap
<1>8. SavingFits' /\ ReviewAlone' /\ ShownFits'
  BY <1>1, <1>2 DEF SavingFits, ReviewAlone, ShownFits, NoLoads
<1> QED BY <1>5, <1>6, <1>7, <1>8 DEF SessionInv

LEMMA SelectTabSound ==
  ASSUME SessionInv, NEW t \in Tabs, SelectTab(t)
  PROVE  SessionInv'
<1>0. SessionTyped /\ TasksTyped BY DEF SessionInv
<1>1. /\ tab' = t /\ list' = <<>> /\ idx' = 0 /\ shown' = FALSE /\ started' = FALSE
      /\ drill' = FALSE /\ results' = <<>> /\ trouble' = {}
      /\ loads' = [i \in 1..MaxLoads |-> IF i = 1 THEN Load ELSE None]
      /\ drilling' = None /\ saving' = None
      /\ (saving # None /\ PutCardLogged) \/ UNCHANGED store
  BY DEF SelectTab
<1>2. cards' \in [Card -> CardRow \cup {None}]
  BY <1>0, <1>1, PutShape DEF store, SessionTyped
<1>3. Len(list') = 0 /\ list' \in Seq(Asking) /\ results' \in Seq(Card) /\ Len(results') = 0
  BY <1>1, EmptySeq
<1>8. idx' \in Nat /\ idx' <= Len(list') BY <1>1, <1>3
<1>9. started' \in BOOLEAN /\ drill' \in BOOLEAN /\ shown' \in BOOLEAN BY <1>1
<1>10. \A i \in 1..Len(list') : list'[i] \in Rows BY <1>3
<1>4. SessionTyped' BY <1>1, <1>2, <1>3, <1>8, <1>9, <1>10 DEF SessionTyped
<1>5. TasksTyped' BY <1>1, FS_EmptySet DEF TasksTyped, Load
<1>6. Recap' BY <1>1, <1>3 DEF Recap
<1>7. SavingFits' /\ ReviewAlone' /\ ShownFits'
  BY <1>1 DEF SavingFits, ReviewAlone, ShownFits, Reviewing
<1> QED BY <1>4, <1>5, <1>6, <1>7 DEF SessionInv

LEMMA DoneSound ==
  ASSUME SessionInv, Done
  PROVE  SessionInv'
<1>0. SessionTyped /\ TasksTyped BY DEF SessionInv
<1>1. Spawn /\ idx >= Len(list)
      /\ UNCHANGED <<cards, tab, list, idx, shown, started, drill, results, trouble,
                     drilling, saving, seen>>
  BY DEF Done, store, session
<1>2. TasksTyped' BY <1>0, <1>1, SpawnMoves
<1>3. ~Reviewing BY <1>0, <1>1 DEF Reviewing, SessionTyped
<1> QED BY <1>0, <1>1, <1>2, <1>3, QuietStep DEF SessionTyped

LEMMA SyncLandsSound ==
  ASSUME SessionInv, SyncLands
  PROVE  SessionInv'
<1>0. SessionTyped /\ TasksTyped BY DEF SessionInv
<1>1. UNCHANGED <<tab, list, idx, shown, started, drill, results, trouble, drilling,
                  saving, seen>>
  BY DEF SyncLands, session
<1>2. cards' \in [Card -> CardRow \cup {None}]
  <2>1. CASE UNCHANGED cards BY <1>0, <2>1 DEF SessionTyped
  <2>2. ASSUME NEW c \in Card,
               LET had == IF cards[c] = None THEN Fresh ELSE cards[c] IN
               cards' = [cards EXCEPT ![c] = [had EXCEPT !.status = "active", !.reps = @ + 1]]
        PROVE  cards' \in [Card -> CardRow \cup {None}]
    <3> PICK had : had = IF cards[c] = None THEN Fresh ELSE cards[c] OBVIOUS
    <3>1. had \in CardRow BY <1>0 DEF SessionTyped, Fresh, CardRow
    <3>2. [had EXCEPT !.status = "active", !.reps = @ + 1] \in CardRow
      <4>1. had.reps + 1 \in Nat BY <3>1 DEF CardRow
      <4> QED BY <3>1, <4>1 DEF CardRow
    <3>3. cards' = [cards EXCEPT ![c] = [had EXCEPT !.status = "active", !.reps = @ + 1]]
      BY <2>2
    <3> QED BY <1>0, <3>2, <3>3 DEF SessionTyped
  <2> QED BY <2>1, <2>2 DEF SyncLands
<1>3. CASE started
  <2>1. loads' = loads BY <1>3 DEF SyncLands
  <2>2. TasksTyped' BY <1>0, <1>1, <2>1 DEF TasksTyped
  <2> QED BY <1>1, <1>2, <2>1, <2>2, QuietStep
<1>4. CASE ~started
  <2>1. Spawn BY <1>4 DEF SyncLands
  <2>2. TasksTyped' BY <1>0, <1>1, <2>1, SpawnMoves
  <2>3. ~Reviewing BY <1>4 DEF Reviewing
  <2> QED BY <1>1, <1>2, <2>2, <2>3, QuietStep
<1> QED BY <1>3, <1>4

LEMMA SessionInit == Init => SessionInv
<1> SUFFICES ASSUME Init PROVE SessionInv
  OBVIOUS
<1>1. cards \in [Card -> {None, Fresh}] /\ tab \in Tabs
      /\ list = <<>> /\ idx = 0 /\ shown = FALSE /\ started = FALSE /\ drill = FALSE
      /\ results = <<>> /\ trouble = {}
      /\ loads = [i \in 1..MaxLoads |-> IF i = 1 THEN Load ELSE None]
      /\ drilling = None /\ saving = None
  BY DEF Init
<1>2. Fresh \in CardRow BY DEF Fresh, CardRow
<1>3. Len(list) = 0 /\ list \in Seq(Asking) /\ results \in Seq(Card) /\ Len(results) = 0
  BY <1>1, EmptySeq
<1>8. idx \in Nat /\ idx <= Len(list) BY <1>1, <1>3
<1>9. started \in BOOLEAN /\ drill \in BOOLEAN /\ shown \in BOOLEAN BY <1>1
<1>10. \A i \in 1..Len(list) : list[i] \in Rows BY <1>3
<1>11. cards \in [Card -> CardRow \cup {None}] BY <1>1, <1>2
<1>4. SessionTyped BY <1>1, <1>3, <1>8, <1>9, <1>10, <1>11 DEF SessionTyped
<1>5. TasksTyped BY <1>1, FS_EmptySet DEF TasksTyped, Load
<1>6. Recap BY <1>1, <1>3 DEF Recap
<1>7. SavingFits /\ ReviewAlone /\ ShownFits
  BY <1>1 DEF SavingFits, ReviewAlone, ShownFits, Reviewing
<1> QED BY <1>4, <1>5, <1>6, <1>7 DEF SessionInv

LEMMA SessionStep == Patient /\ SessionInv /\ [Next]_vars => SessionInv'
<1> SUFFICES ASSUME Patient, SessionInv, [Next]_vars PROVE SessionInv'
  OBVIOUS
<1>1. CASE UNCHANGED vars
  <2>1. UNCHANGED <<cards, tab, list, idx, shown, started, drill, results, trouble, loads,
                    drilling, saving, seen>>
    BY <1>1 DEF vars, store, session, tasks
  <2>2. TasksTyped' BY <2>1 DEF SessionInv, TasksTyped
  <2>3. cards' \in [Card -> CardRow \cup {None}] BY <2>1 DEF SessionInv, SessionTyped
  <2> QED BY <2>1, <2>2, <2>3, QuietStep
<1>2. ASSUME NEW i \in 1..MaxLoads, LoadStep(i) PROVE SessionInv' BY <1>2, LoadStepSound
<1>3. ASSUME NEW again \in BOOLEAN, Rate(again) PROVE SessionInv' BY <1>3, RateSound
<1>4. ASSUME NEW t \in Tabs, SelectTab(t) PROVE SessionInv' BY <1>4, SelectTabSound
<1>5. CASE StartReview \/ StartDrill \/ DrillReady \/ RevealAnswer \/ RateDrill
  BY <1>5, StartReviewSound, StartDrillSound, DrillReadySound, RevealSound, RateDrillSound
<1>6. CASE Saved \/ Done \/ SyncLands BY <1>6, SavedSound, DoneSound, SyncLandsSound
<1> QED BY <1>1, <1>2, <1>3, <1>4, <1>5, <1>6 DEF Next

\* The recap names each card once, in order, whatever was pressed twice, saved late
\* or not saved at all (routes/review.rs, rate).
THEOREM SessionsSkipNothing == ASSUME Patient PROVE Spec => []NothingIsSkipped
<1>1. SessionInv => NothingIsSkipped
  <2> SUFFICES ASSUME SessionInv PROVE NothingIsSkipped
    OBVIOUS
  <2>1. results \in Seq(Card) BY DEF SessionInv, SessionTyped
  <2>2. DOMAIN results = 1..Len(results) BY <2>1
  <2> QED BY <2>2 DEF SessionInv, Recap, NothingIsSkipped
<1> QED BY <1>1, SessionInit, SessionStep, PTL DEF Spec

-----------------------------------------------------------------------------
(* An answer is only given to a card whose back has been looked at.        *)

SeenStep == Len(results') > Len(results) => results'[Len(results')] = seen

LEMMA RatedIsSeen ==
  ASSUME SessionInv, CanRate, results' = Append(results, list[idx + 1].id), list' = list
  PROVE  SeenStep
<1>1. Len(results') = idx + 1 /\ \A i \in 1..Len(results') : results'[i] = list[i].id
  BY RecapGrows
<1>2. seen = list[idx + 1].id BY DEF SessionInv, ShownFits, CanRate
<1>3. idx \in Nat BY DEF SessionInv, SessionTyped
<1> QED BY <1>1, <1>2, <1>3 DEF SeenStep

LEMMA RestIsSeen ==
  ASSUME SessionInv, results' = results \/ results' = <<>>
  PROVE  SeenStep
<1>1. Len(results) \in Nat BY DEF SessionInv, SessionTyped
<1>2. Len(<<>>) = 0 BY EmptySeq
<1> QED BY <1>1, <1>2 DEF SeenStep

LEMMA StepIsSeen == SessionInv /\ [Next]_vars => SeenStep
<1> SUFFICES ASSUME SessionInv, [Next]_vars PROVE SeenStep
  OBVIOUS
<1>1. CASE RateDrill BY <1>1, RatedIsSeen DEF RateDrill
<1>2. ASSUME NEW again \in BOOLEAN, Rate(again) PROVE SeenStep BY <1>2, RatedIsSeen DEF Rate
<1>3. ASSUME NEW i \in 1..MaxLoads, LoadStep(i) PROVE SeenStep
  BY <1>3, RestIsSeen DEF LoadStep, ReadKanji, PutKanji, KanjiFails, ReadDue, SetDue, SetTrouble, Reset,
                         session
<1>4. CASE StartReview \/ StartDrill \/ DrillReady \/ RevealAnswer \/ Saved \/ Done \/ SyncLands
  BY <1>4, RestIsSeen DEF StartReview, StartDrill, DrillReady, BeginDrill, Reset, RevealAnswer,
                         Saved, Done, SyncLands, session
<1>5. ASSUME NEW t \in Tabs, SelectTab(t) PROVE SeenStep BY <1>5, RestIsSeen DEF SelectTab
<1>6. CASE UNCHANGED vars BY <1>6, RestIsSeen DEF vars, session
<1> QED BY <1>1, <1>2, <1>3, <1>4, <1>5, <1>6 DEF Next

\* An answer is only given to a card whose back the user is looking at (rate).
THEOREM OnlySeenIsAnswered == ASSUME Patient PROVE Spec => AnswersAreSeen
<1>1. SessionInv /\ [Next]_vars =>
        [Len(results') > Len(results) => results'[Len(results')] = seen]_vars
  BY StepIsSeen DEF SeenStep
<1> QED BY <1>1, SessionInit, SessionStep, PTL DEF Spec, AnswersAreSeen

-----------------------------------------------------------------------------
(* The log. While nothing comes from other devices, what a session has read *)
(* and not yet asked is what is stored.                                     *)

CardsFit ==
  \A c \in Card : IF cards[c] = None THEN reviews[c] = 0 ELSE cards[c].reps = reviews[c]

Current(S) ==
  /\ \A s \in S : s.card.reps = reviews[s.id]
  /\ \A s, t \in S : s.id = t.id => s = t

LoadsFit ==
  \A i \in 1..MaxLoads : loads[i] # None =>
    /\ loads[i].stage = "ensure" => \A k \in loads[i].missing \cap Card : reviews[k] = 0
    /\ loads[i].stage = "due_read" => Current(loads[i].cards)

ListFits ==
  ~drill =>
    /\ \A i \in 1..Len(list) : i > idx => list[i].card.reps = reviews[list[i].id]
    /\ \A i, j \in 1..Len(list) : list[i].id = list[j].id => i = j

LogInv == reviews \in [Card -> Nat] /\ CardsFit /\ LoadsFit /\ ListFits

LEMMA LoadsFitMoves ==
  ASSUME TasksTyped, LoadsFit, NEW i \in 1..MaxLoads, NEW from, NEW to, Goes(i, from, to),
         to # None =>
           /\ to.stage = "ensure" => \A k \in to.missing \cap Card : reviews[k] = 0
           /\ to.stage = "due_read" => Current(to.cards),
         reviews' = reviews
  PROVE  LoadsFit'
<1>1. loads' = [loads EXCEPT ![i] = to] /\ DOMAIN loads = 1..MaxLoads BY DEF Goes, TasksTyped
<1>2. loads'[i] = to /\ \A j \in 1..MaxLoads : j # i => loads'[j] = loads[j] BY <1>1
<1>3. ASSUME NEW j \in 1..MaxLoads, loads'[j] # None
      PROVE  /\ loads'[j].stage = "ensure" =>
                  \A k \in loads'[j].missing \cap Card : reviews[k] = 0
             /\ loads'[j].stage = "due_read" => Current(loads'[j].cards)
  <2>1. CASE j = i BY <1>2, <1>3, <2>1
  <2>2. CASE j # i BY <1>2, <1>3, <2>2 DEF LoadsFit
  <2> QED BY <2>1, <2>2
<1> QED BY <1>3 DEF LoadsFit, Current

LEMMA LoadsFitFresh ==
  ASSUME \A i \in 1..MaxLoads : loads'[i] = None \/ loads'[i] = Load
  PROVE  LoadsFit'
<1>1. Load.stage = "begin" BY DEF Load
<1> QED BY <1>1 DEF LoadsFit

LEMMA LoadsFitSpawn ==
  ASSUME TasksTyped, LoadsFit, Spawn, reviews' = reviews
  PROVE  LoadsFit'
<1>1. PICK i \in 1..MaxLoads : Goes(i, "none", Load) \/ loads' = [loads EXCEPT ![i] = Load]
  BY DEF Spawn
<1>2. loads' = [loads EXCEPT ![i] = Load] BY <1>1 DEF Goes
<1>3. \A j \in 1..MaxLoads : loads'[j] = Load \/ loads'[j] = loads[j]
  BY <1>2 DEF TasksTyped
<1>4. Load.stage = "begin" BY DEF Load
<1> QED BY <1>3, <1>4 DEF LoadsFit, Current

\* The list of a review is what had been read.
LEMMA ListFitsReset ==
  ASSUME NEW S, IsFiniteSet(S), Current(S), Reset(Kept(S)), reviews' = reviews
  PROVE  ListFits'
<1>1. list' \in Orders(Kept(S)) /\ idx' = 0 BY DEF Reset
<1>2. Kept(S) \subseteq S /\ IsFiniteSet(Kept(S)) BY FS_Subset DEF Kept
<1>3. /\ \A i \in 1..Len(list') : list'[i] \in Kept(S)
      /\ \A i, j \in 1..Len(list') : i # j => list'[i] # list'[j]
  BY <1>1, <1>2, OrderedList
<1> QED BY <1>2, <1>3 DEF ListFits, Current

LEMMA LogLoadStep ==
  ASSUME SessionInv, LogInv, NEW i \in 1..MaxLoads, LoadStep(i)
  PROVE  LogInv'
<1>0. SessionTyped /\ TasksTyped BY DEF SessionInv
<1>1. reviews' = reviews
  BY DEF LoadStep, ReadKanji, PutKanji, KanjiFails, ReadDue, SetDue, SetTrouble, store
<1>2. CASE ReadKanji(i)
  <2> PICK missing : missing = {k \in UNION {KanjiOf[w] : w \in {w \in Word : cards[w] # None}} :
                                  cards[k] = None}
    OBVIOUS
  <2>1. Goes(i, "begin", [stage |-> "ensure", missing |-> missing]) BY <1>2 DEF ReadKanji
  <2>2. \A k \in missing \cap Card : reviews[k] = 0 BY DEF LogInv, CardsFit
  <2>3. LoadsFit' BY <1>0, <1>1, <2>1, <2>2, LoadsFitMoves DEF LogInv
  <2> QED BY <1>1, <1>2, <2>3 DEF LogInv, ReadKanji, CardsFit, ListFits, store, session
<1>3. CASE PutKanji(i)
  <2>1. Goes(i, "ensure", [stage |-> "due"]) BY <1>3 DEF PutKanji
  <2>2. LoadsFit' BY <1>0, <1>1, <2>1, LoadsFitMoves DEF LogInv
  <2>3. loads[i] # None /\ loads[i].stage = "ensure" BY <2>1 DEF Goes
  <2>4. Fresh.reps = 0 /\ Fresh \in CardRow /\ Fresh # None
    BY NoneAssumption DEF Fresh, CardRow
  <2>5. CardsFit' BY <1>1, <1>3, <2>3, <2>4 DEF LogInv, LoadsFit, CardsFit, PutKanji
  <2> QED BY <1>1, <1>3, <2>2, <2>5 DEF LogInv, PutKanji, ListFits, session
<1>4. CASE ReadDue(i)
  <2>1. PICK S \in Chosen(tab), from \in {"begin", "due"} :
          Goes(i, from, [stage |-> "due_read", cards |-> {Snapshot(c) : c \in S}])
    BY <1>4 DEF ReadDue
  <2>2. S \subseteq Card /\ \A c \in S : Active(c)
    BY <1>0, FiniteDecks DEF TasksTyped, Chosen
  <2>3. Current({Snapshot(c) : c \in S})
    BY <2>2 DEF Current, Snapshot, Active, LogInv, CardsFit
  <2> PICK T : T = {Snapshot(c) : c \in S} OBVIOUS
  <2>4. Goes(i, from, [stage |-> "due_read", cards |-> T]) /\ Current(T) BY <2>1, <2>3
  <2>5. LoadsFit' BY <1>0, <1>1, <2>4, LoadsFitMoves DEF LogInv
  <2> QED BY <1>1, <1>4, <2>5 DEF LogInv, ReadDue, CardsFit, ListFits, store, session
<1>5. CASE SetDue(i)
  <2>1. Goes(i, "due_read", [stage |-> "rest"]) BY <1>5 DEF SetDue
  <2>2. LoadsFit' BY <1>0, <1>1, <2>1, LoadsFitMoves DEF LogInv
  <2>3. loads[i] # None /\ loads[i].stage = "due_read" BY <2>1 DEF Goes
  <2>4. IsFiniteSet(loads[i].cards) /\ Current(loads[i].cards)
    BY <1>0, <2>3 DEF TasksTyped, LogInv, LoadsFit
  <2> PICK S : S = loads[i].cards OBVIOUS
  <2>5. Reset(Kept(S)) BY <1>5 DEF SetDue
  <2>6. ListFits' BY <1>1, <2>4, <2>5, ListFitsReset
  <2> QED BY <1>1, <1>5, <2>2, <2>6 DEF LogInv, SetDue, CardsFit, store
<1>6. CASE SetTrouble(i)
  <2>1. Goes(i, "rest", None) BY <1>6 DEF SetTrouble
  <2>2. LoadsFit' BY <1>0, <1>1, <2>1, LoadsFitMoves DEF LogInv
  <2> QED BY <1>1, <1>6, <2>2 DEF LogInv, SetTrouble, CardsFit, ListFits, store, session
<1>7. CASE KanjiFails(i)
  <2>1. Goes(i, "ensure", [stage |-> "due"]) BY <1>7 DEF KanjiFails
  <2>2. LoadsFit' BY <1>0, <1>1, <2>1, LoadsFitMoves DEF LogInv
  <2> QED BY <1>1, <1>7, <2>2 DEF LogInv, KanjiFails, CardsFit, ListFits, store, session
<1> QED BY <1>2, <1>3, <1>4, <1>5, <1>6, <1>7 DEF LoadStep

\* A write takes the card and its log on by one together.
LEMMA LogPut ==
  ASSUME SessionInv, LogInv, saving # None, PutCardLogged
  PROVE  /\ reviews' \in [Card -> Nat] /\ CardsFit'
         /\ \A c \in Card : c # saving.id => reviews'[c] = reviews[c]
<1>0. SessionTyped BY DEF SessionInv
<1>1. /\ saving.id \in Card /\ cards'[saving.id] \in CardRow
      /\ cards'[saving.id].reps = saving.card.reps + 1
      /\ \A c \in Card : c # saving.id => cards'[c] = cards[c]
  BY <1>0, PutShape
<1>2. saving.card.reps = reviews[saving.id]
  <2>1. ~drill /\ idx < Len(list) /\ saving.id = list[idx + 1].id /\ saving.card = list[idx + 1].card
    BY DEF SessionInv, SavingFits, Reviewing
  <2>2. idx + 1 \in 1..Len(list) /\ idx + 1 > idx BY <1>0, <2>1 DEF SessionTyped
  <2> QED BY <2>1, <2>2 DEF LogInv, ListFits
<1>3. reviews' = [reviews EXCEPT ![saving.id] = @ + 1] BY DEF PutCardLogged
<1>4. reviews' \in [Card -> Nat] /\ reviews'[saving.id] = reviews[saving.id] + 1
      /\ \A c \in Card : c # saving.id => reviews'[c] = reviews[c]
  BY <1>1, <1>3 DEF LogInv
<1>5. cards'[saving.id] # None BY <1>1, NoneAssumption
<1>6. CardsFit' BY <1>1, <1>2, <1>4, <1>5 DEF LogInv, CardsFit
<1> QED BY <1>4, <1>6

LEMMA LogSaved ==
  ASSUME SessionInv, LogInv, Saved
  PROVE  LogInv'
<1>0. SessionTyped BY DEF SessionInv
<1>1. saving # None /\ (PutCardLogged \/ UNCHANGED store) /\ idx' = idx + 1
      /\ UNCHANGED <<list, drill, loads>>
  BY DEF Saved, Advance
<1>2. ~drill /\ idx < Len(list) /\ NoLoads /\ saving.id = list[idx + 1].id
  BY <1>1 DEF SessionInv, SavingFits, ReviewAlone, Reviewing
<1>3. /\ reviews' \in [Card -> Nat] /\ CardsFit'
      /\ \A c \in Card : c # saving.id => reviews'[c] = reviews[c]
  BY <1>1, LogPut DEF LogInv, CardsFit, store
<1>4. LoadsFit' BY <1>1, <1>2, LoadsFitFresh DEF NoLoads
<1>5. ListFits'
  <2>1. idx \in Nat /\ idx + 1 \in 1..Len(list) BY <1>0, <1>2 DEF SessionTyped
  <2>2. ASSUME NEW i \in 1..Len(list), i > idx + 1
        PROVE  list[i].card.reps = reviews'[list[i].id]
    <3>1. i > idx /\ i # idx + 1 BY <2>1, <2>2
    <3>2. list[i] \in Rows BY <1>0, <1>2 DEF SessionTyped
    <3>3. list[i].id \in Card BY <3>2 DEF Rows
    <3>4. list[i].id # saving.id BY <1>2, <2>1, <3>1 DEF LogInv, ListFits
    <3> QED BY <1>2, <1>3, <3>1, <3>3, <3>4 DEF LogInv, ListFits
  <2> QED BY <1>1, <1>2, <2>2 DEF LogInv, ListFits
<1> QED BY <1>3, <1>4, <1>5 DEF LogInv

LEMMA LogSelectTab ==
  ASSUME SessionInv, LogInv, NEW t \in Tabs, SelectTab(t)
  PROVE  LogInv'
<1>1. /\ list' = <<>> /\ loads' = [i \in 1..MaxLoads |-> IF i = 1 THEN Load ELSE None]
      /\ (saving # None /\ PutCardLogged) \/ UNCHANGED store
  BY DEF SelectTab
<1>2. reviews' \in [Card -> Nat] /\ CardsFit' BY <1>1, LogPut DEF LogInv, CardsFit, store
<1>3. LoadsFit' BY <1>1, LoadsFitFresh
<1>4. Len(list') = 0 BY <1>1, EmptySeq
<1>5. ListFits' BY <1>4 DEF ListFits
<1> QED BY <1>2, <1>3, <1>5 DEF LogInv

LEMMA LogRest ==
  ASSUME SessionInv, LogInv, UNCHANGED <<cards, reviews>>,
         LoadsFit' \/ loads' = loads, drill' \/ UNCHANGED <<list, idx, drill>>
  PROVE  LogInv'
<1>1. LoadsFit' BY DEF LogInv, LoadsFit, Current
<1>2. ListFits' BY DEF LogInv, ListFits
<1> QED BY <1>1, <1>2 DEF LogInv, CardsFit

LEMMA LogStep == ~Remote /\ SessionInv /\ LogInv /\ [Next]_vars => LogInv'
<1> SUFFICES ASSUME ~Remote, SessionInv, LogInv, [Next]_vars PROVE LogInv'
  OBVIOUS
<1>0. TasksTyped BY DEF SessionInv
<1>1. ASSUME NEW i \in 1..MaxLoads, LoadStep(i) PROVE LogInv' BY <1>1, LogLoadStep
<1>2. CASE StartReview BY <1>2, LogRest DEF StartReview, store, tasks
<1>3. CASE StartDrill
  <2>1. UNCHANGED <<cards, reviews, loads>> /\ (drill' \/ UNCHANGED <<list, idx, drill>>)
    BY <1>3 DEF StartDrill, BeginDrill, store, session
  <2> QED BY <2>1, LogRest
<1>4. CASE DrillReady BY <1>4, LogRest DEF DrillReady, BeginDrill, store
<1>5. CASE RevealAnswer BY <1>5, LogRest DEF RevealAnswer, store, tasks
<1>6. CASE RateDrill BY <1>6, LogRest DEF RateDrill, tasks
<1>7. ASSUME NEW again \in BOOLEAN, Rate(again) PROVE LogInv' BY <1>7, LogRest DEF Rate, store
<1>8. CASE Saved BY <1>8, LogSaved
<1>9. CASE Done
  <2>1. Spawn /\ UNCHANGED <<cards, reviews, list, idx, drill>> BY <1>9 DEF Done, store, session
  <2>2. LoadsFit' BY <1>0, <2>1, LoadsFitSpawn DEF LogInv
  <2> QED BY <2>1, <2>2, LogRest
<1>10. ASSUME NEW t \in Tabs, SelectTab(t) PROVE LogInv' BY <1>10, LogSelectTab
<1>11. CASE SyncLands
  <2>1. (Spawn \/ loads' = loads) /\ UNCHANGED <<cards, reviews, list, idx, drill>>
    BY <1>11 DEF SyncLands, session
  <2>2. LoadsFit' \/ loads' = loads BY <1>0, <2>1, LoadsFitSpawn DEF LogInv
  <2> QED BY <2>1, <2>2, LogRest
<1>12. CASE UNCHANGED vars BY <1>12, LogRest DEF vars, store, session, tasks
<1> QED BY <1>1, <1>2, <1>3, <1>4, <1>5, <1>6, <1>7, <1>8, <1>9, <1>10, <1>11, <1>12 DEF Next

LEMMA LogInit == Init => LogInv
<1> SUFFICES ASSUME Init PROVE LogInv
  OBVIOUS
<1>1. Fresh.reps = 0 BY DEF Fresh
<1>2. cards \in [Card -> {None, Fresh}] /\ reviews = [c \in Card |-> 0] /\ list = <<>>
      /\ loads = [i \in 1..MaxLoads |-> IF i = 1 THEN Load ELSE None]
  BY DEF Init
<1>3. CardsFit BY <1>1, <1>2 DEF CardsFit
<1>4. LoadsFit BY <1>2 DEF LoadsFit, Load
<1>5. Len(list) = 0 BY <1>2, EmptySeq
<1>6. ListFits BY <1>5 DEF ListFits
<1> QED BY <1>2, <1>3, <1>4, <1>6 DEF LogInv

\* On one device a card has been scheduled as often as its answers are in the log,
\* through failed writes, drills, cancelled saves and a kanji deck that is extended
\* at every load (put_card_logged, ensure_kanji_cards).
THEOREM ProgressIsLogged == ASSUME Patient, ~Remote PROVE Spec => []LogMatchesProgress
<1>1. LogInv => LogMatchesProgress BY DEF LogInv, CardsFit, LogMatchesProgress
<1>2. SessionInv /\ LogInv /\ [Next]_vars => SessionInv' /\ LogInv'
  BY SessionStep, LogStep
<1> QED BY <1>1, <1>2, SessionInit, LogInit, PTL DEF Spec
=============================================================================
