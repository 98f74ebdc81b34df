--------------------------- MODULE ReviewSession ---------------------------
(***************************************************************************)
(* The Review page of the app: its word tab and its kanji tab              *)
(* (app/shared/src/routes/review.rs, review_kanji.rs, review_common.rs),   *)
(* over the deck of kanji cards (kanji_deck.rs), the scheduling glue       *)
(* (srs.rs) and the answer log (drill_log.rs).                             *)
(*                                                                         *)
(* The page is one thread: a handler runs to the end, and the tasks it     *)
(* spawns run from one await to the next, in between the user's presses    *)
(* and the syncs that land. Only the open tab is mounted, and leaving it   *)
(* cancels its tasks.                                                      *)
(*                                                                         *)
(* Which cards are due and which are scheduled far out when the page looks, *)
(* and which graduate, are choices: FSRS and the clock decide. A card       *)
(* remembers how often it has been answered and failed.                     *)
(***************************************************************************)
EXTENDS Naturals, Sequences, FiniteSets, FiniteSetsExt

CONSTANTS Word,           \* word cards
          Kanji,          \* kanji cards
          Unknown,        \* recall cards of words the dictionary has lost
          KanjiOf,        \* the kanji a word is written with
          None,           \* no card, no task
          Limit,          \* max_session_cards
          Batch,          \* DRILL_BATCH
          MinFails,       \* TROUBLE_MIN_FAILS
          Patient,        \* the user starts nothing while the page loads
          Remote,         \* syncs bring cards answered on other devices
          MaxAnswers,     \* bound on the answers logged
          MaxLoads        \* bound on the reloads under way at once

Card == Word \cup Kanji
Tabs == {"words", "kanji"}

ASSUME ReviewAssumption ==
  /\ {Limit, Batch, MinFails, MaxAnswers, MaxLoads} \subseteq Nat \ {0}
  /\ Unknown \subseteq Word /\ KanjiOf \in [Word -> SUBSET Kanji]
  /\ IsFiniteSet(Word) /\ IsFiniteSet(Kanji)
  /\ Patient \in BOOLEAN /\ Remote \in BOOLEAN

CardRow == [status : {"active", "graduated"}, reps : Nat, fails : Nat]
Saving == [id : Card, card : CardRow, again : BOOLEAN]

ASSUME NoneAssumption == None \notin CardRow /\ None \notin Saving

VARIABLES
  cards,     \* the store's cards
  reviews,   \* review rows in the answer log, by card
  drills,    \* drill rows in the answer log, by card
  tab,       \* the tab that is open
  list,      \* due_cards: the cards of the session, as they were read
  idx,       \* how many of them are done
  shown,     \* show_back
  started,
  drill,     \* the session is a drill
  results,   \* the cards answered in this session
  trouble,   \* the trouble list on the start screen
  loads,     \* the load_session tasks
  drilling,  \* the cards a starting drill is looking up, or None
  saving,    \* the answer being saved, or None (rating_in_flight)
  seen       \* history: the card whose answer the user is looking at

store == <<cards, reviews, drills>>
session == <<list, idx, shown, started, drill, results>>
tasks == <<trouble, loads, drilling, saving>>
vars == <<store, tab, session, tasks, seen>>

Active(c) == cards[c] # None /\ cards[c].status = "active"
DeckOf(t) == IF t = "words" THEN Word ELSE Kanji

Fresh == [status |-> "active", reps |-> 0, fails |-> 0]

\* A card the user keeps failing, while it is not scheduled far enough out.
CanStruggle(c) == Active(c) /\ cards[c].fails >= MinFails

Answered == MapThenSumSet(LAMBDA c : reviews[c] + drills[c], Card)

Load == [stage |-> "begin"]
Init ==
  /\ cards \in [Card -> {None, Fresh}]
  /\ \A k \in Kanji : cards[k] = None
  /\ reviews = [c \in Card |-> 0] /\ drills = [c \in Card |-> 0]
  /\ tab \in Tabs
  /\ list = <<>> /\ idx = 0 /\ shown = FALSE /\ started = FALSE /\ drill = FALSE
  /\ results = <<>> /\ trouble = {}
  /\ loads = [i \in 1..MaxLoads |-> IF i = 1 THEN Load ELSE None]
  /\ drilling = None /\ saving = None /\ seen = None

-----------------------------------------------------------------------------
\* spawn(load_session), on mount, when a sync has landed and on "Done".
Spawn == \E i \in 1..MaxLoads :
  /\ loads[i] = None /\ \A j \in 1..(i - 1) : loads[j] # None
  /\ loads' = [loads EXCEPT ![i] = Load]

\* A task's next stretch, to its next await.
Goes(i, from, to) ==
  /\ loads[i] # None /\ loads[i].stage = from
  /\ loads' = [loads EXCEPT ![i] = to]

\* ensure_kanji_cards reads the deck, then waits for the dictionary.
ReadKanji(i) ==
  /\ tab = "kanji"
  /\ Goes(i, "begin",
       [stage |-> "ensure",
        missing |-> {k \in UNION {KanjiOf[w] : w \in {w \in Word : cards[w] # None}} :
                       cards[k] = None}])
  /\ UNCHANGED <<store, tab, session, trouble, drilling, saving, seen>>

\* The kanji that had no card then get one: put_cards overwrites.
PutKanji(i) ==
  /\ Goes(i, "ensure", [stage |-> "due"])
  /\ cards' = [c \in Card |-> IF c \in loads[i].missing THEN Fresh ELSE cards[c]]
  /\ UNCHANGED <<reviews, drills, tab, session, trouble, drilling, saving, seen>>

\* The dictionary or the write fails: the session goes on with the deck as it is.
KanjiFails(i) ==
  /\ Goes(i, "ensure", [stage |-> "due"])
  /\ UNCHANGED <<store, tab, session, trouble, drilling, saving, seen>>

\* The cards of a session, as they are read now.
Snapshot(c) == [id |-> c, card |-> cards[c]]

\* Cards that are due, as many as a session may have. (Which come first when
\* there are more is order_due's choice.)
Chosen(t) ==
  {S \in SUBSET {c \in DeckOf(t) : Active(c)} : Cardinality(S) <= Limit}

Orders(S) == {f \in [1..Cardinality(S) -> S] : \A i, j \in DOMAIN f : i # j => f[i] # f[j]}

\* get_due_cards, then the dictionary entries. (The kanji tab keeps the deck's order
\* and goes on without an await: one of the behaviours here.)
ReadDue(i) ==
  /\ \E S \in Chosen(tab), from \in {"begin", "due"} :
       /\ from = "begin" <=> tab = "words"
       /\ Goes(i, from, [stage |-> "due_read", cards |-> {Snapshot(c) : c \in S}])
  /\ UNCHANGED <<store, tab, session, trouble, drilling, saving, seen>>

\* attach_entries: a recall card without glosses cannot be asked.
Kept(snapshots) == {s \in snapshots : s.id \notin Unknown}

\* A session begins in random order.
Reset(snapshots) ==
  /\ list' \in Orders(snapshots)
  /\ idx' = 0 /\ shown' = FALSE /\ results' = <<>>
  /\ seen' = None

SetDue(i) ==
  /\ Goes(i, "due_read", [stage |-> "rest"])
  /\ Reset(Kept(loads[i].cards))
  /\ started' = FALSE /\ drill' = FALSE
  /\ UNCHANGED <<store, tab, trouble, drilling, saving>>

\* The rest of the start screen: who is in trouble, and how often drilled.
SetTrouble(i) ==
  /\ Goes(i, "rest", None)
  /\ \E S \in SUBSET {c \in DeckOf(tab) : CanStruggle(c)} :
       trouble' = {[id |-> c, drilled |-> drills[c]] : c \in S}
  /\ UNCHANGED <<store, tab, session, drilling, saving, seen>>

-----------------------------------------------------------------------------
Loading == drilling # None \/ \E i \in DOMAIN loads : loads[i] # None
MayPress == Patient => ~Loading
OnCard == started /\ idx < Len(list)

StartReview ==
  /\ MayPress /\ ~started /\ list # <<>>
  /\ started' = TRUE
  /\ UNCHANGED <<store, tab, list, idx, shown, drill, results, tasks, seen>>

\* pick_drill_batch: those drilled least often.
Batches ==
  LET size == IF Cardinality(trouble) < Batch THEN Cardinality(trouble) ELSE Batch IN
  {S \in SUBSET trouble :
     /\ Cardinality(S) = size
     /\ \A in \in S, out \in trouble \ S : in.drilled <= out.drilled}

Asked(S) == {Snapshot(t.id) : t \in S}

BeginDrill(snapshots) ==
  /\ Reset(Kept(snapshots))
  /\ started' = TRUE /\ drill' = TRUE

\* The word tab looks its entries up first, the kanji tab begins at once.
StartDrill ==
  /\ MayPress /\ ~started /\ drilling = None /\ trouble # {}
  /\ \E S \in Batches :
       \/ tab = "words" /\ drilling' = Asked(S) /\ UNCHANGED <<session, seen>>
       \/ tab = "kanji" /\ BeginDrill(Asked(S)) /\ UNCHANGED drilling
  /\ UNCHANGED <<store, tab, trouble, loads, saving>>

DrillReady ==
  /\ drilling # None /\ drilling' = None
  /\ BeginDrill(drilling)
  /\ UNCHANGED <<store, tab, trouble, loads, saving>>

RevealAnswer ==
  /\ OnCard /\ ~shown
  /\ shown' = TRUE /\ seen' = list[idx + 1].id
  /\ UNCHANGED <<store, tab, list, idx, started, drill, results, tasks>>

Advance == idx' = idx + 1 /\ shown' = FALSE /\ seen' = None

\* Mutant: a second press while the first is being saved counts.
CanRateTwice == shown /\ OnCard

\* A press counts once, and only on a card whose answer is showing.
CanRate == saving = None /\ shown /\ OnCard

\* A drill answer is logged by a task of its own, and may fail unseen.
RateDrill ==
  LET c == list[idx + 1].id IN
  /\ CanRate /\ drill
  /\ Answered < MaxAnswers
  /\ results' = Append(results, c)
  /\ drills' \in {drills, [drills EXCEPT ![c] = @ + 1]}
  /\ Advance
  /\ UNCHANGED <<cards, reviews, tab, list, started, drill, tasks>>

\* Rating 1 is "again".
Rate(again) ==
  LET s == list[idx + 1] IN
  /\ CanRate /\ ~drill
  /\ Answered < MaxAnswers
  /\ results' = Append(results, s.id)
  /\ saving' = [id |-> s.id, card |-> s.card, again |-> again]
  /\ UNCHANGED <<store, tab, list, idx, shown, started, drill, trouble, loads,
                 drilling, seen>>

\* apply_review, on the card as the session read it. The new interval alone decides
\* whether it graduates.
ApplyReview(card, again) ==
  {[status |-> st, reps |-> card.reps + 1,
    fails |-> card.fails + (IF again THEN 1 ELSE 0)] : st \in {"active", "graduated"}}

\* Mutant: the card and its row are two writes, and the second may fail.
PutCardUnlogged ==
  /\ \E next \in ApplyReview(saving.card, saving.again) :
       cards' = [cards EXCEPT ![saving.id] = next]
  /\ reviews' \in {reviews, [reviews EXCEPT ![saving.id] = @ + 1]}
  /\ UNCHANGED drills

\* put_card_logged: the card and its row in the log, together.
PutCardLogged ==
  /\ \E next \in ApplyReview(saving.card, saving.again) :
       cards' = [cards EXCEPT ![saving.id] = next]
  /\ reviews' = [reviews EXCEPT ![saving.id] = @ + 1]
  /\ UNCHANGED drills

\* Mutant: a failed write ends the task early, the flag still up.
SavedOnlyIfWritten ==
  /\ saving # None /\ "ended" \notin DOMAIN saving
  /\ \/ PutCardLogged /\ saving' = None /\ Advance
     \/ /\ saving' = [id |-> saving.id, card |-> saving.card,
                      again |-> saving.again, ended |-> TRUE]
        /\ UNCHANGED <<store, idx, shown, seen>>
  /\ UNCHANGED <<tab, list, started, drill, results, trouble, loads, drilling>>

\* Mutant: the next card shows with its answer.
SavedStillShown ==
  /\ saving # None /\ saving' = None
  /\ PutCardLogged \/ UNCHANGED store
  /\ idx' = idx + 1 /\ seen' = None
  /\ UNCHANGED <<tab, list, shown, started, drill, results, trouble, loads, drilling>>

\* Saved or not, the session goes on to the next card.
Saved ==
  /\ saving # None /\ saving' = None
  /\ PutCardLogged \/ UNCHANGED store
  /\ Advance
  /\ UNCHANGED <<tab, list, started, drill, results, trouble, loads, drilling>>

Done ==
  /\ started /\ idx >= Len(list)
  /\ Spawn
  /\ UNCHANGED <<store, tab, session, trouble, drilling, saving, seen>>

-----------------------------------------------------------------------------
\* Leaving the tab cancels its tasks; a write under way goes through or not.
SelectTab(t) ==
  /\ t # tab /\ tab' = t
  /\ (saving # None /\ PutCardLogged) \/ UNCHANGED store
  /\ list' = <<>> /\ idx' = 0 /\ shown' = FALSE /\ started' = FALSE
  /\ drill' = FALSE /\ results' = <<>> /\ trouble' = {}
  /\ loads' = [i \in 1..MaxLoads |-> IF i = 1 THEN Load ELSE None]
  /\ drilling' = None /\ saving' = None /\ seen' = None

\* A sync lands, and the page loads again unless a session has begun. It may
\* bring a card as it was answered on another device.
SyncLands ==
  /\ \/ UNCHANGED cards
     \/ /\ Remote
        /\ \E c \in Card :
             LET had == IF cards[c] = None THEN Fresh ELSE cards[c] IN
             /\ had.reps < MaxAnswers
             /\ cards' = [cards EXCEPT ![c] =
                  [had EXCEPT !.status = "active", !.reps = @ + 1]]
  /\ IF started THEN UNCHANGED loads ELSE Spawn
  /\ UNCHANGED <<reviews, drills, tab, session, trouble, drilling, saving, seen>>

LoadStep(i) ==
  ReadKanji(i) \/ PutKanji(i) \/ KanjiFails(i) \/ ReadDue(i) \/ SetDue(i) \/ SetTrouble(i)

Next ==
  \/ \E i \in 1..MaxLoads : LoadStep(i)
  \/ StartReview \/ StartDrill \/ DrillReady
  \/ RevealAnswer \/ RateDrill \/ \E again \in BOOLEAN : Rate(again)
  \/ Saved \/ Done
  \/ \E t \in Tabs : SelectTab(t)
  \/ SyncLands

\* The runtime goes on with every task it has, and every await ends.
Fairness ==
  /\ \A i \in 1..MaxLoads : WF_vars(LoadStep(i))
  /\ WF_vars(DrillReady) /\ WF_vars(Saved)

Spec == Init /\ [][Next]_vars /\ Fairness

-----------------------------------------------------------------------------
\* The session takes its cards one by one: the recap names each card once, in
\* order, whatever was pressed twice, saved late or not saved at all.
NothingIsSkipped ==
  started =>
    /\ Len(results) = idx + (IF saving = None THEN 0 ELSE 1)
    /\ \A i \in DOMAIN results : results[i] = list[i].id

\* An answer is only ever given to a card whose back the user is looking at.
AnswersAreSeen ==
  [][Len(results') > Len(results) => results'[Len(results')] = seen]_vars

\* A card has been scheduled as often as its answers are in the log, through
\* failed writes, drills, cancelled saves and a kanji deck that is extended at
\* every load.
LogMatchesProgress ==
  \A c \in Card : cards[c] # None => cards[c].reps = reviews[c]

\* An answer that is being saved does not lock the page.
RatingsEnd == saving # None ~> saving = None
=============================================================================
