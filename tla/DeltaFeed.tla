----------------------------- MODULE DeltaFeed -----------------------------
(***************************************************************************)
(* Readers of the sync feed: the server of SyncServer answering requests,  *)
(* and readers that keep the cursor of the last answer and patch the view  *)
(* they hold with each one. It asks one question of the delta protocol in  *)
(* server/src/db/sync_meta.rs: are the rows an answer returns enough?      *)
(*                                                                         *)
(* A reader has no edits of its own in flight (DeckSync has those): it     *)
(* takes a full answer whole and a delta row by row.                       *)
(***************************************************************************)
EXTENDS SyncServer

CONSTANT Reader

\* A device has only ever logged finitely many answers.
ASSUME AnswersAreFinite == IsFiniteSet(Answer)
ASSUME NoneIsNoCursor == None \notin Cursor

VARIABLES cursor,   \* where each reader's view ends, or None
          view,     \* the deck each reader has pieced together
          tally     \* the drill counts each reader has pieced together

feedVars == <<serverVars, cursor, view, tally>>

Live(row) == IF row.card = None THEN None ELSE Wire(row.card)

DrillCount(u, id) == Cardinality(Drills(u, id))

Decks == [Id -> WireCard \cup {None}]

FeedTypeOK ==
  /\ TypeOK
  /\ cursor \in [Reader -> Cursor \cup {None}]
  /\ view \in [Reader -> Decks]
  /\ tally \in [Reader -> [Id -> Nat]]

FeedInit ==
  /\ Init
  /\ cursor = [d \in Reader |-> None]
  /\ view = [d \in Reader |-> [id \in Id |-> None]]
  /\ tally = [d \in Reader |-> [id \in Id |-> 0]]

PatchDeck(deck, r) ==
  [id \in Id |-> IF r.full \/ r.cards[id] # None \/ id \in r.deletions
                 THEN r.cards[id] ELSE deck[id]]

PatchTally(counts, r) ==
  [id \in Id |-> IF id \in DOMAIN r.counts THEN r.counts[id]
                 ELSE IF r.full THEN 0 ELSE counts[id]]

\* Reader d syncs as u. It may be signed in to another account than the one
\* its cursor came from.
Poll(d, u, cards, deletions, answers) ==
  \E since \in {cursor[d]}, sent \in {{id \in Id : cards[id] # None \/ deletions[id] # None}} :
    /\ Sync(u, cards, deletions, answers, None)
    /\ \E r \in {Response(u, since, sent, answers)'} :
         /\ cursor' = [cursor EXCEPT ![d] = r.cursor]
         /\ view' = [view EXCEPT ![d] = PatchDeck(view[d], r)]
         /\ tally' = [tally EXCEPT ![d] = PatchTally(tally[d], r)]

AnyPoll ==
  \E d \in Reader, u \in User, cards \in CardList, deletions \in DeletionList,
     answers \in SUBSET Answer : Poll(d, u, cards, deletions, answers)

\* A sync of some other device, or one whose answer never arrived.
Elsewhere == (AnyRequest \/ Housekeeping) /\ UNCHANGED <<cursor, view, tally>>

FeedNext == AnyPoll \/ Elsewhere

FeedSpec == FeedInit /\ [][FeedNext]_feedVars

-----------------------------------------------------------------------------
(* Properties.                                                             *)

\* The reader's next request would be answered with a delta.
Usable(d) == CanServeDelta(cursor[d], cursor[d].user, epoch, rev + 1, prunedRev)

\* "A cursor never skips a row committed before it" (sync_meta.rs:6): a reader
\* whose cursor the server still honours holds every row that has not changed
\* after the cursor, and holds no card that was deleted before it.
ViewMissesOnlyNewerRows ==
  \A d \in Reader : cursor[d] # None /\ Usable(d) =>
    \A id \in Id :
      LET row == table[cursor[d].user][id]
      IN /\ row.card # None /\ row.card.rev <= cursor[d].rev => view[d][id] = Wire(row.card)
         /\ row.card = None /\ (row.tomb = None \/ row.tomb.rev <= cursor[d].rev)
              => view[d][id] = None

\* No cursor is ahead of the server that issued it.
CursorsBehind ==
  \A d \in Reader : cursor[d] # None =>
    /\ cursor[d].epoch <= epoch
    /\ cursor[d].epoch = epoch => cursor[d].rev <= rev

\* The same for the drill counts, which have no row of their own: they are
\* recounted from the answers stored since the cursor.
TallyMissesOnlyNewerAnswers ==
  \A d \in Reader : cursor[d] # None /\ Usable(d) =>
    \A id \in Id :
      (\A a \in Drills(cursor[d].user, id) : log[cursor[d].user][a] <= cursor[d].rev)
        => tally[d][id] = DrillCount(cursor[d].user, id)

FeedInv ==
  /\ FeedTypeOK
  /\ IndInv
  /\ CursorsBehind
  /\ ViewMissesOnlyNewerRows
  /\ TallyMissesOnlyNewerAnswers

\* Every answer leaves its reader with exactly the server's deck, whether it
\* was a delta or a full one, across pruning, restores and account switches.
Reads == INSTANCE SnapshotReads
  WITH Account <- User,
       Deck <- Decks,
       truth <- [u \in User |-> [id \in Id |-> Live(table[u][id])]],
       seen <- view,
       token <- cursor

SnapshotReadsSpec == Reads!Spec

\* Every answer leaves its reader with the server's drill counts of the account.
TallyIsExact ==
  [][\A d \in Reader : cursor'[d] # cursor[d] =>
       tally'[d] = [id \in Id |-> DrillCount(cursor[d].user, id)]']_feedVars
=============================================================================
