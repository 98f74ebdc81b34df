----------------------------- MODULE SyncRules -----------------------------
(***************************************************************************)
(* The merge rules of card sync, as operators on one row at a time: what   *)
(* the server does to a row with a request (server/src/db/cards.rs and     *)
(* deletions.rs), what its delta response returns (sync_meta.rs), and what *)
(* a device does with the answer (app/shared/src/sync.rs and its twin in   *)
(* extension/src/background/idb.ts).                                       *)
(*                                                                         *)
(* A card is reduced to the three stamps the rules read: `added` is        *)
(* added_ms, `reviewed` is last_review_ms (0 when never reviewed) and      *)
(* `updated` is updated_ms, the merge key (0 from a client that predates   *)
(* it). The scheduling fields travel with the stamps and are never looked  *)
(* at. A table row of an id holds the card and the tombstone side by side. *)
(***************************************************************************)
EXTENDS Integers, FiniteSets

CONSTANTS None,        \* no card, no tombstone, no cursor, no setting
          Stamp        \* wall-clock milliseconds a client can write on a card

ASSUME StampAssumption == Stamp \subseteq Nat

Card == [added: Stamp, reviewed: Stamp, updated: Stamp]

\* A card as an answer carries it: the server may have clamped its version.
WireCard == [added: Stamp, reviewed: Stamp, updated: Nat]

\* What the server stores: a card or a tombstone with the revision that wrote it.
StoredCard == [added: Stamp, reviewed: Stamp, updated: Nat, rev: Nat]
StoredTomb == [at: Nat, rev: Nat]
Row == [card: StoredCard \cup {None}, tomb: StoredTomb \cup {None}]

EmptyRow == [card |-> None, tomb |-> None]

ASSUME NoneAssumption ==
  /\ None \notin StoredCard
  /\ None \notin StoredTomb
  /\ None \notin Card
  /\ None \notin WireCard
  /\ None \notin Int

-----------------------------------------------------------------------------
(* The stamps.                                                             *)

\* The merge version of a card; one without updated_ms derives it.
VersionMs(c) ==
  IF c.updated > 0 THEN c.updated
  ELSE IF c.reviewed >= c.added THEN c.reviewed ELSE c.added

\* Mutant: the client's clock is believed.
NormalizeVersionUnclamped(c, now) == VersionMs(c)

\* The server clamps a version to its own clock; added_ms is left as it came.
NormalizeVersion(c, now) ==
  IF VersionMs(c) > now THEN now ELSE VersionMs(c)

\* Mutant: only a time ahead of the clock is caught.
MsToEpochUpperOnly(ms, now) == IF ms <= now THEN ms ELSE now

\* A delete time outside 0..now, or none at all (a bare id), becomes now.
MsToEpoch(ms, now) == IF ms >= 0 /\ ms <= now THEN ms ELSE now

-----------------------------------------------------------------------------
(* The server's half: one request against one row.                         *)

\* Mutant: a repeat delete takes the latest time.
MergeTombLatest(tomb, at, rev) ==
  IF tomb = None \/ at > tomb.at THEN [at |-> at, rev |-> rev] ELSE tomb

\* A repeat delete keeps the earliest time, and the revision that set it.
MergeTomb(tomb, at, rev) ==
  IF tomb = None \/ at < tomb.at THEN [at |-> at, rev |-> rev] ELSE tomb

\* The stored card is a re-add that postdates this delete.
Outlives(card, at) == card # None /\ card.added > at

ApplyDeletion(row, del, now, rev) ==
  IF del = None \/ Outlives(row.card, MsToEpoch(del, now)) THEN row
  ELSE [card |-> None, tomb |-> MergeTomb(row.tomb, MsToEpoch(del, now), rev)]

\* Mutant: the upsert looks at the cards table only.
StaleReplicaNever(row, c) == FALSE

\* A card no newer than its tombstone is a stale replica, not a re-add.
StaleReplica(row, c) == row.tomb # None /\ row.tomb.at >= c.added

\* Mutant: the merge drops its WHERE clause.
WinsAlways(row, c, now) == TRUE

\* Last write wins on the normalized version; ties go to the incoming card.
Wins(row, c, now) == row.card = None \/ NormalizeVersion(c, now) >= row.card.updated

\* Mutant: rows are stamped with a revision the clock has not reached.
StampedAhead(c, now, rev) ==
  [added |-> c.added, reviewed |-> c.reviewed,
   updated |-> NormalizeVersion(c, now), rev |-> rev + 1]

Stamped(c, now, rev) ==
  [added |-> c.added, reviewed |-> c.reviewed,
   updated |-> NormalizeVersion(c, now), rev |-> rev]

\* Mutant: an accepted re-add leaves its tombstone standing.
UpsertCardKeepTomb(row, c, now, rev) ==
  IF c = None \/ StaleReplica(row, c) THEN row
  ELSE [row EXCEPT !.card = IF Wins(row, c, now) THEN Stamped(c, now, rev) ELSE row.card]

UpsertCard(row, c, now, rev) ==
  IF c = None \/ StaleReplica(row, c) THEN row
  ELSE [card |-> IF Wins(row, c, now) THEN Stamped(c, now, rev) ELSE row.card,
        tomb |-> None]

\* Mutant: cards are applied to the row before deletions.
MergeRowCardsFirst(row, del, c, now, rev) ==
  ApplyDeletion(UpsertCard(row, c, now, rev), del, now, rev)

\* Deletions are applied to the row before cards.
MergeRow(row, del, c, now, rev) ==
  UpsertCard(ApplyDeletion(row, del, now, rev), c, now, rev)

-----------------------------------------------------------------------------
(* The delta: which rows answer a cursor.                                  *)

\* Mutant: the cursor of another account is honoured.
CanServeDeltaAnyUser(since, user, epoch, rev, prunedRev) ==
  /\ since # None
  /\ since.epoch = epoch
  /\ since.rev < rev
  /\ since.rev >= prunedRev

\* Mutant: a cursor from before a pruned tombstone is honoured.
CanServeDeltaPruned(since, user, epoch, rev, prunedRev) ==
  /\ since # None
  /\ since.epoch = epoch
  /\ since.user = user
  /\ since.rev < rev

\* Whether rows newer than the cursor are enough for this user's device.
\* `rev` is the revision the answering transaction took.
CanServeDelta(since, user, epoch, rev, prunedRev) ==
  /\ since # None
  /\ since.epoch = epoch
  /\ since.user = user
  /\ since.rev < rev
  /\ since.rev >= prunedRev

\* Mutant: only the ids the client sent go back.
ReturnedEchoOnly(stored, since, delta, echoed) == stored # None /\ (~delta \/ echoed)

\* A row goes back if it changed after the cursor or the client sent its id.
Returned(stored, since, delta, echoed) ==
  stored # None /\ (~delta \/ stored.rev > since.rev \/ echoed)

Wire(stored) ==
  [added |-> stored.added, reviewed |-> stored.reviewed, updated |-> stored.updated]

\* One row of settings per user: the newest edit wins, and a tie is the incoming's.
UpsertSettings(stored, s) ==
  IF s = None THEN stored
  ELSE IF stored = None THEN s
  ELSE IF s.updated >= stored.updated THEN s ELSE stored

-----------------------------------------------------------------------------
(* The device's half: one row of an answer against one local card.         *)

\* Mutant: plain last-write-wins, blind to what this request uploaded.
CardAppliesNewer(remote, mine, uploaded) ==
  remote # None /\ (mine = None \/ VersionMs(remote) >= VersionMs(mine))

\* Mutant: the server's copy always wins.
CardAppliesAlways(remote, mine, uploaded) == remote # None

\* `mine` is the local copy, `uploaded` the copy this request carried.
CardApplies(remote, mine, uploaded) ==
  /\ remote # None
  /\ \/ mine = None
     \/ uploaded # None /\ VersionMs(uploaded) = VersionMs(mine)
     \/ VersionMs(remote) >= VersionMs(mine)

\* A reported delete is replayed unless this request sent the tombstone itself
\* or the local card was added after the upload was read.
DeletionApplies(sent, mine, uploadedAt) ==
  ~sent /\ (mine = None \/ mine.added <= uploadedAt)
=============================================================================
