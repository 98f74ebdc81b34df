-------------------------- MODULE SyncServerProofs -------------------------
(***************************************************************************)
(* Theorems about the sync server, for any accounts, ids, clocks and       *)
(* requests. The lemmas take one row through one request; the inductive    *)
(* invariant IndInv lifts them to the tables and to the backup a restore   *)
(* would bring back.                                                       *)
(***************************************************************************)
EXTENDS SyncServer, TLAPS

USE NoneAssumption, StampAssumption

-----------------------------------------------------------------------------
(* One row, one request.                                                   *)

\* A resolved delete time lies between zero and the server's clock.
LEMMA DeleteTimeInRange ==
  ASSUME NEW ms \in Int, NEW clock \in Nat
  PROVE  MsToEpoch(ms, clock) \in Nat /\ MsToEpoch(ms, clock) <= clock
BY DEF MsToEpoch

\* A normalized version is a natural number that is not ahead of the clock.
LEMMA VersionInRange ==
  ASSUME NEW c \in Card, NEW clock \in Nat
  PROVE  NormalizeVersion(c, clock) \in Nat /\ NormalizeVersion(c, clock) <= clock
<1>1. c.added \in Nat /\ c.reviewed \in Nat /\ c.updated \in Nat
  BY DEF Card
<1>2. VersionMs(c) \in Nat
  BY <1>1 DEF VersionMs
<1>3. QED BY <1>2 DEF NormalizeVersion

\* Applying a delete keeps a row well typed and sound, and never moves a
\* tombstone later.
LEMMA DeletionKeepsRow ==
  ASSUME NEW row \in Row, NEW del \in Int \cup {None}, NEW clock \in Nat, NEW r \in Nat,
         RowSound(row, clock, r)
  PROVE  /\ ApplyDeletion(row, del, clock, r + 1) \in Row
         /\ RowSound(ApplyDeletion(row, del, clock, r + 1), clock, r + 1)
<1>1. CASE del = None \/ Outlives(row.card, MsToEpoch(del, clock))
  <2>1. ApplyDeletion(row, del, clock, r + 1) = row
    BY <1>1 DEF ApplyDeletion
  <2>2. RowSound(row, clock, r + 1)
    BY DEF RowSound, Row, StoredCard, StoredTomb
  <2>3. QED BY <2>1, <2>2
<1>2. CASE ~(del = None \/ Outlives(row.card, MsToEpoch(del, clock)))
  <2> DEFINE at == MsToEpoch(del, clock)
             tomb == MergeTomb(row.tomb, at, r + 1)
  <2>1. del \in Int
    BY <1>2
  <2>2. at \in Nat /\ at <= clock
    BY <2>1, DeleteTimeInRange
  <2>3. ApplyDeletion(row, del, clock, r + 1) = [card |-> None, tomb |-> tomb]
    BY <1>2 DEF ApplyDeletion
  <2>4. tomb \in StoredTomb /\ tomb.at <= clock /\ tomb.rev <= r + 1
    <3> HIDE DEF at
    <3>1. CASE row.tomb = None \/ at < row.tomb.at
      <4>1. tomb = [at |-> at, rev |-> r + 1]
        BY <3>1 DEF MergeTomb
      <4>2. QED BY <4>1, <2>2 DEF StoredTomb
    <3>2. CASE ~(row.tomb = None \/ at < row.tomb.at)
      <4>1. tomb = row.tomb /\ row.tomb \in StoredTomb
        BY <3>2 DEF MergeTomb, Row
      <4>2. QED BY <4>1, <3>2 DEF RowSound, StoredTomb
    <3>3. QED BY <3>1, <3>2
  <2> HIDE DEF at, tomb
  <2>5. QED BY <2>3, <2>4 DEF Row, RowSound
<1>3. QED BY <1>1, <1>2

\* So does upserting a card.
LEMMA UpsertKeepsRow ==
  ASSUME NEW row \in Row, NEW c \in Card \cup {None}, NEW clock \in Nat, NEW r \in Nat,
         RowSound(row, clock, r + 1)
  PROVE  /\ UpsertCard(row, c, clock, r + 1) \in Row
         /\ RowSound(UpsertCard(row, c, clock, r + 1), clock, r + 1)
<1>1. CASE c = None \/ StaleReplica(row, c)
  BY <1>1 DEF UpsertCard
<1>2. CASE ~(c = None \/ StaleReplica(row, c))
  <2> DEFINE new == Stamped(c, clock, r + 1)
  <2>1. c \in Card
    BY <1>2
  <2>2. new \in StoredCard /\ new.rev = r + 1 /\ new.updated <= clock
    BY <2>1, VersionInRange DEF Stamped, StoredCard, Card
  <2> HIDE DEF new
  <2>3. CASE Wins(row, c, clock)
    <3>1. UpsertCard(row, c, clock, r + 1) = [card |-> new, tomb |-> None]
      BY <1>2, <2>3 DEF UpsertCard, new
    <3>2. QED BY <3>1, <2>2 DEF Row, RowSound
  <2>4. CASE ~Wins(row, c, clock)
    <3>1. UpsertCard(row, c, clock, r + 1) = [card |-> row.card, tomb |-> None]
      BY <1>2, <2>4 DEF UpsertCard
    <3>2. QED BY <3>1 DEF Row, RowSound
  <2>5. QED BY <2>3, <2>4
<1>3. QED BY <1>1, <1>2

\* And so does a whole request.
LEMMA RequestKeepsRow ==
  ASSUME NEW row \in Row, NEW del \in Int \cup {None}, NEW c \in Card \cup {None},
         NEW clock \in Nat, NEW r \in Nat, RowSound(row, clock, r)
  PROVE  /\ MergeRow(row, del, c, clock, r + 1) \in Row
         /\ RowSound(MergeRow(row, del, c, clock, r + 1), clock, r + 1)
BY DeletionKeepsRow, UpsertKeepsRow DEF MergeRow

\* The delete half of a request, spelled out for a row that is sound: it leaves
\* the row alone, or leaves only a tombstone no later than the delete.
LEMMA DeletionCases ==
  ASSUME NEW row \in Row, NEW del \in Int \cup {None}, NEW clock \in Nat, NEW r \in Nat,
         RowSound(row, clock, r), NEW new, new = ApplyDeletion(row, del, clock, r + 1)
  PROVE  \/ /\ new = row
            /\ del = None \/ Outlives(row.card, MsToEpoch(del, clock))
         \/ /\ del # None /\ new.card = None /\ new.tomb # None
            /\ new.tomb.at <= MsToEpoch(del, clock)
            /\ row.tomb # None => new.tomb.at <= row.tomb.at
            /\ row.card # None => new.tomb.at = MsToEpoch(del, clock)
                                  /\ row.card.added <= new.tomb.at
<1>1. CASE del = None \/ Outlives(row.card, MsToEpoch(del, clock))
  BY <1>1 DEF ApplyDeletion
<1>2. CASE ~(del = None \/ Outlives(row.card, MsToEpoch(del, clock)))
  <2> DEFINE at == MsToEpoch(del, clock)
             tomb == MergeTomb(row.tomb, at, r + 1)
  <2>1. at \in Nat
    BY <1>2, DeleteTimeInRange
  <2>2. new = [card |-> None, tomb |-> tomb]
    BY <1>2 DEF ApplyDeletion
  <2>3. row.card # None => row.tomb = None /\ row.card.added \in Nat /\ row.card.added <= at
    <3>1. SUFFICES ASSUME row.card # None
                   PROVE  row.tomb = None /\ row.card.added \in Nat /\ row.card.added <= at
      OBVIOUS
    <3>2. row.card \in StoredCard /\ row.tomb = None
      BY <3>1 DEF RowSound, Row
    <3>3. row.card.added \in Nat /\ ~(row.card.added > at)
      BY <1>2, <3>1, <3>2 DEF Outlives, StoredCard
    <3>4. QED BY <2>1, <3>2, <3>3
  <2> HIDE DEF at
  <2>4. CASE row.tomb = None \/ at < row.tomb.at
    <3>1. tomb = [at |-> at, rev |-> r + 1]
      BY <2>4 DEF MergeTomb
    <3>2. tomb # None /\ tomb.at = at
      BY <2>1, <3>1 DEF StoredTomb
    <3>3. row.tomb # None => row.tomb.at \in Nat
      BY DEF Row, StoredTomb
    <3>4. QED BY <1>2, <2>1, <2>2, <2>3, <2>4, <3>2, <3>3 DEF at
  <2>5. CASE ~(row.tomb = None \/ at < row.tomb.at)
    <3>1. tomb = row.tomb /\ row.tomb.at \in Nat
      BY <2>5 DEF MergeTomb, Row, StoredTomb
    <3>2. tomb.at <= at
      BY <2>1, <2>5, <3>1
    <3>3. QED BY <1>2, <2>2, <2>3, <2>5, <3>1, <3>2 DEF at
  <2>6. QED BY <2>4, <2>5
<1>3. QED BY <1>1, <1>2

\* The card half: it leaves the row alone, or leaves a card and no tombstone.
LEMMA UpsertCases ==
  ASSUME NEW row \in Row, NEW c \in Card \cup {None}, NEW clock \in Nat, NEW r \in Nat,
         NEW new, new = UpsertCard(row, c, clock, r)
  PROVE  \/ new = row /\ (c = None \/ StaleReplica(row, c))
         \/ /\ c # None /\ ~StaleReplica(row, c)
            /\ new.tomb = None /\ new.card # None
            /\ IF Wins(row, c, clock)
               THEN new.card = Stamped(c, clock, r)
               ELSE row.card # None /\ new.card = row.card
<1>1. CASE c = None \/ StaleReplica(row, c)
  BY <1>1 DEF UpsertCard
<1>2. CASE ~(c = None \/ StaleReplica(row, c))
  <2>1. c \in Card /\ NormalizeVersion(c, clock) \in Nat
    BY <1>2, VersionInRange
  <2>2. r \in Nat => Stamped(c, clock, r) \in StoredCard
    BY <2>1 DEF Stamped, StoredCard, Card
  <2>3. ~Wins(row, c, clock) => row.card # None
    BY DEF Wins
  <2>4. new = [card |-> IF Wins(row, c, clock) THEN Stamped(c, clock, r) ELSE row.card,
               tomb |-> None]
    BY <1>2 DEF UpsertCard
  <2>5. QED BY <1>2, <2>2, <2>3, <2>4
<1>3. QED BY <1>1, <1>2

\* A request never moves a standing tombstone later.
LEMMA RequestKeepsDeleteTime ==
  ASSUME NEW row \in Row, NEW del \in Int \cup {None}, NEW c \in Card \cup {None},
         NEW clock \in Nat, NEW r \in Nat, RowSound(row, clock, r),
         NEW new, new = MergeRow(row, del, c, clock, r + 1),
         row.tomb # None, new.tomb # None
  PROVE  new.tomb.at <= row.tomb.at
<1> DEFINE mid == ApplyDeletion(row, del, clock, r + 1)
<1>1. mid \in Row /\ new = UpsertCard(mid, c, clock, r + 1)
  BY DeletionKeepsRow DEF MergeRow
<1>2. mid = row \/ mid.tomb.at <= row.tomb.at
  BY DeletionCases
<1> HIDE DEF mid
<1>3. new = mid
  BY <1>1, UpsertCases
<1>4. row.tomb.at \in Nat
  BY DEF Row, StoredTomb
<1>5. QED BY <1>2, <1>3, <1>4

\* A request replaces a card by one at least as new, or by a later re-add.
LEMMA RequestNeverRollsBack ==
  ASSUME NEW row \in Row, NEW del \in Int \cup {None}, NEW c \in Card \cup {None},
         NEW clock \in Nat, NEW r \in Nat, RowSound(row, clock, r),
         NEW new, new = MergeRow(row, del, c, clock, r + 1),
         row.card # None, new.card # None
  PROVE  new.card.updated >= row.card.updated \/ new.card.added > row.card.added
<1> DEFINE mid == ApplyDeletion(row, del, clock, r + 1)
<1>1. mid \in Row /\ new = UpsertCard(mid, c, clock, r + 1)
  BY DeletionKeepsRow DEF MergeRow
<1>2. row.card.updated \in Nat /\ row.card.added \in Nat
  BY DEF Row, StoredCard
<1>3. \/ mid = row
      \/ mid.card = None /\ mid.tomb # None /\ row.card.added <= mid.tomb.at
  BY DeletionCases
<1> HIDE DEF mid
<1>4. \/ new = mid
      \/ /\ c # None /\ ~StaleReplica(mid, c)
         /\ IF Wins(mid, c, clock) THEN new.card = Stamped(c, clock, r + 1)
                                   ELSE new.card = mid.card
  BY <1>1, UpsertCases
<1>5. CASE mid = row
  <2>1. CASE Wins(mid, c, clock) /\ new.card = Stamped(c, clock, r + 1)
    BY <1>5, <2>1 DEF Wins, Stamped
  <2>2. CASE new.card = row.card
    BY <1>2, <2>2
  <2>3. QED BY <1>4, <1>5, <2>1, <2>2
<1>6. CASE mid.card = None /\ mid.tomb # None /\ row.card.added <= mid.tomb.at
  <2>1. c \in Card /\ ~StaleReplica(mid, c) /\ new.card = Stamped(c, clock, r + 1)
    BY <1>4, <1>6 DEF Wins
  <2>2. mid.tomb.at \in Nat /\ c.added \in Nat /\ mid.tomb.at < c.added
    <3>1. mid.tomb \in StoredTomb
      BY <1>1, <1>6 DEF Row
    <3>2. mid.tomb.at \in Nat /\ c.added \in Nat
      BY <2>1, <3>1 DEF StoredTomb, Card
    <3>3. QED BY <1>6, <2>1, <3>2 DEF StaleReplica
  <2>3. new.card.added = c.added
    BY <2>1 DEF Stamped
  <2>4. QED BY <1>2, <1>6, <2>2, <2>3
<1>7. QED BY <1>3, <1>5, <1>6

\* What a request left at or below a revision it did not hand out, it found so.
LEMMA RequestStampsChanges ==
  ASSUME NEW row \in Row, NEW del \in Int \cup {None}, NEW c \in Card \cup {None},
         NEW clock \in Nat, NEW r \in Nat, RowSound(row, clock, r), NEW k \in Nat, k <= r,
         NEW new, new = MergeRow(row, del, c, clock, r + 1)
  PROVE  /\ new.card # None /\ new.card.rev <= k => new.card = row.card
         /\ new.card = None /\ (new.tomb = None \/ new.tomb.rev <= k)
              => row.card = None /\ (row.tomb = None \/ row.tomb.rev <= k)
<1> DEFINE mid == ApplyDeletion(row, del, clock, r + 1)
<1>1. mid \in Row /\ new = UpsertCard(mid, c, clock, r + 1)
  BY DeletionKeepsRow DEF MergeRow
<1>2. \/ mid = row
      \/ mid.card = None /\ mid.tomb # None /\ (mid.tomb.rev = r + 1 \/
           (row.card = None /\ mid.tomb = row.tomb))
  <2>1. CASE del = None \/ Outlives(row.card, MsToEpoch(del, clock))
    BY <2>1 DEF ApplyDeletion
  <2>2. CASE ~(del = None \/ Outlives(row.card, MsToEpoch(del, clock)))
    <3> DEFINE at == MsToEpoch(del, clock)
    <3>1. at \in Nat
      BY <2>2, DeleteTimeInRange
    <3>2. mid = [card |-> None, tomb |-> MergeTomb(row.tomb, at, r + 1)]
      BY <2>2 DEF ApplyDeletion
    <3> HIDE DEF at, mid
    <3>3. CASE row.tomb = None \/ at < row.tomb.at
      <4>1. MergeTomb(row.tomb, at, r + 1) = [at |-> at, rev |-> r + 1]
        BY <3>3 DEF MergeTomb
      <4>2. [at |-> at, rev |-> r + 1] # None
        BY <3>1 DEF StoredTomb
      <4>3. QED BY <3>2, <4>1, <4>2
    <3>4. CASE ~(row.tomb = None \/ at < row.tomb.at)
      <4>1. MergeTomb(row.tomb, at, r + 1) = row.tomb
        BY <3>4 DEF MergeTomb
      <4>2. row.card = None
        BY <3>4 DEF RowSound
      <4>3. QED BY <3>2, <3>4, <4>1, <4>2
    <3>5. QED BY <3>3, <3>4
  <2>3. QED BY <2>1, <2>2
<1> HIDE DEF mid
<1>3. CASE new = mid
  BY <1>2, <1>3
<1>4. CASE /\ c # None /\ new.tomb = None /\ new.card # None
           /\ IF Wins(mid, c, clock) THEN new.card = Stamped(c, clock, r + 1)
              ELSE mid.card # None /\ new.card = mid.card
  <2>1. CASE Wins(mid, c, clock)
    BY <1>4, <2>1 DEF Stamped
  <2>2. CASE ~Wins(mid, c, clock)
    BY <1>2, <1>4, <2>2
  <2>3. QED BY <2>1, <2>2
<1>5. QED BY <1>1, <1>3, <1>4, UpsertCases

\* Without a delete before it or in it, a request takes no card away, takes the card
\* it carries, and the stored version only moves up.
LEMMA RequestKeepsUndeleted ==
  ASSUME NEW row \in Row, row.tomb = None, NEW c \in Card \cup {None}, NEW clock \in Nat,
         NEW r \in Nat, NEW new, new = MergeRow(row, None, c, clock, r)
  PROVE  /\ new.tomb = None /\ (c # None => new.card # None)
         /\ row.card # None => new.card # None /\ new.card.updated >= row.card.updated
<1>1. new = UpsertCard(row, c, clock, r)
  BY DEF MergeRow, ApplyDeletion
<1>2. row.card # None => row.card.updated \in Nat
  BY DEF Row, StoredCard
<1>3. CASE c = None
  BY <1>1, <1>2, <1>3 DEF UpsertCard
<1>4. CASE c # None
  <2>1. ~StaleReplica(row, c)
    BY DEF StaleReplica
  <2>2. /\ new.tomb = None /\ new.card # None
        /\ IF Wins(row, c, clock) THEN new.card = Stamped(c, clock, r)
           ELSE row.card # None /\ new.card = row.card
    BY <1>1, <1>4, <2>1, UpsertCases
  <2>3. CASE Wins(row, c, clock)
    BY <2>2, <2>3 DEF Wins, Stamped
  <2>4. CASE ~Wins(row, c, clock)
    BY <1>2, <2>2, <2>4
  <2>5. QED BY <2>2, <2>3, <2>4
<1>5. QED BY <1>3, <1>4

\* A row, and a request about it, as the server meets them: no stamp is ahead of the
\* clock, and a card sent with its own delete was added after it.
Meets(row, del, c, clock, r) ==
  /\ clock \in Nat /\ r \in Nat
  /\ row \in Row /\ RowSound(row, clock, r)
  /\ del \in (0..clock) \cup {None} /\ c \in Card \cup {None}
  /\ c # None => VersionMs(c) <= clock
  /\ del = None \/ c = None \/ c.added > del

\* The same request again changes nothing a client can tell.
LEMMA RequestIsIdempotent ==
  ASSUME NEW row, NEW del, NEW c, NEW clock, NEW r, Meets(row, del, c, clock, r)
  PROVE  Content(MergeRow(MergeRow(row, del, c, clock, r + 1), del, c, clock, r + 2))
           = Content(MergeRow(row, del, c, clock, r + 1))
<1> USE DEF Meets
<1> DEFINE mid == ApplyDeletion(row, del, clock, r + 1)
           once == UpsertCard(mid, c, clock, r + 1)
           again == ApplyDeletion(once, del, clock, r + 2)
           twice == UpsertCard(again, c, clock, r + 2)
<1>1. mid \in Row /\ RowSound(mid, clock, r + 1)
  BY DeletionKeepsRow
<1> HIDE DEF mid
<1>2. once \in Row /\ RowSound(once, clock, r + 1)
  BY <1>1, UpsertKeepsRow
<1>3. del # None => MsToEpoch(del, clock) = del /\ del \in Nat
  BY DEF MsToEpoch
<1>4. SUFFICES Content(twice) = Content(once)
  BY DEF MergeRow, mid
<1>5. CASE c = None
  <2>1. once = mid /\ twice = again
    BY <1>5 DEF UpsertCard
  <2>2. again = mid
    <3>1. CASE mid = row /\ (del = None \/ Outlives(row.card, MsToEpoch(del, clock)))
      BY <2>1, <3>1 DEF ApplyDeletion
    <3>2. CASE del # None /\ mid.card = None /\ mid.tomb # None
               /\ mid.tomb.at <= MsToEpoch(del, clock)
      <4>1. mid.tomb.at \in Nat /\ ~Outlives(mid.card, MsToEpoch(del, clock))
        BY <1>1, <3>2 DEF Row, StoredTomb, Outlives
      <4>2. MergeTomb(mid.tomb, MsToEpoch(del, clock), r + 2) = mid.tomb
        BY <1>3, <3>2, <4>1 DEF MergeTomb
      <4>3. again = [card |-> None, tomb |-> mid.tomb]
        BY <2>1, <3>2, <4>1, <4>2 DEF ApplyDeletion
      <4>4. QED BY <1>1, <3>2, <4>3 DEF Row
    <3>3. QED BY <3>1, <3>2, DeletionCases DEF mid
  <2>3. QED BY <2>1, <2>2
<1>6. CASE c # None /\ StaleReplica(mid, c)
  <2>1. c \in Card /\ c.added \in Nat /\ mid.tomb # None /\ mid.tomb.at \in Nat
        /\ mid.tomb.at >= c.added
    BY <1>1, <1>6 DEF StaleReplica, Row, StoredTomb, Card
  <2>2. del = None
    <3>1. SUFFICES ASSUME del # None PROVE FALSE
      OBVIOUS
    <3>2. mid.tomb.at > del
      BY <1>3, <2>1, <3>1
    <3>3. mid = row /\ row.card # None
      BY <1>3, <2>1, <3>1, <3>2, DeletionCases DEF mid, Outlives
    <3>4. QED BY <2>1, <3>3 DEF RowSound
  <2>3. once = mid /\ again = mid /\ twice = mid
    BY <1>6, <2>2 DEF UpsertCard, ApplyDeletion
  <2>4. QED BY <2>3
<1>7. CASE c # None /\ ~StaleReplica(mid, c)
  <2>1. c \in Card /\ c.added \in Nat
    BY <1>7 DEF Card
  <2>2. once.tomb = None /\ once.card # None
        /\ IF Wins(mid, c, clock) THEN once.card = Stamped(c, clock, r + 1)
           ELSE mid.card # None /\ once.card = mid.card
    BY <1>1, <1>7, UpsertCases
  <2>3. del # None => Outlives(once.card, MsToEpoch(del, clock))
    <3>1. SUFFICES ASSUME del # None PROVE once.card.added > del
      BY <1>3, <2>2 DEF Outlives
    <3>2. CASE Wins(mid, c, clock)
      BY <1>3, <2>1, <2>2, <3>1, <3>2 DEF Stamped
    <3>3. CASE ~Wins(mid, c, clock)
      BY <1>3, <2>2, <3>1, <3>3, DeletionCases DEF mid, Outlives
    <3>4. QED BY <3>2, <3>3
  <2>4. again = once /\ ~StaleReplica(once, c)
    BY <2>2, <2>3 DEF ApplyDeletion, StaleReplica
  <2> HIDE DEF once
  <2>5. CASE Wins(once, c, clock)
    <3>1. twice.tomb = None /\ twice.card = Stamped(c, clock, r + 2) /\ twice.card # None
      BY <1>2, <1>7, <2>4, <2>5, UpsertCases
    <3>2. Wins(mid, c, clock)
      BY <2>2, <2>5 DEF Wins
    <3>3. once.card = Stamped(c, clock, r + 1)
      BY <2>2, <3>2
    <3>4. QED BY <2>2, <3>1, <3>3 DEF Content, Wire, Stamped
  <2>6. CASE ~Wins(once, c, clock)
    <3>1. twice.tomb = None /\ twice.card = once.card
      BY <1>2, <1>7, <2>4, <2>6, UpsertCases
    <3>2. QED BY <2>2, <3>1 DEF Content, Wire
  <2>7. QED BY <2>5, <2>6
<1>8. QED BY <1>5, <1>6, <1>7

-----------------------------------------------------------------------------
(* The inductive invariant.                                                *)

\* The tables start empty, so nothing is stamped yet.
LEMMA InitSound == Init => IndInv
<1> SUFFICES ASSUME Init PROVE IndInv
  OBVIOUS
<1> USE DEF Init
<1>1. EmptyRow \in Row /\ RowSound(EmptyRow, now, rev)
  BY DEF EmptyRow, Row, RowSound
<1>2. TypeOK
  BY <1>1 DEF TypeOK
<1>3. DatabaseSound(table, log, rev, prunedRev)
  BY <1>1 DEF DatabaseSound
<1>4. QED BY <1>2, <1>3 DEF IndInv

\* A sync of any account with any request a client can send.
LEMMA SyncKeepsSound ==
  ASSUME IndInv, NEW u \in User, NEW cards \in CardList, NEW deletions \in DeletionList,
         NEW answers \in SUBSET Answer, NEW settings \in Settings \cup {None},
         Sync(u, cards, deletions, answers, settings)
  PROVE  IndInv'
<1> USE DEF IndInv
<1> DEFINE merged == [id \in Id |-> MergeRow(table[u][id], deletions[id], cards[id], now, rev + 1)]
           stored == InsertReviews(log[u], answers, rev + 1)
<1>1. /\ now \in Nat /\ rev \in Nat /\ rev' = rev + 1 /\ now' = now
      /\ table' = [table EXCEPT ![u] = merged]
      /\ log' = [log EXCEPT ![u] = stored]
      /\ backup' = backup
  BY DEF TypeOK, Sync
<1>2. ASSUME NEW id \in Id
      PROVE  merged[id] \in Row /\ RowSound(merged[id], now, rev + 1)
  <2>1. table[u][id] \in Row /\ RowSound(table[u][id], now, rev)
    BY DEF TypeOK, DatabaseSound
  <2>2. cards[id] \in Card \cup {None} /\ deletions[id] \in Int \cup {None}
    BY ServerAssumption DEF CardList, DeletionList
  <2>3. QED BY <1>1, <2>1, <2>2, RequestKeepsRow
<1>3. ASSUME NEW a \in Answer
      PROVE  stored[a] \in Nat \cup {None} /\ (stored[a] # None => stored[a] <= rev + 1)
  <2>1. log[u][a] \in Nat \cup {None} /\ (log[u][a] # None => log[u][a] <= rev)
    BY DEF TypeOK, DatabaseSound
  <2>2. stored[a] = log[u][a] \/ stored[a] = rev + 1
    BY DEF InsertReviews
  <2>3. QED BY <1>1, <2>1, <2>2
<1>4. stored \in [Answer -> Nat \cup {None}]
  BY <1>3 DEF InsertReviews
<1>5. prefs' \in [User -> Settings \cup {None}]
  BY DEF Sync, UpsertSettings, TypeOK
<1> HIDE DEF merged, stored
<1>6. merged \in [Id -> Row]
  BY <1>2 DEF merged
<1>7. TypeOK'
  BY <1>1, <1>4, <1>5, <1>6 DEF TypeOK, Sync
<1>8. DatabaseSound(table, log, rev, prunedRev)'
  <2>1. prunedRev' <= rev'
    BY <1>1 DEF DatabaseSound, TypeOK, Sync
  <2>2. ASSUME NEW v \in User, NEW id \in Id
        PROVE  RowSound(table'[v][id], now', rev')
    <3>1. CASE v = u
      BY <1>1, <1>2, <3>1 DEF TypeOK
    <3>2. CASE v # u
      <4>1. table'[v] = table[v] /\ table[v][id] \in Row /\ RowSound(table[v][id], now, rev)
        BY <1>1, <3>2 DEF TypeOK, DatabaseSound
      <4>2. QED BY <1>1, <4>1 DEF RowSound, Row, StoredCard, StoredTomb
    <3>3. QED BY <3>1, <3>2
  <2>3. ASSUME NEW v \in User, NEW a \in Answer, log'[v][a] # None
        PROVE  log'[v][a] <= rev'
    <3>1. CASE v = u
      BY <1>1, <1>3, <2>3, <3>1 DEF TypeOK
    <3>2. CASE v # u
      <4>1. log'[v] = log[v] /\ log[v][a] \in Nat \cup {None}
        BY <1>1, <3>2 DEF TypeOK
      <4>2. QED BY <1>1, <2>3, <4>1 DEF DatabaseSound
    <3>3. QED BY <3>1, <3>2
  <2>4. QED BY <2>1, <2>2, <2>3 DEF DatabaseSound
<1>9. backup' # None =>
        DatabaseSound(backup.table, backup.log, backup.rev, backup.prunedRev)'
  BY <1>1 DEF DatabaseSound
<1>10. QED BY <1>7, <1>8, <1>9

\* The clock moving on only makes the stamps older.
LEMMA TickKeepsSound == IndInv /\ Tick => IndInv'
<1> SUFFICES ASSUME IndInv, Tick PROVE IndInv'
  OBVIOUS
<1> USE DEF IndInv
<1>1. /\ now \in Nat /\ now' = now + 1 /\ rev' = rev /\ prunedRev' = prunedRev
      /\ table' = table /\ log' = log /\ backup' = backup
  BY DEF Tick, meta, tables, TypeOK
<1>2. TypeOK'
  BY DEF Tick, meta, tables, TypeOK
<1>3. ASSUME NEW row \in Row, NEW r \in Nat, RowSound(row, now, r)
      PROVE  RowSound(row, now + 1, r)
  BY <1>1, <1>3 DEF RowSound, Row, StoredCard, StoredTomb
<1>4. ASSUME NEW tbl \in [User -> [Id -> Row]], NEW lg, NEW r \in Nat, NEW p,
             DatabaseSound(tbl, lg, r, p)
      PROVE  /\ p <= r
             /\ \A u \in User, id \in Id : RowSound(tbl[u][id], now', r)
             /\ \A u \in User, a \in Answer : lg[u][a] # None => lg[u][a] <= r
  BY <1>1, <1>3, <1>4 DEF DatabaseSound
<1>5. DatabaseSound(table, log, rev, prunedRev)'
  BY <1>1, <1>4 DEF DatabaseSound, TypeOK
<1>6. backup' # None =>
        DatabaseSound(backup.table, backup.log, backup.rev, backup.prunedRev)'
  BY <1>1, <1>4 DEF DatabaseSound, TypeOK, Database
<1>7. QED BY <1>2, <1>5, <1>6

\* Pruning removes tombstones and remembers the newest revision among them.
LEMMA RestartKeepsSound == IndInv /\ Restart => IndInv'
<1> SUFFICES ASSUME IndInv, Restart PROVE IndInv'
  OBVIOUS
<1> USE DEF IndInv
<1>1. /\ now' = now /\ rev' = rev /\ epoch' = epoch /\ log' = log /\ backup' = backup
      /\ prefs' = prefs
  BY DEF Restart
<1>2. ASSUME NEW u \in User, NEW id \in Id
      PROVE  /\ table[u][id] \in Row /\ RowSound(table[u][id], now, rev)
             /\ table'[u][id] \in Row /\ RowSound(table'[u][id], now, rev)
  <2>1. table[u][id] \in Row /\ RowSound(table[u][id], now, rev)
    BY DEF TypeOK, DatabaseSound
  <2>2. \/ table'[u][id] = table[u][id]
        \/ table'[u][id] = [table[u][id] EXCEPT !.tomb = None]
    BY DEF Restart
  <2>3. QED BY <2>1, <2>2 DEF Row, RowSound
<1>3. PrunableRevs \subseteq Nat /\ \A r \in PrunableRevs : r <= rev
  <2>1. ASSUME NEW u \in User, NEW id \in Id, Prunable(table[u][id])
        PROVE  table[u][id].tomb.rev \in Nat /\ table[u][id].tomb.rev <= rev
    BY <1>2, <2>1 DEF Prunable, Row, RowSound, StoredTomb
  <2>2. QED BY <2>1 DEF PrunableRevs
<1>4. prunedRev' \in Nat /\ prunedRev' <= rev
  BY <1>3 DEF Restart, TypeOK, DatabaseSound
<1>5. table' \in [User -> [Id -> Row]]
  BY <1>2 DEF Restart
<1>6. TypeOK'
  BY <1>1, <1>4, <1>5 DEF TypeOK
<1>7. DatabaseSound(table, log, rev, prunedRev)'
  BY <1>1, <1>2, <1>4 DEF DatabaseSound
<1>8. QED BY <1>1, <1>6, <1>7 DEF DatabaseSound

\* A backup is a copy of a sound database, and a restore brings one back.
LEMMA BackupKeepsSound == IndInv /\ (TakeBackup \/ Restore) => IndInv'
<1> SUFFICES ASSUME IndInv, TakeBackup \/ Restore PROVE IndInv'
  OBVIOUS
<1> USE DEF IndInv
<1>1. CASE TakeBackup
  <2>1. /\ now' = now /\ rev' = rev /\ prunedRev' = prunedRev /\ epoch' = epoch
        /\ table' = table /\ log' = log /\ prefs' = prefs
        /\ backup' = [rev |-> rev, prunedRev |-> prunedRev,
                      table |-> table, log |-> log, prefs |-> prefs]
    BY <1>1 DEF TakeBackup, meta, tables
  <2>2. TypeOK'
    BY <2>1 DEF TypeOK, Database
  <2>3. QED BY <2>1, <2>2 DEF DatabaseSound
<1>2. CASE Restore
  <2>1. /\ now' = now /\ backup' = backup /\ backup # None
        /\ epoch' = IF Rotates THEN epoch + 1 ELSE epoch
        /\ rev' = backup.rev /\ prunedRev' = backup.prunedRev
        /\ table' = backup.table /\ log' = backup.log /\ prefs' = backup.prefs
    BY <1>2 DEF Restore
  <2>2. backup \in Database
    BY <2>1 DEF TypeOK
  <2>3. TypeOK'
    BY <2>1, <2>2 DEF TypeOK, Database
  <2>4. QED BY <2>1, <2>3 DEF DatabaseSound
<1>3. QED BY <1>1, <1>2

\* Every step of the server keeps the inductive invariant.
LEMMA StepKeepsSound == IndInv /\ [Next]_serverVars => IndInv'
<1> SUFFICES ASSUME IndInv, [Next]_serverVars PROVE IndInv'
  OBVIOUS
<1>1. CASE AnyRequest
  BY <1>1, SyncKeepsSound DEF AnyRequest
<1>2. CASE Housekeeping
  BY <1>2, TickKeepsSound, RestartKeepsSound, BackupKeepsSound DEF Housekeeping
<1>3. CASE UNCHANGED serverVars
  BY <1>3 DEF serverVars, meta, tables, IndInv, TypeOK, DatabaseSound
<1>4. QED BY <1>1, <1>2, <1>3 DEF Next

\* The inductive invariant holds in every reachable state.
THEOREM ServerIsSound == Spec => []IndInv
BY InitSound, StepKeepsSound, PTL DEF Spec

-----------------------------------------------------------------------------
(* What follows from it.                                                   *)

\* The tables, the log, the clock and the backup always have their types.
THEOREM TypesHold == Spec => []TypeOK
<1>1. IndInv => TypeOK
  BY DEF IndInv
<1>2. QED BY <1>1, ServerIsSound, PTL

\* The delete guard and the re-add guard agree: no id is both live and deleted.
THEOREM GuardsAgree == Spec => []CardOrTombstone
<1>1. IndInv => CardOrTombstone
  BY DEF IndInv, DatabaseSound, RowSound, CardOrTombstone
<1>2. QED BY <1>1, ServerIsSound, PTL

\* Nothing stored is stamped with a revision the clock has not handed out.
THEOREM ClockLeads == Spec => []RevsBehindClock
<1>1. IndInv => RevsBehindClock
  BY DEF IndInv, DatabaseSound, RowSound, RevsBehindClock
<1>2. QED BY <1>1, ServerIsSound, PTL

\* No client clock puts a merge version or a delete time ahead of the server's.
THEOREM NoFutureStamps == Spec => []NothingFromTheFuture
<1>1. IndInv => NothingFromTheFuture
  BY DEF IndInv, DatabaseSound, RowSound, NothingFromTheFuture
<1>2. QED BY <1>1, ServerIsSound, PTL

\* Sending the same request again, as a client does that never saw the answer,
\* leaves every row as it was.
THEOREM RetriesAreHarmless == Spec => []RetryChangesNothing
<1>1. IndInv => RetryChangesNothing
  <2> SUFFICES ASSUME IndInv, NEW u \in User, NEW id \in Id,
                      NEW del \in DeleteTime \cup {None},
                      NEW c \in {x \in ClientCard : VersionMs(x) <= now} \cup {None},
                      del = None \/ del \in 0..now,
                      del = None \/ c = None \/ c.added > del
               PROVE  Content(MergeRow(MergeRow(table[u][id], del, c, now, rev + 1),
                                       del, c, now, rev + 2))
                        = Content(MergeRow(table[u][id], del, c, now, rev + 1))
    BY DEF RetryChangesNothing
  <2>1. now \in Nat /\ rev \in Nat /\ table[u][id] \in Row /\ RowSound(table[u][id], now, rev)
    BY DEF IndInv, TypeOK, DatabaseSound
  <2>2. c \in Card \cup {None} /\ (c # None => VersionMs(c) <= now)
    BY ServerAssumption
  <2>3. del \in (0..now) \cup {None}
    OBVIOUS
  <2>4. Meets(table[u][id], del, c, now, rev)
    BY <2>1, <2>2, <2>3 DEF Meets
  <2>5. QED BY <2>4, RequestIsIdempotent
<1>2. QED BY <1>1, ServerIsSound, PTL

\* What one step does to the rows of one account, when it is not a restore: they
\* stand, or they meet a request, or they lose old tombstones.
LEMMA StepCases ==
  ASSUME IndInv, [Next]_serverVars, ~Restore, NEW u \in User, NEW id \in Id
  PROVE  \/ table'[u][id] = table[u][id]
         \/ \E del \in Int \cup {None}, c \in Card \cup {None} :
              table'[u][id] = MergeRow(table[u][id], del, c, now, rev + 1)
         \/ table'[u][id] = [table[u][id] EXCEPT !.tomb = None]
<1>1. CASE AnyRequest
  <2>1. PICK v \in User, cards \in CardList, deletions \in DeletionList,
             answers \in SUBSET Answer, settings \in Settings \cup {None} :
               Sync(v, cards, deletions, answers, settings)
    BY <1>1 DEF AnyRequest
  <2>2. CASE u = v
    <3>1. table'[u][id] = MergeRow(table[u][id], deletions[id], cards[id], now, rev + 1)
      BY <2>1, <2>2 DEF Sync, IndInv, TypeOK
    <3>2. cards[id] \in Card \cup {None} /\ deletions[id] \in Int \cup {None}
      BY ServerAssumption DEF CardList, DeletionList
    <3>3. QED BY <3>1, <3>2
  <2>3. CASE u # v
    BY <2>1, <2>3 DEF Sync, IndInv, TypeOK
  <2>4. QED BY <2>2, <2>3
<1>2. CASE Restart
  BY <1>2 DEF Restart
<1>3. CASE Tick \/ TakeBackup \/ UNCHANGED serverVars
  BY <1>3 DEF Tick, TakeBackup, serverVars, tables
<1>4. QED BY <1>1, <1>2, <1>3 DEF Next, Housekeeping

\* A tombstone is never moved later, whichever devices keep re-sending it.
THEOREM DeleteTimesOnlyMoveBack == Spec => DeleteTimeNeverMovesLater
<1>1. IndInv /\ [Next]_serverVars =>
        [~Restore => \A u \in User, id \in Id :
           table[u][id].tomb # None /\ table'[u][id].tomb # None
             => table'[u][id].tomb.at <= table[u][id].tomb.at]_serverVars
  <2> SUFFICES ASSUME IndInv, [Next]_serverVars, ~Restore, NEW u \in User, NEW id \in Id,
                      table[u][id].tomb # None, table'[u][id].tomb # None
               PROVE  table'[u][id].tomb.at <= table[u][id].tomb.at
    OBVIOUS
  <2>1. now \in Nat /\ rev \in Nat /\ table[u][id] \in Row /\ RowSound(table[u][id], now, rev)
    BY DEF IndInv, TypeOK, DatabaseSound
  <2>2. table[u][id].tomb.at \in Nat
    BY <2>1 DEF Row, StoredTomb
  <2>3. CASE table'[u][id] = table[u][id]
    BY <2>2, <2>3
  <2>4. ASSUME NEW del \in Int \cup {None}, NEW c \in Card \cup {None},
               table'[u][id] = MergeRow(table[u][id], del, c, now, rev + 1)
        PROVE  table'[u][id].tomb.at <= table[u][id].tomb.at
    BY <2>1, <2>4, RequestKeepsDeleteTime
  <2>5. CASE table'[u][id] = [table[u][id] EXCEPT !.tomb = None]
    BY <2>1, <2>2, <2>5 DEF Row
  <2>6. QED BY <2>3, <2>4, <2>5, StepCases
<1>2. QED BY <1>1, ServerIsSound, PTL DEF Spec, DeleteTimeNeverMovesLater

\* No request rolls a stored card back, unless it genuinely re-adds the word.
THEOREM CardsNeverRollBack == Spec => NoRollback
<1>1. IndInv /\ [Next]_serverVars =>
        [~Restore => \A u \in User, id \in Id :
           table[u][id].card # None /\ table'[u][id].card # None
             => \/ table'[u][id].card.updated >= table[u][id].card.updated
                \/ table'[u][id].card.added > table[u][id].card.added]_serverVars
  <2> SUFFICES ASSUME IndInv, [Next]_serverVars, ~Restore, NEW u \in User, NEW id \in Id,
                      table[u][id].card # None, table'[u][id].card # None
               PROVE  \/ table'[u][id].card.updated >= table[u][id].card.updated
                      \/ table'[u][id].card.added > table[u][id].card.added
    OBVIOUS
  <2>1. now \in Nat /\ rev \in Nat /\ table[u][id] \in Row /\ RowSound(table[u][id], now, rev)
    BY DEF IndInv, TypeOK, DatabaseSound
  <2>2. table[u][id].card.updated \in Nat
    BY <2>1 DEF Row, StoredCard
  <2>3. CASE table'[u][id] = table[u][id]
    BY <2>2, <2>3
  <2>4. ASSUME NEW del \in Int \cup {None}, NEW c \in Card \cup {None},
               table'[u][id] = MergeRow(table[u][id], del, c, now, rev + 1)
        PROVE  \/ table'[u][id].card.updated >= table[u][id].card.updated
               \/ table'[u][id].card.added > table[u][id].card.added
    BY <2>1, <2>4, RequestNeverRollsBack
  <2>5. CASE table'[u][id] = [table[u][id] EXCEPT !.tomb = None]
    BY <2>1, <2>2, <2>5 DEF Row
  <2>6. QED BY <2>3, <2>4, <2>5, StepCases
<1>2. QED BY <1>1, ServerIsSound, PTL DEF Spec, NoRollback
=============================================================================
