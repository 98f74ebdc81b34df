-------------------------- MODULE DeltaFeedProofs --------------------------
(***************************************************************************)
(* Delta answers are enough: for any number of accounts, readers, ids and  *)
(* requests, and across pruning, account switches and restores that rotate *)
(* the epoch, an answer leaves its reader with exactly the server's deck.  *)
(***************************************************************************)
EXTENDS DeltaFeed, SyncServerProofs, FiniteSetTheorems

USE NoneAssumption, StampAssumption

-----------------------------------------------------------------------------
(* Requests, seen from a cursor at k.                                      *)

\* A row a request did not name stands.
LEMMA UnnamedRowStands ==
  ASSUME NEW row, NEW clock, NEW r
  PROVE  MergeRow(row, None, None, clock, r) = row
BY DEF MergeRow, UpsertCard, ApplyDeletion

\* What RequestStampsChanges says of one row, of every row and count of an account.
LEMMA SyncStampsChanges ==
  ASSUME FeedTypeOK, IndInv,
         NEW u \in User, NEW cards \in CardList, NEW deletions \in DeletionList,
         NEW answers \in SUBSET Answer, NEW settings \in Settings \cup {None},
         Sync(u, cards, deletions, answers, settings),
         NEW v \in User, NEW id \in Id, NEW k \in Nat, k <= rev
  PROVE  /\ table'[v][id].card # None /\ table'[v][id].card.rev <= k
              => table'[v][id].card = table[v][id].card
         /\ table'[v][id].card = None /\ (table'[v][id].tomb = None \/ table'[v][id].tomb.rev <= k)
              => table[v][id].card = None /\ (table[v][id].tomb = None \/ table[v][id].tomb.rev <= k)
         /\ (\A a \in Drills(v, id)' : log'[v][a] <= k)
              => Drills(v, id)' = Drills(v, id) /\ \A a \in Drills(v, id) : log[v][a] <= k
<1>1. /\ now \in Nat /\ rev \in Nat
      /\ table[v][id] \in Row /\ RowSound(table[v][id], now, rev)
  BY DEF IndInv, TypeOK, DatabaseSound
<1>2. CASE v = u
  <2>1. table'[v][id] = MergeRow(table[v][id], deletions[id], cards[id], now, rev + 1)
    BY <1>2 DEF Sync, IndInv, TypeOK
  <2>2. cards[id] \in Card \cup {None} /\ deletions[id] \in Int \cup {None}
    BY ServerAssumption DEF CardList, DeletionList
  <2>3. /\ table'[v][id].card # None /\ table'[v][id].card.rev <= k
             => table'[v][id].card = table[v][id].card
        /\ table'[v][id].card = None /\ (table'[v][id].tomb = None \/ table'[v][id].tomb.rev <= k)
             => table[v][id].card = None /\ (table[v][id].tomb = None \/ table[v][id].tomb.rev <= k)
    <3> DEFINE row == table[v][id]
               del == deletions[id]
               c == cards[id]
               new == table'[v][id]
    <3>1. /\ row \in Row /\ RowSound(row, now, rev) /\ now \in Nat /\ rev \in Nat
          /\ c \in Card \cup {None} /\ del \in Int \cup {None}
          /\ new = MergeRow(row, del, c, now, rev + 1)
      BY <1>1, <2>1, <2>2
    <3> HIDE DEF row, del, c, new
    <3>2. /\ new.card # None /\ new.card.rev <= k => new.card = row.card
          /\ new.card = None /\ (new.tomb = None \/ new.tomb.rev <= k)
               => row.card = None /\ (row.tomb = None \/ row.tomb.rev <= k)
      BY <3>1, RequestStampsChanges
    <3>3. QED BY <3>2 DEF row, new
  <2>4. log'[v] = InsertReviews(log[v], answers, rev + 1)
    BY <1>2 DEF Sync, IndInv, TypeOK
  <2>5. ASSUME \A a \in Drills(v, id)' : log'[v][a] <= k, NEW a \in Answer,
               a.kind = "drill", a.card = id
        PROVE  log'[v][a] = log[v][a]
    <3>1. log'[v][a] = log[v][a] \/ log'[v][a] = rev + 1
      BY <2>4 DEF InsertReviews
    <3>2. log'[v][a] # rev + 1
      <4>1. SUFFICES ASSUME log'[v][a] = rev + 1 PROVE FALSE
        OBVIOUS
      <4>2. log'[v][a] # None
        BY <1>1, <4>1
      <4>3. a \in Drills(v, id)'
        BY <2>5, <4>2 DEF Drills
      <4>4. QED BY <1>1, <2>5, <4>1, <4>3
    <3>3. QED BY <3>1, <3>2
  <2>6. QED BY <2>3, <2>5 DEF Drills
<1>3. CASE v # u
  <2>1. table'[v] = table[v] /\ log'[v] = log[v]
    BY <1>3 DEF Sync, IndInv, TypeOK
  <2>2. QED BY <2>1 DEF Drills
<1>4. QED BY <1>2, <1>3

-----------------------------------------------------------------------------
(* Readers.                                                                *)

\* Who may hold what at the start: nobody holds anything.
LEMMA FeedInitHolds == FeedInit => FeedInv
<1> SUFFICES ASSUME FeedInit PROVE FeedInv
  OBVIOUS
<1>1. IndInv
  BY InitSound DEF FeedInit
<1>2. FeedTypeOK
  BY <1>1 DEF FeedInit, FeedTypeOK, IndInv, Decks
<1>3. CursorsBehind /\ ViewMissesOnlyNewerRows /\ TallyMissesOnlyNewerAnswers
  BY DEF FeedInit, CursorsBehind, ViewMissesOnlyNewerRows, TallyMissesOnlyNewerAnswers
<1>4. QED BY <1>1, <1>2, <1>3 DEF FeedInv

\* What the invariant says of one reader.
Abreast(d) ==
  cursor[d] # None /\ Usable(d) =>
    \A id \in Id :
      /\ table[cursor[d].user][id].card # None /\ table[cursor[d].user][id].card.rev <= cursor[d].rev
           => view[d][id] = Wire(table[cursor[d].user][id].card)
      /\ table[cursor[d].user][id].card = None
         /\ (table[cursor[d].user][id].tomb = None
             \/ table[cursor[d].user][id].tomb.rev <= cursor[d].rev)
           => view[d][id] = None
      /\ (\A a \in Drills(cursor[d].user, id) : log[cursor[d].user][a] <= cursor[d].rev)
           => tally[d][id] = DrillCount(cursor[d].user, id)

LEMMA AbreastIsInvariant ==
  ViewMissesOnlyNewerRows /\ TallyMissesOnlyNewerAnswers <=> \A d \in Reader : Abreast(d)
BY DEF ViewMissesOnlyNewerRows, TallyMissesOnlyNewerAnswers, Abreast

\* A sync leaves every reader it does not answer where it was.
LEMMA SyncKeepsBystanders ==
  ASSUME FeedInv,
         NEW u \in User, NEW cards \in CardList, NEW deletions \in DeletionList,
         NEW answers \in SUBSET Answer, NEW settings \in Settings \cup {None},
         Sync(u, cards, deletions, answers, settings),
         NEW d \in Reader, cursor'[d] = cursor[d], view'[d] = view[d], tally'[d] = tally[d]
  PROVE  Abreast(d)'
<1> SUFFICES ASSUME cursor[d] # None, Usable(d)', NEW id \in Id
             PROVE  LET v == cursor[d].user
                        k == cursor[d].rev
                    IN /\ table'[v][id].card # None /\ table'[v][id].card.rev <= k
                            => view[d][id] = Wire(table'[v][id].card)
                       /\ table'[v][id].card = None
                          /\ (table'[v][id].tomb = None \/ table'[v][id].tomb.rev <= k)
                            => view[d][id] = None
                       /\ (\A a \in Drills(v, id)' : log'[v][a] <= k)
                            => tally[d][id] = Cardinality(Drills(v, id)')
  BY DEF Abreast, DrillCount, Drills
<1> DEFINE v == cursor[d].user
           k == cursor[d].rev
<1>1. cursor[d] \in Cursor /\ rev \in Nat /\ rev' = rev + 1 /\ epoch' = epoch
      /\ prunedRev' = prunedRev
  BY DEF FeedInv, FeedTypeOK, TypeOK, Sync
<1>2. v \in User /\ k \in Nat
  BY <1>1 DEF Cursor
<1>3. k <= rev /\ Usable(d)
  BY <1>1, <1>2 DEF Usable, CanServeDelta, FeedInv, CursorsBehind
<1>4. /\ table[v][id].card # None /\ table[v][id].card.rev <= k
           => view[d][id] = Wire(table[v][id].card)
      /\ table[v][id].card = None /\ (table[v][id].tomb = None \/ table[v][id].tomb.rev <= k)
           => view[d][id] = None
      /\ (\A a \in Drills(v, id) : log[v][a] <= k)
           => tally[d][id] = Cardinality(Drills(v, id))
  BY <1>3, AbreastIsInvariant DEF FeedInv, Abreast, DrillCount
<1>5. /\ table'[v][id].card # None /\ table'[v][id].card.rev <= k
           => table'[v][id].card = table[v][id].card
      /\ table'[v][id].card = None /\ (table'[v][id].tomb = None \/ table'[v][id].tomb.rev <= k)
           => table[v][id].card = None /\ (table[v][id].tomb = None \/ table[v][id].tomb.rev <= k)
      /\ (\A a \in Drills(v, id)' : log'[v][a] <= k)
           => Drills(v, id)' = Drills(v, id) /\ \A a \in Drills(v, id) : log[v][a] <= k
  BY <1>2, <1>3, SyncStampsChanges DEF FeedInv
<1> HIDE DEF v, k
<1>6. /\ table'[v][id].card # None /\ table'[v][id].card.rev <= k
           => view[d][id] = Wire(table'[v][id].card)
      /\ table'[v][id].card = None /\ (table'[v][id].tomb = None \/ table'[v][id].tomb.rev <= k)
           => view[d][id] = None
      /\ (\A a \in Drills(v, id)' : log'[v][a] <= k)
           => tally[d][id] = Cardinality(Drills(v, id)')
  BY <1>4, <1>5
<1>7. QED BY <1>6 DEF v, k

\* The server's half of the invariant outlives any sync.
LEMMA SyncKeepsServer ==
  ASSUME FeedInv,
         NEW u \in User, NEW cards \in CardList, NEW deletions \in DeletionList,
         NEW answers \in SUBSET Answer, NEW settings \in Settings \cup {None},
         Sync(u, cards, deletions, answers, settings)
  PROVE  IndInv' /\ rev \in Nat /\ rev' = rev + 1 /\ epoch' = epoch /\ prunedRev' = prunedRev
<1>1. IndInv
  BY DEF FeedInv
<1>2. IndInv'
  BY <1>1, SyncKeepsSound
<1>3. rev \in Nat /\ rev' = rev + 1 /\ epoch' = epoch /\ prunedRev' = prunedRev
  BY <1>1 DEF IndInv, TypeOK, Sync
<1>4. QED BY <1>2, <1>3

\* An answer rebuilds the account's deck and counts exactly.
LEMMA PollIsExact ==
  ASSUME FeedInv, NEW d \in Reader,
         NEW u \in User, NEW cards \in CardList, NEW deletions \in DeletionList,
         NEW answers \in SUBSET Answer, Poll(d, u, cards, deletions, answers)
  PROVE  /\ Sync(u, cards, deletions, answers, None)
         /\ cursor' = [cursor EXCEPT ![d] = [epoch |-> epoch, user |-> u, rev |-> rev + 1]]
         /\ view' = [view EXCEPT ![d] = [id \in Id |-> Live(table'[u][id])]]
         /\ tally' = [tally EXCEPT ![d] = [id \in Id |-> Cardinality(Drills(u, id)')]]
<1> DEFINE since == cursor[d]
           sent == {id \in Id : cards[id] # None \/ deletions[id] # None}
           r == Response(u, since, sent, answers)'
           delta == CanServeDelta(since, u, epoch', rev', prunedRev')
<1>1. PICK s \in {since}, ids \in {sent} :
        /\ Sync(u, cards, deletions, answers, None)
        /\ \E q \in {Response(u, s, ids, answers)'} :
             /\ cursor' = [cursor EXCEPT ![d] = q.cursor]
             /\ view' = [view EXCEPT ![d] = PatchDeck(view[d], q)]
             /\ tally' = [tally EXCEPT ![d] = PatchTally(tally[d], q)]
  BY DEF Poll
<1> DEFINE q == Response(u, s, ids, answers)'
<1>2. /\ s = since /\ ids = sent
      /\ Sync(u, cards, deletions, answers, None)
      /\ cursor' = [cursor EXCEPT ![d] = q.cursor]
      /\ view' = [view EXCEPT ![d] = PatchDeck(view[d], q)]
      /\ tally' = [tally EXCEPT ![d] = PatchTally(tally[d], q)]
  BY <1>1
<1>3. IndInv' /\ rev \in Nat /\ rev' = rev + 1 /\ epoch' = epoch /\ prunedRev' = prunedRev
  BY <1>2, SyncKeepsServer
<1> DEFINE counted(i) ==
             /\ Drills(u, i)' # {}
             /\ ~delta \/ (\E a \in Drills(u, i)' : log'[u][a] > since.rev)
                      \/ \E a \in answers : a.card = i
<1>4. /\ q.full = ~delta
      /\ q.cursor = [epoch |-> epoch', user |-> u, rev |-> rev']
      /\ \A id \in Id : q.cards[id] = IF Returned(table'[u][id].card, since, delta, id \in sent)
                                      THEN Wire(table'[u][id].card) ELSE None
      /\ q.deletions = {id \in Id : Returned(table'[u][id].tomb, since, delta, id \in sent)}
      /\ q.counts = [id \in {i \in Id : counted(i)} |-> Cardinality(Drills(u, id)')]
  <2>1. q = [cards |-> [id \in Id |->
                          IF Returned(table'[u][id].card, s, CanServeDelta(s, u, epoch', rev', prunedRev'),
                                      id \in ids)
                          THEN Wire(table'[u][id].card) ELSE None],
             deletions |-> {id \in Id : Returned(table'[u][id].tomb, s,
                              CanServeDelta(s, u, epoch', rev', prunedRev'), id \in ids)},
             counts |-> [id \in {i \in Id :
                           /\ Drills(u, i)' # {}
                           /\ \/ ~CanServeDelta(s, u, epoch', rev', prunedRev')
                              \/ \E a \in Drills(u, i)' : log'[u][a] > s.rev
                              \/ \E a \in answers : a.card = i} |-> Cardinality(Drills(u, id)')],
             settings |-> prefs'[u],
             cursor |-> [epoch |-> epoch', user |-> u, rev |-> rev'],
             full |-> ~CanServeDelta(s, u, epoch', rev', prunedRev')]
    BY DEF Response, Counted
  <2> HIDE DEF q
  <2>2. QED BY <1>2, <2>1
<1> HIDE DEF q
<1>5. ASSUME delta
      PROVE  /\ since \in Cursor /\ since.rev \in Nat /\ since.rev <= rev
             /\ since.user = u /\ Abreast(d) /\ Usable(d)
  <2>1. since \in Cursor
    BY <1>5 DEF CanServeDelta, FeedInv, FeedTypeOK
  <2>2. since.epoch = epoch /\ since.user = u /\ since.rev >= prunedRev
    BY <1>3, <1>5 DEF CanServeDelta
  <2>3. since.rev \in Nat /\ since.rev <= rev
    <3>1. since # None
      BY <1>5 DEF CanServeDelta
    <3>2. since.rev <= rev
      BY <2>2, <3>1 DEF FeedInv, CursorsBehind
    <3>3. QED BY <2>1, <3>2 DEF Cursor
  <2>4. Usable(d)
    BY <1>3, <1>5, <2>2, <2>3 DEF Usable, CanServeDelta
  <2>5. Abreast(d)
    BY AbreastIsInvariant DEF FeedInv
  <2>6. QED BY <2>1, <2>2, <2>3, <2>4, <2>5
<1>6. ASSUME NEW id \in Id
      PROVE  PatchDeck(view[d], q)[id] = Live(table'[u][id])
  <2> DEFINE row == table'[u][id]
  <2>1. /\ row \in Row /\ (row.card = None \/ row.tomb = None)
        /\ row.card # None => Wire(row.card) # None /\ row.card.rev \in Nat
        /\ row.tomb # None => row.tomb.rev \in Nat
    <3>1. row \in Row /\ RowSound(row, now', rev')
      BY <1>3 DEF IndInv, TypeOK, DatabaseSound
    <3> HIDE DEF row
    <3>2. row.card # None => Wire(row.card) \in WireCard
      BY <3>1 DEF Wire, WireCard, Row, StoredCard
    <3>3. QED BY <3>1, <3>2 DEF RowSound, Row, StoredCard, StoredTomb
  <2>2. PatchDeck(view[d], q)[id] =
          IF q.full \/ q.cards[id] # None \/ id \in q.deletions THEN q.cards[id] ELSE view[d][id]
    BY DEF PatchDeck
  <2>3. CASE ~delta
    BY <1>4, <2>2, <2>3 DEF Returned, Live
  <2>4. CASE delta /\ (Returned(row.card, since, delta, id \in sent)
                       \/ Returned(row.tomb, since, delta, id \in sent))
    <3>1. CASE Returned(row.card, since, delta, id \in sent)
      BY <1>4, <2>1, <2>2, <3>1 DEF Returned, Live
    <3>2. CASE Returned(row.tomb, since, delta, id \in sent)
      BY <1>4, <2>1, <2>2, <3>2 DEF Returned, Live
    <3>3. QED BY <2>4, <3>1, <3>2
  <2>5. CASE delta /\ ~Returned(row.card, since, delta, id \in sent)
             /\ ~Returned(row.tomb, since, delta, id \in sent)
    <3>1. PatchDeck(view[d], q)[id] = view[d][id]
      BY <1>4, <2>2, <2>5
    <3>2. since.rev \in Nat /\ since.rev <= rev /\ since.user = u
      BY <1>5, <2>5
    <3>3. /\ row.card # None => row.card.rev <= since.rev
          /\ row.tomb # None => row.tomb.rev <= since.rev
      BY <2>1, <2>5, <3>2 DEF Returned
    <3>4. /\ row.card # None => row.card = table[u][id].card
          /\ row.card = None => table[u][id].card = None
               /\ (table[u][id].tomb = None \/ table[u][id].tomb.rev <= since.rev)
      BY <1>2, <3>2, <3>3, SyncStampsChanges DEF FeedInv
    <3>5. /\ table[u][id].card # None /\ table[u][id].card.rev <= since.rev
               => view[d][id] = Wire(table[u][id].card)
          /\ table[u][id].card = None
             /\ (table[u][id].tomb = None \/ table[u][id].tomb.rev <= since.rev)
               => view[d][id] = None
      <4>1. since # None
        BY <2>5 DEF CanServeDelta
      <4>2. QED BY <1>5, <2>5, <4>1, <3>2 DEF Abreast
    <3> HIDE DEF row
    <3>6. view[d][id] = Live(row)
      BY <3>3, <3>4, <3>5 DEF Live
    <3>7. QED BY <3>1, <3>6 DEF row
  <2>6. QED BY <2>3, <2>4, <2>5
<1>7. ASSUME NEW id \in Id
      PROVE  PatchTally(tally[d], q)[id] = Cardinality(Drills(u, id)')
  <2>1. PatchTally(tally[d], q)[id] =
          IF id \in DOMAIN q.counts THEN q.counts[id] ELSE IF q.full THEN 0 ELSE tally[d][id]
    BY DEF PatchTally
  <2>2. DOMAIN q.counts = {i \in Id : counted(i)}
        /\ (id \in DOMAIN q.counts => q.counts[id] = Cardinality(Drills(u, id)'))
    BY <1>4
  <2>3. CASE counted(id)
    BY <2>1, <2>2, <2>3
  <2>4. CASE ~counted(id) /\ ~delta
    <3>1. Drills(u, id)' = {}
      BY <2>4
    <3>2. QED BY <1>4, <2>1, <2>2, <2>4, <3>1, FS_EmptySet
  <2>5. CASE ~counted(id) /\ delta
    <3>1. since.rev \in Nat /\ since.rev <= rev /\ since.user = u /\ since # None
      BY <1>5, <2>5 DEF CanServeDelta
    <3>2. \A a \in Drills(u, id)' : log'[u][a] \in Nat /\ log'[u][a] <= since.rev
      <4>1. ASSUME NEW a \in Drills(u, id)'
            PROVE  log'[u][a] \in Nat /\ log'[u][a] <= since.rev
        <5>1. log'[u][a] \in Nat
          BY <1>3 DEF Drills, IndInv, TypeOK
        <5>2. ~(log'[u][a] > since.rev)
          BY <1>2, <2>5
        <5>3. QED BY <3>1, <5>1, <5>2
      <4>2. QED BY <4>1
    <3>3. Drills(u, id)' = Drills(u, id) /\ \A a \in Drills(u, id) : log[u][a] <= since.rev
      BY <1>2, <3>1, <3>2, SyncStampsChanges DEF FeedInv
    <3>4. tally[d][id] = Cardinality(Drills(u, id))
      BY <1>5, <2>5, <3>1, <3>3 DEF Abreast, DrillCount
    <3>5. QED BY <1>4, <2>1, <2>2, <2>5, <3>3, <3>4
  <2>6. QED BY <2>3, <2>4, <2>5
<1>8. /\ PatchDeck(view[d], q) = [id \in Id |-> Live(table'[u][id])]
      /\ PatchTally(tally[d], q) = [id \in Id |-> Cardinality(Drills(u, id)')]
  BY <1>6, <1>7 DEF PatchDeck, PatchTally
<1>9. QED BY <1>2, <1>3, <1>4, <1>8

-----------------------------------------------------------------------------
(* The invariant.                                                          *)

\* A reader's own sync leaves it exact and the others where they were.
LEMMA PollKeepsFeed ==
  ASSUME FeedInv, NEW d \in Reader,
         NEW u \in User, NEW cards \in CardList, NEW deletions \in DeletionList,
         NEW answers \in SUBSET Answer, Poll(d, u, cards, deletions, answers)
  PROVE  FeedInv'
<1>1. /\ Sync(u, cards, deletions, answers, None)
      /\ cursor' = [cursor EXCEPT ![d] = [epoch |-> epoch, user |-> u, rev |-> rev + 1]]
      /\ view' = [view EXCEPT ![d] = [id \in Id |-> Live(table'[u][id])]]
      /\ tally' = [tally EXCEPT ![d] = [id \in Id |-> Cardinality(Drills(u, id)')]]
  BY PollIsExact
<1>2. IndInv' /\ rev \in Nat /\ rev' = rev + 1 /\ epoch' = epoch /\ prunedRev' = prunedRev
  BY <1>1, SyncKeepsServer
<1>3. /\ cursor \in [Reader -> Cursor \cup {None}] /\ epoch \in Nat
      /\ view \in [Reader -> Decks] /\ tally \in [Reader -> [Id -> Nat]]
  BY DEF FeedInv, FeedTypeOK, TypeOK
<1>4. [id \in Id |-> Live(table'[u][id])] \in Decks
  <2>1. ASSUME NEW id \in Id
        PROVE  Live(table'[u][id]) \in WireCard \cup {None}
    <3>1. table'[u][id] \in Row
      BY <1>2 DEF IndInv, TypeOK
    <3>2. QED BY <3>1 DEF Live, Wire, WireCard, Row, StoredCard
  <2>2. QED BY <2>1 DEF Decks
<1>5. ASSUME NEW id \in Id
      PROVE  Cardinality(Drills(u, id)') \in Nat
  BY AnswersAreFinite, FS_Subset, FS_CardinalityType DEF Drills
<1>6. FeedTypeOK'
  <2>1. cursor' \in [Reader -> Cursor \cup {None}]
    BY <1>1, <1>2, <1>3 DEF Cursor
  <2>2. view' \in [Reader -> Decks] /\ tally' \in [Reader -> [Id -> Nat]]
    BY <1>1, <1>3, <1>4, <1>5
  <2>3. QED BY <1>2, <2>1, <2>2 DEF FeedTypeOK, IndInv
<1>7. CursorsBehind'
  <2>1. SUFFICES ASSUME NEW e \in Reader, cursor'[e] # None
                 PROVE  /\ cursor'[e].epoch <= epoch'
                        /\ cursor'[e].epoch = epoch' => cursor'[e].rev <= rev'
    BY DEF CursorsBehind
  <2>2. CASE e = d
    BY <1>1, <1>2, <1>3, <2>2
  <2>3. CASE e # d
    <3>1. cursor'[e] = cursor[e] /\ cursor[e] \in Cursor
      BY <1>1, <1>3, <2>1, <2>3
    <3>2. /\ cursor[e].epoch <= epoch
          /\ cursor[e].epoch = epoch => cursor[e].rev <= rev
      BY <2>1, <3>1 DEF FeedInv, CursorsBehind
    <3>3. QED BY <1>2, <1>3, <3>1, <3>2 DEF Cursor
  <2>4. QED BY <2>2, <2>3
<1>8. ASSUME NEW e \in Reader
      PROVE  Abreast(e)'
  <2>1. CASE e = d
    <3>1. /\ cursor'[e] = [epoch |-> epoch, user |-> u, rev |-> rev + 1]
          /\ view'[e] = [id \in Id |-> Live(table'[u][id])]
          /\ tally'[e] = [id \in Id |-> Cardinality(Drills(u, id)')]
      BY <1>1, <1>3, <2>1
    <3>2. cursor'[e].user = u
      BY <3>1
    <3>3. ASSUME NEW id \in Id
          PROVE  /\ table'[u][id].card # None => view'[e][id] = Wire(table'[u][id].card)
                 /\ table'[u][id].card = None => view'[e][id] = None
                 /\ tally'[e][id] = Cardinality(Drills(u, id)')
      BY <3>1 DEF Live
    <3>4. QED BY <3>2, <3>3 DEF Abreast, DrillCount, Drills
  <2>2. CASE e # d
    BY <1>1, <1>3, <2>2, SyncKeepsBystanders
  <2>3. QED BY <2>1, <2>2
<1>9. (ViewMissesOnlyNewerRows /\ TallyMissesOnlyNewerAnswers)'
  BY <1>8 DEF ViewMissesOnlyNewerRows, TallyMissesOnlyNewerAnswers, Abreast
<1>10. QED BY <1>2, <1>6, <1>7, <1>9 DEF FeedInv

\* So does a sync of somebody else.
LEMMA OthersKeepFeed ==
  ASSUME FeedInv, AnyRequest, UNCHANGED <<cursor, view, tally>>
  PROVE  FeedInv'
<1>1. PICK u \in User, cards \in CardList, deletions \in DeletionList,
           answers \in SUBSET Answer, settings \in Settings \cup {None} :
             Sync(u, cards, deletions, answers, settings)
  BY DEF AnyRequest
<1>2. IndInv' /\ rev \in Nat /\ rev' = rev + 1 /\ epoch' = epoch /\ prunedRev' = prunedRev
  BY <1>1, SyncKeepsServer
<1>3. FeedTypeOK'
  BY <1>2 DEF FeedInv, FeedTypeOK, IndInv
<1>4. CursorsBehind'
  <2>1. ASSUME NEW e \in Reader, cursor[e] # None
        PROVE  /\ cursor[e].epoch <= epoch
               /\ cursor[e].epoch = epoch => cursor[e].rev <= rev + 1
    <3>1. cursor[e] \in Cursor
      BY <2>1 DEF FeedInv, FeedTypeOK
    <3>2. QED BY <1>2, <2>1, <3>1 DEF FeedInv, CursorsBehind, Cursor
  <2>2. QED BY <1>2, <2>1 DEF CursorsBehind
<1>5. ASSUME NEW e \in Reader
      PROVE  Abreast(e)'
  BY <1>1, SyncKeepsBystanders
<1>6. (ViewMissesOnlyNewerRows /\ TallyMissesOnlyNewerAnswers)'
  BY <1>5 DEF ViewMissesOnlyNewerRows, TallyMissesOnlyNewerAnswers, Abreast
<1>7. QED BY <1>2, <1>3, <1>4, <1>6 DEF FeedInv

\* Pruning either leaves a cursor usable and its view right, or unusable.
LEMMA RestartKeepsFeed ==
  ASSUME FeedInv, Restart, UNCHANGED <<cursor, view, tally>>
  PROVE  FeedInv'
<1>1. IndInv'
  BY RestartKeepsSound DEF FeedInv
<1>2. rev' = rev /\ epoch' = epoch /\ log' = log
  BY DEF Restart
<1>3. FeedTypeOK' /\ CursorsBehind'
  BY <1>1, <1>2 DEF FeedInv, FeedTypeOK, IndInv, CursorsBehind
<1>4. ASSUME NEW e \in Reader
      PROVE  Abreast(e)'
  <2> SUFFICES ASSUME cursor[e] # None, Usable(e)', NEW id \in Id
               PROVE  LET v == cursor[e].user
                          k == cursor[e].rev
                      IN /\ table'[v][id].card # None /\ table'[v][id].card.rev <= k
                              => view[e][id] = Wire(table'[v][id].card)
                         /\ table'[v][id].card = None
                            /\ (table'[v][id].tomb = None \/ table'[v][id].tomb.rev <= k)
                              => view[e][id] = None
                         /\ (\A a \in Drills(v, id) : log[v][a] <= k)
                              => tally[e][id] = DrillCount(v, id)
    BY <1>2 DEF Abreast, DrillCount, Drills
  <2> DEFINE v == cursor[e].user
             k == cursor[e].rev
             row == table[v][id]
  <2>1. cursor[e] \in Cursor /\ v \in User /\ k \in Nat
    BY DEF FeedInv, FeedTypeOK, Cursor
  <2>2. row \in Row /\ RowSound(row, now, rev)
    BY <2>1 DEF FeedInv, IndInv, TypeOK, DatabaseSound
  <2>3. prunedRev \in Nat /\ prunedRev' <= k /\ prunedRev <= prunedRev'
        /\ \A r \in PrunableRevs : r <= prunedRev'
    BY DEF Usable, CanServeDelta, Restart, FeedInv, IndInv, TypeOK
  <2>4. prunedRev' \in Nat
    BY <1>1 DEF IndInv, TypeOK
  <2>5. Usable(e)
    BY <1>2, <2>1, <2>3, <2>4 DEF Usable, CanServeDelta
  <2>6. /\ row.card # None /\ row.card.rev <= k => view[e][id] = Wire(row.card)
        /\ row.card = None /\ (row.tomb = None \/ row.tomb.rev <= k) => view[e][id] = None
        /\ (\A a \in Drills(v, id) : log[v][a] <= k) => tally[e][id] = DrillCount(v, id)
    BY <2>5, AbreastIsInvariant DEF FeedInv, Abreast
  <2>7. CASE Prunable(row)
    <3>1. row.tomb.rev \in PrunableRevs
      <4>1. <<v, id>> \in {p \in User \X Id : Prunable(table[p[1]][p[2]])}
        BY <2>1, <2>7
      <4> HIDE DEF v
      <4>2. QED BY SMTT(30), <4>1 DEF PrunableRevs
    <3>2. row.tomb \in StoredTomb /\ row.card = None
      BY <2>2, <2>7 DEF Prunable, Row, RowSound
    <3>3. row.tomb.rev <= k
      BY <2>1, <2>3, <2>4, <3>1, <3>2 DEF StoredTomb
    <3>4. table'[v][id] = [row EXCEPT !.tomb = None]
      BY <2>1, <2>7 DEF Restart
    <3>5. table'[v][id].card = None
      BY <2>2, <3>2, <3>4 DEF Row
    <3>6. QED BY <2>6, <3>2, <3>3, <3>5
  <2>8. CASE ~Prunable(row)
    <3>1. table'[v][id] = row
      BY <2>1, <2>8 DEF Restart
    <3>2. QED BY <2>6, <3>1
  <2>9. QED BY <2>7, <2>8
<1>5. (ViewMissesOnlyNewerRows /\ TallyMissesOnlyNewerAnswers)'
  BY <1>4 DEF ViewMissesOnlyNewerRows, TallyMissesOnlyNewerAnswers, Abreast
<1>6. QED BY <1>1, <1>3, <1>5 DEF FeedInv

\* A restore that rotates the epoch leaves no cursor usable; the clock and a
\* backup being taken are nobody's business.
LEMMA OperatorKeepsFeed ==
  ASSUME Rotates, FeedInv, Tick \/ TakeBackup \/ Restore, UNCHANGED <<cursor, view, tally>>
  PROVE  FeedInv'
<1>1. IndInv'
  BY TickKeepsSound, BackupKeepsSound DEF FeedInv
<1>2. FeedTypeOK'
  BY <1>1 DEF FeedInv, FeedTypeOK, IndInv
<1>3. CASE Tick \/ TakeBackup
  <2>1. /\ rev' = rev /\ epoch' = epoch /\ prunedRev' = prunedRev
        /\ table' = table /\ log' = log
    BY <1>3 DEF Tick, TakeBackup, meta, tables
  <2>2. CursorsBehind'
    BY <2>1 DEF FeedInv, CursorsBehind
  <2>3. ASSUME NEW e \in Reader
        PROVE  Abreast(e)'
    <3>1. Abreast(e)
      BY AbreastIsInvariant DEF FeedInv
    <3>2. Usable(e)' <=> Usable(e)
      BY <2>1 DEF Usable
    <3>3. \A u \in User, id \in Id : Drills(u, id)' = Drills(u, id)
      BY <2>1 DEF Drills
    <3>4. cursor[e] # None => cursor[e].user \in User
      BY DEF FeedInv, FeedTypeOK, Cursor
    <3>5. QED BY <2>1, <3>1, <3>2, <3>3, <3>4 DEF Abreast, DrillCount
  <2>4. (ViewMissesOnlyNewerRows /\ TallyMissesOnlyNewerAnswers)'
    BY <2>3 DEF ViewMissesOnlyNewerRows, TallyMissesOnlyNewerAnswers, Abreast
  <2>5. QED BY <1>1, <1>2, <2>2, <2>4 DEF FeedInv
<1>4. CASE Restore
  <2>1. epoch' = epoch + 1 /\ epoch \in Nat
    BY <1>4 DEF Restore, FeedInv, IndInv, TypeOK
  <2>2. ASSUME NEW e \in Reader, cursor[e] # None
        PROVE  cursor[e].epoch <= epoch' /\ cursor[e].epoch # epoch'
    <3>1. cursor[e].epoch \in Nat /\ cursor[e].epoch <= epoch
      BY <2>2 DEF FeedInv, FeedTypeOK, Cursor, CursorsBehind
    <3>2. QED BY <2>1, <3>1
  <2>3. CursorsBehind'
    BY <2>2 DEF CursorsBehind
  <2>4. ASSUME NEW e \in Reader
        PROVE  Abreast(e)'
    BY <2>2 DEF Abreast, Usable, CanServeDelta
  <2>5. (ViewMissesOnlyNewerRows /\ TallyMissesOnlyNewerAnswers)'
    BY <2>4 DEF ViewMissesOnlyNewerRows, TallyMissesOnlyNewerAnswers, Abreast
  <2>6. QED BY <1>1, <1>2, <2>3, <2>5 DEF FeedInv
<1>5. QED BY <1>3, <1>4

\* Every step of the feed keeps the invariant.
LEMMA FeedStep == Rotates /\ FeedInv /\ [FeedNext]_feedVars => FeedInv'
<1> SUFFICES ASSUME Rotates, FeedInv, [FeedNext]_feedVars PROVE FeedInv'
  OBVIOUS
<1>1. CASE AnyPoll
  BY <1>1, PollKeepsFeed DEF AnyPoll
<1>2. CASE Elsewhere
  BY <1>2, OthersKeepFeed, RestartKeepsFeed, OperatorKeepsFeed DEF Elsewhere, Housekeeping
<1>3. CASE UNCHANGED feedVars
  <2>1. IndInv'
    BY <1>3, StepKeepsSound DEF feedVars, FeedInv
  <2>2. FeedTypeOK' /\ CursorsBehind'
    BY <1>3, <2>1 DEF feedVars, serverVars, meta, tables, FeedInv, FeedTypeOK, IndInv, CursorsBehind
  <2>3. ASSUME NEW e \in Reader
        PROVE  Abreast(e)'
    BY <1>3, AbreastIsInvariant
       DEF feedVars, serverVars, meta, tables, FeedInv, Abreast, Usable, DrillCount, Drills
  <2>4. (ViewMissesOnlyNewerRows /\ TallyMissesOnlyNewerAnswers)'
    BY <2>3 DEF ViewMissesOnlyNewerRows, TallyMissesOnlyNewerAnswers, Abreast
  <2>5. QED BY <2>1, <2>2, <2>4 DEF FeedInv
<1>4. QED BY <1>1, <1>2, <1>3 DEF FeedNext

\* FeedInv is inductive: the server's own soundness, cursors behind the clock, and
\* readers that miss only what is newer than a cursor still honoured.
THEOREM FeedIsSound == Rotates /\ FeedSpec => []FeedInv
<1>1. Rotates => []Rotates
  OBVIOUS
<1>2. QED BY <1>1, FeedInitHolds, FeedStep, PTL DEF FeedSpec

\* With restores that rotate the epoch, a cursor the server honours never hides
\* a row or a delete that came before it.
THEOREM DeltasAreEnough == Rotates /\ FeedSpec => []ViewMissesOnlyNewerRows
<1>1. FeedInv => ViewMissesOnlyNewerRows
  BY DEF FeedInv
<1>2. QED BY <1>1, FeedIsSound, PTL

\* Nor does it hide an answer: drills are recounted from those stored since.
THEOREM CountsAreEnough == Rotates /\ FeedSpec => []TallyMissesOnlyNewerAnswers
<1>1. FeedInv => TallyMissesOnlyNewerAnswers
  BY DEF FeedInv
<1>2. QED BY <1>1, FeedIsSound, PTL

\* Every answer leaves its reader with the server's drill counts of the account,
\* whether it named all of them or only those that moved.
THEOREM TalliesAreExact == Rotates /\ FeedSpec => TallyIsExact
<1> DEFINE Exact == \A d \in Reader : cursor'[d] # cursor[d] =>
                      tally'[d] = [id \in Id |-> DrillCount(cursor[d].user, id)]'
<1>1. FeedInv /\ [FeedNext]_feedVars => [Exact]_feedVars
  <2> SUFFICES ASSUME FeedInv, [FeedNext]_feedVars PROVE [Exact]_feedVars
    OBVIOUS
  <2>1. ASSUME NEW d \in Reader, NEW u \in User, NEW cards \in CardList,
               NEW deletions \in DeletionList, NEW answers \in SUBSET Answer,
               Poll(d, u, cards, deletions, answers)
        PROVE  Exact
    <3>1. /\ cursor' = [cursor EXCEPT ![d] = [epoch |-> epoch, user |-> u, rev |-> rev + 1]]
          /\ tally' = [tally EXCEPT ![d] = [id \in Id |-> Cardinality(Drills(u, id)')]]
      BY <2>1, PollIsExact
    <3>2. /\ DOMAIN cursor = Reader /\ DOMAIN tally = Reader
          /\ \A e \in Reader \ {d} : cursor'[e] = cursor[e]
      BY <3>1 DEF FeedInv, FeedTypeOK
    <3>3. cursor'[d].user = u
      BY <3>1, <3>2
    <3>4. tally'[d] = [id \in Id |-> Cardinality(Drills(u, id)')]
      BY <3>1, <3>2
    <3>5. [id \in Id |-> DrillCount(cursor[d].user, id)]'
            = [id \in Id |-> Cardinality(Drills(u, id)')]
      BY <3>3 DEF DrillCount, Drills
    <3>6. QED BY <3>2, <3>4, <3>5
  <2>2. CASE Elsewhere
    BY <2>2 DEF Elsewhere
  <2>3. CASE UNCHANGED feedVars
    BY <2>3
  <2>4. QED BY <2>1, <2>2, <2>3 DEF FeedNext, AnyPoll
<1>2. QED BY <1>1, FeedIsSound, PTL DEF FeedSpec, TallyIsExact

-----------------------------------------------------------------------------
(* The refinement.                                                         *)

Truth == [u \in User |-> [id \in Id |-> Live(table[u][id])]]

\* What the server has for an account is a deck.
LEMMA TruthIsDecks ==
  ASSUME NEW tbl \in [User -> [Id -> Row]]
  PROVE  [u \in User |-> [id \in Id |-> Live(tbl[u][id])]] \in [User -> Decks]
<1>1. ASSUME NEW u \in User, NEW id \in Id
      PROVE  Live(tbl[u][id]) \in WireCard \cup {None}
  <2>1. tbl[u][id] \in Row
    OBVIOUS
  <2>2. QED BY <2>1 DEF Live, Wire, WireCard, Row, StoredCard
<1>2. QED BY <1>1 DEF Decks

\* A reader's sync is a read of the snapshot it leaves behind.
LEMMA PollReads ==
  ASSUME FeedInv, NEW d \in Reader,
         NEW u \in User, NEW cards \in CardList, NEW deletions \in DeletionList,
         NEW answers \in SUBSET Answer, Poll(d, u, cards, deletions, answers)
  PROVE  Reads!Read(d, u)
<1>1. /\ Sync(u, cards, deletions, answers, None)
      /\ view' = [view EXCEPT ![d] = [id \in Id |-> Live(table'[u][id])]]
  BY PollIsExact
<1>2. Truth' \in [User -> Decks]
  <2>1. table' \in [User -> [Id -> Row]]
    BY <1>1, SyncKeepsServer DEF IndInv, TypeOK
  <2>2. QED BY <2>1, TruthIsDecks DEF Truth
<1>3. Truth'[u] = [id \in Id |-> Live(table'[u][id])] /\ Truth'[u] \in Decks
  BY <1>2 DEF Truth
<1>4. Truth' = [Truth EXCEPT ![u] = Truth'[u]]
  <2>1. ASSUME NEW v \in User, v # u
        PROVE  table'[v] = table[v]
    BY <1>1, <2>1 DEF Sync, FeedInv, IndInv, TypeOK
  <2>2. QED BY <2>1 DEF Truth
<1>5. /\ cursor' = [cursor EXCEPT ![d] = cursor'[d]]
      /\ cursor'[d] = [epoch |-> epoch, user |-> u, rev |-> rev + 1]
  BY PollIsExact DEF FeedInv, FeedTypeOK
<1>6. epoch \in Nat /\ rev \in Nat
  BY DEF FeedInv, IndInv, TypeOK
<1>7. cursor'[d] # cursor[d]
  <2>1. SUFFICES ASSUME cursor[d] = [epoch |-> epoch, user |-> u, rev |-> rev + 1]
                 PROVE  FALSE
    BY <1>5
  <2>2. cursor[d] # None
    BY <2>1, <1>6, NoneIsNoCursor DEF Cursor
  <2>3. QED BY <2>1, <2>2, <1>6 DEF FeedInv, CursorsBehind
<1>8. QED BY <1>1, <1>3, <1>4, <1>5, <1>7 DEF Reads!Read, Truth

\* The delta protocol implements reading snapshots: with restores that rotate
\* the epoch, what a reader holds after an answer is the deck the server had at
\* that moment, however little of it the answer carried.
THEOREM DeltasReadSnapshots == Rotates /\ FeedSpec => SnapshotReadsSpec
<1>1. FeedInit => Reads!Init
  <2> SUFFICES ASSUME FeedInit PROVE Reads!Init
    OBVIOUS
  <2>1. FeedInv
    BY FeedInitHolds
  <2>2. Truth \in [User -> Decks] /\ view \in [Reader -> Decks]
    BY <2>1, TruthIsDecks DEF FeedInv, FeedTypeOK, TypeOK, Truth
  <2>3. QED BY <2>2 DEF Reads!Init, Truth
<1>2. FeedInv /\ FeedInv' /\ [FeedNext]_feedVars => [Reads!Next]_(Reads!vars)
  <2> SUFFICES ASSUME FeedInv, FeedInv', [FeedNext]_feedVars
               PROVE  [Reads!Next]_(Reads!vars)
    OBVIOUS
  <2>1. CASE AnyPoll
    BY <2>1, PollReads DEF AnyPoll, Reads!Next
  <2>2. CASE Elsewhere
    <3>1. Truth' \in [User -> Decks]
      BY TruthIsDecks DEF FeedInv, FeedTypeOK, TypeOK, Truth
    <3>2. Reads!Publish
      BY <2>2, <3>1 DEF Reads!Publish, Elsewhere, Truth
    <3>3. QED BY <3>2 DEF Reads!Next
  <2>3. CASE UNCHANGED feedVars
    BY <2>3 DEF feedVars, serverVars, tables, Reads!vars, Truth
  <2>4. QED BY <2>1, <2>2, <2>3 DEF FeedNext
<1>3. Rotates => []Rotates
  OBVIOUS
<1>4. QED BY <1>1, <1>2, <1>3, FeedInitHolds, FeedStep, PTL
          DEF FeedSpec, SnapshotReadsSpec, Reads!Spec
=============================================================================
