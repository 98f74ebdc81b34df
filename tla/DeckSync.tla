------------------------------ MODULE DeckSync ------------------------------
(***************************************************************************)
(* Devices syncing a deck: the client half of card sync, over the server   *)
(* of SyncServer. doSync in extension/src/background/sync.ts and do_sync   *)
(* in app/shared/src/platform.rs are the same sequence of store            *)
(* transactions around one HTTP request, and are one set of actions here.  *)
(*                                                                         *)
(* What differs is what can happen between two of those transactions. The  *)
(* IndexedDB stores (extension, web app) yield at each one, so the user's  *)
(* own writes land there; the native SQLite store never yields, so only a  *)
(* crash does. Devices of the first kind are in Yielding.                  *)
(*                                                                         *)
(* Cards written by these clients always carry updated_ms, so `reviewed`   *)
(* is never read and stays 0 here. The review log is in AnswerSync.        *)
(***************************************************************************)
EXTENDS SyncServer

CONSTANTS Device,
          Yielding,       \* devices whose store transactions yield to the user
          Sessions,       \* devices whose review page keeps its cards in memory
          Skew,           \* how far each device's clock is ahead of the server's
          Flaky,          \* devices whose syncs can be cut short
          Reverifies,     \* devices whose user signs in again to the same account
          DeletesMidSync, \* whether the user may delete while a sync is running
          MaxStray        \* bound on abandoned requests still in the network

ASSUME DeviceAssumption ==
  /\ Yielding \subseteq Device
  /\ Sessions \subseteq Device
  /\ Flaky \subseteq Device
  /\ Reverifies \subseteq Device
  /\ Skew \in [Device -> Int]
  /\ DeletesMidSync \in BOOLEAN
  /\ MaxStray \in Nat
  /\ None \notin User /\ None \notin Cursor

\* No clock reads before 1970, and a client may send what its clock can write.
ASSUME ClockAssumption ==
  /\ MaxNow > 0 /\ 1..MaxNow \subseteq Stamp
  /\ \A d \in Device, t \in 1..MaxNow : t + Skew[d] \in Stamp \ {0}
  /\ [added: Stamp, reviewed: {0}, updated: Stamp] \subseteq ClientCard
  /\ Stamp \subseteq DeleteTime

VARIABLES
  deck,      \* store `cards`, with the stamps of each card
  dirty,     \* store `dirty`: the stamp of the last local write not yet uploaded
  tombs,     \* store `tombstones`: when the user deleted the card
  cursor,    \* store `meta`: where this device's view of the server ends
  account,   \* whose token the settings hold
  held,      \* cards a review session loaded
  job,       \* the sync in progress, lost in a crash
  stray,     \* requests whose sender gave up on them, not yet handled
  past       \* history: the last add and the first delete of each id

deviceVars == <<deck, dirty, tombs, cursor, account, held, job>>
vars == <<serverVars, deviceVars, stray, past>>

Nothing == [id \in Id |-> None]

NoJob == [step |-> "idle", user |-> None, at |-> 0, since |-> None, dirty |-> Nothing,
          cards |-> Nothing, tombs |-> Nothing, answer |-> None, put |-> {}, drop |-> {}]

DeckInit ==
  /\ Init
  /\ deck = [d \in Device |-> Nothing]
  /\ dirty = [d \in Device |-> Nothing]
  /\ tombs = [d \in Device |-> Nothing]
  /\ cursor = [d \in Device |-> None]
  /\ account = [d \in Device |-> None]
  /\ held = [d \in Device |-> Nothing]
  /\ job = [d \in Device |-> NoJob]
  /\ stray = {}
  /\ past = [id \in Id |-> [added |-> 0, deleted |-> None]]

Idle(d) == job[d].step = "idle"

\* A device that does not yield runs from one await on the network to the next
\* as one turn: nothing else that concerns it happens in between.
InTurn(d) == d \notin Yielding /\ job[d].step \notin {"idle", "waiting", "replied"}

\* Its steps only touch its own store, so the rest of the system waits too.
TurnFree == \A d \in Device : ~InTurn(d)

-----------------------------------------------------------------------------
(* The user. Every local write gets a millisecond of its own.              *)

Clock(d) == now + Skew[d]

UserTurn == TurnFree /\ now < MaxNow /\ now' = now + 1

Write(d, id, card) ==
  /\ deck' = [deck EXCEPT ![d][id] = [card EXCEPT !.updated = Clock(d)']]
  /\ dirty' = [dirty EXCEPT ![d][id] = Clock(d)']

\* Adding leaves a standing tombstone alone: the next sync sends both.
Add(d, id) ==
  /\ deck[d][id] = None
  /\ UserTurn
  /\ Write(d, id, [added |-> Clock(d)', reviewed |-> 0, updated |-> 0])
  /\ past' = [past EXCEPT ![id].added = now']
  /\ UNCHANGED <<meta, tables, backup, tombs, cursor, account, held, job, stray>>

\* A promotion, priority bump or reset; or a review in the extension, which
\* reads the card again.
Edit(d, id) ==
  /\ deck[d][id] # None
  /\ UserTurn
  /\ Write(d, id, deck[d][id])
  /\ UNCHANGED <<meta, tables, backup, tombs, cursor, account, held, job, stray, past>>

\* The app's review page keeps the cards it loaded and rates each one once,
\* without reading it again: a sync may have replaced or deleted it by then.
Load(d) ==
  /\ d \in Sessions /\ TurnFree
  /\ held' = [held EXCEPT ![d] = deck[d]]
  /\ UNCHANGED <<serverVars, deck, dirty, tombs, cursor, account, job, stray, past>>

Rate(d, id) ==
  /\ held[d][id] # None
  /\ UserTurn
  /\ Write(d, id, held[d][id])
  /\ held' = [held EXCEPT ![d][id] = None]
  /\ UNCHANGED <<meta, tables, backup, tombs, cursor, account, job, stray, past>>

\* Both direction siblings of a word go at once; the dirty entries stay. The
\* pages that delete are not the review page, which forgets its cards on leaving.
Delete(d, ids) ==
  /\ \E id \in ids : deck[d][id] # None
  /\ DeletesMidSync \/ Idle(d)
  /\ UserTurn
  /\ deck' = [deck EXCEPT ![d] = [id \in Id |-> IF id \in ids THEN None ELSE @[id]]]
  /\ tombs' = [tombs EXCEPT ![d] = [id \in Id |-> IF id \in ids THEN Clock(d)' ELSE @[id]]]
  /\ held' = [held EXCEPT ![d] = Nothing]
  /\ past' = [id \in Id |-> IF id \in ids /\ past[id].deleted = None
                            THEN [past[id] EXCEPT !.deleted = now'] ELSE past[id]]
  /\ UNCHANGED <<meta, tables, backup, dirty, cursor, account, job, stray>>

\* Verifying a code stores the token, then drops the cursor. (That second write
\* is taken to succeed: a failed one is only logged.)
SignIn(d, u) ==
  /\ TurnFree
  /\ account[d] # u \/ (d \in Reverifies /\ cursor[d] # None)
  /\ account' = [account EXCEPT ![d] = u]
  /\ cursor' = [cursor EXCEPT ![d] = None]
  /\ UNCHANGED <<serverVars, deck, dirty, tombs, held, job, stray, past>>

-----------------------------------------------------------------------------
(* One sync, a store transaction at a time.                                *)

\* The upload time is taken before any of the reads.
Begin(d) ==
  /\ Idle(d) /\ TurnFree
  /\ account[d] # None
  /\ job' = [job EXCEPT ![d] = [NoJob EXCEPT !.step = "dirty", !.user = account[d],
               !.at = Clock(d), !.since = cursor[d], !.dirty = dirty[d]]]
  /\ UNCHANGED <<serverVars, deck, dirty, tombs, cursor, account, held, stray, past>>

\* With a cursor only the cards of the dirty snapshot go up, else all of them.
ReadCards(d) ==
  /\ job[d].step = "dirty"
  /\ job' = [job EXCEPT ![d].step = "cards",
       ![d].cards = [id \in Id |-> IF job[d].since = None \/ job[d].dirty[id] # None
                                   THEN deck[d][id] ELSE None]]
  /\ UNCHANGED <<serverVars, deck, dirty, tombs, cursor, account, held, stray, past>>

ReadTombsAndSend(d) ==
  /\ job[d].step = "cards"
  /\ job' = [job EXCEPT ![d].step = "waiting", ![d].tombs = tombs[d]]
  /\ UNCHANGED <<serverVars, deck, dirty, tombs, cursor, account, held, stray, past>>

Sent(j) == {id \in Id : j.cards[id] # None \/ j.tombs[id] # None}

\* The server handles the request and the answer comes back.
Handle(d) ==
  \E j \in {job[d]} :
    /\ j.step = "waiting" /\ TurnFree
    /\ Sync(j.user, j.cards, j.tombs, {}, None)
    /\ \E answer \in {Response(j.user, j.since, Sent(j), {})'} :
         job' = [job EXCEPT ![d].step = "replied", ![d].answer = answer]
    /\ UNCHANGED <<deck, dirty, tombs, cursor, account, held, stray, past>>

\* Mutant: the cursor is stored first, so a crash skips the rows not applied.
MergeReadCursorFirst(d) ==
  /\ job[d].step = "replied" /\ TurnFree
  /\ job' = [job EXCEPT ![d].step = "merge",
       ![d].put = {id \in Id : CardApplies(job[d].answer.cards[id], deck[d][id],
                                           job[d].cards[id])}]
  /\ cursor' = [cursor EXCEPT ![d] = job[d].answer.cursor]
  /\ UNCHANGED <<serverVars, deck, dirty, tombs, account, held, stray, past>>

\* Read the local cards and pick which of the server's to write over them.
MergeRead(d) ==
  /\ job[d].step = "replied" /\ TurnFree
  /\ job' = [job EXCEPT ![d].step = "merge",
       ![d].put = {id \in Id : CardApplies(job[d].answer.cards[id], deck[d][id],
                                           job[d].cards[id])}]
  /\ UNCHANGED <<serverVars, deck, dirty, tombs, cursor, account, held, stray, past>>

MergePut(d) ==
  /\ job[d].step = "merge"
  /\ deck' = [deck EXCEPT ![d] = [id \in Id |->
               IF id \in job[d].put THEN job[d].answer.cards[id] ELSE @[id]]]
  /\ job' = [job EXCEPT ![d].step = "merged", ![d].put = {}]
  /\ UNCHANGED <<serverVars, dirty, tombs, cursor, account, held, stray, past>>

\* Read the local cards again and pick which of the server's deletes to replay.
DropRead(d) ==
  /\ job[d].step = "merged"
  /\ job' = [job EXCEPT ![d].step = "drop",
       ![d].drop = {id \in job[d].answer.deletions :
                      DeletionApplies(job[d].tombs[id] # None, deck[d][id], job[d].at)}]
  /\ UNCHANGED <<serverVars, deck, dirty, tombs, cursor, account, held, stray, past>>

DropWrite(d) ==
  /\ job[d].step = "drop"
  /\ deck' = [deck EXCEPT ![d] = [id \in Id |-> IF id \in job[d].drop THEN None ELSE @[id]]]
  /\ job' = [job EXCEPT ![d].step = "dropped", ![d].drop = {}]
  /\ UNCHANGED <<serverVars, dirty, tombs, cursor, account, held, stray, past>>

\* Tombstones are cleared by id, whatever their time is by now.
ClearTombs(d) ==
  /\ job[d].step = "dropped"
  /\ tombs' = [tombs EXCEPT ![d] = [id \in Id |-> IF job[d].tombs[id] # None THEN None ELSE @[id]]]
  /\ job' = [job EXCEPT ![d].step = "forwarded"]
  /\ UNCHANGED <<serverVars, deck, dirty, cursor, account, held, stray, past>>

\* Mutant: every entry of the snapshot goes, also of a card written since.
ClearDirtyById(d) ==
  /\ job[d].step = "forwarded"
  /\ dirty' = [dirty EXCEPT ![d] = [id \in Id |-> IF job[d].dirty[id] # None THEN None ELSE @[id]]]
  /\ job' = [job EXCEPT ![d].step = "clean"]
  /\ UNCHANGED <<serverVars, deck, tombs, cursor, account, held, stray, past>>

\* A dirty entry stays if its card was written since the snapshot.
ClearDirty(d) ==
  /\ job[d].step = "forwarded"
  /\ dirty' = [dirty EXCEPT ![d] = [id \in Id |-> IF @[id] = job[d].dirty[id] THEN None ELSE @[id]]]
  /\ job' = [job EXCEPT ![d].step = "clean"]
  /\ UNCHANGED <<serverVars, deck, tombs, cursor, account, held, stray, past>>

\* A full answer to a request with a cursor refuses it: the next upload is whole.
Refused(j) == j.since # None /\ j.answer.full

SetCursor(d) ==
  /\ job[d].step = "clean"
  /\ cursor' = [cursor EXCEPT ![d] = IF Refused(job[d]) THEN None ELSE job[d].answer.cursor]
  /\ job' = [job EXCEPT ![d] = NoJob]
  /\ UNCHANGED <<serverVars, deck, dirty, tombs, account, held, stray, past>>

\* A network error, a failed transaction or a crash ends the sync where it is.
\* A request already sent may still reach the server.
Abort(d) ==
  /\ d \in Flaky /\ ~Idle(d)
  /\ job' = [job EXCEPT ![d] = NoJob]
  /\ stray' \in {stray} \cup
       (IF job[d].step = "waiting"
        THEN {stray \cup {[user |-> job[d].user, cards |-> job[d].cards, tombs |-> job[d].tombs]}}
        ELSE {})
  /\ Cardinality(stray') <= MaxStray
  /\ UNCHANGED <<serverVars, deck, dirty, tombs, cursor, account, held, past>>

HandleStray(m) ==
  /\ TurnFree
  /\ Sync(m.user, m.cards, m.tombs, {}, None)
  /\ stray' = stray \ {m}
  /\ UNCHANGED <<deviceVars, past>>

-----------------------------------------------------------------------------
\* Time is the user's here: it passes with each write, and the order of writes
\* and requests is all the stamps can tell.
Maintenance ==
  TurnFree /\ (Restart \/ TakeBackup \/ Restore) /\ UNCHANGED <<deviceVars, stray, past>>

UserStep(d) ==
  \/ \E id \in Id : Add(d, id) \/ Edit(d, id) \/ Rate(d, id)
  \/ \E ids \in SUBSET Id : Delete(d, ids)
  \/ Load(d)
  \/ \E u \in User : SignIn(d, u)

SyncStep(d) ==
  \/ Begin(d) \/ ReadCards(d) \/ ReadTombsAndSend(d) \/ Handle(d)
  \/ MergeRead(d) \/ MergePut(d) \/ DropRead(d) \/ DropWrite(d)
  \/ ClearTombs(d) \/ ClearDirty(d) \/ SetCursor(d) \/ Abort(d)

DeckNext ==
  \/ \E d \in Device : UserStep(d) \/ SyncStep(d)
  \/ \E m \in stray : HandleStray(m)
  \/ Maintenance

DeckSpec == DeckInit /\ [][DeckNext]_vars

-----------------------------------------------------------------------------
(* Properties.                                                             *)

Served(d, id) == table[account[d]][id]

\* The device's cursor will be honoured by the next request of its account.
Usable(d) ==
  /\ account[d] # None
  /\ CanServeDelta(cursor[d], account[d], epoch, rev + 1, prunedRev)

Settled(d, id) == Idle(d) /\ dirty[d][id] = None /\ tombs[d][id] = None

\* The device kept its copy of a word against another life of it: the server
\* deleted the word in between, and so took a re-add for new whatever its version.
KeptOldLife(id, mine, card) ==
  past[id].deleted # None /\ mine # None /\ VersionMs(mine) > card.updated

\* No row is lost on its way: a settled word whose row the cursor covers shows
\* the server's copy. Left out is a deleted word that came back on the server while
\* the device edited its former life: there the two merge rules disagree
\* (app/shared/src/sync.rs:250).
CardsArrive ==
  \A d \in Device : Usable(d) => \A id \in Id :
    LET card == Served(d, id).card
    IN /\ Settled(d, id) /\ card # None /\ card.rev <= cursor[d].rev
       /\ ~KeptOldLife(id, deck[d][id], card)
       => deck[d][id] = Wire(card)

\* A delete the server reports is replayed, except on a word it has not ruled on
\* yet (extension/src/background/idb.ts:516): a settled word whose tombstone the
\* cursor covers is not on the device. Left out are devices whose syncs are cut
\* short, where a tombstone already answered can stand (README, section 6).
DeletesArrive ==
  \A d \in Device \ Flaky : Usable(d) => \A id \in Id :
    LET row == Served(d, id)
    IN /\ Settled(d, id) /\ row.card = None
       /\ row.tomb = None \/ row.tomb.rev <= cursor[d].rev
       => deck[d][id] = None

\* Between syncs, what a device shows of a word it has no unsent change to is
\* what the server holds, up to rows newer than its cursor: across edits made
\* mid-sync, dropped answers, requests handled late, sign-ins and restores.
CleanCopiesMatch == CardsArrive /\ DeletesArrive

\* A clean card is never newer than the server's copy of it, or it would refuse
\* every other device's edits until it is edited again (idb.ts:561): no local
\* edit is taken for uploaded when it was not, and a fast clock's stamp is
\* replaced by the server's ruling. A word deleted and added again has two lives
\* whose versions say nothing of each other: see KeptOldLife.
CleanIsNotAhead ==
  \A d \in Device : Usable(d) => \A id \in Id :
    LET card == Served(d, id).card
    IN /\ Settled(d, id) /\ deck[d][id] # None /\ card # None
       /\ past[id].deleted = None
       => VersionMs(deck[d][id]) <= card.updated

\* A card written after the upload was read, so neither uploaded nor ruled on.
Unsent(d, id) ==
  /\ deck[d][id] # None /\ dirty[d][id] # None
  /\ ~Idle(d) /\ dirty[d][id] # job[d].dirty[id]

Survives(d, id) ==
  IF deck'[d][id] = None THEN deck[d][id].added <= job[d].at
  ELSE VersionMs(deck'[d][id]) >= VersionMs(deck[d][id])

\* Applying an answer never takes away what the user did while it was on its way:
\* a newer write is not replaced by an older one and an added word not dropped.
LocalWritesSurvive ==
  [][\A d \in Device \ Yielding, id \in Id :
       Unsent(d, id) /\ now' = now => Survives(d, id)]_vars

\* All devices have told the server of their deletes.
DeletesForwarded(id) == stray = {} /\ \A d \in Device : Idle(d) /\ tombs[d][id] = None

\* A word deleted after it was last added is gone for good once every device has
\* synced its deletes: no stale replica, re-sent request or full upload of a
\* device that was offline brings it back.
DeletesStick ==
  \A id \in Id :
    /\ past[id].deleted # None /\ past[id].added < past[id].deleted
    /\ DeletesForwarded(id)
    => \A d \in Device : account[d] # None =>
         /\ Served(d, id).card = None
         /\ cursor[d] # None /\ cursor[d].rev = rev /\ Settled(d, id) => deck[d][id] = None
=============================================================================
