----------------------------- MODULE SyncServer -----------------------------
(***************************************************************************)
(* The sync server: POST /api/sync (server/src/api/sync.rs) over its       *)
(* tables (server/src/db), the tombstone pruning of a restart and the      *)
(* backup / restore procedure that rotates the epoch.                      *)
(*                                                                         *)
(* A sync is one SQLite transaction whose first statement takes the write  *)
(* lock, so it is one action here. Authentication and rate limiting are in *)
(* front of it: a request they refuse changes nothing and is no action.    *)
(***************************************************************************)
EXTENDS SyncRules

CONSTANTS User,        \* accounts
          Id,          \* card ids
          ClientCard,  \* the cards a client may send
          DeleteTime,  \* what a client may send as the time of a delete
          Answer,      \* review-log rows a client can send, see AnswerShape
          Knobs,       \* contents of a scheduler-settings payload
          Retention,   \* how long a restart keeps a tombstone (90 days)
          MaxNow,      \* bound on the server's clock
          MaxRev,      \* bound on the revisions taken
          MaxEpoch,    \* bound on the epochs a restore can rotate through
          Rotates      \* whether the operator rotates the epoch after a restore

\* An answer is identified by (kind, card, ms); `kind` may be malformed.
AnswerShape == [card: Id, ms: Stamp, kind: {"review", "drill", "malformed"}]

Settings == [knobs: Knobs, updated: Stamp]

ASSUME ServerAssumption ==
  /\ Answer \subseteq AnswerShape
  /\ ClientCard \subseteq Card
  /\ DeleteTime \subseteq Int
  /\ Retention \in Nat
  /\ MaxNow \in Nat /\ MaxRev \in Nat /\ MaxEpoch \in Nat
  /\ Rotates \in BOOLEAN
  /\ None \notin Settings

VARIABLES
  now,         \* the server's wall clock
  epoch,       \* sync_meta.epoch: names the sequence of revisions
  rev,         \* sync_meta.rev: the last revision handed out
  prunedRev,   \* sync_meta.pruned_rev: the newest revision of a pruned tombstone
  table,       \* tables `cards` and `deletions`, side by side per user and id
  log,         \* table `reviews`: the revision each stored answer came with
  prefs,       \* table `settings`
  backup       \* the last copy of the database file taken, or None

tables == <<table, log, prefs>>
meta == <<epoch, rev, prunedRev>>
serverVars == <<now, meta, tables, backup>>

Cursor == [epoch: Nat, user: User, rev: Nat]

Database ==
  [rev: Nat, prunedRev: Nat, table: [User -> [Id -> Row]],
   log: [User -> [Answer -> Nat \cup {None}]], prefs: [User -> Settings \cup {None}]]

TypeOK ==
  /\ now \in Nat
  /\ epoch \in Nat /\ rev \in Nat /\ prunedRev \in Nat
  /\ table \in [User -> [Id -> Row]]
  /\ log \in [User -> [Answer -> Nat \cup {None}]]
  /\ prefs \in [User -> Settings \cup {None}]
  /\ backup \in Database \cup {None}

Init ==
  /\ now = 1
  /\ epoch = 0 /\ rev = 0 /\ prunedRev = 0
  /\ table = [u \in User |-> [id \in Id |-> EmptyRow]]
  /\ log = [u \in User |-> [a \in Answer |-> None]]
  /\ prefs = [u \in User |-> None]
  /\ backup = None

-----------------------------------------------------------------------------
(* The sync request. Its lists are functions of the id, None where the id  *)
(* is not in the list: the device stores they are read from are keyed by   *)
(* id. `settings` is None from a client that never edited its own.         *)

ValidAnswers(answers) == {a \in answers : a.kind # "malformed"}

\* INSERT OR IGNORE: a stored row keeps the revision it came with.
InsertReviews(stored, answers, r) ==
  [a \in Answer |-> IF stored[a] = None /\ a \in ValidAnswers(answers) THEN r ELSE stored[a]]

Sync(u, cards, deletions, answers, settings) ==
  /\ rev < MaxRev
  /\ rev' = rev + 1
  /\ table' = [table EXCEPT ![u] =
       [id \in Id |-> MergeRow(table[u][id], deletions[id], cards[id], now, rev + 1)]]
  /\ log' = [log EXCEPT ![u] = InsertReviews(log[u], answers, rev + 1)]
  /\ prefs' = [prefs EXCEPT ![u] = UpsertSettings(prefs[u], settings)]
  /\ UNCHANGED <<now, epoch, prunedRev, backup>>

-----------------------------------------------------------------------------
(* The answer, read inside the same transaction: evaluated in the state    *)
(* Sync leads to. `sent` are the ids of the request's cards and deletions. *)

Drills(u, id) == {a \in Answer : a.kind = "drill" /\ a.card = id /\ log[u][a] # None}

\* Mutant: the delta form only counts the answers this request carried.
CountedEchoOnly(u, id, since, delta, answers) ==
  Drills(u, id) # {} /\ (~delta \/ \E a \in answers : a.card = id)

\* get_drill_counts names drilled cards only; the delta form keeps those
\* logged after the cursor and those whose answers this request carried.
Counted(u, id, since, delta, answers) ==
  /\ Drills(u, id) # {}
  /\ \/ ~delta
     \/ \E a \in Drills(u, id) : log[u][a] > since.rev
     \/ \E a \in answers : a.card = id

Response(u, since, sent, answers) ==
  LET delta == CanServeDelta(since, u, epoch, rev, prunedRev)
  IN [cards |-> [id \in Id |->
                   IF Returned(table[u][id].card, since, delta, id \in sent)
                   THEN Wire(table[u][id].card) ELSE None],
      deletions |-> {id \in Id : Returned(table[u][id].tomb, since, delta, id \in sent)},
      counts |-> [id \in {i \in Id : Counted(u, i, since, delta, answers)} |->
                    Cardinality(Drills(u, id))],
      settings |-> prefs[u],
      cursor |-> [epoch |-> epoch, user |-> u, rev |-> rev],
      full |-> ~delta]

-----------------------------------------------------------------------------
(* The server's own steps.                                                 *)

Tick ==
  /\ now < MaxNow
  /\ now' = now + 1
  /\ UNCHANGED <<meta, tables, backup>>

Prunable(row) == row.tomb # None /\ row.tomb.at < now - Retention

PrunableRevs == {table[p[1]][p[2]].tomb.rev :
                   p \in {q \in User \X Id : Prunable(table[q[1]][q[2]])}}

\* A restart prunes old tombstones and records the newest revision it removed.
Restart ==
  /\ PrunableRevs # {}
  /\ prunedRev' \in PrunableRevs \cup {prunedRev}
  /\ \A r \in PrunableRevs \cup {prunedRev} : r <= prunedRev'
  /\ table' = [u \in User |-> [id \in Id |->
                IF Prunable(table[u][id]) THEN [table[u][id] EXCEPT !.tomb = None]
                ELSE table[u][id]]]
  /\ UNCHANGED <<now, epoch, rev, log, prefs, backup>>

TakeBackup ==
  /\ epoch < MaxEpoch
  /\ backup' = [rev |-> rev, prunedRev |-> prunedRev,
                table |-> table, log |-> log, prefs |-> prefs]
  /\ UNCHANGED <<now, meta, tables>>

\* The operator puts the file back. deploy.sh says to rotate the epoch then;
\* the commands of DEPLOY.md do not.
Restore ==
  /\ backup # None
  /\ Rotates => epoch < MaxEpoch
  /\ epoch' = IF Rotates THEN epoch + 1 ELSE epoch
  /\ rev' = backup.rev /\ prunedRev' = backup.prunedRev
  /\ table' = backup.table /\ log' = backup.log /\ prefs' = backup.prefs
  /\ UNCHANGED <<now, backup>>

Housekeeping == Tick \/ Restart \/ TakeBackup \/ Restore

\* Any authenticated client may send any request.
CardList == [Id -> ClientCard \cup {None}]
DeletionList == [Id -> DeleteTime \cup {None}]

AnyRequest ==
  \E u \in User, cards \in CardList, deletions \in DeletionList,
     answers \in SUBSET Answer, settings \in Settings \cup {None} :
       Sync(u, cards, deletions, answers, settings)

Next == AnyRequest \/ Housekeeping

Spec == Init /\ [][Next]_serverVars

-----------------------------------------------------------------------------
(* Properties. Those about steps leave out a restore, which brings back an *)
(* older database by design.                                               *)

\* A deleted id and a live one are never the same id: the delete guard and the
\* re-add guard always agree on which of the two stands.
CardOrTombstone ==
  \A u \in User, id \in Id : table[u][id].card = None \/ table[u][id].tomb = None

\* No row, log entry or pruned tombstone is stamped past the clock, so the next
\* revision is later than anything a cursor handed out so far can have missed.
RevsBehindClock ==
  /\ prunedRev <= rev
  /\ \A u \in User :
       /\ \A id \in Id : /\ table[u][id].card # None => table[u][id].card.rev <= rev
                         /\ table[u][id].tomb # None => table[u][id].tomb.rev <= rev
       /\ \A a \in Answer : log[u][a] # None => log[u][a] <= rev

\* Client clocks never put a merge version or a delete time ahead of the
\* server's: a fast device cannot win every merge until time catches up.
NothingFromTheFuture ==
  \A u \in User, id \in Id :
    /\ table[u][id].card # None => table[u][id].card.updated <= now
    /\ table[u][id].tomb # None => table[u][id].tomb.at <= now

\* What RevsBehindClock and the others rest on: the same facts of the live tables
\* and of the copy a restore would bring back.
RowSound(row, clock, r) ==
  /\ row.card = None \/ row.tomb = None
  /\ row.card # None => row.card.rev <= r /\ row.card.updated <= clock
  /\ row.tomb # None => row.tomb.rev <= r /\ row.tomb.at <= clock

DatabaseSound(tbl, lg, r, p) ==
  /\ p <= r
  /\ \A u \in User, id \in Id : RowSound(tbl[u][id], now, r)
  /\ \A u \in User, a \in Answer : lg[u][a] # None => lg[u][a] <= r

IndInv ==
  /\ TypeOK
  /\ DatabaseSound(table, log, rev, prunedRev)
  /\ backup # None =>
       DatabaseSound(backup.table, backup.log, backup.rev, backup.prunedRev)

\* A standing tombstone is never moved later by a device re-sending its delete,
\* so it cannot come to outrank a re-add that followed the first delete.
DeleteTimeNeverMovesLater ==
  [][~Restore =>
       \A u \in User, id \in Id :
         table[u][id].tomb # None /\ table'[u][id].tomb # None
           => table'[u][id].tomb.at <= table[u][id].tomb.at]_serverVars

\* A stored card is only ever replaced by a version at least as new, or by a
\* genuine re-add of the same word: a request that both deletes and re-adds it
\* cannot be used to roll it back.
NoRollback ==
  [][~Restore =>
       \A u \in User, id \in Id :
         table[u][id].card # None /\ table'[u][id].card # None
           => \/ table'[u][id].card.updated >= table[u][id].card.updated
              \/ table'[u][id].card.added > table[u][id].card.added]_serverVars

Content(row) ==
  [card |-> IF row.card = None THEN None ELSE Wire(row.card),
   tomb |-> IF row.tomb = None THEN None ELSE row.tomb.at]

\* A client that never saw the answer sends the same request again: the second
\* time it leaves the row as the first left it. Left out are stamps ahead of the
\* server's clock, cut to a later now each time, and a card older than the delete
\* sent with it: a device that holds both has re-added the word since.
RetryChangesNothing ==
  \A u \in User, id \in Id, del \in DeleteTime \cup {None},
     c \in {x \in ClientCard : VersionMs(x) <= now} \cup {None} :
    /\ del = None \/ del \in 0..now
    /\ del = None \/ c = None \/ c.added > del
    =>
       LET once == MergeRow(table[u][id], del, c, now, rev + 1)
           twice == MergeRow(once, del, c, now, rev + 2)
       IN Content(twice) = Content(once)
=============================================================================
