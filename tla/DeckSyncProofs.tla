--------------------------- MODULE DeckSyncProofs ---------------------------
(***************************************************************************)
(* Theorems about devices syncing a deck, for any number of devices and    *)
(* accounts, any clocks, and with requests handled late, syncs cut short,  *)
(* sign-ins, pruning and restores in between.                              *)
(*                                                                         *)
(* Every action is first brought down to what it does to one device and    *)
(* one id; five inductive invariants then rest on those facts: the types,  *)
(* the deck of a device whose turns are not interrupted, what a cursor     *)
(* stands for, with clocks that agree what it says of deletes, and, with   *)
(* clocks in step, what becomes of a word that is not added again.         *)
(***************************************************************************)
EXTENDS DeckSync, SyncServerProofs

USE NoneAssumption, StampAssumption

-----------------------------------------------------------------------------
(* Types.                                                                  *)

Copy == [added: Stamp, reviewed: {0}, updated: Stamp \ {0}]
Copies == [Id -> Copy \cup {None}]
Times == [Id -> Stamp \cup {None}]

Early == {"dirty", "cards", "waiting", "replied", "merge"}
Late == {"merged", "drop", "dropped", "forwarded", "clean"}
Answered == {"replied", "merge"} \cup Late

ReplyFits(a, u) ==
  /\ a.cards \in Copies /\ a.deletions \subseteq Id
  /\ a.cursor \in Cursor /\ a.cursor.user = u
  /\ a.full \in BOOLEAN

Steps == {"idle"} \cup Early \cup Late

\* A job is a record of its fields; what came back is looked at only once it has.
JobFits(j) ==
  /\ j \in [step: Steps, user: User \cup {None}, at: Int, since: Cursor \cup {None},
            dirty: Times, cards: Copies, tombs: Times, answer: {j.answer},
            put: SUBSET Id, drop: SUBSET Id]
  /\ j.step # "idle" => j.user \in User
  /\ j.step \in Answered => ReplyFits(j.answer, j.user)

\* The server only ever holds cards these clients write.
CardsFit(tbl) ==
  \A u \in User, id \in Id : tbl[u][id].card # None => Wire(tbl[u][id].card) \in Copy

DevicesFit ==
  /\ deck \in [Device -> Copies] /\ held \in [Device -> Copies]
  /\ dirty \in [Device -> Times] /\ tombs \in [Device -> Times]
  /\ cursor \in [Device -> Cursor \cup {None}]
  /\ account \in [Device -> User \cup {None}]
  /\ DOMAIN job = Device /\ \A d \in Device : JobFits(job[d])

StraysFit == \A m \in stray : m.user \in User /\ m.cards \in Copies /\ m.tombs \in Times

PastFits == past \in [Id -> [added: Nat, deleted: Nat \cup {None}]]

ServerFits ==
  /\ IndInv /\ now \in 1..MaxNow
  /\ CardsFit(table) /\ (backup # None => CardsFit(backup.table))

DeckTypeInv == ServerFits /\ DevicesFit /\ StraysFit /\ PastFits

\* A card these clients write may be sent, and its merge version is its stamp.
LEMMA CopyFacts ==
  ASSUME NEW c \in Copy
  PROVE  /\ c \in Card /\ c \in ClientCard /\ c # None
         /\ c.added \in Nat /\ c.updated \in Nat /\ c.updated > 0
         /\ VersionMs(c) = c.updated
<1>1. /\ c = [added |-> c.added, reviewed |-> 0, updated |-> c.updated]
      /\ c.added \in Stamp /\ c.updated \in Stamp /\ c.updated # 0
  BY DEF Copy
<1>2. c.added \in Nat /\ c.updated \in Nat /\ c.updated > 0
  BY <1>1
<1>3. c \in [added: Stamp, reviewed: {0}, updated: Stamp]
  BY DEF Copy
<1>4. c \in ClientCard /\ ClientCard \subseteq Card
  BY <1>3, ClockAssumption, ServerAssumption
<1>5. QED BY <1>2, <1>4 DEF VersionMs

\* What they send are lists the server accepts.
LEMMA RequestsFit ==
  /\ Copies \subseteq CardList /\ Times \subseteq DeletionList
  /\ {} \in SUBSET Answer /\ None \in Settings \cup {None}
<1>1. Copies \subseteq CardList
  BY CopyFacts DEF Copies, CardList
<1>2. Times \subseteq DeletionList
  BY ClockAssumption DEF Times, DeletionList
<1>3. QED BY <1>1, <1>2

LEMMA NoJobFits == JobFits(NoJob) /\ NoJob.step = "idle"
BY DEF NoJob, JobFits, Nothing, Times, Copies, Steps, Early, Late, Answered

\* A row holds such a card after a request if it and the request did before.
LEMMA RequestKeepsCopies ==
  ASSUME NEW row \in Row, NEW del \in Int \cup {None}, NEW c \in Copy \cup {None},
         NEW clock \in 1..MaxNow, NEW r \in Nat, RowSound(row, clock, r),
         row.card # None => Wire(row.card) \in Copy,
         NEW new, new = MergeRow(row, del, c, clock, r + 1), new.card # None
  PROVE  Wire(new.card) \in Copy
<1> DEFINE mid == ApplyDeletion(row, del, clock, r + 1)
<1>0. clock \in Nat /\ c \in Card \cup {None}
  BY CopyFacts
<1>1. mid \in Row /\ new = UpsertCard(mid, c, clock, r + 1)
  BY <1>0, DeletionKeepsRow DEF MergeRow
<1>2. mid.card # None => mid = row
  BY <1>0, DeletionCases
<1> HIDE DEF mid
<1>3. \/ new = mid
      \/ /\ c # None
         /\ IF Wins(mid, c, clock) THEN new.card = Stamped(c, clock, r + 1)
                                   ELSE mid.card # None /\ new.card = mid.card
  BY <1>0, <1>1, UpsertCases
<1>4. CASE new.card = mid.card
  BY <1>2, <1>4
<1>5. CASE c # None /\ new.card = Stamped(c, clock, r + 1)
  <2>1. c \in Copy /\ VersionMs(c) = c.updated /\ c.updated \in Stamp \ {0} /\ c.reviewed = 0
        /\ c.added \in Stamp
    BY <1>5, CopyFacts DEF Copy
  <2>2. NormalizeVersion(c, clock) \in Stamp \ {0}
    <3>1. clock \in Stamp \ {0}
      BY ClockAssumption
    <3>2. QED BY <2>1, <3>1 DEF NormalizeVersion
  <2>3. new.card = [added |-> c.added, reviewed |-> 0,
                    updated |-> NormalizeVersion(c, clock), rev |-> r + 1]
    BY <1>5, <2>1 DEF Stamped
  <2>4. QED BY <2>1, <2>2, <2>3 DEF Wire, Copy
<1>6. QED BY <1>3, <1>4, <1>5

-----------------------------------------------------------------------------
(* What the steps do to the server.                                        *)

LEMMA SyncFits ==
  ASSUME ServerFits, NEW u \in User, NEW cards \in Copies, NEW dels \in Times,
         Sync(u, cards, dels, {}, None)
  PROVE  /\ ServerFits'
         /\ now' = now /\ epoch' = epoch /\ rev \in Nat /\ rev' = rev + 1
         /\ prunedRev' = prunedRev
         /\ \A id \in Id : table'[u][id] = MergeRow(table[u][id], dels[id], cards[id], now, rev + 1)
         /\ \A v \in User \ {u} : table'[v] = table[v]
<1>1. IndInv'
  BY RequestsFit, SyncKeepsSound DEF ServerFits
<1>2. /\ now' = now /\ epoch' = epoch /\ rev \in Nat /\ rev' = rev + 1
      /\ prunedRev' = prunedRev /\ backup' = backup
      /\ \A id \in Id : table'[u][id] = MergeRow(table[u][id], dels[id], cards[id], now, rev + 1)
      /\ \A v \in User \ {u} : table'[v] = table[v]
  BY DEF Sync, ServerFits, IndInv, TypeOK
<1>3. ASSUME NEW v \in User, NEW id \in Id, table'[v][id].card # None
      PROVE  Wire(table'[v][id].card) \in Copy
  <2>1. /\ table[v][id] \in Row /\ RowSound(table[v][id], now, rev)
        /\ table[v][id].card # None => Wire(table[v][id].card) \in Copy
    BY DEF ServerFits, IndInv, TypeOK, DatabaseSound, CardsFit
  <2>2. CASE v = u
    <3> DEFINE row == table[v][id]
               del == dels[id]
               c == cards[id]
               new == table'[v][id]
    <3>1. c \in Copy \cup {None}
      BY DEF Copies
    <3>2. del \in Int \cup {None}
      <4>1. del \in Stamp \cup {None}
        BY DEF Times
      <4> HIDE DEF del
      <4>2. QED BY <4>1
    <3>3. now \in 1..MaxNow
      BY DEF ServerFits
    <3>4. new = MergeRow(row, del, c, now, rev + 1)
      BY <1>2, <2>2
    <3>5. /\ row \in Row /\ RowSound(row, now, rev) /\ new.card # None
          /\ row.card # None => Wire(row.card) \in Copy
      BY <1>3, <2>1
    <3> HIDE DEF row, del, c, new
    <3>6. Wire(new.card) \in Copy
      BY <1>2, <3>1, <3>2, <3>3, <3>4, <3>5, RequestKeepsCopies
    <3>7. QED BY <3>6 DEF new
  <2>3. CASE v # u
    BY <1>2, <1>3, <2>1, <2>3
  <2>4. QED BY <2>2, <2>3
<1>4. QED BY <1>1, <1>2, <1>3 DEF ServerFits, CardsFit

LEMMA OperatorFits ==
  ASSUME ServerFits, Restart \/ TakeBackup \/ Restore
  PROVE  ServerFits' /\ now' = now
<1>1. IndInv'
  BY RestartKeepsSound, BackupKeepsSound DEF ServerFits
<1>2. CASE Restart
  <2>1. \A u \in User, id \in Id : table'[u][id].card = table[u][id].card
    BY <1>2 DEF Restart, Prunable, ServerFits, IndInv, TypeOK, Row
  <2>2. now' = now /\ backup' = backup
    BY <1>2 DEF Restart
  <2>3. QED BY <1>1, <2>1, <2>2 DEF ServerFits, CardsFit
<1>3. CASE TakeBackup
  <2>1. now' = now /\ table' = table /\ backup'.table = table
    BY <1>3 DEF TakeBackup, tables
  <2>2. QED BY <1>1, <2>1 DEF ServerFits, CardsFit
<1>4. CASE Restore
  <2>1. now' = now /\ backup # None /\ backup' = backup /\ table' = backup.table
    BY <1>4 DEF Restore
  <2>2. QED BY <1>1, <2>1 DEF ServerFits, CardsFit
<1>5. QED BY <1>2, <1>3, <1>4

\* A write of the user is a tick of the clock.
LEMMA UserTurnFits ==
  ASSUME ServerFits, UserTurn, UNCHANGED <<meta, tables, backup>>
  PROVE  ServerFits' /\ now' = now + 1 /\ now' \in 1..MaxNow
<1>1. now < MaxNow /\ now' = now + 1
  BY DEF UserTurn
<1>2. IndInv'
  BY <1>1, TickKeepsSound DEF ServerFits, Tick
<1>3. now' \in 1..MaxNow
  BY <1>1, ServerAssumption DEF ServerFits
<1>4. QED BY <1>1, <1>2, <1>3 DEF ServerFits, CardsFit, tables

LEMMA ServerStays ==
  ASSUME ServerFits, UNCHANGED serverVars
  PROVE  ServerFits'
<1>1. IndInv'
  BY StepKeepsSound DEF ServerFits
<1>2. QED BY <1>1 DEF ServerFits, CardsFit, serverVars, tables

-----------------------------------------------------------------------------
(* What the steps do to a device.                                          *)

Same(d) ==
  /\ deck'[d] = deck[d] /\ dirty'[d] = dirty[d] /\ tombs'[d] = tombs[d]
  /\ cursor'[d] = cursor[d] /\ account'[d] = account[d] /\ held'[d] = held[d]
  /\ job'[d] = job[d]

Others(d) == \A e \in Device \ {d} : Same(e)

\* A step of a sync that has not to do with the server moves the job on.
JobStep(d, j) ==
  /\ UNCHANGED <<serverVars, past>>
  /\ job' = [job EXCEPT ![d] = j]
  /\ stray' = stray /\ account' = account /\ held' = held

\* A clock shows a time a client can write, and later at every turn of the user.
LEMMA ClockFacts ==
  ASSUME ServerFits, NEW d \in Device
  PROVE  /\ Clock(d) \in Stamp \ {0} /\ Clock(d) \in Nat /\ Clock(d) = now + Skew[d]
         /\ now \in Nat /\ Skew[d] \in Int
         /\ now' \in Nat => Clock(d)' = now' + Skew[d]
         /\ now' = now + 1 => Clock(d)' = Clock(d) + 1
<1>1. now \in 1..MaxNow /\ Skew[d] \in Int
  BY DeviceAssumption DEF ServerFits
<1>2. now + Skew[d] \in Stamp \ {0}
  BY <1>1, ClockAssumption
<1>3. QED BY <1>1, <1>2 DEF Clock

\* The user writes one card of a device: adds it, edits it, or rates the copy a
\* review session kept.
Writes(d, id) ==
  /\ TurnFree /\ now' = now + 1
  /\ UNCHANGED <<meta, tables, backup, stray>>
  /\ Others(d)
  /\ tombs'[d] = tombs[d] /\ cursor'[d] = cursor[d]
  /\ account'[d] = account[d] /\ job'[d] = job[d]
  /\ deck'[d][id] # None /\ deck'[d][id].updated = Clock(d)' /\ dirty'[d][id] = Clock(d)'
  /\ \/ deck'[d][id].added = Clock(d)' /\ past'[id].added = now'
     \/ deck[d][id] # None /\ deck'[d][id].added = deck[d][id].added
     \/ held[d][id] # None /\ deck'[d][id].added = held[d][id].added
  /\ \A i \in Id : past'[i].added \in {past[i].added, IF i = id THEN now' ELSE past[i].added}
  /\ \A i \in Id \ {id} : deck'[d][i] = deck[d][i] /\ dirty'[d][i] = dirty[d][i]
  /\ \A i \in Id : held'[d][i] \in {held[d][i], None}
  /\ \A i \in Id : past'[i].deleted = past[i].deleted

LEMMA WriteFacts ==
  ASSUME DeckTypeInv, NEW d \in Device, NEW id \in Id,
         Add(d, id) \/ Edit(d, id) \/ Rate(d, id)
  PROVE  DeckTypeInv' /\ Writes(d, id)
<1>1. PICK card :
        /\ Write(d, id, card)
        /\ \/ /\ card = [added |-> Clock(d)', reviewed |-> 0, updated |-> 0]
              /\ past' = [past EXCEPT ![id].added = now']
           \/ card \in {deck[d][id], held[d][id]} /\ card # None
  BY DEF Add, Edit, Rate
<1>2. /\ UserTurn /\ UNCHANGED <<meta, tables, backup, stray, tombs, cursor, account, job>>
      /\ held' = held \/ held' = [held EXCEPT ![d][id] = None]
      /\ past' = past \/ past' = [past EXCEPT ![id].added = now']
  BY DEF Add, Edit, Rate
<1>3. ServerFits' /\ now' = now + 1 /\ now' \in 1..MaxNow
  BY <1>2, UserTurnFits DEF DeckTypeInv
<1>4. Clock(d)' \in Stamp \ {0}
  <2>1. Clock(d)' = now' + Skew[d]
    BY DEF Clock
  <2>2. QED BY <1>3, <2>1, ClockAssumption
<1> DEFINE t == Clock(d)'
           new == [card EXCEPT !.updated = t]
<1>5. deck[d] \in Copies /\ held[d] \in Copies /\ dirty[d] \in Times
  BY DEF DeckTypeInv, DevicesFit
<1>6. /\ new \in Copy /\ new.updated = t
      /\ \/ new.added = t /\ past' = [past EXCEPT ![id].added = now']
         \/ deck[d][id] # None /\ new.added = deck[d][id].added
         \/ held[d][id] # None /\ new.added = held[d][id].added
  <2> HIDE DEF t
  <2>1. CASE /\ card = [added |-> t, reviewed |-> 0, updated |-> 0]
             /\ past' = [past EXCEPT ![id].added = now']
    BY <1>4, <2>1 DEF Copy, t
  <2>2. CASE card \in {deck[d][id], held[d][id]} /\ card # None
    <3>1. card \in Copy
      BY <1>5, <2>2 DEF Copies
    <3>2. card = [added |-> card.added, reviewed |-> 0, updated |-> card.updated]
          /\ card.added \in Stamp
      BY <3>1 DEF Copy
    <3>3. new = [added |-> card.added, reviewed |-> 0, updated |-> t]
      BY <3>2
    <3>4. QED BY <1>4, <2>2, <3>2, <3>3 DEF Copy, t
  <2>3. QED BY <1>1, <2>1, <2>2 DEF t
<1>7. /\ deck' = [deck EXCEPT ![d][id] = new]
      /\ dirty' = [dirty EXCEPT ![d][id] = t]
  BY <1>1 DEF Write
<1> HIDE DEF t, new
<1>8. /\ deck' \in [Device -> Copies] /\ dirty' \in [Device -> Times]
      /\ held' \in [Device -> Copies]
  <2>1. t \in Stamp
    BY <1>4 DEF t
  <2>2. /\ [deck[d] EXCEPT ![id] = new] \in Copies
        /\ [held[d] EXCEPT ![id] = None] \in Copies
        /\ [dirty[d] EXCEPT ![id] = t] \in Times
    BY <1>5, <1>6, <2>1 DEF Copies, Times
  <2>3. QED BY <1>2, <1>7, <2>2 DEF DeckTypeInv, DevicesFit
<1>9. /\ deck'[d][id] = new /\ dirty'[d][id] = t
      /\ \A i \in Id \ {id} : deck'[d][i] = deck[d][i] /\ dirty'[d][i] = dirty[d][i]
      /\ \A i \in Id : held'[d][i] \in {held[d][i], None}
      /\ \A e \in Device \ {d} : deck'[e] = deck[e] /\ dirty'[e] = dirty[e] /\ held'[e] = held[e]
  BY <1>2, <1>7 DEF DeckTypeInv, DevicesFit, Copies, Times
<1>10. /\ PastFits' /\ \A i \in Id : past'[i].deleted = past[i].deleted
       /\ \A i \in Id : past'[i].added \in {past[i].added, IF i = id THEN now' ELSE past[i].added}
       /\ past' = [past EXCEPT ![id].added = now'] => past'[id].added = now'
  BY <1>2, <1>3 DEF DeckTypeInv, PastFits
<1>11. DevicesFit' /\ StraysFit'
  BY <1>2, <1>8 DEF DeckTypeInv, DevicesFit, StraysFit
<1>12. DeckTypeInv'
  BY <1>3, <1>10, <1>11 DEF DeckTypeInv
<1>13. new # None
  BY <1>6, CopyFacts
<1>14. Others(d)
  BY <1>2, <1>9 DEF Others, Same
<1>15. QED BY <1>2, <1>3, <1>6, <1>9, <1>10, <1>12, <1>13, <1>14 DEF Writes, UserTurn, t

\* The user deletes words of a device.
Deletes(d, ids) ==
  /\ TurnFree /\ now' = now + 1
  /\ DeletesMidSync \/ Idle(d)
  /\ UNCHANGED <<meta, tables, backup, stray>>
  /\ Others(d)
  /\ dirty'[d] = dirty[d] /\ cursor'[d] = cursor[d]
  /\ account'[d] = account[d] /\ job'[d] = job[d]
  /\ \A i \in Id : /\ deck'[d][i] = IF i \in ids THEN None ELSE deck[d][i]
                   /\ tombs'[d][i] = IF i \in ids THEN Clock(d)' ELSE tombs[d][i]
                   /\ held'[d][i] = None
                   /\ past'[i].deleted = IF i \in ids /\ past[i].deleted = None THEN now'
                                         ELSE past[i].deleted
                   /\ past'[i].added = past[i].added

LEMMA DeleteFacts ==
  ASSUME DeckTypeInv, NEW d \in Device, NEW ids \in SUBSET Id, Delete(d, ids)
  PROVE  DeckTypeInv' /\ Deletes(d, ids)
<1>1. /\ UserTurn /\ UNCHANGED <<meta, tables, backup, stray, dirty, cursor, account, job>>
      /\ DeletesMidSync \/ Idle(d)
  BY DEF Delete
<1>2. ServerFits' /\ now' = now + 1 /\ now' \in 1..MaxNow
  BY <1>1, UserTurnFits DEF DeckTypeInv
<1>3. Clock(d)' \in Stamp
  <2>1. Clock(d)' = now' + Skew[d]
    BY DEF Clock
  <2>2. QED BY <1>2, <2>1, ClockAssumption
<1> DEFINE t == Clock(d)'
           mine == [id \in Id |-> IF id \in ids THEN None ELSE deck[d][id]]
           graves == [id \in Id |-> IF id \in ids THEN t ELSE tombs[d][id]]
<1>4. mine \in Copies /\ graves \in Times /\ Nothing \in Copies
  <2>1. deck[d] \in Copies /\ tombs[d] \in Times
    BY DEF DeckTypeInv, DevicesFit
  <2>2. QED BY <1>3, <2>1 DEF Copies, Times, Nothing
<1>5. /\ deck' = [deck EXCEPT ![d] = mine]
      /\ tombs' = [tombs EXCEPT ![d] = graves]
      /\ held' = [held EXCEPT ![d] = Nothing]
      /\ past' = [id \in Id |-> IF id \in ids /\ past[id].deleted = None
                                THEN [past[id] EXCEPT !.deleted = now'] ELSE past[id]]
  BY DEF Delete, DeckTypeInv, DevicesFit
<1>6. /\ \A i \in Id : /\ mine[i] = IF i \in ids THEN None ELSE deck[d][i]
                       /\ graves[i] = IF i \in ids THEN t ELSE tombs[d][i]
                       /\ Nothing[i] = None
  BY DEF Nothing
<1> HIDE DEF t, mine, graves
<1>7. /\ deck' \in [Device -> Copies] /\ tombs' \in [Device -> Times]
      /\ held' \in [Device -> Copies]
      /\ deck'[d] = mine /\ tombs'[d] = graves /\ held'[d] = Nothing
      /\ \A e \in Device \ {d} : deck'[e] = deck[e] /\ tombs'[e] = tombs[e] /\ held'[e] = held[e]
  BY <1>4, <1>5 DEF DeckTypeInv, DevicesFit
<1>8. /\ PastFits'
      /\ \A i \in Id : /\ past'[i].deleted = IF i \in ids /\ past[i].deleted = None THEN now'
                                             ELSE past[i].deleted
                       /\ past'[i].added = past[i].added
  BY <1>2, <1>5 DEF DeckTypeInv, PastFits
<1>9. DevicesFit' /\ StraysFit'
  BY <1>1, <1>7 DEF DeckTypeInv, DevicesFit, StraysFit
<1>10. DeckTypeInv'
  BY <1>2, <1>8, <1>9 DEF DeckTypeInv
<1>11. Others(d)
  BY <1>1, <1>7 DEF Others, Same
<1>12. QED BY <1>1, <1>2, <1>6, <1>7, <1>8, <1>10, <1>11 DEF Deletes, UserTurn, t

\* A review session loads the deck, or the user signs in: no card is written.
Settles(d) ==
  /\ TurnFree /\ UNCHANGED <<serverVars, stray, past>>
  /\ Others(d)
  /\ deck'[d] = deck[d] /\ dirty'[d] = dirty[d] /\ tombs'[d] = tombs[d] /\ job'[d] = job[d]
  /\ \/ held'[d] = held[d] /\ cursor'[d] = None
     \/ held'[d] = deck[d] /\ cursor'[d] = cursor[d] /\ account'[d] = account[d]

LEMMA SettleFacts ==
  ASSUME DeckTypeInv, NEW d \in Device, Load(d) \/ \E u \in User : SignIn(d, u)
  PROVE  DeckTypeInv' /\ Settles(d)
<1>1. UNCHANGED <<serverVars, deck, dirty, tombs, job, stray, past>> /\ TurnFree
  BY DEF Load, SignIn
<1>2. ServerFits'
  BY <1>1, ServerStays DEF DeckTypeInv
<1>3. /\ held' \in [Device -> Copies] /\ cursor' \in [Device -> Cursor \cup {None}]
      /\ account' \in [Device -> User \cup {None}]
  BY DEF Load, SignIn, DeckTypeInv, DevicesFit
<1>4. DeckTypeInv'
  BY <1>1, <1>2, <1>3 DEF DeckTypeInv, DevicesFit, StraysFit, PastFits
<1>5. /\ Others(d)
      /\ \/ held'[d] = held[d] /\ cursor'[d] = None
         \/ held'[d] = deck[d] /\ cursor'[d] = cursor[d] /\ account'[d] = account[d]
  BY <1>1 DEF Load, SignIn, DeckTypeInv, DevicesFit, Others, Same
<1>6. QED BY <1>1, <1>4, <1>5 DEF Settles

-----------------------------------------------------------------------------
(* What the steps of a sync do.                                            *)

\* Nothing but the store and the job of one device moves.
Local(d) ==
  /\ UNCHANGED <<serverVars, stray, past>>
  /\ Others(d) /\ account'[d] = account[d] /\ held'[d] = held[d]

SameStore(d) ==
  deck'[d] = deck[d] /\ dirty'[d] = dirty[d] /\ tombs'[d] = tombs[d] /\ cursor'[d] = cursor[d]

\* The job remembers what it read, what it sent and what came back.
Remembers(d) ==
  /\ job'[d].user = job[d].user /\ job'[d].at = job[d].at /\ job'[d].since = job[d].since
  /\ job'[d].dirty = job[d].dirty /\ job'[d].cards = job[d].cards
  /\ job'[d].tombs = job[d].tombs /\ job'[d].answer = job[d].answer

\* A step that moves the job on and touches the store of its device only.
LEMMA JobStepFits ==
  ASSUME DeckTypeInv, NEW d \in Device, NEW j, JobFits(j), JobStep(d, j),
         deck' \in [Device -> Copies], dirty' \in [Device -> Times],
         tombs' \in [Device -> Times], cursor' \in [Device -> Cursor \cup {None}],
         \A e \in Device \ {d} : /\ deck'[e] = deck[e] /\ dirty'[e] = dirty[e]
                                 /\ tombs'[e] = tombs[e] /\ cursor'[e] = cursor[e]
  PROVE  DeckTypeInv' /\ job'[d] = j /\ Local(d)
<1>1. ServerFits'
  BY ServerStays DEF DeckTypeInv, JobStep
<1>2. /\ DOMAIN job' = Device /\ job'[d] = j /\ \A e \in Device \ {d} : job'[e] = job[e]
      /\ account' = account /\ held' = held /\ stray' = stray /\ past' = past
  BY DEF DeckTypeInv, DevicesFit, JobStep
<1>3. DevicesFit' /\ StraysFit' /\ PastFits'
  BY <1>2 DEF DeckTypeInv, DevicesFit, StraysFit, PastFits
<1>4. Others(d)
  BY <1>2 DEF Others, Same
<1>5. QED BY <1>1, <1>2, <1>3, <1>4 DEF DeckTypeInv, JobStep, Local

LEMMA JobOnly ==
  ASSUME DeckTypeInv, NEW d \in Device, NEW j, JobFits(j), JobStep(d, j),
         UNCHANGED <<deck, dirty, tombs, cursor>>
  PROVE  DeckTypeInv' /\ job'[d] = j /\ Local(d) /\ SameStore(d)
<1>1. /\ deck' \in [Device -> Copies] /\ dirty' \in [Device -> Times]
      /\ tombs' \in [Device -> Times] /\ cursor' \in [Device -> Cursor \cup {None}]
  BY DEF DeckTypeInv, DevicesFit
<1>2. DeckTypeInv' /\ job'[d] = j /\ Local(d)
  BY <1>1, JobStepFits
<1>3. QED BY <1>2 DEF SameStore

LEMMA BeginFacts ==
  ASSUME DeckTypeInv, NEW d \in Device, Begin(d)
  PROVE  /\ DeckTypeInv' /\ Local(d) /\ SameStore(d)
         /\ Idle(d) /\ TurnFree /\ account[d] # None
         /\ job'[d].step = "dirty" /\ job'[d].user = account[d] /\ job'[d].at = Clock(d)
         /\ job'[d].since = cursor[d] /\ job'[d].dirty = dirty[d]
<1> DEFINE j == [NoJob EXCEPT !.step = "dirty", !.user = account[d], !.at = Clock(d),
                              !.since = cursor[d], !.dirty = dirty[d]]
<1>1. /\ account[d] \in User /\ cursor[d] \in Cursor \cup {None} /\ dirty[d] \in Times
      /\ Clock(d) \in Int
  BY ClockFacts DEF Begin, DeckTypeInv, DevicesFit
<1>2. JobStep(d, j) /\ UNCHANGED <<deck, dirty, tombs, cursor>>
  BY DEF Begin, JobStep
<1>3. JobFits(j)
  BY <1>1, NoJobFits DEF JobFits, Steps, Early, Late, Answered
<1>4. /\ j.step = "dirty" /\ j.user = account[d] /\ j.at = Clock(d)
      /\ j.since = cursor[d] /\ j.dirty = dirty[d]
  BY NoJobFits DEF JobFits
<1> HIDE DEF j
<1>5. DeckTypeInv' /\ job'[d] = j /\ Local(d) /\ SameStore(d)
  BY <1>2, <1>3, JobOnly
<1>6. QED BY <1>4, <1>5 DEF Begin

LEMMA ReadCardsFacts ==
  ASSUME DeckTypeInv, NEW d \in Device, ReadCards(d)
  PROVE  /\ DeckTypeInv' /\ Local(d) /\ SameStore(d)
         /\ job[d].step = "dirty" /\ job'[d].step = "cards"
         /\ job'[d].user = job[d].user /\ job'[d].at = job[d].at
         /\ job'[d].since = job[d].since /\ job'[d].dirty = job[d].dirty
         /\ \A id \in Id : job'[d].cards[id] =
              IF job[d].since = None \/ job[d].dirty[id] # None THEN deck[d][id] ELSE None
<1> DEFINE some == [id \in Id |-> IF job[d].since = None \/ job[d].dirty[id] # None
                                  THEN deck[d][id] ELSE None]
           j == [job[d] EXCEPT !.step = "cards", !.cards = some]
<1>1. JobFits(job[d]) /\ deck[d] \in Copies /\ job[d].step = "dirty"
  BY DEF ReadCards, DeckTypeInv, DevicesFit
<1>2. /\ some \in Copies
      /\ \A id \in Id : some[id] = IF job[d].since = None \/ job[d].dirty[id] # None
                                   THEN deck[d][id] ELSE None
  BY <1>1 DEF Copies
<1>3. JobStep(d, j) /\ UNCHANGED <<deck, dirty, tombs, cursor>>
  BY DEF ReadCards, JobStep, DeckTypeInv, DevicesFit
<1> HIDE DEF some
<1>4. JobFits(j)
  BY <1>1, <1>2 DEF JobFits, Steps, Early, Late, Answered
<1>5. /\ j.step = "cards" /\ j.cards = some /\ j.user = job[d].user /\ j.at = job[d].at
      /\ j.since = job[d].since /\ j.dirty = job[d].dirty
  BY <1>1 DEF JobFits
<1> HIDE DEF j
<1>6. DeckTypeInv' /\ job'[d] = j /\ Local(d) /\ SameStore(d)
  BY <1>3, <1>4, JobOnly
<1>7. QED BY <1>1, <1>2, <1>5, <1>6

LEMMA ReadTombsFacts ==
  ASSUME DeckTypeInv, NEW d \in Device, ReadTombsAndSend(d)
  PROVE  /\ DeckTypeInv' /\ Local(d) /\ SameStore(d)
         /\ job[d].step = "cards" /\ job'[d].step = "waiting"
         /\ job'[d].user = job[d].user /\ job'[d].at = job[d].at
         /\ job'[d].since = job[d].since /\ job'[d].dirty = job[d].dirty
         /\ job'[d].cards = job[d].cards /\ job'[d].tombs = tombs[d]
<1> DEFINE j == [job[d] EXCEPT !.step = "waiting", !.tombs = tombs[d]]
<1>1. JobFits(job[d]) /\ tombs[d] \in Times /\ job[d].step = "cards"
  BY DEF ReadTombsAndSend, DeckTypeInv, DevicesFit
<1>2. JobStep(d, j) /\ UNCHANGED <<deck, dirty, tombs, cursor>>
  BY DEF ReadTombsAndSend, JobStep, DeckTypeInv, DevicesFit
<1>3. JobFits(j)
  BY <1>1 DEF JobFits, Steps, Early, Late, Answered
<1>4. /\ j.step = "waiting" /\ j.cards = job[d].cards /\ j.user = job[d].user
      /\ j.at = job[d].at /\ j.since = job[d].since /\ j.dirty = job[d].dirty
      /\ j.tombs = tombs[d]
  BY <1>1 DEF JobFits
<1> HIDE DEF j
<1>5. DeckTypeInv' /\ job'[d] = j /\ Local(d) /\ SameStore(d)
  BY <1>2, <1>3, JobOnly
<1>6. QED BY <1>1, <1>4, <1>5

LEMMA MergeReadFacts ==
  ASSUME DeckTypeInv, NEW d \in Device, MergeRead(d)
  PROVE  /\ DeckTypeInv' /\ Local(d) /\ SameStore(d) /\ Remembers(d) /\ TurnFree
         /\ job[d].step = "replied" /\ job'[d].step = "merge"
         /\ \A id \in Id : id \in job'[d].put <=>
              CardApplies(job[d].answer.cards[id], deck[d][id], job[d].cards[id])
<1> DEFINE some == {id \in Id : CardApplies(job[d].answer.cards[id], deck[d][id],
                                            job[d].cards[id])}
           j == [job[d] EXCEPT !.step = "merge", !.put = some]
<1>1. JobFits(job[d]) /\ job[d].step = "replied" /\ TurnFree
  BY DEF MergeRead, DeckTypeInv, DevicesFit
<1>2. JobStep(d, j) /\ UNCHANGED <<deck, dirty, tombs, cursor>>
  BY DEF MergeRead, JobStep, DeckTypeInv, DevicesFit
<1>3. /\ some \subseteq Id
      /\ \A id \in Id : id \in some <=>
              CardApplies(job[d].answer.cards[id], deck[d][id], job[d].cards[id])
  OBVIOUS
<1> HIDE DEF some
<1>4. JobFits(j)
  BY <1>1, <1>3 DEF JobFits, Steps, Early, Late, Answered
<1>5. /\ j.step = "merge" /\ j.put = some
      /\ j.cards = job[d].cards /\ j.user = job[d].user /\ j.at = job[d].at
      /\ j.since = job[d].since /\ j.dirty = job[d].dirty /\ j.tombs = job[d].tombs
      /\ j.answer = job[d].answer
  BY <1>1 DEF JobFits
<1> HIDE DEF j
<1>6. DeckTypeInv' /\ job'[d] = j /\ Local(d) /\ SameStore(d)
  BY <1>2, <1>4, JobOnly
<1>7. QED BY <1>1, <1>3, <1>5, <1>6 DEF Remembers

LEMMA DropReadFacts ==
  ASSUME DeckTypeInv, NEW d \in Device, DropRead(d)
  PROVE  /\ DeckTypeInv' /\ Local(d) /\ SameStore(d) /\ Remembers(d)
         /\ job[d].step = "merged" /\ job'[d].step = "drop"
         /\ \A id \in Id : id \in job'[d].drop <=>
              /\ id \in job[d].answer.deletions
              /\ DeletionApplies(job[d].tombs[id] # None, deck[d][id], job[d].at)
<1> DEFINE some == {id \in job[d].answer.deletions :
                      DeletionApplies(job[d].tombs[id] # None, deck[d][id], job[d].at)}
           j == [job[d] EXCEPT !.step = "drop", !.drop = some]
<1>1. JobFits(job[d]) /\ job[d].step = "merged"
  BY DEF DropRead, DeckTypeInv, DevicesFit
<1>2. JobStep(d, j) /\ UNCHANGED <<deck, dirty, tombs, cursor>>
  BY DEF DropRead, JobStep, DeckTypeInv, DevicesFit
<1>3. /\ some \subseteq Id
      /\ \A id \in Id : id \in some <=>
              /\ id \in job[d].answer.deletions
              /\ DeletionApplies(job[d].tombs[id] # None, deck[d][id], job[d].at)
  BY <1>1 DEF JobFits, ReplyFits, Answered, Late
<1> HIDE DEF some
<1>4. JobFits(j)
  BY <1>1, <1>3 DEF JobFits, Steps, Early, Late, Answered
<1>5. /\ j.step = "drop" /\ j.drop = some
      /\ j.cards = job[d].cards /\ j.user = job[d].user /\ j.at = job[d].at
      /\ j.since = job[d].since /\ j.dirty = job[d].dirty /\ j.tombs = job[d].tombs
      /\ j.answer = job[d].answer
  BY <1>1 DEF JobFits
<1> HIDE DEF j
<1>6. DeckTypeInv' /\ job'[d] = j /\ Local(d) /\ SameStore(d)
  BY <1>2, <1>4, JobOnly
<1>7. QED BY <1>1, <1>3, <1>5, <1>6 DEF Remembers

LEMMA MergePutFacts ==
  ASSUME DeckTypeInv, NEW d \in Device, MergePut(d)
  PROVE  /\ DeckTypeInv' /\ Local(d) /\ Remembers(d)
         /\ dirty'[d] = dirty[d] /\ tombs'[d] = tombs[d] /\ cursor'[d] = cursor[d]
         /\ job[d].step = "merge" /\ job'[d].step = "merged"
         /\ \A id \in Id : deck'[d][id] =
              IF id \in job[d].put THEN job[d].answer.cards[id] ELSE deck[d][id]
<1> DEFINE mine == [id \in Id |-> IF id \in job[d].put THEN job[d].answer.cards[id]
                                  ELSE deck[d][id]]
           j == [job[d] EXCEPT !.step = "merged", !.put = {}]
<1>1. JobFits(job[d]) /\ deck[d] \in Copies /\ job[d].step = "merge"
  BY DEF MergePut, DeckTypeInv, DevicesFit
<1>2. /\ JobStep(d, j) /\ UNCHANGED <<dirty, tombs, cursor>>
      /\ deck' = [deck EXCEPT ![d] = mine]
  BY DEF MergePut, JobStep, DeckTypeInv, DevicesFit
<1>3. job[d].answer.cards \in Copies
  BY <1>1 DEF JobFits, ReplyFits, Answered
<1>4. /\ mine \in Copies
      /\ \A id \in Id : mine[id] = IF id \in job[d].put THEN job[d].answer.cards[id]
                                   ELSE deck[d][id]
  BY <1>1, <1>3 DEF Copies
<1> HIDE DEF mine
<1>5. JobFits(j)
  BY <1>1 DEF JobFits, Steps, Early, Late, Answered
<1>6. /\ j.step = "merged"
      /\ j.cards = job[d].cards /\ j.user = job[d].user /\ j.at = job[d].at
      /\ j.since = job[d].since /\ j.dirty = job[d].dirty /\ j.tombs = job[d].tombs
      /\ j.answer = job[d].answer
  BY <1>1 DEF JobFits
<1> HIDE DEF j
<1>7. /\ deck' \in [Device -> Copies] /\ dirty' \in [Device -> Times]
      /\ tombs' \in [Device -> Times] /\ cursor' \in [Device -> Cursor \cup {None}]
      /\ deck'[d] = mine /\ \A e \in Device \ {d} : deck'[e] = deck[e]
  BY <1>2, <1>4 DEF DeckTypeInv, DevicesFit
<1>8. DeckTypeInv' /\ job'[d] = j /\ Local(d)
  BY <1>2, <1>5, <1>7, JobStepFits
<1>9. QED BY <1>1, <1>2, <1>4, <1>6, <1>7, <1>8 DEF Remembers

LEMMA DropWriteFacts ==
  ASSUME DeckTypeInv, NEW d \in Device, DropWrite(d)
  PROVE  /\ DeckTypeInv' /\ Local(d) /\ Remembers(d)
         /\ dirty'[d] = dirty[d] /\ tombs'[d] = tombs[d] /\ cursor'[d] = cursor[d]
         /\ job[d].step = "drop" /\ job'[d].step = "dropped"
         /\ \A id \in Id : deck'[d][id] = IF id \in job[d].drop THEN None ELSE deck[d][id]
<1> DEFINE mine == [id \in Id |-> IF id \in job[d].drop THEN None ELSE deck[d][id]]
           j == [job[d] EXCEPT !.step = "dropped", !.drop = {}]
<1>1. JobFits(job[d]) /\ deck[d] \in Copies /\ job[d].step = "drop"
  BY DEF DropWrite, DeckTypeInv, DevicesFit
<1>2. /\ JobStep(d, j) /\ UNCHANGED <<dirty, tombs, cursor>>
      /\ deck' = [deck EXCEPT ![d] = mine]
  BY DEF DropWrite, JobStep, DeckTypeInv, DevicesFit
<1>3. /\ mine \in Copies
      /\ \A id \in Id : mine[id] = IF id \in job[d].drop THEN None ELSE deck[d][id]
  BY <1>1 DEF Copies
<1> HIDE DEF mine
<1>4. JobFits(j)
  BY <1>1 DEF JobFits, Steps, Early, Late, Answered
<1>5. /\ j.step = "dropped"
      /\ j.cards = job[d].cards /\ j.user = job[d].user /\ j.at = job[d].at
      /\ j.since = job[d].since /\ j.dirty = job[d].dirty /\ j.tombs = job[d].tombs
      /\ j.answer = job[d].answer
  BY <1>1 DEF JobFits
<1> HIDE DEF j
<1>6. /\ deck' \in [Device -> Copies] /\ dirty' \in [Device -> Times]
      /\ tombs' \in [Device -> Times] /\ cursor' \in [Device -> Cursor \cup {None}]
      /\ deck'[d] = mine /\ \A e \in Device \ {d} : deck'[e] = deck[e]
  BY <1>2, <1>3 DEF DeckTypeInv, DevicesFit
<1>7. DeckTypeInv' /\ job'[d] = j /\ Local(d)
  BY <1>2, <1>4, <1>6, JobStepFits
<1>8. QED BY <1>1, <1>2, <1>3, <1>5, <1>6, <1>7 DEF Remembers

LEMMA ClearTombsFacts ==
  ASSUME DeckTypeInv, NEW d \in Device, ClearTombs(d)
  PROVE  /\ DeckTypeInv' /\ Local(d) /\ Remembers(d)
         /\ deck'[d] = deck[d] /\ dirty'[d] = dirty[d] /\ cursor'[d] = cursor[d]
         /\ job[d].step = "dropped" /\ job'[d].step = "forwarded"
         /\ \A id \in Id : tombs'[d][id] =
              IF job[d].tombs[id] # None THEN None ELSE tombs[d][id]
<1> DEFINE graves == [id \in Id |-> IF job[d].tombs[id] # None THEN None ELSE tombs[d][id]]
           j == [job[d] EXCEPT !.step = "forwarded"]
<1>1. JobFits(job[d]) /\ tombs[d] \in Times /\ job[d].step = "dropped"
  BY DEF ClearTombs, DeckTypeInv, DevicesFit
<1>2. /\ JobStep(d, j) /\ UNCHANGED <<deck, dirty, cursor>>
      /\ tombs' = [tombs EXCEPT ![d] = graves]
  BY DEF ClearTombs, JobStep, DeckTypeInv, DevicesFit
<1>3. /\ graves \in Times
      /\ \A id \in Id : graves[id] = IF job[d].tombs[id] # None THEN None ELSE tombs[d][id]
  BY <1>1 DEF Times
<1> HIDE DEF graves
<1>4. JobFits(j)
  BY <1>1 DEF JobFits, Steps, Early, Late, Answered
<1>5. /\ j.step = "forwarded"
      /\ j.cards = job[d].cards /\ j.user = job[d].user /\ j.at = job[d].at
      /\ j.since = job[d].since /\ j.dirty = job[d].dirty /\ j.tombs = job[d].tombs
      /\ j.answer = job[d].answer
  BY <1>1 DEF JobFits
<1> HIDE DEF j
<1>6. /\ deck' \in [Device -> Copies] /\ dirty' \in [Device -> Times]
      /\ tombs' \in [Device -> Times] /\ cursor' \in [Device -> Cursor \cup {None}]
      /\ tombs'[d] = graves /\ \A e \in Device \ {d} : tombs'[e] = tombs[e]
  BY <1>2, <1>3 DEF DeckTypeInv, DevicesFit
<1>7. DeckTypeInv' /\ job'[d] = j /\ Local(d)
  BY <1>2, <1>4, <1>6, JobStepFits
<1>8. QED BY <1>1, <1>2, <1>3, <1>5, <1>6, <1>7 DEF Remembers

LEMMA ClearDirtyFacts ==
  ASSUME DeckTypeInv, NEW d \in Device, ClearDirty(d)
  PROVE  /\ DeckTypeInv' /\ Local(d) /\ Remembers(d)
         /\ deck'[d] = deck[d] /\ tombs'[d] = tombs[d] /\ cursor'[d] = cursor[d]
         /\ job[d].step = "forwarded" /\ job'[d].step = "clean"
         /\ \A id \in Id : dirty'[d][id] =
              IF dirty[d][id] = job[d].dirty[id] THEN None ELSE dirty[d][id]
<1> DEFINE marks == [id \in Id |-> IF dirty[d][id] = job[d].dirty[id] THEN None
                                   ELSE dirty[d][id]]
           j == [job[d] EXCEPT !.step = "clean"]
<1>1. JobFits(job[d]) /\ dirty[d] \in Times /\ job[d].step = "forwarded"
  BY DEF ClearDirty, DeckTypeInv, DevicesFit
<1>2. /\ JobStep(d, j) /\ UNCHANGED <<deck, tombs, cursor>>
      /\ dirty' = [dirty EXCEPT ![d] = marks]
  BY DEF ClearDirty, JobStep, DeckTypeInv, DevicesFit
<1>3. /\ marks \in Times
      /\ \A id \in Id : marks[id] = IF dirty[d][id] = job[d].dirty[id] THEN None
                                    ELSE dirty[d][id]
  BY <1>1 DEF Times
<1> HIDE DEF marks
<1>4. JobFits(j)
  BY <1>1 DEF JobFits, Steps, Early, Late, Answered
<1>5. /\ j.step = "clean"
      /\ j.cards = job[d].cards /\ j.user = job[d].user /\ j.at = job[d].at
      /\ j.since = job[d].since /\ j.dirty = job[d].dirty /\ j.tombs = job[d].tombs
      /\ j.answer = job[d].answer
  BY <1>1 DEF JobFits
<1> HIDE DEF j
<1>6. /\ deck' \in [Device -> Copies] /\ dirty' \in [Device -> Times]
      /\ tombs' \in [Device -> Times] /\ cursor' \in [Device -> Cursor \cup {None}]
      /\ dirty'[d] = marks /\ \A e \in Device \ {d} : dirty'[e] = dirty[e]
  BY <1>2, <1>3 DEF DeckTypeInv, DevicesFit
<1>7. DeckTypeInv' /\ job'[d] = j /\ Local(d)
  BY <1>2, <1>4, <1>6, JobStepFits
<1>8. QED BY <1>1, <1>2, <1>3, <1>5, <1>6, <1>7 DEF Remembers

LEMMA SetCursorFacts ==
  ASSUME DeckTypeInv, NEW d \in Device, SetCursor(d)
  PROVE  /\ DeckTypeInv' /\ Local(d)
         /\ deck'[d] = deck[d] /\ dirty'[d] = dirty[d] /\ tombs'[d] = tombs[d]
         /\ job[d].step = "clean" /\ job'[d] = NoJob
         /\ cursor'[d] = IF Refused(job[d]) THEN None ELSE job[d].answer.cursor
<1>1. JobFits(job[d]) /\ job[d].step = "clean"
  BY DEF SetCursor, DeckTypeInv, DevicesFit
<1>2. job[d].answer.cursor \in Cursor
  BY <1>1 DEF JobFits, ReplyFits, Answered, Late
<1> DEFINE c == IF Refused(job[d]) THEN None ELSE job[d].answer.cursor
<1>3. c \in Cursor \cup {None}
  BY <1>2
<1>4. /\ JobStep(d, NoJob) /\ UNCHANGED <<deck, dirty, tombs>>
      /\ cursor' = [cursor EXCEPT ![d] = c]
  BY DEF SetCursor, JobStep
<1> HIDE DEF c
<1>5. /\ deck' \in [Device -> Copies] /\ dirty' \in [Device -> Times]
      /\ tombs' \in [Device -> Times] /\ cursor' \in [Device -> Cursor \cup {None}]
      /\ cursor'[d] = c /\ \A e \in Device \ {d} : cursor'[e] = cursor[e]
  BY <1>3, <1>4 DEF DeckTypeInv, DevicesFit
<1>6. DeckTypeInv' /\ job'[d] = NoJob /\ Local(d)
  BY <1>4, <1>5, NoJobFits, JobStepFits
<1>7. QED BY <1>1, <1>4, <1>5, <1>6 DEF c

\* A sync ends where it is: what was sent may be handled yet.
LEMMA AbortFacts ==
  ASSUME DeckTypeInv, NEW d \in Device, Abort(d)
  PROVE  /\ DeckTypeInv' /\ d \in Flaky /\ ~Idle(d)
         /\ UNCHANGED <<serverVars, past>> /\ Others(d) /\ SameStore(d)
         /\ account'[d] = account[d] /\ held'[d] = held[d] /\ job'[d] = NoJob
         /\ \/ stray' = stray
            \/ /\ job[d].step = "waiting"
               /\ stray' = stray \cup {[user |-> job[d].user, cards |-> job[d].cards,
                                        tombs |-> job[d].tombs]}
<1>1. /\ JobFits(job[d]) /\ d \in Flaky /\ ~Idle(d)
      /\ UNCHANGED <<serverVars, deck, dirty, tombs, cursor, account, held, past>>
      /\ job' = [job EXCEPT ![d] = NoJob]
      /\ \/ stray' = stray
         \/ /\ job[d].step = "waiting"
            /\ stray' = stray \cup {[user |-> job[d].user, cards |-> job[d].cards,
                                     tombs |-> job[d].tombs]}
  BY DEF Abort, DeckTypeInv, DevicesFit
<1>2. ServerFits'
  BY <1>1, ServerStays DEF DeckTypeInv
<1>3. DOMAIN job' = Device /\ job'[d] = NoJob /\ \A e \in Device \ {d} : job'[e] = job[e]
  BY <1>1 DEF DeckTypeInv, DevicesFit
<1>4. DevicesFit' /\ PastFits'
  BY <1>1, <1>3, NoJobFits DEF DeckTypeInv, DevicesFit, PastFits
<1>5. job[d].user \in User /\ job[d].cards \in Copies /\ job[d].tombs \in Times
  BY <1>1 DEF JobFits, Idle
<1>6. StraysFit'
  BY <1>1, <1>5 DEF DeckTypeInv, StraysFit
<1>7. QED BY <1>1, <1>2, <1>3, <1>4, <1>6 DEF DeckTypeInv, Others, Same, SameStore

Asked(j, id) == j.cards[id] # None \/ j.tombs[id] # None

\* The answer to a request of user u with the cursor s, for the ids of `sent`.
LEMMA AnswerFields ==
  ASSUME NEW u, NEW s, NEW sent, NEW q, q = Response(u, s, sent, {})', NEW delta,
         delta = CanServeDelta(s, u, epoch', rev', prunedRev')
  PROVE  /\ q.full = ~delta
         /\ q.cursor = [epoch |-> epoch', user |-> u, rev |-> rev']
         /\ q.cards = [id \in Id |-> IF Returned(table'[u][id].card, s, delta, id \in sent)
                                     THEN Wire(table'[u][id].card) ELSE None]
         /\ q.deletions = {id \in Id : Returned(table'[u][id].tomb, s, delta, id \in sent)}
BY DEF Response

\* The server handles the request of a device: what it does, and what goes back.
Answering(d, u, s, delta) ==
  /\ u = job[d].user /\ u \in User /\ s = job[d].since
  /\ delta = CanServeDelta(s, u, epoch, rev + 1, prunedRev)
  /\ TurnFree /\ job[d].step = "waiting" /\ job'[d].step = "replied"
  /\ job'[d].user = u /\ job'[d].at = job[d].at /\ job'[d].since = s
  /\ job'[d].dirty = job[d].dirty /\ job'[d].cards = job[d].cards
  /\ job'[d].tombs = job[d].tombs
  /\ Others(d) /\ SameStore(d) /\ account'[d] = account[d] /\ held'[d] = held[d]
  /\ UNCHANGED <<stray, past>>
  /\ Sync(u, job[d].cards, job[d].tombs, {}, None)
  /\ job'[d].answer.full = ~delta
  /\ job'[d].answer.cursor = [epoch |-> epoch, user |-> u, rev |-> rev + 1]
  /\ \A id \in Id :
       /\ job'[d].answer.cards[id] =
            IF Returned(table'[u][id].card, s, delta, Asked(job[d], id))
            THEN Wire(table'[u][id].card) ELSE None
       /\ id \in job'[d].answer.deletions
            <=> Returned(table'[u][id].tomb, s, delta, Asked(job[d], id))

LEMMA HandleFacts ==
  ASSUME DeckTypeInv, NEW d \in Device, Handle(d)
  PROVE  DeckTypeInv' /\ \E u, s, delta : Answering(d, u, s, delta)
<1> PICK u, s, delta : /\ u = job[d].user /\ s = job[d].since
                       /\ delta = CanServeDelta(s, u, epoch, rev + 1, prunedRev)
  OBVIOUS
<1>0. PICK k \in {job[d]} :
        /\ k.step = "waiting" /\ TurnFree
        /\ Sync(k.user, k.cards, k.tombs, {}, None)
        /\ \E answer \in {Response(k.user, k.since, Sent(k), {})'} :
             job' = [job EXCEPT ![d].step = "replied", ![d].answer = answer]
        /\ UNCHANGED <<deck, dirty, tombs, cursor, account, held, stray, past>>
  BY DEF Handle
<1>1. PICK answer \in {Response(k.user, k.since, Sent(k), {})'} :
        /\ job[d].step = "waiting" /\ TurnFree
        /\ Sync(u, job[d].cards, job[d].tombs, {}, None)
        /\ job' = [job EXCEPT ![d].step = "replied", ![d].answer = answer]
        /\ UNCHANGED <<deck, dirty, tombs, cursor, account, held, stray, past>>
  BY <1>0
<1>2. JobFits(job[d]) /\ u \in User /\ job[d].cards \in Copies /\ job[d].tombs \in Times
  BY <1>1 DEF DeckTypeInv, DevicesFit, JobFits
<1>3. /\ ServerFits' /\ epoch' = epoch /\ rev \in Nat /\ rev' = rev + 1
      /\ prunedRev' = prunedRev
  BY <1>1, <1>2, SyncFits DEF DeckTypeInv
<1>4. /\ answer.full = ~delta
      /\ answer.cursor = [epoch |-> epoch, user |-> u, rev |-> rev + 1]
      /\ answer.cards = [id \in Id |-> IF Returned(table'[u][id].card, s, delta, id \in Sent(k))
                                       THEN Wire(table'[u][id].card) ELSE None]
      /\ answer.deletions = {id \in Id : Returned(table'[u][id].tomb, s, delta, id \in Sent(k))}
  <2>1. delta = CanServeDelta(k.since, k.user, epoch', rev', prunedRev')
    BY <1>0, <1>3
  <2>2. answer = Response(k.user, k.since, Sent(k), {})'
    BY <1>1
  <2>3. /\ answer.full = ~delta
        /\ answer.cursor = [epoch |-> epoch', user |-> k.user, rev |-> rev']
        /\ answer.cards = [id \in Id |-> IF Returned(table'[k.user][id].card, k.since, delta, id \in Sent(k))
                                         THEN Wire(table'[k.user][id].card) ELSE None]
        /\ answer.deletions = {id \in Id : Returned(table'[k.user][id].tomb, k.since, delta, id \in Sent(k))}
    BY <2>1, <2>2, AnswerFields
  <2>4. k.user = u /\ k.since = s
    BY <1>0
  <2>5. QED BY <1>3, <2>3, <2>4
<1>5. \A id \in Id : id \in Sent(k) <=> Asked(job[d], id)
  BY <1>0 DEF Sent, Asked
<1>6. ReplyFits(answer, u)
  <2>1. ASSUME NEW id \in Id, table'[u][id].card # None
        PROVE  Wire(table'[u][id].card) \in Copy
    BY <1>2, <1>3, <2>1 DEF ServerFits, CardsFit
  <2>2. ASSUME NEW id \in Id
        PROVE  answer.cards[id] \in Copy \cup {None}
    BY <1>4, <2>1 DEF Returned
  <2>3. answer.cards \in Copies
    BY <1>4, <2>2 DEF Copies
  <2>4. answer.cursor \in Cursor /\ answer.cursor.user = u
    BY <1>2, <1>3, <1>4 DEF Cursor, ServerFits, IndInv, TypeOK
  <2>5. answer.full \in BOOLEAN
    BY <1>4 DEF CanServeDelta
  <2>6. QED BY <1>4, <2>3, <2>4, <2>5 DEF ReplyFits
<1> DEFINE j == [job[d] EXCEPT !.step = "replied", !.answer = answer]
<1>7. job' = [job EXCEPT ![d] = j]
  BY <1>1 DEF DeckTypeInv, DevicesFit
<1>8. /\ j.step = "replied"
      /\ j.cards = job[d].cards /\ j.user = job[d].user /\ j.at = job[d].at
      /\ j.since = job[d].since /\ j.dirty = job[d].dirty /\ j.tombs = job[d].tombs
      /\ j.answer = answer
  BY <1>2 DEF JobFits
<1>9. JobFits(j)
  BY <1>2, <1>6, <1>8 DEF JobFits, Steps, Early, Late, Answered
<1> HIDE DEF j
<1>10. DOMAIN job' = Device /\ job'[d] = j /\ \A e \in Device \ {d} : job'[e] = job[e]
  BY <1>7 DEF DeckTypeInv, DevicesFit
<1>11. DeckTypeInv'
  BY <1>1, <1>3, <1>9, <1>10 DEF DeckTypeInv, DevicesFit, StraysFit, PastFits
<1>12. Others(d) /\ SameStore(d)
  BY <1>1, <1>10 DEF Others, Same, SameStore
<1>13. ASSUME NEW id \in Id
       PROVE  /\ answer.cards[id] = IF Returned(table'[u][id].card, s, delta, Asked(job[d], id))
                                    THEN Wire(table'[u][id].card) ELSE None
              /\ id \in answer.deletions
                   <=> Returned(table'[u][id].tomb, s, delta, Asked(job[d], id))
  BY <1>4, <1>5 DEF Returned
<1>14. Answering(d, u, s, delta)
  BY <1>1, <1>2, <1>4, <1>8, <1>10, <1>12, <1>13 DEF Answering
<1>15. QED BY <1>11, <1>14

\* A request whose sender gave up on it is handled late.
LEMMA StrayFacts ==
  ASSUME DeckTypeInv, NEW m \in stray, HandleStray(m)
  PROVE  /\ DeckTypeInv' /\ TurnFree
         /\ m.user \in User /\ m.cards \in Copies /\ m.tombs \in Times
         /\ Sync(m.user, m.cards, m.tombs, {}, None)
         /\ stray' = stray \ {m} /\ past' = past /\ \A d \in Device : Same(d)
<1>1. /\ TurnFree /\ Sync(m.user, m.cards, m.tombs, {}, None)
      /\ stray' = stray \ {m} /\ UNCHANGED <<deck, dirty, tombs, cursor, account, held, job, past>>
  BY DEF HandleStray, deviceVars
<1>2. m.user \in User /\ m.cards \in Copies /\ m.tombs \in Times
  BY DEF DeckTypeInv, StraysFit
<1>3. ServerFits'
  BY <1>1, <1>2, SyncFits DEF DeckTypeInv
<1>4. QED BY <1>1, <1>2, <1>3 DEF DeckTypeInv, DevicesFit, StraysFit, PastFits, Same

LEMMA MaintenanceFacts ==
  ASSUME DeckTypeInv, Maintenance
  PROVE  /\ DeckTypeInv' /\ TurnFree /\ now' = now
         /\ Restart \/ TakeBackup \/ Restore
         /\ UNCHANGED <<stray, past>> /\ \A d \in Device : Same(d)
<1>1. /\ TurnFree /\ (Restart \/ TakeBackup \/ Restore)
      /\ UNCHANGED <<deck, dirty, tombs, cursor, account, held, job, stray, past>>
  BY DEF Maintenance, deviceVars
<1>2. ServerFits' /\ now' = now
  BY <1>1, OperatorFits DEF DeckTypeInv
<1>3. QED BY <1>1, <1>2 DEF DeckTypeInv, DevicesFit, StraysFit, PastFits, Same

-----------------------------------------------------------------------------
(* The types hold.                                                         *)

LEMMA DeckTypesStart == DeckInit => DeckTypeInv
<1> SUFFICES ASSUME DeckInit PROVE DeckTypeInv
  OBVIOUS
<1>1. IndInv
  BY InitSound DEF DeckInit
<1>2. now \in 1..MaxNow
  BY ClockAssumption, ServerAssumption DEF DeckInit, Init
<1>3. CardsFit(table) /\ backup = None
  BY DEF DeckInit, Init, CardsFit, EmptyRow
<1>4. Nothing \in Copies /\ Nothing \in Times
  BY DEF Nothing, Copies, Times
<1>5. DevicesFit /\ StraysFit /\ PastFits
  BY <1>4, NoJobFits DEF DeckInit, DevicesFit, StraysFit, PastFits
<1>6. QED BY <1>1, <1>2, <1>3, <1>5 DEF DeckTypeInv, ServerFits

LEMMA DeckStays == DeckTypeInv /\ UNCHANGED vars => DeckTypeInv'
<1> SUFFICES ASSUME DeckTypeInv, UNCHANGED vars PROVE DeckTypeInv'
  OBVIOUS
<1>1. ServerFits'
  BY ServerStays DEF DeckTypeInv, vars
<1>2. QED BY <1>1 DEF DeckTypeInv, vars, deviceVars, DevicesFit, StraysFit, PastFits

LEMMA DeckTypesStep == DeckTypeInv /\ [DeckNext]_vars => DeckTypeInv'
<1> SUFFICES ASSUME DeckTypeInv, [DeckNext]_vars PROVE DeckTypeInv'
  OBVIOUS
<1>1. ASSUME NEW d \in Device, UserStep(d)
      PROVE  DeckTypeInv'
  BY <1>1, WriteFacts, DeleteFacts, SettleFacts DEF UserStep
<1>2. ASSUME NEW d \in Device, SyncStep(d)
      PROVE  DeckTypeInv'
  <2>1. CASE Begin(d) \/ ReadCards(d) \/ ReadTombsAndSend(d) \/ Handle(d)
    BY <2>1, BeginFacts, ReadCardsFacts, ReadTombsFacts, HandleFacts
  <2>2. CASE MergeRead(d) \/ MergePut(d) \/ DropRead(d) \/ DropWrite(d)
    BY <2>2, MergeReadFacts, MergePutFacts, DropReadFacts, DropWriteFacts
  <2>3. CASE ClearTombs(d) \/ ClearDirty(d) \/ SetCursor(d) \/ Abort(d)
    BY <2>3, ClearTombsFacts, ClearDirtyFacts, SetCursorFacts, AbortFacts
  <2>4. QED BY <1>2, <2>1, <2>2, <2>3 DEF SyncStep
<1>3. QED BY <1>1, <1>2, StrayFacts, MaintenanceFacts, DeckStays DEF DeckNext

\* Stores, jobs, abandoned requests and tables always have their types; the server
\* stays sound whatever these clients send it.
THEOREM DeckTypesHold == DeckSpec => []DeckTypeInv
BY DeckTypesStart, DeckTypesStep, PTL DEF DeckSpec

-----------------------------------------------------------------------------
(* A device whose turns are not interrupted.                               *)

\* A stamp on a card of the device is behind its clock or the server's.
StampsBehind(d) ==
  \A id \in Id :
    /\ deck[d][id] # None => deck[d][id].updated <= now \/ deck[d][id].updated <= Clock(d)
    /\ held[d][id] # None => held[d][id].updated <= now \/ held[d][id].updated <= Clock(d)
    /\ job[d].step \in {"replied", "merge"} /\ job[d].answer.cards[id] # None
         => job[d].answer.cards[id].updated <= now

\* What the merge of an answer rests on: a card written since the snapshot carries
\* a stamp later than the upload, the server gave back at least what it was sent
\* unless that was ahead of its clock, and the choice of what to write or drop was
\* made on the cards there are.
TurnFits(d) ==
  /\ job[d].step # "idle" => job[d].at <= Clock(d)
  /\ job[d].step \in {"dirty", "cards"} => job[d].at = Clock(d)
  /\ \A id \in Id :
       /\ job[d].step \in Early /\ deck[d][id] # None /\ dirty[d][id] # job[d].dirty[id]
            => deck[d][id].updated > job[d].at
       /\ job[d].step \in {"cards", "waiting"} /\ job[d].cards[id] # None
            => job[d].cards[id].updated <= now \/ job[d].cards[id].updated <= job[d].at
       /\ job[d].step \in {"replied", "merge"}
          /\ job[d].cards[id] # None /\ job[d].answer.cards[id] # None
            => \/ job[d].answer.cards[id].updated >= job[d].cards[id].updated
               \/ job[d].cards[id].updated <= job[d].at
       /\ job[d].step = "merge" /\ id \in job[d].put
            => CardApplies(job[d].answer.cards[id], deck[d][id], job[d].cards[id])
       /\ job[d].step = "drop" /\ id \in job[d].drop
            => DeletionApplies(job[d].tombs[id] # None, deck[d][id], job[d].at)

Timely(d) == StampsBehind(d) /\ (d \notin Yielding => TurnFits(d))

TurnInv == DeckTypeInv /\ \A d \in Device : Timely(d)

\* What the types say of one device and one id.
LEMMA TypesAt ==
  ASSUME DeckTypeInv, NEW d \in Device, NEW id \in Id
  PROVE  /\ deck[d][id] \in Copy \cup {None} /\ held[d][id] \in Copy \cup {None}
         /\ dirty[d][id] \in Stamp \cup {None} /\ tombs[d][id] \in Stamp \cup {None}
         /\ job[d].cards[id] \in Copy \cup {None}
         /\ job[d].dirty[id] \in Stamp \cup {None} /\ job[d].tombs[id] \in Stamp \cup {None}
         /\ job[d].at \in Int /\ job[d].step \in Steps
         /\ job[d].step # "idle" => job[d].user \in User
         /\ cursor[d] \in Cursor \cup {None} /\ job[d].since \in Cursor \cup {None}
         /\ job[d].step \in Answered =>
              /\ job[d].answer.cards[id] \in Copy \cup {None}
              /\ job[d].answer.cursor \in Cursor /\ job[d].answer.cursor.user = job[d].user
         /\ now \in Nat
<1>1. JobFits(job[d])
  BY DEF DeckTypeInv, DevicesFit
<1>2. /\ deck[d] \in Copies /\ held[d] \in Copies /\ dirty[d] \in Times /\ tombs[d] \in Times
      /\ cursor[d] \in Cursor \cup {None} /\ now \in Nat
  BY DEF DeckTypeInv, DevicesFit, ServerFits
<1>3. /\ job[d].cards \in Copies /\ job[d].dirty \in Times /\ job[d].tombs \in Times
      /\ job[d].at \in Int /\ job[d].step \in Steps /\ job[d].since \in Cursor \cup {None}
      /\ job[d].step # "idle" => job[d].user \in User
      /\ job[d].step \in Answered =>
           /\ job[d].answer.cards \in Copies
           /\ job[d].answer.cursor \in Cursor /\ job[d].answer.cursor.user = job[d].user
  BY <1>1 DEF JobFits, ReplyFits
<1>4. QED BY <1>2, <1>3 DEF Copies, Times

\* The clock only moves when no device is in its turn.
ClockRuns == now' = now \/ (now' = now + 1 /\ TurnFree)

\* A device that does nothing is left as it was.
LEMMA BystanderIsTimely ==
  ASSUME TurnInv, DeckTypeInv', NEW d \in Device, Same(d), ClockRuns
  PROVE  Timely(d)'
<1>1. Timely(d)
  BY DEF TurnInv
<1>2. /\ Clock(d) \in Nat /\ now \in Nat
      /\ (now' = now /\ Clock(d)' = Clock(d)) \/ (now' = now + 1 /\ Clock(d)' = Clock(d) + 1)
  BY ClockFacts DEF TurnInv, DeckTypeInv, ClockRuns, Clock
<1>3. StampsBehind(d)'
  <2>1. ASSUME NEW c \in Copy, c.updated <= now \/ c.updated <= Clock(d)
        PROVE  c.updated <= now' \/ c.updated <= Clock(d)'
    BY <1>2, <2>1, CopyFacts
  <2>2. ASSUME NEW c \in Copy, c.updated <= now
        PROVE  c.updated <= now'
    BY <1>2, <2>2, CopyFacts
  <2>3. ASSUME NEW id \in Id
        PROVE  /\ deck[d][id] \in Copy \cup {None} /\ held[d][id] \in Copy \cup {None}
               /\ job[d].step \in Answered => job[d].answer.cards[id] \in Copy \cup {None}
    BY TypesAt DEF TurnInv
  <2>4. QED BY <1>1, <2>1, <2>2, <2>3 DEF Timely, StampsBehind, Same, Answered
<1>4. d \notin Yielding => TurnFits(d)'
  <2> SUFFICES ASSUME d \notin Yielding PROVE TurnFits(d)'
    OBVIOUS
  <2>1. TurnFits(d)
    BY <1>1 DEF Timely
  <2>2. job[d].at \in Int
    BY DEF TurnInv, DeckTypeInv, DevicesFit, JobFits
  <2>3. job[d].step \in {"dirty", "cards"} => now' = now /\ Clock(d)' = Clock(d)
    BY <1>2 DEF ClockRuns, TurnFree, InTurn
  <2>4. ASSUME NEW id \in Id, job[d].cards[id] # None, job[d].cards[id].updated <= now
        PROVE  job[d].cards[id].updated <= now'
    <3>1. job[d].cards[id] \in Copy
      BY <2>4, TypesAt DEF TurnInv
    <3>2. QED BY <1>2, <2>4, <3>1, CopyFacts
  <2>5. QED BY <1>2, <2>1, <2>2, <2>3, <2>4 DEF TurnFits, Same
<1>5. QED BY <1>3, <1>4 DEF Timely

\* A card the user writes is stamped later than any upload that has begun.
LEMMA WriteIsTimely ==
  ASSUME TurnInv, DeckTypeInv', NEW d \in Device, NEW id \in Id, Writes(d, id)
  PROVE  Timely(d)'
<1>1. Timely(d) /\ DeckTypeInv
  BY DEF TurnInv
<1>2. /\ Clock(d) \in Nat /\ now \in Nat /\ now' = now + 1 /\ Clock(d)' = Clock(d) + 1
      /\ job'[d] = job[d] /\ job[d].at \in Int
      /\ deck'[d][id] # None /\ deck'[d][id].updated = Clock(d) + 1
      /\ \A i \in Id \ {id} : deck'[d][i] = deck[d][i] /\ dirty'[d][i] = dirty[d][i]
      /\ \A i \in Id : held'[d][i] \in {held[d][i], None}
  BY <1>1, ClockFacts DEF DeckTypeInv, DevicesFit, JobFits, Writes
<1>3. StampsBehind(d)'
  <2>1. ASSUME NEW c \in Copy, c.updated <= now \/ c.updated <= Clock(d)
        PROVE  c.updated <= now + 1 \/ c.updated <= Clock(d) + 1
    BY <1>2, <2>1, CopyFacts
  <2>2. ASSUME NEW c \in Copy, c.updated <= now
        PROVE  c.updated <= now + 1
    BY <1>2, <2>2, CopyFacts
  <2>3. ASSUME NEW i \in Id
        PROVE  /\ deck[d][i] \in Copy \cup {None} /\ held[d][i] \in Copy \cup {None}
               /\ job[d].step \in Answered => job[d].answer.cards[i] \in Copy \cup {None}
    BY <1>1, TypesAt
  <2>4. ASSUME NEW i \in Id
        PROVE  /\ deck'[d][i] # None => deck'[d][i].updated <= now' \/ deck'[d][i].updated <= Clock(d)'
               /\ held'[d][i] # None => held'[d][i].updated <= now' \/ held'[d][i].updated <= Clock(d)'
               /\ job'[d].step \in {"replied", "merge"} /\ job'[d].answer.cards[i] # None
                    => job'[d].answer.cards[i].updated <= now'
    <3>1. /\ deck[d][i] # None => deck[d][i].updated <= now \/ deck[d][i].updated <= Clock(d)
          /\ held[d][i] # None => held[d][i].updated <= now \/ held[d][i].updated <= Clock(d)
          /\ job[d].step \in {"replied", "merge"} /\ job[d].answer.cards[i] # None
               => job[d].answer.cards[i].updated <= now
      BY <1>1 DEF Timely, StampsBehind
    <3>2. deck'[d][i] # None => deck'[d][i].updated <= now' \/ deck'[d][i].updated <= Clock(d)'
      <4>1. CASE i = id
        BY <1>2, <4>1
      <4>2. CASE i # id
        BY <1>2, <2>1, <2>3, <3>1, <4>2
      <4>3. QED BY <4>1, <4>2
    <3>3. held'[d][i] # None => held'[d][i].updated <= now' \/ held'[d][i].updated <= Clock(d)'
      BY <1>2, <2>1, <2>3, <3>1
    <3>4. job'[d].step \in {"replied", "merge"} /\ job'[d].answer.cards[i] # None
            => job'[d].answer.cards[i].updated <= now'
      BY <1>2, <2>2, <2>3, <3>1 DEF Answered
    <3>5. QED BY <3>2, <3>3, <3>4
  <2>5. QED BY <2>4 DEF StampsBehind
<1>4. d \notin Yielding => TurnFits(d)'
  <2> SUFFICES ASSUME d \notin Yielding PROVE TurnFits(d)'
    OBVIOUS
  <2>1. TurnFits(d)
    BY <1>1 DEF Timely
  <2>2. job[d].step \in {"idle", "waiting", "replied"}
    BY DEF Writes, TurnFree, InTurn
  <2>3. ASSUME NEW i \in Id, job[d].cards[i] # None, job[d].cards[i].updated <= now
        PROVE  job[d].cards[i].updated <= now + 1
    <3>1. job[d].cards[i] \in Copy
      BY <1>1, <2>3, TypesAt
    <3>2. QED BY <1>2, <2>3, <3>1, CopyFacts
  <2>4. ASSUME NEW i \in Id, job[d].step # "idle", deck'[d][i] # None,
               dirty'[d][i] # job[d].dirty[i]
        PROVE  deck'[d][i].updated > job[d].at
    <3>1. CASE i = id
      BY <1>2, <2>1, <2>4, <3>1 DEF TurnFits
    <3>2. CASE i # id
      BY <1>2, <2>1, <2>2, <2>4, <3>2 DEF TurnFits, Early
    <3>3. QED BY <3>1, <3>2
  <2>5. QED BY <1>2, <2>1, <2>2, <2>3, <2>4 DEF TurnFits, Early
<1>5. QED BY <1>3, <1>4 DEF Timely

\* A delete takes cards away; nothing else of a merge rests on them.
LEMMA DeleteIsTimely ==
  ASSUME TurnInv, DeckTypeInv', NEW d \in Device, NEW ids \in SUBSET Id, Deletes(d, ids)
  PROVE  Timely(d)'
<1>1. Timely(d) /\ DeckTypeInv
  BY DEF TurnInv
<1>2. /\ Clock(d) \in Nat /\ now \in Nat /\ now' = now + 1 /\ Clock(d)' = Clock(d) + 1
      /\ job'[d] = job[d] /\ job[d].at \in Int /\ dirty'[d] = dirty[d]
      /\ \A i \in Id : deck'[d][i] \in {deck[d][i], None} /\ held'[d][i] = None
  BY <1>1, ClockFacts DEF DeckTypeInv, DevicesFit, JobFits, Deletes
<1>3. StampsBehind(d)'
  <2>1. ASSUME NEW c \in Copy, c.updated <= now \/ c.updated <= Clock(d)
        PROVE  c.updated <= now + 1 \/ c.updated <= Clock(d) + 1
    BY <1>2, <2>1, CopyFacts
  <2>2. ASSUME NEW c \in Copy, c.updated <= now
        PROVE  c.updated <= now + 1
    BY <1>2, <2>2, CopyFacts
  <2>3. ASSUME NEW i \in Id
        PROVE  /\ deck[d][i] \in Copy \cup {None}
               /\ job[d].step \in Answered => job[d].answer.cards[i] \in Copy \cup {None}
    BY <1>1, TypesAt
  <2>4. QED BY <1>1, <1>2, <2>1, <2>2, <2>3 DEF Timely, StampsBehind, Answered
<1>4. d \notin Yielding => TurnFits(d)'
  <2> SUFFICES ASSUME d \notin Yielding PROVE TurnFits(d)'
    OBVIOUS
  <2>1. TurnFits(d)
    BY <1>1 DEF Timely
  <2>2. job[d].step \in {"idle", "waiting", "replied"}
    BY DEF Deletes, TurnFree, InTurn
  <2>3. ASSUME NEW i \in Id, job[d].cards[i] # None, job[d].cards[i].updated <= now
        PROVE  job[d].cards[i].updated <= now + 1
    <3>1. job[d].cards[i] \in Copy
      BY <1>1, <2>3, TypesAt
    <3>2. QED BY <1>2, <2>3, <3>1, CopyFacts
  <2>4. QED BY <1>2, <2>1, <2>2, <2>3 DEF TurnFits, Early
<1>5. QED BY <1>3, <1>4 DEF Timely

LEMMA SettleIsTimely ==
  ASSUME TurnInv, DeckTypeInv', NEW d \in Device, Settles(d)
  PROVE  Timely(d)'
<1>1. /\ now' = now /\ Clock(d)' = Clock(d) /\ deck'[d] = deck[d] /\ dirty'[d] = dirty[d]
      /\ job'[d] = job[d] /\ (held'[d] = held[d] \/ held'[d] = deck[d])
  BY DEF Settles, serverVars, Clock
<1>2. Timely(d)
  BY DEF TurnInv
<1>3. StampsBehind(d)'
  BY <1>1, <1>2 DEF Timely, StampsBehind
<1>4. TurnFits(d) => TurnFits(d)'
  BY <1>1 DEF TurnFits
<1>5. QED BY <1>2, <1>3, <1>4 DEF Timely

\* The reads of an upload, and the one the merge is decided on.
LEMMA ReadIsTimely ==
  ASSUME TurnInv, DeckTypeInv', NEW d \in Device,
         Begin(d) \/ ReadCards(d) \/ ReadTombsAndSend(d) \/ MergeRead(d) \/ DropRead(d)
  PROVE  Timely(d)'
<1>1. Timely(d) /\ DeckTypeInv
  BY DEF TurnInv
<1>2. /\ Local(d) /\ SameStore(d) /\ now' = now /\ Clock(d)' = Clock(d)
      /\ deck'[d] = deck[d] /\ held'[d] = held[d] /\ dirty'[d] = dirty[d]
  <2>1. Local(d) /\ SameStore(d)
    BY <1>1, BeginFacts, ReadCardsFacts, ReadTombsFacts, MergeReadFacts, DropReadFacts
  <2>2. QED BY <2>1 DEF Local, SameStore, serverVars, Clock
<1>3. /\ job[d].at \in Int /\ Clock(d) \in Nat /\ now \in Nat
      /\ \A id \in Id : deck[d][id] # None => deck[d][id].updated \in Nat
  BY <1>1, ClockFacts, CopyFacts, TypesAt DEF DeckTypeInv, DevicesFit, JobFits
<1>4. CASE Begin(d)
  <2>1. job'[d].step = "dirty" /\ job'[d].at = Clock(d) /\ job'[d].dirty = dirty[d]
    BY <1>1, <1>4, BeginFacts
  <2>2. QED BY <1>1, <1>2, <1>3, <2>1 DEF Timely, StampsBehind, TurnFits, Early
<1>5. CASE ReadCards(d)
  <2>1. /\ job[d].step = "dirty" /\ job'[d].step = "cards"
        /\ job'[d].at = job[d].at /\ job'[d].dirty = job[d].dirty
        /\ \A id \in Id : job'[d].cards[id] \in {deck[d][id], None}
    BY <1>1, <1>5, ReadCardsFacts
  <2>2. QED BY <1>1, <1>2, <1>3, <2>1 DEF Timely, StampsBehind, TurnFits, Early
<1>6. CASE ReadTombsAndSend(d)
  <2>1. /\ job[d].step = "cards" /\ job'[d].step = "waiting"
        /\ job'[d].at = job[d].at /\ job'[d].dirty = job[d].dirty
        /\ job'[d].cards = job[d].cards
    BY <1>1, <1>6, ReadTombsFacts
  <2>2. QED BY <1>1, <1>2, <1>3, <2>1 DEF Timely, StampsBehind, TurnFits, Early
<1>7. CASE MergeRead(d)
  <2>1. /\ job[d].step = "replied" /\ job'[d].step = "merge" /\ Remembers(d)
        /\ \A id \in Id : id \in job'[d].put <=>
              CardApplies(job[d].answer.cards[id], deck[d][id], job[d].cards[id])
    BY <1>1, <1>7, MergeReadFacts
  <2>2. QED BY <1>1, <1>2, <1>3, <2>1 DEF Timely, StampsBehind, TurnFits, Early, Remembers
<1>8. CASE DropRead(d)
  <2>1. /\ job[d].step = "merged" /\ job'[d].step = "drop" /\ Remembers(d)
        /\ \A id \in Id : id \in job'[d].drop =>
              DeletionApplies(job[d].tombs[id] # None, deck[d][id], job[d].at)
    BY <1>1, <1>8, DropReadFacts
  <2>2. QED BY <1>1, <1>2, <1>3, <2>1 DEF Timely, StampsBehind, TurnFits, Early, Remembers
<1>9. QED BY <1>4, <1>5, <1>6, <1>7, <1>8

\* Writing what the answer brought, and what comes after it.
LEMMA ApplyIsTimely ==
  ASSUME TurnInv, DeckTypeInv', NEW d \in Device,
         \/ MergePut(d) \/ DropWrite(d) \/ ClearTombs(d) \/ ClearDirty(d)
         \/ SetCursor(d) \/ Abort(d)
  PROVE  Timely(d)'
<1>1. Timely(d) /\ DeckTypeInv
  BY DEF TurnInv
<1>2. /\ now' = now /\ Clock(d)' = Clock(d) /\ held'[d] = held[d]
      /\ job'[d].step \in {"idle", "merged", "dropped", "forwarded", "clean"}
      /\ job'[d].step # "idle" => job[d].step # "idle" /\ job'[d].at = job[d].at
  <2>1. UNCHANGED serverVars /\ held'[d] = held[d]
    BY <1>1, MergePutFacts, DropWriteFacts, ClearTombsFacts, ClearDirtyFacts, SetCursorFacts,
       AbortFacts DEF Local
  <2>2. /\ job'[d].step \in {"idle", "merged", "dropped", "forwarded", "clean"}
        /\ job'[d].step # "idle" => job[d].step # "idle" /\ job'[d].at = job[d].at
    BY <1>1, MergePutFacts, DropWriteFacts, ClearTombsFacts, ClearDirtyFacts, SetCursorFacts,
       AbortFacts, NoJobFits DEF Remembers
  <2>3. QED BY <2>1, <2>2 DEF serverVars, Clock
<1>3. ASSUME NEW id \in Id
      PROVE  \/ deck'[d][id] \in {deck[d][id], None}
             \/ job[d].step = "merge" /\ deck'[d][id] = job[d].answer.cards[id]
  BY <1>1, MergePutFacts, DropWriteFacts, ClearTombsFacts, ClearDirtyFacts, SetCursorFacts,
     AbortFacts DEF SameStore
<1>4. StampsBehind(d)'
  BY <1>1, <1>2, <1>3 DEF Timely, StampsBehind
<1>5. TurnFits(d) => TurnFits(d)'
  BY <1>2 DEF TurnFits, Early
<1>6. QED BY <1>1, <1>4, <1>5 DEF Timely

\* A row that took a card has a version at least the card's, cut to the clock.
LEMMA RequestTakesCard ==
  ASSUME NEW row \in Row, NEW del \in Int \cup {None}, NEW c \in Copy, NEW clock \in Nat,
         NEW r \in Nat, RowSound(row, clock, r),
         NEW new, new = MergeRow(row, del, c, clock, r + 1), new.card # None
  PROVE  new.card.updated >= c.updated \/ new.card.updated >= clock
<1> DEFINE mid == ApplyDeletion(row, del, clock, r + 1)
<1>1. c \in Card /\ c # None /\ VersionMs(c) = c.updated /\ c.updated \in Nat
  BY CopyFacts
<1>2. mid \in Row /\ RowSound(mid, clock, r + 1) /\ new = UpsertCard(mid, c, clock, r + 1)
  BY <1>1, DeletionKeepsRow DEF MergeRow
<1> HIDE DEF mid
<1>3. NormalizeVersion(c, clock) \in Nat
      /\ (NormalizeVersion(c, clock) >= c.updated \/ NormalizeVersion(c, clock) >= clock)
  BY <1>1 DEF NormalizeVersion
<1>4. \/ new = mid /\ StaleReplica(mid, c)
      \/ IF Wins(mid, c, clock) THEN new.card = Stamped(c, clock, r + 1)
         ELSE new.card = mid.card /\ mid.card # None
  BY <1>1, <1>2, UpsertCases
<1>5. CASE new = mid /\ StaleReplica(mid, c)
  BY <1>2, <1>5 DEF StaleReplica, RowSound
<1>6. CASE Wins(mid, c, clock) /\ new.card = Stamped(c, clock, r + 1)
  BY <1>3, <1>6 DEF Stamped
<1>7. CASE ~Wins(mid, c, clock) /\ new.card = mid.card /\ mid.card # None
  <2>1. mid.card.updated \in Nat
    BY <1>2, <1>7 DEF Row, StoredCard
  <2>2. QED BY <1>1, <1>3, <1>7, <2>1 DEF Wins
<1>8. QED BY <1>4, <1>5, <1>6, <1>7

LEMMA HandleIsTimely ==
  ASSUME TurnInv, DeckTypeInv', NEW d \in Device, Handle(d)
  PROVE  Timely(d)'
<1>1. Timely(d) /\ DeckTypeInv
  BY DEF TurnInv
<1>0. PICK u, s, delta : Answering(d, u, s, delta)
  BY <1>1, HandleFacts
<1>2. /\ u \in User /\ job[d].step = "waiting" /\ job'[d].step = "replied"
      /\ job'[d].at = job[d].at /\ job'[d].dirty = job[d].dirty /\ job'[d].cards = job[d].cards
      /\ SameStore(d) /\ held'[d] = held[d]
      /\ Sync(u, job[d].cards, job[d].tombs, {}, None)
      /\ \A id \in Id : job'[d].answer.cards[id] # None =>
           /\ job'[d].answer.cards[id] = Wire(table'[u][id].card)
           /\ table'[u][id].card # None
  <2>1. \A id \in Id : job'[d].answer.cards[id] =
           IF Returned(table'[u][id].card, s, delta, Asked(job[d], id))
           THEN Wire(table'[u][id].card) ELSE None
    BY <1>0 DEF Answering
  <2>2. /\ u \in User /\ job[d].step = "waiting" /\ job'[d].step = "replied"
        /\ job'[d].at = job[d].at /\ job'[d].dirty = job[d].dirty
        /\ job'[d].cards = job[d].cards /\ SameStore(d) /\ held'[d] = held[d]
        /\ Sync(u, job[d].cards, job[d].tombs, {}, None)
    BY <1>0 DEF Answering
  <2>3. QED BY <2>1, <2>2 DEF Returned
<1>3. /\ job[d].cards \in Copies /\ job[d].tombs \in Times
      /\ job[d].at \in Int /\ now \in 1..MaxNow
  BY <1>1 DEF DeckTypeInv, DevicesFit, JobFits, ServerFits
<1>4. /\ now' = now /\ Clock(d)' = Clock(d) /\ rev \in Nat
      /\ \A id \in Id :
           table'[u][id] = MergeRow(table[u][id], job[d].tombs[id], job[d].cards[id], now, rev + 1)
  BY <1>1, <1>2, <1>3, SyncFits DEF DeckTypeInv, Clock
<1>5. ASSUME NEW id \in Id, job'[d].answer.cards[id] # None
      PROVE  /\ job'[d].answer.cards[id].updated = table'[u][id].card.updated
             /\ table'[u][id].card.updated <= now
  <2>1. job'[d].answer.cards[id] = Wire(table'[u][id].card) /\ table'[u][id].card # None
    BY <1>2, <1>5
  <2>2. RowSound(table'[u][id], now', rev')
    BY <1>2 DEF DeckTypeInv, ServerFits, IndInv, DatabaseSound
  <2>3. QED BY <1>4, <2>1, <2>2 DEF RowSound, Wire
<1>6. StampsBehind(d)'
  BY <1>1, <1>2, <1>4, <1>5 DEF Timely, StampsBehind, SameStore
<1>7. ASSUME d \notin Yielding, NEW id \in Id, job[d].cards[id] # None,
             job'[d].answer.cards[id] # None
      PROVE  \/ job'[d].answer.cards[id].updated >= job[d].cards[id].updated
             \/ job[d].cards[id].updated <= job[d].at
  <2> DEFINE row == table[u][id]
             del == job[d].tombs[id]
             c == job[d].cards[id]
             new == table'[u][id]
  <2>1. c \in Copy /\ c.updated \in Nat
    BY <1>3, <1>7, CopyFacts DEF Copies
  <2>2. del \in Int \cup {None}
    <3>1. del \in Stamp \cup {None}
      BY <1>3 DEF Times
    <3> HIDE DEF del
    <3>2. QED BY <3>1
  <2>3. row \in Row /\ RowSound(row, now, rev)
    BY <1>1, <1>2 DEF DeckTypeInv, ServerFits, IndInv, TypeOK, DatabaseSound
  <2>4. new.card # None /\ new = MergeRow(row, del, c, now, rev + 1)
        /\ new \in Row
    BY <1>2, <1>4, <1>7 DEF DeckTypeInv, ServerFits, IndInv, TypeOK
  <2>5. job'[d].answer.cards[id].updated = new.card.updated
    BY <1>5, <1>7
  <2>6. c.updated <= now \/ c.updated <= job[d].at
    BY <1>1, <1>2, <1>7 DEF Timely, TurnFits
  <2>7. now \in Nat
    BY <1>3
  <2> HIDE DEF row, del, c, new
  <2>8. new.card.updated >= c.updated \/ new.card.updated >= now
    BY <1>4, <2>1, <2>2, <2>3, <2>4, <2>7, RequestTakesCard
  <2>9. new.card.updated \in Nat
    BY <2>4 DEF Row, StoredCard
  <2>10. new.card.updated >= c.updated \/ c.updated <= job[d].at
    BY <2>1, <2>6, <2>7, <2>8, <2>9
  <2>11. QED BY <2>5, <2>10 DEF c
<1>8. d \notin Yielding => TurnFits(d)'
  BY <1>1, <1>2, <1>4, <1>7 DEF Timely, TurnFits, Early, SameStore
<1>9. QED BY <1>6, <1>8 DEF Timely

LEMMA TurnStarts == DeckInit => TurnInv
<1> SUFFICES ASSUME DeckInit PROVE TurnInv
  OBVIOUS
<1>1. DeckTypeInv
  BY DeckTypesStart
<1>2. ASSUME NEW d \in Device
      PROVE  Timely(d)
  <2>1. job[d].step = "idle" /\ \A id \in Id : deck[d][id] = None /\ held[d][id] = None
    BY NoJobFits DEF DeckInit, Nothing
  <2>2. QED BY <2>1 DEF Timely, StampsBehind, TurnFits, Early
<1>3. QED BY <1>1, <1>2 DEF TurnInv

\* A step of one device, and what the others see of it.
LEMMA TurnStep == TurnInv /\ [DeckNext]_vars => TurnInv'
<1> SUFFICES ASSUME TurnInv, [DeckNext]_vars PROVE TurnInv'
  OBVIOUS
<1>1. DeckTypeInv /\ DeckTypeInv'
  BY DeckTypesStep DEF TurnInv
<1>2. ASSUME NEW d \in Device, Others(d), ClockRuns, Timely(d)'
      PROVE  TurnInv'
  BY <1>1, <1>2, BystanderIsTimely DEF TurnInv, Others
<1>3. ASSUME NEW d \in Device, UserStep(d)
      PROVE  TurnInv'
  <2>1. ASSUME NEW id \in Id, Add(d, id) \/ Edit(d, id) \/ Rate(d, id)
        PROVE  TurnInv'
    <3>1. Writes(d, id)
      BY <1>1, <2>1, WriteFacts
    <3>2. Others(d) /\ ClockRuns
      BY <3>1 DEF Writes, ClockRuns
    <3>3. QED BY <1>1, <1>2, <3>1, <3>2, WriteIsTimely
  <2>2. ASSUME NEW ids \in SUBSET Id, Delete(d, ids)
        PROVE  TurnInv'
    <3>1. Deletes(d, ids)
      BY <1>1, <2>2, DeleteFacts
    <3>2. Others(d) /\ ClockRuns
      BY <3>1 DEF Deletes, ClockRuns
    <3>3. QED BY <1>1, <1>2, <3>1, <3>2, DeleteIsTimely
  <2>3. CASE Load(d) \/ \E u \in User : SignIn(d, u)
    <3>1. Settles(d)
      BY <1>1, <2>3, SettleFacts
    <3>2. Others(d) /\ ClockRuns
      BY <3>1 DEF Settles, ClockRuns, serverVars
    <3>3. QED BY <1>1, <1>2, <3>1, <3>2, SettleIsTimely
  <2>4. QED BY <1>3, <2>1, <2>2, <2>3 DEF UserStep
<1>4. ASSUME NEW d \in Device, SyncStep(d)
      PROVE  TurnInv'
  <2>1. CASE Begin(d) \/ ReadCards(d) \/ ReadTombsAndSend(d) \/ MergeRead(d) \/ DropRead(d)
    <3>1. Local(d)
      BY <1>1, <2>1, BeginFacts, ReadCardsFacts, ReadTombsFacts, MergeReadFacts, DropReadFacts
    <3>2. Others(d) /\ ClockRuns
      BY <3>1 DEF Local, ClockRuns, serverVars
    <3>3. QED BY <1>1, <1>2, <2>1, <3>2, ReadIsTimely
  <2>2. CASE Handle(d)
    <3>1. Others(d) /\ Sync(job[d].user, job[d].cards, job[d].tombs, {}, None)
      <4>1. PICK u, s, delta : Answering(d, u, s, delta)
        BY <1>1, <2>2, HandleFacts
      <4>2. QED BY <4>1 DEF Answering
    <3>2. ClockRuns
      BY <3>1 DEF Sync, ClockRuns
    <3>3. QED BY <1>1, <1>2, <2>2, <3>1, <3>2, HandleIsTimely
  <2>3. CASE \/ MergePut(d) \/ DropWrite(d) \/ ClearTombs(d) \/ ClearDirty(d)
             \/ SetCursor(d) \/ Abort(d)
    <3>1. UNCHANGED serverVars /\ Others(d)
      BY <1>1, <2>3, MergePutFacts, DropWriteFacts, ClearTombsFacts, ClearDirtyFacts,
         SetCursorFacts, AbortFacts DEF Local
    <3>2. ClockRuns
      BY <3>1 DEF ClockRuns, serverVars
    <3>3. QED BY <1>1, <1>2, <2>3, <3>1, <3>2, ApplyIsTimely
  <2>4. QED BY <1>4, <2>1, <2>2, <2>3 DEF SyncStep
<1>5. ASSUME ClockRuns, \A d \in Device : Same(d)
      PROVE  TurnInv'
  BY <1>1, <1>5, BystanderIsTimely DEF TurnInv
<1>6. ASSUME NEW m \in stray, HandleStray(m)
      PROVE  TurnInv'
  <2>1. (\A d \in Device : Same(d)) /\ Sync(m.user, m.cards, m.tombs, {}, None)
    BY <1>1, <1>6, StrayFacts
  <2>2. QED BY <1>5, <2>1 DEF Sync, ClockRuns
<1>7. CASE Maintenance
  BY <1>1, <1>5, <1>7, MaintenanceFacts DEF ClockRuns
<1>8. CASE UNCHANGED vars
  BY <1>5, <1>8 DEF vars, deviceVars, serverVars, ClockRuns, Same
<1>9. QED BY <1>3, <1>4, <1>6, <1>7, <1>8 DEF DeckNext

\* The two steps that write what an answer brought.
LEMMA PutSurvives ==
  ASSUME TurnInv, NEW d \in Device \ Yielding, NEW id \in Id, MergePut(d), Unsent(d, id)
  PROVE  Survives(d, id)
<1>1. DeckTypeInv /\ TurnFits(d) /\ d \in Device
  BY DEF TurnInv, Timely
<1> DEFINE mine == deck[d][id]
           theirs == job[d].answer.cards[id]
           sent == job[d].cards[id]
<1>2. /\ job[d].step = "merge"
      /\ deck'[d][id] = IF id \in job[d].put THEN theirs ELSE mine
  BY <1>1, MergePutFacts
<1>3. mine \in Copy /\ sent \in Copy \cup {None} /\ theirs \in Copy \cup {None}
      /\ job[d].at \in Int
  BY <1>1, <1>2, TypesAt DEF Unsent, Answered
<1>4. mine.updated > job[d].at
  BY <1>1, <1>2 DEF TurnFits, Unsent, Early
<1>5. CASE id \in job[d].put
  <2>1. CardApplies(theirs, mine, sent)
    BY <1>1, <1>2, <1>5 DEF TurnFits
  <2>2. sent # None /\ theirs # None
          => theirs.updated >= sent.updated \/ sent.updated <= job[d].at
    BY <1>1, <1>2 DEF TurnFits
  <2>3. deck'[d][id] = theirs
    BY <1>2, <1>5
  <2> HIDE DEF mine, theirs, sent
  <2>4. theirs \in Copy /\ mine # None
    BY <1>3, <2>1, CopyFacts DEF CardApplies
  <2>5. VersionMs(theirs) >= VersionMs(mine)
    <3>1. CASE sent # None /\ VersionMs(sent) = VersionMs(mine)
      <4>1. sent \in Copy
        BY <1>3, <3>1
      <4>2. VersionMs(sent) = sent.updated /\ VersionMs(mine) = mine.updated
            /\ VersionMs(theirs) = theirs.updated /\ mine.updated \in Nat
            /\ theirs.updated \in Nat /\ theirs # None
        BY <1>3, <2>4, <4>1, CopyFacts
      <4>3. sent.updated = mine.updated
        BY <3>1, <4>2
      <4>4. ~(sent.updated <= job[d].at)
        BY <1>3, <1>4, <4>2, <4>3
      <4>5. theirs.updated >= sent.updated
        BY <2>2, <3>1, <4>2, <4>4
      <4>6. QED BY <4>2, <4>3, <4>5
    <3>2. CASE VersionMs(theirs) >= VersionMs(mine)
      BY <3>2
    <3>3. QED BY <2>1, <2>4, <3>1, <3>2 DEF CardApplies
  <2>6. theirs # None
    BY <2>4, CopyFacts
  <2>7. QED BY <2>3, <2>5, <2>6 DEF Survives, mine
<1>6. CASE id \notin job[d].put
  BY <1>2, <1>3, <1>6, CopyFacts DEF Survives
<1>7. QED BY <1>5, <1>6

LEMMA DropSurvives ==
  ASSUME TurnInv, NEW d \in Device \ Yielding, NEW id \in Id, DropWrite(d), Unsent(d, id)
  PROVE  Survives(d, id)
<1>1. DeckTypeInv /\ TurnFits(d) /\ d \in Device
  BY DEF TurnInv, Timely
<1>2. /\ job[d].step = "drop"
      /\ deck'[d][id] = IF id \in job[d].drop THEN None ELSE deck[d][id]
  BY <1>1, DropWriteFacts
<1>3. deck[d][id] \in Copy
  BY <1>1, TypesAt DEF Unsent
<1>4. CASE id \in job[d].drop
  BY <1>1, <1>2, <1>3, <1>4, CopyFacts DEF TurnFits, DeletionApplies, Survives
<1>5. CASE id \notin job[d].drop
  BY <1>2, <1>3, <1>5, CopyFacts DEF Survives
<1>6. QED BY <1>4, <1>5

\* The stamps and the turns of the devices are as the merge rests on.
THEOREM TurnsAreWhole == DeckSpec => []TurnInv
BY TurnStarts, TurnStep, PTL DEF DeckSpec

\* On a store that does not yield, applying an answer never takes away what the
\* user did while it was on its way: no older card replaces a newer write, whatever
\* the clocks, and no word added since the upload is dropped.
THEOREM WritesOutliveMerges == DeckSpec => LocalWritesSurvive
<1>1. ASSUME TurnInv, [DeckNext]_vars, NEW d \in Device \ Yielding, NEW id \in Id,
             Unsent(d, id), now' = now
      PROVE  Survives(d, id)
  <2>1. DeckTypeInv /\ d \in Device /\ deck[d][id] \in Copy /\ now \in Nat
    BY <1>1, TypesAt DEF TurnInv, Unsent
  <2>2. CASE MergePut(d)
    BY <1>1, <2>2, PutSurvives
  <2>3. CASE DropWrite(d)
    BY <1>1, <2>3, DropSurvives
  <2>4. ASSUME deck'[d] = deck[d]
        PROVE  Survives(d, id)
    <3>1. VersionMs(deck[d][id]) \in Nat /\ deck[d][id] # None
      BY <2>1, CopyFacts
    <3>2. QED BY <2>4, <3>1 DEF Survives
  <2>5. ASSUME NEW e \in Device, UserStep(e)
        PROVE  deck'[d] = deck[d]
    <3>1. ASSUME NEW i \in Id, Add(e, i) \/ Edit(e, i) \/ Rate(e, i)
          PROVE  FALSE
      <4>1. Writes(e, i)
        BY <2>1, <3>1, WriteFacts
      <4>2. QED BY <1>1, <2>1, <4>1 DEF Writes
    <3>2. ASSUME NEW ids \in SUBSET Id, Delete(e, ids)
          PROVE  FALSE
      <4>1. Deletes(e, ids)
        BY <2>1, <3>2, DeleteFacts
      <4>2. QED BY <1>1, <2>1, <4>1 DEF Deletes
    <3>3. QED BY <2>5, <3>1, <3>2 DEF UserStep, Load, SignIn
  <2>6. ASSUME NEW e \in Device, SyncStep(e)
        PROVE  deck'[d] = deck[d] \/ MergePut(d) \/ DropWrite(d)
    <3>1. CASE Begin(e) \/ ReadCards(e) \/ ReadTombsAndSend(e) \/ Handle(e)
      BY <3>1 DEF Begin, ReadCards, ReadTombsAndSend, Handle
    <3>2. CASE MergeRead(e) \/ DropRead(e) \/ ClearTombs(e) \/ ClearDirty(e)
               \/ SetCursor(e) \/ Abort(e)
      BY <3>2 DEF MergeRead, DropRead, ClearTombs, ClearDirty, SetCursor, Abort
    <3>3. CASE MergePut(e) \/ DropWrite(e)
      <4>1. Local(e)
        BY <2>1, <3>3, MergePutFacts, DropWriteFacts
      <4>2. e # d => deck'[d] = deck[d]
        BY <2>1, <4>1 DEF Local, Others, Same
      <4>3. QED BY <3>3, <4>2
    <3>4. QED BY <2>6, <3>1, <3>2, <3>3 DEF SyncStep
  <2>7. CASE \/ \E m \in stray : HandleStray(m)
             \/ Maintenance
             \/ UNCHANGED vars
    BY <2>4, <2>7 DEF HandleStray, Maintenance, vars, deviceVars
  <2>8. QED BY <1>1, <2>2, <2>3, <2>4, <2>5, <2>6, <2>7 DEF DeckNext
<1>2. TurnInv /\ [DeckNext]_vars =>
        [\A d \in Device \ Yielding, id \in Id :
           Unsent(d, id) /\ now' = now => Survives(d, id)]_vars
  BY <1>1
<1>3. QED BY <1>2, TurnsAreWhole, PTL DEF DeckSpec, LocalWritesSurvive

-----------------------------------------------------------------------------
(* What a cursor stands for.                                               *)

Deleted(id) == past[id].deleted # None

\* The tombstone of a row, if any, is one a cursor at k covers.
Covered(row, k) == row.tomb = None \/ row.tomb.rev <= k

\* The server would honour this cursor now, and never handed out a later one.
Serves(c, u) == CanServeDelta(c, u, epoch, rev + 1, prunedRev)
Behind(c, e, r) == c.epoch <= e /\ (c.epoch = e => c.rev <= r)

\* How the server moves on: what it left at or below a revision it found so, and a
\* word no one deleted keeps its card, at a version that only moves up. A restore
\* changes the epoch instead.
RowMoves(u, id) ==
  /\ \A k \in Nat : k <= rev =>
       /\ table'[u][id].card # None /\ table'[u][id].card.rev <= k
            => table'[u][id].card = table[u][id].card
       /\ k >= prunedRev' /\ table'[u][id].card = None /\ Covered(table'[u][id], k)
            => table[u][id].card = None /\ Covered(table[u][id], k)
  /\ ~Deleted(id) /\ table[u][id].card # None
       => table'[u][id].card # None /\ table'[u][id].card.updated >= table[u][id].card.updated

ServerMoves ==
  /\ epoch' >= epoch /\ now' >= now
  /\ \A id \in Id : Deleted(id) => Deleted(id)'
  /\ epoch' = epoch => /\ rev' >= rev /\ prunedRev' >= prunedRev
                       /\ \A u \in User, id \in Id : RowMoves(u, id)

\* Of a word no one ever deleted there is no tombstone, stored, kept or on its way.
Undeleted(id) ==
  /\ \A u \in User : /\ table[u][id].tomb = None
                     /\ backup # None => backup.table[u][id].tomb = None
  /\ \A d \in Device : /\ tombs[d][id] = None
                       /\ job[d].step \in {"waiting"} \cup Answered => job[d].tombs[id] = None
  /\ \A m \in stray : m.tombs[id] = None

NeverDeleted == \A id \in Id : ~Deleted(id) => Undeleted(id)

\* What the types say of the server.
LEMMA ServerTypes ==
  ASSUME DeckTypeInv
  PROVE  /\ now \in Nat /\ epoch \in Nat /\ rev \in Nat /\ prunedRev \in Nat
         /\ prunedRev <= rev
         /\ \A u \in User, id \in Id :
              /\ table[u][id] \in Row /\ RowSound(table[u][id], now, rev)
              /\ table[u][id].card # None =>
                   /\ Wire(table[u][id].card) \in Copy
                   /\ table[u][id].card.rev \in Nat /\ table[u][id].card.rev <= rev
                   /\ table[u][id].card.updated \in Nat
<1>1. /\ now \in Nat /\ epoch \in Nat /\ rev \in Nat /\ prunedRev \in Nat
      /\ prunedRev <= rev /\ CardsFit(table)
      /\ \A u \in User, id \in Id : table[u][id] \in Row /\ RowSound(table[u][id], now, rev)
  BY DEF DeckTypeInv, ServerFits, IndInv, TypeOK, DatabaseSound
<1>2. ASSUME NEW u \in User, NEW id \in Id, table[u][id].card # None
      PROVE  /\ Wire(table[u][id].card) \in Copy
             /\ table[u][id].card.rev \in Nat /\ table[u][id].card.rev <= rev
             /\ table[u][id].card.updated \in Nat
  BY <1>1, <1>2 DEF CardsFit, RowSound, Row, StoredCard
<1>3. QED BY <1>1, <1>2

\* A step that leaves the rows alone moves the server.
LEMMA IdleMoves ==
  ASSUME DeckTypeInv, UNCHANGED <<meta, tables>>, now' = now \/ now' = now + 1,
         \A id \in Id : Deleted(id) => Deleted(id)'
  PROVE  ServerMoves
<1>1. /\ epoch' = epoch /\ rev' = rev /\ prunedRev' = prunedRev /\ table' = table
  BY DEF meta, tables
<1>2. /\ now \in Nat /\ epoch \in Nat /\ rev \in Nat /\ prunedRev \in Nat
      /\ \A u \in User, id \in Id : table[u][id].card # None => table[u][id].card.updated \in Nat
  BY ServerTypes
<1>3. ASSUME NEW u \in User, NEW id \in Id
      PROVE  RowMoves(u, id)
  BY <1>1, <1>2 DEF RowMoves, Covered
<1>4. QED BY <1>1, <1>2, <1>3 DEF ServerMoves

\* So does a request, on time or late.
LEMMA SyncMoves ==
  ASSUME DeckTypeInv, NeverDeleted, past' = past,
         NEW u \in User, NEW cards \in Copies, NEW dels \in Times,
         Sync(u, cards, dels, {}, None),
         \A id \in Id : ~Deleted(id) => dels[id] = None
  PROVE  /\ ServerMoves
         /\ \A id \in Id : ~Deleted(id) =>
              /\ \A v \in User : /\ table'[v][id].tomb = None
                                 /\ backup' # None => backup'.table[v][id].tomb = None
              /\ cards[id] # None => table'[u][id].card # None
<1>1. /\ now' = now /\ epoch' = epoch /\ rev \in Nat /\ rev' = rev + 1
      /\ prunedRev' = prunedRev
      /\ \A id \in Id : table'[u][id] = MergeRow(table[u][id], dels[id], cards[id], now, rev + 1)
      /\ \A v \in User \ {u} : table'[v] = table[v]
  BY SyncFits DEF DeckTypeInv
<1>2. /\ now \in Nat /\ epoch \in Nat /\ prunedRev \in Nat
      /\ backup' = backup
  BY ServerTypes DEF Sync
<1>3. ASSUME NEW id \in Id
      PROVE  cards[id] \in Card \cup {None} /\ dels[id] \in Int \cup {None}
  <2>1. cards[id] \in Copy \cup {None} /\ dels[id] \in Stamp \cup {None}
    BY DEF Copies, Times
  <2> DEFINE c == cards[id]
             del == dels[id]
  <2> HIDE DEF c, del
  <2>2. c \in Copy \cup {None} /\ del \in Stamp \cup {None}
    BY <2>1 DEF c, del
  <2>3. c \in Card \cup {None} /\ del \in Int \cup {None}
    BY <2>2, CopyFacts
  <2>4. QED BY <2>3 DEF c, del
<1>4. ASSUME NEW v \in User, NEW id \in Id, v # u
      PROVE  table'[v][id] = table[v][id]
  BY <1>1, <1>4
<1>5. ASSUME NEW v \in User, NEW id \in Id
      PROVE  RowMoves(v, id)
  <2>1. /\ table[v][id] \in Row /\ RowSound(table[v][id], now, rev)
        /\ table[v][id].card # None => table[v][id].card.updated \in Nat
    BY ServerTypes
  <2>2. CASE v # u
    BY <1>4, <2>1, <2>2 DEF RowMoves, Covered
  <2>3. CASE v = u
    <3> DEFINE row == table[v][id]
               new == table'[v][id]
               c == cards[id]
               del == dels[id]
    <3>1. /\ new = MergeRow(row, del, c, now, rev + 1)
          /\ row \in Row /\ RowSound(row, now, rev)
          /\ c \in Card \cup {None} /\ del \in Int \cup {None}
      BY <1>1, <1>3, <2>1, <2>3
    <3>2. ~Deleted(id) => del = None /\ row.tomb = None
      BY DEF NeverDeleted, Undeleted
    <3> HIDE DEF row, new, c, del
    <3>3. \A k \in Nat : k <= rev =>
            /\ new.card # None /\ new.card.rev <= k => new.card = row.card
            /\ new.card = None /\ (new.tomb = None \/ new.tomb.rev <= k)
                 => row.card = None /\ (row.tomb = None \/ row.tomb.rev <= k)
      BY <1>1, <1>2, <3>1, RequestStampsChanges
    <3>4. ~Deleted(id) /\ row.card # None => new.card # None /\ new.card.updated >= row.card.updated
      BY <1>1, <1>2, <3>1, <3>2, RequestKeepsUndeleted
    <3>5. QED BY <3>3, <3>4 DEF RowMoves, Covered, row, new
  <2>4. QED BY <2>2, <2>3
<1>6. ASSUME NEW id \in Id, ~Deleted(id)
      PROVE  /\ \A v \in User : /\ table'[v][id].tomb = None
                                /\ backup' # None => backup'.table[v][id].tomb = None
             /\ cards[id] # None => table'[u][id].card # None
  <2>1. /\ \A v \in User : /\ table[v][id].tomb = None
                           /\ backup # None => backup.table[v][id].tomb = None
        /\ dels[id] = None
    BY <1>6 DEF NeverDeleted, Undeleted
  <2>2. table[u][id] \in Row
    BY ServerTypes
  <2>3. table'[u][id] = MergeRow(table[u][id], None, cards[id], now, rev + 1)
    BY <1>1, <2>1
  <2>4. table'[u][id].tomb = None /\ (cards[id] # None => table'[u][id].card # None)
    BY <1>1, <1>2, <1>3, <2>1, <2>2, <2>3, RequestKeepsUndeleted
  <2>5. QED BY <1>2, <1>4, <2>1, <2>4
<1>7. QED BY <1>1, <1>2, <1>5, <1>6 DEF ServerMoves, Deleted

\* So do a prune, a backup, and a restore that rotates the epoch.
LEMMA OperatorMoves ==
  ASSUME Restore => Rotates, DeckTypeInv, NeverDeleted, past' = past,
         Restart \/ TakeBackup \/ Restore
  PROVE  /\ ServerMoves
         /\ \A id \in Id : ~Deleted(id) => \A v \in User :
              /\ table'[v][id].tomb = None
              /\ backup' # None => backup'.table[v][id].tomb = None
<1>1. /\ now \in Nat /\ epoch \in Nat /\ rev \in Nat /\ prunedRev \in Nat
      /\ \A id \in Id : Deleted(id)' <=> Deleted(id)
  BY ServerTypes DEF Deleted
<1>2. ASSUME NEW u \in User, NEW id \in Id
      PROVE  /\ table[u][id] \in Row
             /\ table[u][id].card # None => table[u][id].card.updated \in Nat
             /\ ~Deleted(id) => /\ table[u][id].tomb = None
                                /\ backup # None => backup.table[u][id].tomb = None
  BY ServerTypes DEF NeverDeleted, Undeleted
<1>3. CASE Restart
  <2>1. /\ now' = now /\ epoch' = epoch /\ rev' = rev /\ backup' = backup
    BY <1>3 DEF Restart
  <2>2. PrunableRevs \subseteq Int
    <3>1. ASSUME NEW u \in User, NEW id \in Id, Prunable(table[u][id])
          PROVE  table[u][id].tomb.rev \in Nat
      BY <1>2, <3>1 DEF Prunable, Row, StoredTomb
    <3>2. QED BY <3>1 DEF PrunableRevs
  <2>3. prunedRev' \in Int /\ prunedRev' >= prunedRev
        /\ \A r \in PrunableRevs : r <= prunedRev'
    BY <1>1, <1>3, <2>2 DEF Restart
  <2>4. ASSUME NEW u \in User, NEW id \in Id
        PROVE  /\ table'[u][id].card = table[u][id].card
               /\ \/ table'[u][id].tomb = table[u][id].tomb
                  \/ /\ table'[u][id].tomb = None /\ table[u][id].tomb # None
                     /\ table[u][id].tomb.rev \in Nat /\ table[u][id].tomb.rev <= prunedRev'
    <3>1. table'[u][id] = IF Prunable(table[u][id]) THEN [table[u][id] EXCEPT !.tomb = None]
                          ELSE table[u][id]
      BY <1>3 DEF Restart
    <3>2. CASE Prunable(table[u][id])
      <4>1. table[u][id].tomb.rev \in PrunableRevs
        <5>1. <<u, id>> \in {q \in User \X Id : Prunable(table[q[1]][q[2]])}
          BY <3>2
        <5>2. QED BY <5>1 DEF PrunableRevs
      <4>2. table[u][id].tomb # None /\ table[u][id].tomb.rev \in Nat
        BY <1>2, <3>2 DEF Prunable, Row, StoredTomb
      <4>3. table'[u][id].card = table[u][id].card /\ table'[u][id].tomb = None
        BY <1>2, <3>1, <3>2 DEF Row
      <4>4. QED BY <2>3, <4>1, <4>2, <4>3
    <3>3. CASE ~Prunable(table[u][id])
      BY <3>1, <3>3
    <3>4. QED BY <3>2, <3>3
  <2>5. ASSUME NEW u \in User, NEW id \in Id
        PROVE  RowMoves(u, id)
    BY <1>2, <2>3, <2>4 DEF RowMoves, Covered
  <2>6. QED BY <1>1, <1>2, <2>1, <2>3, <2>4, <2>5 DEF ServerMoves
<1>4. CASE TakeBackup
  <2>1. UNCHANGED <<meta, tables>> /\ now' = now /\ table' = table /\ backup'.table = table
    BY <1>4 DEF TakeBackup, tables
  <2>2. ServerMoves
    BY <1>1, <2>1, IdleMoves
  <2>3. QED BY <1>2, <2>1, <2>2
<1>5. CASE Restore
  <2>1. /\ now' = now /\ epoch' = epoch + 1
        /\ backup # None /\ backup' = backup /\ table' = backup.table
    BY <1>5 DEF Restore
  <2>2. QED BY <1>1, <1>2, <2>1 DEF ServerMoves
<1>6. QED BY <1>3, <1>4, <1>5

-----------------------------------------------------------------------------
(* The invariant of a device, one id at a time.                            *)

\* Nothing was written to the card since the snapshot: at the last step, when the
\* entries of the snapshot are gone, no entry is left.
Quiet(d, id) == dirty[d][id] = IF job[d].step = "clean" THEN None ELSE job[d].dirty[id]

\* The upload is what the device had: cards written since have later entries in
\* `dirty`, and no tombstone is written while it runs.
UploadAt(d, id) ==
  /\ dirty[d][id] # None => dirty[d][id] <= Clock(d)
  /\ job[d].step # "idle" /\ job[d].dirty[id] # None => job[d].dirty[id] <= Clock(d)
  /\ job[d].step \notin {"idle", "clean"} /\ dirty[d][id] = None => job[d].dirty[id] = None
  /\ job[d].step \in Early /\ deck[d][id] = None => Quiet(d, id)
  /\ job[d].step \in {"cards", "waiting", "replied", "merge"} /\ Quiet(d, id) =>
       job[d].cards[id] = IF job[d].since = None \/ job[d].dirty[id] # None
                          THEN deck[d][id] ELSE None
  /\ job[d].step \in {"waiting", "replied", "merge", "merged", "drop", "dropped"}
       => tombs[d][id] = job[d].tombs[id]

\* Cursors are behind the server, and the answer's is no earlier than the one sent.
Holds(d) ==
  /\ cursor[d] # None => Behind(cursor[d], epoch, rev)
  /\ job[d].step # "idle" /\ job[d].since # None => Behind(job[d].since, epoch, rev)
  /\ job[d].step # "idle" /\ cursor[d] # None => cursor[d] = job[d].since /\ account[d] = job[d].user
  /\ job[d].step \in Answered =>
       /\ Behind(job[d].answer.cursor, epoch, rev)
       /\ job[d].answer.full /\ job[d].since # None => ~Serves(job[d].since, job[d].user)
       /\ ~job[d].answer.full =>
            /\ job[d].since # None
            /\ job[d].since.epoch = job[d].answer.cursor.epoch
            /\ job[d].since.rev <= job[d].answer.cursor.rev

\* A copy shows a row a cursor at k covers, and is not ahead of it, but for another
\* life of a word that was deleted once.
Shown(mine, row, k, gone) ==
  row.card # None /\ row.card.rev <= k =>
    mine = Wire(row.card) \/ (gone /\ mine # None /\ mine.updated > row.card.updated)

NotAhead(mine, row, gone) ==
  ~gone /\ mine # None => row.card # None /\ mine.updated <= row.card.updated

Agrees(mine, row, k, gone) == Shown(mine, row, k, gone) /\ NotAhead(mine, row, gone)

\* Nothing of this id waits to be sent.
Clean(d, id) == tombs[d][id] = None /\ (dirty[d][id] = None \/ deck[d][id] = None)

KeptAt(d, id) ==
  Serves(cursor[d], account[d]) /\ Clean(d, id)
    => Agrees(deck[d][id], table[account[d]][id], cursor[d].rev, Deleted(id))

\* The same of the cursor a sync started from, until its answer is written, for
\* the ids the upload says nothing of.
Trusted(d) ==
  \/ job[d].step \in {"dirty", "cards", "waiting"} /\ Serves(job[d].since, job[d].user)
  \/ job[d].step \in {"replied", "merge"} /\ ~job[d].answer.full
     /\ job[d].answer.cursor.epoch = epoch

Unasked(d, id) ==
  Quiet(d, id) /\ tombs[d][id] = None /\ (job[d].dirty[id] = None \/ deck[d][id] = None)

SinceAt(d, id) ==
  Trusted(d) /\ Unasked(d, id)
    => Agrees(deck[d][id], table[job[d].user][id], job[d].since.rev, Deleted(id))

\* The answer has every row it covers that changed after the cursor sent, or was
\* asked for, as the server still has it.
AnswerAt(d, id) ==
  job[d].step \in Answered /\ job[d].answer.cursor.epoch = epoch =>
    LET a == job[d].answer
        row == table[job[d].user][id]
    IN /\ row.card # None /\ row.card.rev <= a.cursor.rev =>
            /\ a.full \/ row.card.rev > job[d].since.rev \/ Asked(job[d], id)
                 => a.cards[id] = Wire(row.card)
            /\ a.cards[id] # None => a.cards[id] = Wire(row.card)
            /\ id \notin a.deletions
       /\ Serves(a.cursor, job[d].user) /\ row.card = None /\ Covered(row, a.cursor.rev)
            => a.cards[id] = None
       /\ ~Deleted(id) =>
            /\ Asked(job[d], id) => a.cards[id] # None
            /\ a.cards[id] # None => row.card # None /\ a.cards[id].updated <= row.card.updated

\* The choice of cards to write is still right for those not written since.
PutAt(d, id) ==
  /\ job[d].step = "merge" =>
       /\ Quiet(d, id) /\ CardApplies(job[d].answer.cards[id], deck[d][id], job[d].cards[id])
            => id \in job[d].put
       /\ id \in job[d].put => job[d].answer.cards[id] # None
  /\ job[d].step = "drop" /\ id \in job[d].drop => id \in job[d].answer.deletions

\* Once written, the answer's own cursor stands for the device.
AppliedAt(d, id) ==
  /\ job[d].step \in Late /\ ~Refused(job[d]) /\ Serves(job[d].answer.cursor, job[d].user)
  /\ Quiet(d, id) \/ deck[d][id] = None
  => Agrees(deck[d][id], table[job[d].user][id], job[d].answer.cursor.rev, Deleted(id))

\* Until the answer is written the cursor sent stands for the device; after it, the
\* answer's.
CopyAt(d, id) ==
  /\ UploadAt(d, id) /\ KeptAt(d, id) /\ SinceAt(d, id)
  /\ AnswerAt(d, id) /\ PutAt(d, id) /\ AppliedAt(d, id)

Abreast(d) == Holds(d) /\ \A id \in Id : CopyAt(d, id)

CopyInv == DeckTypeInv /\ NeverDeleted /\ \A d \in Device : Abreast(d)

\* A cursor served after a step was served before it.
LEMMA StillServed ==
  ASSUME DeckTypeInv, DeckTypeInv', ServerMoves, NEW c \in Cursor \cup {None}, NEW u,
         c # None => Behind(c, epoch, rev),
         CanServeDelta(c, u, epoch', rev' + 1, prunedRev')
  PROVE  /\ epoch' = epoch /\ Serves(c, u) /\ c \in Cursor /\ u \in User
         /\ c.rev \in Nat /\ c.rev <= rev /\ c.rev >= prunedRev'
<1>1. c # None /\ c.epoch = epoch' /\ c.user = u /\ c.rev >= prunedRev'
  BY DEF CanServeDelta
<1>2. c \in Cursor /\ c.rev \in Nat /\ c.epoch \in Nat /\ u \in User /\ Behind(c, epoch, rev)
  BY <1>1 DEF Cursor
<1>3. /\ epoch \in Nat /\ rev \in Nat /\ prunedRev \in Nat
      /\ epoch' \in Nat /\ rev' \in Nat /\ prunedRev' \in Nat
  BY ServerTypes DEF DeckTypeInv, ServerFits, IndInv, TypeOK
<1>4. epoch' = epoch
  BY <1>1, <1>2, <1>3 DEF ServerMoves, Behind
<1>5. prunedRev' >= prunedRev /\ c.rev <= rev
  BY <1>1, <1>2, <1>4 DEF ServerMoves, Behind
<1>6. Serves(c, u)
  BY <1>1, <1>2, <1>3, <1>4, <1>5 DEF Serves, CanServeDelta
<1>7. QED BY <1>1, <1>2, <1>4, <1>5, <1>6

LEMMA StillBehind ==
  ASSUME DeckTypeInv, DeckTypeInv', ServerMoves, NEW c \in Cursor,
         Behind(c, epoch, rev)
  PROVE  Behind(c, epoch', rev')
<1>1. c.rev \in Nat /\ c.epoch \in Nat
  BY DEF Cursor
<1>2. /\ epoch \in Nat /\ rev \in Nat /\ epoch' \in Nat /\ rev' \in Nat
  BY ServerTypes DEF DeckTypeInv, ServerFits, IndInv, TypeOK
<1>3. QED BY <1>1, <1>2 DEF ServerMoves, Behind

\* A copy that agreed with a row still does.
LEMMA StillAgrees ==
  ASSUME DeckTypeInv, DeckTypeInv', ServerMoves, epoch' = epoch,
         NEW u \in User, NEW id \in Id, NEW k \in Nat, k <= rev,
         NEW mine \in Copy \cup {None}, Agrees(mine, table[u][id], k, Deleted(id))
  PROVE  Agrees(mine, table'[u][id], k, Deleted(id)')
<1>1. RowMoves(u, id) /\ (Deleted(id) => Deleted(id)')
  BY DEF ServerMoves
<1>2. mine # None => mine.updated \in Nat
  BY CopyFacts
<1>3. /\ table[u][id].card # None => table[u][id].card.updated \in Nat
      /\ table'[u][id].card # None => table'[u][id].card.updated \in Nat
  BY ServerTypes DEF DeckTypeInv, ServerFits, IndInv, TypeOK, Row, StoredCard
<1>4. Shown(mine, table'[u][id], k, Deleted(id)')
  BY <1>1 DEF RowMoves, Agrees, Shown
<1>5. NotAhead(mine, table'[u][id], Deleted(id)')
  BY <1>1, <1>2, <1>3 DEF RowMoves, Agrees, NotAhead
<1>6. QED BY <1>4, <1>5 DEF Agrees

-----------------------------------------------------------------------------
(* A device that does nothing.                                             *)

\* What another actor, or a sign-in, leaves of a device and of one of its ids.
JobStands(d) ==
  /\ job'[d] = job[d]
  /\ cursor'[d] = None \/ (cursor'[d] = cursor[d] /\ account'[d] = account[d])

Stands(d, id) ==
  deck'[d][id] = deck[d][id] /\ dirty'[d][id] = dirty[d][id] /\ tombs'[d][id] = tombs[d][id]

LEMMA HoldsStands ==
  ASSUME DeckTypeInv, DeckTypeInv', ServerMoves, NEW d \in Device, Holds(d), JobStands(d)
  PROVE  Holds(d)'
<1>1. /\ cursor[d] \in Cursor \cup {None} /\ JobFits(job[d])
  BY DEF DeckTypeInv, DevicesFit
<1>2. /\ job[d].since \in Cursor \cup {None}
      /\ job[d].step \in Answered => job[d].answer.cursor \in Cursor
  BY <1>1 DEF JobFits, ReplyFits
<1>3. cursor'[d] # None => Behind(cursor'[d], epoch', rev')
  BY <1>1, StillBehind DEF Holds, JobStands
<1>4. job[d].step # "idle" /\ job[d].since # None => Behind(job[d].since, epoch', rev')
  BY <1>2, StillBehind DEF Holds
<1>5. job[d].step \in Answered => Behind(job[d].answer.cursor, epoch', rev')
  BY <1>2, StillBehind DEF Holds
<1>6. job[d].step \in Answered /\ job[d].answer.full /\ job[d].since # None
        => ~CanServeDelta(job[d].since, job[d].user, epoch', rev' + 1, prunedRev')
  <2> SUFFICES ASSUME job[d].step \in Answered, job[d].answer.full, job[d].since # None,
                      CanServeDelta(job[d].since, job[d].user, epoch', rev' + 1, prunedRev')
               PROVE  FALSE
    OBVIOUS
  <2>1. Behind(job[d].since, epoch, rev) /\ ~Serves(job[d].since, job[d].user)
    BY DEF Holds, Answered, Late
  <2>2. QED BY <1>2, <2>1, StillServed
<1>7. QED BY <1>3, <1>4, <1>5, <1>6 DEF Holds, JobStands, Serves

LEMMA UploadStands ==
  ASSUME DeckTypeInv, DeckTypeInv', ServerMoves, NEW d \in Device, NEW id \in Id,
         UploadAt(d, id), JobStands(d), Stands(d, id)
  PROVE  UploadAt(d, id)'
<1>1. /\ dirty[d][id] \in Stamp \cup {None} /\ job[d].dirty[id] \in Stamp \cup {None}
  BY TypesAt
<1>2. Clock(d) \in Nat /\ Clock(d)' \in Nat /\ Clock(d)' >= Clock(d)
  <2>1. now \in Nat /\ now' \in 1..MaxNow /\ Clock(d) \in Nat /\ Clock(d) = now + Skew[d]
        /\ Skew[d] \in Int
    BY ServerTypes, ClockFacts DEF DeckTypeInv, ServerFits
  <2>2. Clock(d)' = now' + Skew[d]
    BY DEF Clock
  <2>3. QED BY <2>1, <2>2 DEF ServerMoves
<1>3. Quiet(d, id)' <=> Quiet(d, id)
  BY DEF Quiet, JobStands, Stands
<1>4. ASSUME NEW t \in Stamp \cup {None}, t # None => t <= Clock(d)
      PROVE  t # None => t <= Clock(d)'
  BY <1>2, <1>4
<1>5. /\ dirty'[d][id] # None => dirty'[d][id] <= Clock(d)'
      /\ job[d].step # "idle" /\ job[d].dirty[id] # None => job[d].dirty[id] <= Clock(d)'
  BY <1>1, <1>4 DEF UploadAt, Stands
<1>6. QED BY <1>3, <1>5 DEF UploadAt, JobStands, Stands

LEMMA KeptStands ==
  ASSUME DeckTypeInv, DeckTypeInv', ServerMoves, NEW d \in Device, NEW id \in Id,
         Holds(d), KeptAt(d, id), Stands(d, id),
         cursor'[d] = None \/ (cursor'[d] = cursor[d] /\ account'[d] = account[d])
  PROVE  KeptAt(d, id)'
<1> SUFFICES ASSUME Serves(cursor[d], account[d])', Clean(d, id)'
             PROVE  Agrees(deck'[d][id], table'[account'[d]][id], cursor'[d].rev, Deleted(id)')
  BY DEF KeptAt
<1>1. CanServeDelta(cursor'[d], account'[d], epoch', rev' + 1, prunedRev')
  BY DEF Serves
<1>2. cursor'[d] # None
  BY <1>1 DEF CanServeDelta
<1>3. cursor[d] \in Cursor \cup {None} /\ deck[d][id] \in Copy \cup {None}
  BY TypesAt
<1>4. /\ epoch' = epoch /\ Serves(cursor[d], account[d]) /\ account[d] \in User
      /\ cursor[d].rev \in Nat /\ cursor[d].rev <= rev
  BY <1>1, <1>2, <1>3, StillServed DEF Holds
<1>5. Clean(d, id)
  BY DEF Clean, Stands
<1>6. QED BY <1>2, <1>3, <1>4, <1>5, StillAgrees DEF KeptAt, Stands

LEMMA SinceStands ==
  ASSUME DeckTypeInv, DeckTypeInv', ServerMoves, NEW d \in Device, NEW id \in Id,
         Holds(d), SinceAt(d, id), Stands(d, id), job'[d] = job[d]
  PROVE  SinceAt(d, id)'
<1> SUFFICES ASSUME Trusted(d)', Unasked(d, id)'
             PROVE  Agrees(deck'[d][id], table'[job[d].user][id], job[d].since.rev, Deleted(id)')
  BY DEF SinceAt
<1>1. job[d].since \in Cursor \cup {None} /\ deck[d][id] \in Copy \cup {None}
      /\ (job[d].step # "idle" => job[d].user \in User)
      /\ (job[d].step \in Answered => job[d].answer.cursor \in Cursor)
  BY TypesAt
<1>2. Unasked(d, id)
  BY DEF Unasked, Quiet, Stands
<1>3. /\ epoch' = epoch /\ Trusted(d) /\ job[d].user \in User
      /\ job[d].since.rev \in Nat /\ job[d].since.rev <= rev
  <2>1. CASE /\ job[d].step \in {"dirty", "cards", "waiting"}
             /\ CanServeDelta(job[d].since, job[d].user, epoch', rev' + 1, prunedRev')
    BY <1>1, <2>1, StillServed DEF Holds, Trusted
  <2>2. CASE /\ job[d].step \in {"replied", "merge"} /\ ~job[d].answer.full
             /\ job[d].answer.cursor.epoch = epoch'
    <3>1. /\ Behind(job[d].answer.cursor, epoch, rev)
          /\ job[d].since # None
          /\ job[d].since.epoch = job[d].answer.cursor.epoch
          /\ job[d].since.rev <= job[d].answer.cursor.rev
      BY <2>2 DEF Holds, Answered
    <3>2. job[d].answer.cursor \in Cursor
      BY <1>1, <2>2 DEF Answered
    <3>3. /\ epoch \in Nat /\ rev \in Nat /\ epoch' >= epoch
          /\ job[d].answer.cursor.epoch \in Nat
          /\ job[d].answer.cursor.rev \in Nat /\ job[d].since.rev \in Nat
      BY <1>1, <3>1, <3>2, ServerTypes DEF ServerMoves, Cursor
    <3>4. epoch' = epoch
      BY <2>2, <3>1, <3>3 DEF Behind
    <3>5. job[d].since.rev <= rev
      BY <2>2, <3>1, <3>3, <3>4 DEF Behind
    <3>6. QED BY <1>1, <2>2, <3>3, <3>4, <3>5 DEF Trusted
  <2>3. QED BY <2>1, <2>2 DEF Trusted, Serves
<1>4. QED BY <1>1, <1>2, <1>3, StillAgrees DEF SinceAt, Stands

LEMMA AnswerStands ==
  ASSUME DeckTypeInv, DeckTypeInv', ServerMoves, NEW d \in Device, NEW id \in Id,
         Holds(d), AnswerAt(d, id), job'[d] = job[d]
  PROVE  AnswerAt(d, id)'
<1> DEFINE u == job[d].user
           a == job[d].answer
           row == table[u][id]
           new == table'[u][id]
<1> SUFFICES ASSUME job[d].step \in Answered, a.cursor.epoch = epoch'
    PROVE  /\ new.card # None /\ new.card.rev <= a.cursor.rev =>
                /\ a.full \/ new.card.rev > job[d].since.rev \/ Asked(job[d], id)
                     => a.cards[id] = Wire(new.card)
                /\ a.cards[id] # None => a.cards[id] = Wire(new.card)
                /\ id \notin a.deletions
           /\ CanServeDelta(a.cursor, u, epoch', rev' + 1, prunedRev')
              /\ new.card = None /\ Covered(new, a.cursor.rev)
                => a.cards[id] = None
           /\ ~Deleted(id)' =>
                /\ Asked(job[d], id) => a.cards[id] # None
                /\ a.cards[id] # None => new.card # None /\ a.cards[id].updated <= new.card.updated
  BY SMTT(30) DEF AnswerAt, Serves, Asked, Covered
<1>1. /\ a.cards[id] \in Copy \cup {None} /\ a.cursor \in Cursor /\ a.cursor.user = u
      /\ u \in User
  BY TypesAt DEF Answered, Late
<1>2. /\ a.cursor.epoch \in Nat /\ a.cursor.rev \in Nat
      /\ (a.cards[id] # None => a.cards[id].updated \in Nat)
  BY <1>1, CopyFacts DEF Cursor
<1>3. /\ epoch \in Nat /\ rev \in Nat /\ Behind(a.cursor, epoch, rev)
      /\ (row.card # None => row.card.updated \in Nat)
      /\ (new.card # None => new.card.updated \in Nat)
  <2>1. new.card # None => new.card.updated \in Nat
    BY <1>1 DEF DeckTypeInv, ServerFits, IndInv, TypeOK, Row, StoredCard
  <2>2. QED BY <1>1, <2>1, ServerTypes DEF Holds
<1>4. epoch' = epoch /\ a.cursor.rev <= rev
  <2>1. epoch' >= epoch
    BY DEF ServerMoves
  <2>2. QED BY <1>2, <1>3, <2>1 DEF Behind
<1>5. RowMoves(u, id) /\ (Deleted(id) => Deleted(id)')
  BY <1>1, <1>4 DEF ServerMoves
<1>6. /\ row.card # None /\ row.card.rev <= a.cursor.rev =>
           /\ a.full \/ row.card.rev > job[d].since.rev \/ Asked(job[d], id)
                => a.cards[id] = Wire(row.card)
           /\ a.cards[id] # None => a.cards[id] = Wire(row.card)
           /\ id \notin a.deletions
      /\ Serves(a.cursor, u) /\ row.card = None /\ Covered(row, a.cursor.rev)
           => a.cards[id] = None
      /\ ~Deleted(id) =>
           /\ Asked(job[d], id) => a.cards[id] # None
           /\ a.cards[id] # None => row.card # None /\ a.cards[id].updated <= row.card.updated
  BY <1>4 DEF AnswerAt
<1>7. CanServeDelta(a.cursor, u, epoch', rev' + 1, prunedRev')
        => Serves(a.cursor, u) /\ a.cursor.rev >= prunedRev'
  BY <1>1, <1>3, StillServed
<1> HIDE DEF u, a, row, new
<1>8. /\ new.card # None /\ new.card.rev <= a.cursor.rev => new.card = row.card
      /\ a.cursor.rev >= prunedRev' /\ new.card = None /\ Covered(new, a.cursor.rev)
           => row.card = None /\ Covered(row, a.cursor.rev)
      /\ ~Deleted(id) /\ row.card # None => new.card # None /\ new.card.updated >= row.card.updated
  BY <1>2, <1>4, <1>5 DEF RowMoves, row, new
<1>9. ~Deleted(id)' /\ a.cards[id] # None => new.card # None /\ a.cards[id].updated <= new.card.updated
  BY <1>2, <1>3, <1>5, <1>6, <1>8
<1>10. QED BY <1>5, <1>6, <1>7, <1>8, <1>9

LEMMA PutStands ==
  ASSUME NEW d \in Device, NEW id \in Id, PutAt(d, id), Stands(d, id), job'[d] = job[d]
  PROVE  PutAt(d, id)'
BY DEF PutAt, Stands, Quiet

LEMMA AppliedStands ==
  ASSUME DeckTypeInv, DeckTypeInv', ServerMoves, NEW d \in Device, NEW id \in Id,
         Holds(d), AppliedAt(d, id), Stands(d, id), job'[d] = job[d]
  PROVE  AppliedAt(d, id)'
<1> DEFINE c == job[d].answer.cursor
           u == job[d].user
<1> SUFFICES ASSUME job[d].step \in Late, ~Refused(job[d])',
                    CanServeDelta(c, u, epoch', rev' + 1, prunedRev'),
                    Quiet(d, id)' \/ deck'[d][id] = None
             PROVE  Agrees(deck'[d][id], table'[u][id], c.rev, Deleted(id)')
  BY DEF AppliedAt, Serves
<1>0. ~Refused(job[d]) /\ (Quiet(d, id) \/ deck[d][id] = None)
  BY DEF Refused, Quiet, Stands
<1>1. c \in Cursor /\ deck[d][id] \in Copy \cup {None}
  BY TypesAt DEF Answered
<1>2. Behind(c, epoch, rev)
  BY DEF Holds, Answered
<1> HIDE DEF c, u
<1>3. epoch' = epoch /\ Serves(c, u) /\ u \in User /\ c.rev \in Nat /\ c.rev <= rev
  BY <1>1, <1>2, StillServed
<1>4. Agrees(deck[d][id], table[u][id], c.rev, Deleted(id))
  BY <1>0, <1>3 DEF AppliedAt, c, u
<1>5. QED BY <1>1, <1>3, <1>4, StillAgrees DEF Stands

LEMMA CopyStands ==
  ASSUME DeckTypeInv, DeckTypeInv', ServerMoves, NEW d \in Device, NEW id \in Id,
         Holds(d), CopyAt(d, id), JobStands(d), Stands(d, id)
  PROVE  CopyAt(d, id)'
<1>1. UploadAt(d, id)' /\ KeptAt(d, id)'
  BY UploadStands, KeptStands DEF CopyAt, JobStands
<1>2. SinceAt(d, id)' /\ AnswerAt(d, id)' /\ PutAt(d, id)' /\ AppliedAt(d, id)'
  BY SinceStands, AnswerStands, PutStands, AppliedStands DEF CopyAt, JobStands
<1>3. QED BY <1>1, <1>2 DEF CopyAt

\* What a device is left with when others act.
LEMMA BystanderHolds ==
  ASSUME DeckTypeInv, DeckTypeInv', ServerMoves, NEW d \in Device, Abreast(d), Same(d)
  PROVE  Abreast(d)'
<1>1. JobStands(d) /\ \A id \in Id : Stands(d, id)
  BY DEF Same, JobStands, Stands
<1>2. QED BY <1>1, HoldsStands, CopyStands DEF Abreast

-----------------------------------------------------------------------------
(* The device that acts.                                                   *)

LEMMA OlderStamp ==
  ASSUME NEW t \in Stamp \cup {None}, NEW c \in Nat, t # None => t <= c
  PROVE  t # c + 1 /\ (t # None => t <= c + 1)
OBVIOUS

\* A card the user writes has an entry no snapshot of a running sync has.
LEMMA WriteUnquiet ==
  ASSUME DeckTypeInv, NEW d \in Device, NEW id \in Id, UploadAt(d, id), Writes(d, id)
  PROVE  /\ dirty'[d][id] # None /\ dirty'[d][id] <= Clock(d)'
         /\ Clock(d)' = Clock(d) + 1 /\ Clock(d) \in Nat
         /\ job[d].step # "idle" => /\ ~Quiet(d, id)'
                                    /\ job[d].dirty[id] # None => job[d].dirty[id] <= Clock(d)'
<1>1. job'[d] = job[d] /\ dirty'[d][id] = Clock(d)'
  BY DEF Writes
<1>2. dirty'[d][id] # None /\ dirty'[d][id] <= Clock(d)' /\ Clock(d)' = Clock(d) + 1
      /\ Clock(d) \in Nat
  BY <1>1, ClockFacts DEF DeckTypeInv, Writes
<1> DEFINE t == job[d].dirty[id]
<1>3. t \in Stamp \cup {None} /\ (job[d].step # "idle" /\ t # None => t <= Clock(d))
  BY TypesAt DEF UploadAt
<1> HIDE DEF t
<1>4. job[d].step # "idle" => t # Clock(d) + 1 /\ (t # None => t <= Clock(d) + 1)
  BY <1>2, <1>3, OlderStamp
<1>5. QED BY <1>1, <1>2, <1>4 DEF Quiet, t

\* A card the user writes waits to be sent.
LEMMA WriteHolds ==
  ASSUME DeckTypeInv, DeckTypeInv', ServerMoves, NEW d \in Device, Abreast(d),
         NEW id \in Id, Writes(d, id)
  PROVE  Abreast(d)'
<1>1. JobStands(d) /\ \A i \in Id \ {id} : Stands(d, i)
  BY DEF Writes, JobStands, Stands
<1>2. Holds(d)' /\ \A i \in Id \ {id} : CopyAt(d, i)'
  BY <1>1, HoldsStands, CopyStands DEF Abreast
<1>3. /\ CopyAt(d, id) /\ job'[d] = job[d] /\ deck'[d][id] # None
      /\ dirty'[d][id] = Clock(d)' /\ tombs'[d] = tombs[d]
  BY DEF Abreast, Writes
<1>4. /\ dirty'[d][id] # None /\ dirty'[d][id] <= Clock(d)'
      /\ job[d].step # "idle" => /\ ~Quiet(d, id)'
                                 /\ job[d].dirty[id] # None => job[d].dirty[id] <= Clock(d)'
  BY <1>3, WriteUnquiet DEF CopyAt
<1>5. job[d].step # "idle" => ~Quiet(d, id)'
  BY <1>4
<1>6. UploadAt(d, id)'
  BY <1>3, <1>4, <1>5 DEF CopyAt, UploadAt, Early
<1>7. KeptAt(d, id)' /\ SinceAt(d, id)' /\ AppliedAt(d, id)'
  BY <1>3, <1>4, <1>5 DEF KeptAt, Clean, SinceAt, Trusted, Unasked, AppliedAt, Late
<1>8. PutAt(d, id)'
  BY <1>3, <1>5 DEF CopyAt, PutAt
<1>9. AnswerAt(d, id)'
  BY <1>3, AnswerStands DEF CopyAt, Abreast
<1>10. CopyAt(d, id)'
  BY <1>6, <1>7, <1>8, <1>9 DEF CopyAt
<1>11. QED BY <1>2, <1>10 DEF Abreast

\* So does a delete; with none of them while a sync runs, no job is concerned.
LEMMA DeleteHolds ==
  ASSUME ~DeletesMidSync, DeckTypeInv, DeckTypeInv', ServerMoves, NEW d \in Device, Abreast(d),
         NEW ids \in SUBSET Id, Deletes(d, ids)
  PROVE  Abreast(d)'
<1>1. JobStands(d) /\ \A i \in Id \ ids : Stands(d, i)
  BY DEF Deletes, JobStands, Stands
<1>2. Holds(d)' /\ \A i \in Id \ ids : CopyAt(d, i)'
  BY <1>1, HoldsStands, CopyStands DEF Abreast
<1>3. ASSUME NEW id \in ids
      PROVE  CopyAt(d, id)'
  <2>1. /\ CopyAt(d, id) /\ job'[d] = job[d] /\ job[d].step = "idle" /\ dirty'[d] = dirty[d]
        /\ tombs'[d][id] = Clock(d)'
    BY DEF Abreast, Deletes, Idle
  <2>2. tombs'[d][id] # None /\ Clock(d)' = Clock(d) + 1 /\ Clock(d) \in Nat
    BY <2>1, ClockFacts DEF DeckTypeInv, Deletes
  <2>3. dirty'[d][id] # None => dirty'[d][id] <= Clock(d)'
    <3> DEFINE t == dirty[d][id]
    <3>1. t \in Stamp \cup {None} /\ (t # None => t <= Clock(d))
      BY <2>1, TypesAt DEF CopyAt, UploadAt
    <3> HIDE DEF t
    <3>2. t # None => t <= Clock(d) + 1
      BY <2>2, <3>1, OlderStamp
    <3>3. QED BY <2>1, <2>2, <3>2 DEF t
  <2>4. UploadAt(d, id)'
    BY <2>1, <2>3 DEF UploadAt, Early
  <2>5. KeptAt(d, id)' /\ SinceAt(d, id)' /\ AppliedAt(d, id)' /\ PutAt(d, id)' /\ AnswerAt(d, id)'
    BY <2>1, <2>2 DEF KeptAt, Clean, SinceAt, Trusted, AppliedAt, Late, PutAt, AnswerAt, Answered
  <2>6. QED BY <2>4, <2>5 DEF CopyAt
<1>4. QED BY <1>2, <1>3 DEF Abreast

LEMMA SettleHolds ==
  ASSUME DeckTypeInv, DeckTypeInv', ServerMoves, NEW d \in Device, Abreast(d), Settles(d)
  PROVE  Abreast(d)'
<1>1. JobStands(d) /\ \A id \in Id : Stands(d, id)
  BY DEF Settles, JobStands, Stands
<1>2. QED BY <1>1, HoldsStands, CopyStands DEF Abreast

\* What stays when a sync takes a step of its own.
LEMMA LocalFrame ==
  ASSUME DeckTypeInv, NEW d \in Device, Local(d)
  PROVE  /\ ServerMoves /\ table' = table /\ epoch' = epoch /\ rev' = rev
         /\ prunedRev' = prunedRev /\ now' = now /\ Clock(d)' = Clock(d)
         /\ account'[d] = account[d] /\ \A id \in Id : Deleted(id)' <=> Deleted(id)
<1>1. UNCHANGED serverVars /\ past' = past
  BY DEF Local
<1>2. /\ UNCHANGED <<meta, tables>> /\ now' = now
  BY <1>1 DEF serverVars
<1>3. \A id \in Id : Deleted(id)' <=> Deleted(id)
  BY <1>1 DEF Deleted
<1>4. ServerMoves
  BY <1>2, <1>3, IdleMoves
<1>5. QED BY <1>2, <1>3, <1>4 DEF meta, tables, Clock, Local

LEMMA BeginHolds ==
  ASSUME DeckTypeInv, DeckTypeInv', NEW d \in Device, Abreast(d), Begin(d)
  PROVE  Abreast(d)'
<1>1. /\ Local(d) /\ SameStore(d) /\ job[d].step = "idle" /\ job'[d].step = "dirty"
      /\ job'[d].user = account[d] /\ job'[d].since = cursor[d] /\ job'[d].dirty = dirty[d]
  BY BeginFacts DEF Idle
<1>2. /\ ServerMoves /\ table' = table /\ epoch' = epoch /\ rev' = rev
      /\ prunedRev' = prunedRev /\ Clock(d)' = Clock(d)
      /\ account'[d] = account[d] /\ \A id \in Id : Deleted(id)' <=> Deleted(id)
      /\ deck'[d] = deck[d] /\ dirty'[d] = dirty[d] /\ tombs'[d] = tombs[d] /\ cursor'[d] = cursor[d]
  BY <1>1, LocalFrame DEF SameStore
<1>3. Holds(d)'
  BY <1>1, <1>2 DEF Abreast, Holds, Answered, Late
<1>4. ASSUME NEW id \in Id
      PROVE  CopyAt(d, id)'
  <2>1. CopyAt(d, id)
    BY DEF Abreast
  <2>2. UploadAt(d, id)'
    BY <1>1, <1>2, <2>1 DEF CopyAt, UploadAt, Quiet
  <2>3. KeptAt(d, id)'
    BY <1>2, <2>1, KeptStands DEF CopyAt, Abreast, Stands
  <2>4. SinceAt(d, id)'
    <3> SUFFICES ASSUME Trusted(d)', Unasked(d, id)'
                 PROVE  Agrees(deck'[d][id], table'[account[d]][id], cursor[d].rev, Deleted(id)')
      BY <1>1 DEF SinceAt
    <3>1. Serves(cursor[d], account[d])
      BY <1>1, <1>2 DEF Trusted, Serves
    <3>2. Clean(d, id)
      BY <1>1, <1>2 DEF Unasked, Quiet, Clean
    <3>3. Agrees(deck[d][id], table[account[d]][id], cursor[d].rev, Deleted(id))
      BY <2>1, <3>1, <3>2 DEF CopyAt, KeptAt
    <3>4. QED BY <1>2, <3>3 DEF Deleted, Agrees, Shown, NotAhead
  <2>5. AnswerAt(d, id)' /\ PutAt(d, id)' /\ AppliedAt(d, id)'
    BY <1>1 DEF AnswerAt, PutAt, AppliedAt, Answered, Late
  <2>6. QED BY <2>2, <2>3, <2>4, <2>5 DEF CopyAt
<1>5. QED BY <1>3, <1>4 DEF Abreast

\* What the answer and the cursor sent say is untouched by a step that only moves
\* the job on.
LEMMA SinceFrame ==
  ASSUME DeckTypeInv, NEW d \in Device, NEW id \in Id, Local(d), SameStore(d), SinceAt(d, id),
         job'[d].user = job[d].user, job'[d].since = job[d].since, job'[d].dirty = job[d].dirty,
         job'[d].step # "clean", job[d].step # "clean", Trusted(d)' => Trusted(d)
  PROVE  SinceAt(d, id)'
<1>1. table' = table /\ (Deleted(id)' <=> Deleted(id))
  BY LocalFrame
<1> SUFFICES ASSUME Trusted(d)', Unasked(d, id)'
             PROVE  Agrees(deck[d][id], table'[job[d].user][id], job[d].since.rev, Deleted(id)')
  BY DEF SinceAt, SameStore
<1>2. Unasked(d, id)
  BY DEF Unasked, Quiet, SameStore
<1>3. Agrees(deck[d][id], table[job[d].user][id], job[d].since.rev, Deleted(id))
  BY <1>2 DEF SinceAt
<1>4. QED BY <1>1, <1>3 DEF Agrees, Shown, NotAhead

LEMMA AnswerFrame ==
  ASSUME DeckTypeInv, NEW d \in Device, NEW id \in Id, Local(d), Remembers(d), AnswerAt(d, id),
         job[d].step \in Answered
  PROVE  AnswerAt(d, id)'
<1>1. /\ table' = table /\ epoch' = epoch /\ rev' = rev /\ prunedRev' = prunedRev
      /\ Deleted(id)' <=> Deleted(id)
  BY LocalFrame
<1>2. QED BY <1>1 DEF AnswerAt, Remembers, Asked, Covered, Serves

LEMMA HoldsFrame ==
  ASSUME DeckTypeInv, NEW d \in Device, Local(d), Holds(d), cursor'[d] = cursor[d],
         job[d].step # "idle",
         job'[d].user = job[d].user, job'[d].since = job[d].since,
         job'[d].step \in Answered =>
           job[d].step \in Answered /\ job'[d].answer = job[d].answer
  PROVE  Holds(d)'
<1>1. /\ epoch' = epoch /\ rev' = rev /\ prunedRev' = prunedRev /\ account'[d] = account[d]
  BY LocalFrame
<1>2. QED BY <1>1 DEF Holds, Serves

LEMMA ReadHolds ==
  ASSUME DeckTypeInv, DeckTypeInv', NEW d \in Device, Abreast(d),
         ReadCards(d) \/ ReadTombsAndSend(d)
  PROVE  Abreast(d)'
<1>1. /\ Local(d) /\ SameStore(d) /\ job[d].step \in {"dirty", "cards"}
      /\ job'[d].step \in {"cards", "waiting"}
      /\ job'[d].user = job[d].user /\ job'[d].since = job[d].since /\ job'[d].dirty = job[d].dirty
  BY ReadCardsFacts, ReadTombsFacts
<1>2. /\ ServerMoves /\ epoch' = epoch /\ rev' = rev /\ prunedRev' = prunedRev
      /\ Clock(d)' = Clock(d) /\ account'[d] = account[d]
      /\ deck'[d] = deck[d] /\ dirty'[d] = dirty[d] /\ tombs'[d] = tombs[d] /\ cursor'[d] = cursor[d]
  BY <1>1, LocalFrame DEF SameStore
<1>3. Holds(d)'
  BY <1>1, <1>2, HoldsFrame DEF Abreast, Answered, Late
<1>4. ASSUME NEW id \in Id
      PROVE  CopyAt(d, id)'
  <2>1. CopyAt(d, id)
    BY DEF Abreast
  <2>2. UploadAt(d, id)'
    <3>1. CASE ReadCards(d)
      <4>1. /\ job[d].step = "dirty" /\ job'[d].step = "cards"
            /\ job'[d].cards[id] = IF job[d].since = None \/ job[d].dirty[id] # None
                                   THEN deck[d][id] ELSE None
        BY <3>1, ReadCardsFacts
      <4>2. QED BY <1>1, <1>2, <2>1, <4>1 DEF CopyAt, UploadAt, Quiet, Early
    <3>2. CASE ReadTombsAndSend(d)
      <4>1. /\ job[d].step = "cards" /\ job'[d].step = "waiting"
            /\ job'[d].cards = job[d].cards /\ job'[d].tombs = tombs[d]
        BY <3>2, ReadTombsFacts
      <4>2. QED BY <1>1, <1>2, <2>1, <4>1 DEF CopyAt, UploadAt, Quiet, Early
    <3>3. QED BY <3>1, <3>2
  <2>3. KeptAt(d, id)'
    BY <1>2, <2>1, KeptStands DEF CopyAt, Abreast, Stands
  <2>4. SinceAt(d, id)'
    <3>1. Trusted(d)' => Trusted(d)
      BY <1>1, <1>2 DEF Trusted, Serves
    <3>2. QED BY <1>1, <2>1, <3>1, SinceFrame DEF CopyAt
  <2>5. AnswerAt(d, id)' /\ PutAt(d, id)' /\ AppliedAt(d, id)'
    BY <1>1 DEF AnswerAt, PutAt, AppliedAt, Answered, Late
  <2>6. QED BY <2>2, <2>3, <2>4, <2>5 DEF CopyAt
<1>5. QED BY <1>3, <1>4 DEF Abreast

LEMMA MergeReadHolds ==
  ASSUME DeckTypeInv, DeckTypeInv', NEW d \in Device, Abreast(d), MergeRead(d)
  PROVE  Abreast(d)'
<1>1. /\ Local(d) /\ SameStore(d) /\ Remembers(d)
      /\ job[d].step = "replied" /\ job'[d].step = "merge"
      /\ \A id \in Id : id \in job'[d].put <=>
           CardApplies(job[d].answer.cards[id], deck[d][id], job[d].cards[id])
  BY MergeReadFacts
<1>2. /\ ServerMoves /\ epoch' = epoch /\ Clock(d)' = Clock(d) /\ account'[d] = account[d]
      /\ deck'[d] = deck[d] /\ dirty'[d] = dirty[d] /\ tombs'[d] = tombs[d] /\ cursor'[d] = cursor[d]
  BY <1>1, LocalFrame DEF SameStore
<1>3. Holds(d)'
  BY <1>1, <1>2, HoldsFrame DEF Abreast, Answered, Remembers
<1>4. ASSUME NEW id \in Id
      PROVE  CopyAt(d, id)'
  <2>1. CopyAt(d, id)
    BY DEF Abreast
  <2>2. UploadAt(d, id)'
    BY <1>1, <1>2, <2>1 DEF CopyAt, UploadAt, Quiet, Early, Remembers
  <2>3. KeptAt(d, id)'
    BY <1>2, <2>1, KeptStands DEF CopyAt, Abreast, Stands
  <2>4. SinceAt(d, id)'
    <3>1. Trusted(d)' => Trusted(d)
      BY <1>1, <1>2 DEF Trusted, Remembers
    <3>2. QED BY <1>1, <2>1, <3>1, SinceFrame DEF CopyAt, Remembers
  <2>5. AnswerAt(d, id)'
    BY <1>1, <2>1, AnswerFrame DEF CopyAt, Answered
  <2>6. PutAt(d, id)'
    BY <1>1, <1>2 DEF PutAt, Quiet, Remembers, CardApplies
  <2>7. AppliedAt(d, id)'
    BY <1>1 DEF AppliedAt, Late
  <2>8. QED BY <2>2, <2>3, <2>4, <2>5, <2>6, <2>7 DEF CopyAt
<1>5. QED BY <1>3, <1>4 DEF Abreast

\* After an answer is written its cursor says no less than the one it was asked with.
LEMMA LateIsKept ==
  ASSUME DeckTypeInv', NEW d \in Device, NEW id \in Id, Holds(d)', UploadAt(d, id)',
         AppliedAt(d, id)', job'[d].step \in Late
  PROVE  KeptAt(d, id)'
<1> DEFINE j == job'[d]
           u == account'[d]
           c == cursor'[d]
           a == j.answer.cursor
           mine == deck'[d][id]
           row == table'[u][id]
<1> SUFFICES ASSUME CanServeDelta(c, u, epoch', rev' + 1, prunedRev'), Clean(d, id)'
             PROVE  Agrees(mine, row, c.rev, Deleted(id)')
  BY DEF KeptAt, Serves
<1>1. /\ c \in Cursor \cup {None} /\ JobFits(j) /\ rev' \in Nat /\ prunedRev' \in Nat
      /\ epoch' \in Nat
  BY DEF DeckTypeInv, DevicesFit, ServerFits, IndInv, TypeOK
<1>2. c # None /\ j.step # "idle" /\ c = j.since /\ u = j.user /\ j.step \in Answered
  BY DEF CanServeDelta, Holds, Late, Answered
<1>3. /\ c \in Cursor /\ c.rev \in Nat /\ c.epoch \in Nat
      /\ a \in Cursor /\ a.rev \in Nat /\ a.epoch \in Nat /\ a.user = u
  BY <1>1, <1>2 DEF Cursor, JobFits, ReplyFits
<1>4. /\ Behind(a, epoch', rev') /\ ~j.answer.full
      /\ c.epoch = a.epoch /\ c.rev <= a.rev
  BY <1>2 DEF Holds, Serves
<1>5. ~Refused(j)
  BY <1>4 DEF Refused
<1>6. CanServeDelta(a, u, epoch', rev' + 1, prunedRev')
  <2>1. c.epoch = epoch' /\ c.rev >= prunedRev'
    BY DEF CanServeDelta
  <2>2. a.rev <= rev' /\ a.rev >= prunedRev'
    BY <1>1, <1>3, <1>4, <2>1 DEF Behind
  <2>3. a # None
    BY <1>3, DeviceAssumption
  <2>4. QED BY <1>1, <1>3, <1>4, <2>1, <2>2, <2>3 DEF CanServeDelta
<1>7. Quiet(d, id)' \/ mine = None
  BY <1>2 DEF Clean, Quiet, UploadAt
<1>8. Agrees(mine, row, a.rev, Deleted(id)')
  BY <1>2, <1>5, <1>6, <1>7 DEF AppliedAt, Serves
<1>9. table'[u][id].card # None => table'[u][id].card.rev \in Nat
  <2>1. u \in User
    BY <1>1, <1>2 DEF JobFits
  <2>2. QED BY <2>1 DEF DeckTypeInv, ServerFits, IndInv, TypeOK, Row, StoredCard
<1> HIDE DEF j, u, c, a, mine
<1>10. QED BY <1>3, <1>4, <1>8, <1>9 DEF Agrees, Shown

\* The server's answer is whole: what the cursor sent did not cover is in it.
LEMMA HandleHolds ==
  ASSUME DeckTypeInv, DeckTypeInv', NeverDeleted, NEW d \in Device, Abreast(d), Handle(d)
  PROVE  ServerMoves /\ Abreast(d)'
<1>1. PICK u, s, delta : Answering(d, u, s, delta)
  BY HandleFacts
<1>2. /\ JobFits(job[d]) /\ JobFits(job'[d]) /\ u \in User /\ u = job[d].user
      /\ s = job[d].since /\ s \in Cursor \cup {None}
      /\ job[d].cards \in Copies /\ job[d].tombs \in Times
  BY <1>1 DEF Answering, DeckTypeInv, DevicesFit, JobFits
<1>3. /\ now' = now /\ epoch' = epoch /\ rev \in Nat /\ rev' = rev + 1 /\ prunedRev' = prunedRev
      /\ past' = past /\ epoch \in Nat /\ prunedRev \in Nat
      /\ \A id \in Id : Deleted(id)' <=> Deleted(id)
  BY <1>1, <1>2, SyncFits, ServerTypes DEF Answering, DeckTypeInv, Deleted
<1>4. \A id \in Id : ~Deleted(id) => job[d].tombs[id] = None
  BY <1>1 DEF NeverDeleted, Undeleted, Answering
<1>5. /\ ServerMoves
      /\ \A id \in Id : ~Deleted(id) =>
           /\ table'[u][id].tomb = None
           /\ job[d].cards[id] # None => table'[u][id].card # None
  BY <1>1, <1>2, <1>3, <1>4, SyncMoves DEF Answering
<1> DEFINE a == job'[d].answer
<1>6. /\ delta = CanServeDelta(s, u, epoch, rev + 1, prunedRev) /\ a.full = ~delta
      /\ a.cursor = [epoch |-> epoch, user |-> u, rev |-> rev + 1]
      /\ a.cursor.epoch = epoch /\ a.cursor.rev = rev + 1
      /\ job[d].step = "waiting" /\ job'[d].step = "replied"
      /\ job'[d].user = u /\ job'[d].since = s /\ job'[d].dirty = job[d].dirty
      /\ job'[d].cards = job[d].cards /\ job'[d].tombs = job[d].tombs
      /\ deck'[d] = deck[d] /\ dirty'[d] = dirty[d] /\ tombs'[d] = tombs[d]
      /\ cursor'[d] = cursor[d] /\ account'[d] = account[d]
  BY <1>1 DEF Answering, SameStore
<1>7. Clock(d)' = Clock(d)
  BY <1>3 DEF Clock
<1>8. delta <=> Serves(s, u)
  BY <1>6 DEF Serves
<1>9. s # None => Behind(s, epoch, rev)
  BY <1>2, <1>6 DEF Abreast, Holds
<1>10. Holds(d)'
  <2>1. cursor[d] # None => Behind(cursor[d], epoch', rev')
    <3>1. cursor[d] \in Cursor \cup {None}
      BY DEF DeckTypeInv, DevicesFit
    <3>2. QED BY <1>5, <3>1, StillBehind DEF Abreast, Holds
  <2>2. s # None => Behind(s, epoch', rev')
    BY <1>2, <1>5, <1>9, StillBehind
  <2>3. Behind(a.cursor, epoch', rev')
    BY <1>3, <1>6 DEF Behind
  <2>4. cursor[d] # None => cursor[d] = s /\ account[d] = u
    BY <1>2, <1>6 DEF Abreast, Holds
  <2>5. a.full /\ s # None => ~CanServeDelta(s, u, epoch', rev' + 1, prunedRev')
    <3>1. CanServeDelta(s, u, epoch', rev' + 1, prunedRev') => Serves(s, u)
      BY <1>2, <1>5, <1>9, StillServed
    <3>2. QED BY <1>6, <1>8, <3>1
  <2>6. ~a.full => s # None /\ s.epoch = epoch /\ s.rev <= rev + 1
    <3>1. ~a.full => s # None /\ s.epoch = epoch /\ s.rev < rev + 1
      BY <1>6 DEF CanServeDelta
    <3>2. s # None => s.rev \in Nat
      BY <1>2 DEF Cursor
    <3>3. QED BY <1>3, <3>1, <3>2
  <2>7. QED BY <1>6, <2>1, <2>2, <2>3, <2>4, <2>5, <2>6 DEF Holds, Serves
<1>11. ASSUME NEW id \in Id
       PROVE  CopyAt(d, id)'
  <2>1. CopyAt(d, id) /\ deck[d][id] \in Copy \cup {None}
    BY TypesAt DEF Abreast
  <2>2. UploadAt(d, id)'
    BY <1>2, <1>6, <1>7, <2>1 DEF CopyAt, UploadAt, Quiet, Early
  <2>3. KeptAt(d, id)'
    BY <1>5, <1>6, <2>1, KeptStands DEF CopyAt, Abreast, Stands
  <2>4. SinceAt(d, id)'
    <3> SUFFICES ASSUME Trusted(d)', Unasked(d, id)'
                 PROVE  Agrees(deck[d][id], table'[u][id], s.rev, Deleted(id)')
      BY <1>6 DEF SinceAt
    <3>1. Serves(s, u) /\ s # None
      BY <1>6, <1>8 DEF Trusted, Serves, CanServeDelta
    <3>2. Trusted(d) /\ Unasked(d, id)
      BY <1>2, <1>6, <3>1 DEF Trusted, Unasked, Quiet
    <3>3. Agrees(deck[d][id], table[u][id], s.rev, Deleted(id))
      BY <1>2, <2>1, <3>2 DEF CopyAt, SinceAt
    <3>4. s.rev \in Nat /\ s.rev <= rev
      BY <1>2, <1>3, <1>9, <3>1 DEF Behind, Cursor, Serves, CanServeDelta
    <3>5. QED BY <1>2, <1>3, <1>5, <2>1, <3>3, <3>4, StillAgrees
  <2>5. AnswerAt(d, id)'
    <3> DEFINE row == table'[u][id]
    <3>1. /\ a.cards[id] = IF Returned(row.card, s, delta, Asked(job[d], id))
                           THEN Wire(row.card) ELSE None
          /\ id \in a.deletions <=> Returned(row.tomb, s, delta, Asked(job[d], id))
      BY <1>1 DEF Answering
    <3>2. row \in Row /\ RowSound(row, now', rev') /\ (row.card # None => Wire(row.card) \in Copy)
      BY <1>2 DEF DeckTypeInv, ServerFits, IndInv, TypeOK, DatabaseSound, CardsFit
    <3>3. row.card # None => row.tomb = None /\ Wire(row.card) # None
                             /\ Wire(row.card).updated = row.card.updated
                             /\ row.card.updated \in Nat
      BY <3>2, CopyFacts DEF RowSound, Wire, Row, StoredCard
    <3>4. Asked(job'[d], id) <=> Asked(job[d], id)
      BY <1>6 DEF Asked
    <3>5. ~Deleted(id) /\ Asked(job[d], id) => row.card # None
      BY <1>4, <1>5 DEF Asked
    <3> HIDE DEF row
    <3>6. /\ row.card # None =>
               /\ a.full \/ row.card.rev > s.rev \/ Asked(job[d], id)
                    => a.cards[id] = Wire(row.card)
               /\ a.cards[id] # None => a.cards[id] = Wire(row.card)
               /\ id \notin a.deletions
          /\ row.card = None => a.cards[id] = None
      BY <1>6, <3>1, <3>3 DEF Returned
    <3>7. ~Deleted(id) =>
            /\ Asked(job[d], id) => a.cards[id] # None
            /\ a.cards[id] # None => row.card # None /\ a.cards[id].updated <= row.card.updated
      BY <3>3, <3>5, <3>6
    <3>8. QED BY <1>2, <1>3, <1>6, <3>4, <3>6, <3>7 DEF AnswerAt, row
  <2>6. PutAt(d, id)' /\ AppliedAt(d, id)'
    BY <1>6 DEF PutAt, AppliedAt, Late
  <2>7. QED BY <2>2, <2>3, <2>4, <2>5, <2>6 DEF CopyAt
<1>12. QED BY <1>5, <1>10, <1>11 DEF Abreast

\* A copy the answer does not replace already agrees with the server's row: either
\* the cursor sent covered it, or it was sent and the answer would have replaced it.
LEMMA PassedOverAgrees ==
  ASSUME DeckTypeInv, NeverDeleted, NEW d \in Device, NEW id \in Id, Holds(d), CopyAt(d, id),
         job[d].step = "merge", ~Refused(job[d]), job[d].answer.cursor.epoch = epoch,
         Quiet(d, id), id \notin job[d].put
  PROVE  Agrees(deck[d][id], table[job[d].user][id], job[d].answer.cursor.rev, Deleted(id))
<1> DEFINE j == job[d]
           a == job[d].answer
           mine == deck[d][id]
           row == table[job[d].user][id]
<1>1. /\ mine \in Copy \cup {None} /\ a.cards[id] \in Copy \cup {None}
      /\ j.cards[id] \in Copy \cup {None}
      /\ j.since \in Cursor \cup {None} /\ j.user \in User
  BY TypesAt DEF Answered
<1>2. /\ row.card # None =>
           /\ row.card.rev \in Nat /\ row.card.updated \in Nat /\ Wire(row.card) \in Copy
           /\ Wire(row.card).updated = row.card.updated
  BY <1>1, ServerTypes DEF Wire
<1>3. j.cards[id] = IF j.since = None \/ j.dirty[id] # None THEN mine ELSE None
  BY DEF CopyAt, UploadAt
<1>4. ~CardApplies(a.cards[id], mine, j.cards[id])
  BY DEF CopyAt, PutAt
<1>5. /\ row.card # None /\ row.card.rev <= a.cursor.rev =>
           /\ a.full \/ row.card.rev > j.since.rev \/ Asked(j, id)
                => a.cards[id] = Wire(row.card)
           /\ a.cards[id] # None => a.cards[id] = Wire(row.card)
      /\ ~Deleted(id) => (Asked(j, id) => a.cards[id] # None)
  BY DEF CopyAt, AnswerAt, Answered
<1>6. ~a.full => j.since # None /\ j.since.rev \in Nat
  BY <1>1 DEF Holds, Answered, Cursor
<1>7. tombs[d][id] = j.tombs[id] /\ (~Deleted(id) => tombs[d][id] = None)
  BY DEF CopyAt, UploadAt, NeverDeleted, Undeleted
<1>8. j.since # None /\ tombs[d][id] = None /\ (j.dirty[id] = None \/ mine = None)
        => Agrees(mine, row, j.since.rev, Deleted(id))
  BY DEF Refused, CopyAt, SinceAt, Trusted, Unasked
<1>9. /\ mine # None => mine.updated \in Nat /\ VersionMs(mine) = mine.updated
      /\ a.cards[id] # None => a.cards[id].updated \in Nat
                               /\ VersionMs(a.cards[id]) = a.cards[id].updated
      /\ row.card # None => Wire(row.card) # None
  BY <1>1, <1>2, CopyFacts
<1> HIDE DEF j, a, mine, row
<1>10. CASE a.cards[id] # None
  <2>1. /\ mine # None /\ j.since # None /\ j.dirty[id] = None
        /\ a.cards[id].updated < mine.updated
    BY <1>3, <1>4, <1>9, <1>10 DEF CardApplies
  <2>2. ~Deleted(id) => Agrees(mine, row, j.since.rev, Deleted(id))
    BY <1>7, <1>8, <2>1
  <2>3. NotAhead(mine, row, Deleted(id))
    BY <2>2 DEF Agrees, NotAhead
  <2>4. ASSUME row.card # None, row.card.rev <= a.cursor.rev
        PROVE  Deleted(id) /\ mine.updated > row.card.updated
    <3>1. a.cards[id].updated = row.card.updated
      BY <1>2, <1>5, <1>10, <2>4
    <3>2. mine.updated > row.card.updated
      BY <1>2, <1>9, <2>1, <2>4, <3>1, <1>10
    <3>3. QED BY <1>2, <1>9, <2>1, <2>3, <2>4, <3>2 DEF NotAhead
  <2>5. Shown(mine, row, a.cursor.rev, Deleted(id))
    BY <2>1, <2>4 DEF Shown
  <2>6. QED BY <2>3, <2>5 DEF Agrees, j, a, mine, row
<1>11. CASE a.cards[id] = None
  <2>1. ASSUME row.card # None, row.card.rev <= a.cursor.rev
        PROVE  mine = Wire(row.card) \/ (Deleted(id) /\ mine # None /\ mine.updated > row.card.updated)
    <3>1. ~a.full /\ ~(row.card.rev > j.since.rev) /\ ~Asked(j, id)
      BY <1>5, <1>9, <1>11, <2>1
    <3>2. row.card.rev <= j.since.rev
      BY <1>2, <1>6, <2>1, <3>1
    <3>3. Agrees(mine, row, j.since.rev, Deleted(id))
      BY <1>3, <1>6, <1>7, <1>8, <3>1 DEF Asked
    <3>4. QED BY <2>1, <3>2, <3>3 DEF Agrees, Shown
  <2>2. ASSUME ~Deleted(id), mine # None
        PROVE  row.card # None /\ mine.updated <= row.card.updated
    <3>1. ~Asked(j, id)
      BY <1>5, <1>11, <2>2
    <3>2. j.since # None /\ j.dirty[id] = None
      BY <1>3, <2>2, <3>1 DEF Asked
    <3>3. Agrees(mine, row, j.since.rev, Deleted(id))
      BY <1>7, <1>8, <2>2, <3>2
    <3>4. QED BY <2>2, <3>3 DEF Agrees, NotAhead
  <2>3. Shown(mine, row, a.cursor.rev, Deleted(id))
    BY <2>1 DEF Shown
  <2>4. NotAhead(mine, row, Deleted(id))
    BY <2>2 DEF NotAhead
  <2>5. QED BY <2>3, <2>4 DEF Agrees, j, a, mine, row
<1>12. QED BY <1>10, <1>11

LEMMA MergePutHolds ==
  ASSUME DeckTypeInv, DeckTypeInv', NeverDeleted, NEW d \in Device, Abreast(d), MergePut(d)
  PROVE  Abreast(d)'
<1>1. /\ Local(d) /\ Remembers(d)
      /\ dirty'[d] = dirty[d] /\ tombs'[d] = tombs[d] /\ cursor'[d] = cursor[d]
      /\ job[d].step = "merge" /\ job'[d].step = "merged"
      /\ \A id \in Id : deck'[d][id] =
           IF id \in job[d].put THEN job[d].answer.cards[id] ELSE deck[d][id]
  BY MergePutFacts
<1>2. /\ ServerMoves /\ table' = table /\ epoch' = epoch /\ rev' = rev /\ prunedRev' = prunedRev
      /\ Clock(d)' = Clock(d) /\ account'[d] = account[d]
      /\ \A id \in Id : Deleted(id)' <=> Deleted(id)
  BY <1>1, LocalFrame
<1>3. Holds(d)'
  BY <1>1, HoldsFrame DEF Abreast, Answered, Late, Remembers
<1>4. ASSUME NEW id \in Id
      PROVE  CopyAt(d, id)'
  <2>1. CopyAt(d, id) /\ Holds(d)
    BY DEF Abreast
  <2>2. UploadAt(d, id)'
    BY <1>1, <1>2, <2>1 DEF CopyAt, UploadAt, Quiet, Early, Remembers
  <2>3. SinceAt(d, id)' /\ PutAt(d, id)'
    BY <1>1 DEF SinceAt, Trusted, PutAt
  <2>4. AnswerAt(d, id)'
    BY <1>1, <2>1, AnswerFrame DEF CopyAt, Answered
  <2>5. AppliedAt(d, id)'
    <3> DEFINE a == job[d].answer
               row == table[job[d].user][id]
    <3> SUFFICES ASSUME ~Refused(job[d]), Serves(a.cursor, job[d].user),
                        Quiet(d, id)' \/ deck'[d][id] = None
                 PROVE  Agrees(deck'[d][id], row, a.cursor.rev, Deleted(id))
      BY <1>1, <1>2 DEF AppliedAt, Refused, Serves, Remembers, Agrees, Shown, NotAhead
    <3>1. a.cursor.epoch = epoch
      BY DEF Serves, CanServeDelta
    <3>2. CASE id \in job[d].put
      <4>1. deck'[d][id] = a.cards[id] /\ a.cards[id] # None
        BY <1>1, <2>1, <3>2 DEF CopyAt, PutAt
      <4>2. /\ row.card # None /\ row.card.rev <= a.cursor.rev => a.cards[id] = Wire(row.card)
            /\ ~Deleted(id) => row.card # None /\ a.cards[id].updated <= row.card.updated
        BY <1>1, <2>1, <3>1, <4>1 DEF CopyAt, AnswerAt, Answered
      <4>3. QED BY <4>1, <4>2 DEF Agrees, Shown, NotAhead
    <3>3. CASE id \notin job[d].put
      <4>1. deck'[d][id] = deck[d][id]
        BY <1>1, <3>3
      <4>2. Quiet(d, id)
        BY <1>1, <2>1, <4>1 DEF Quiet, Remembers, CopyAt, UploadAt, Early
      <4>3. QED BY <1>1, <2>1, <3>1, <3>3, <4>1, <4>2, PassedOverAgrees
    <3>4. QED BY <3>2, <3>3
  <2>6. KeptAt(d, id)'
    BY <1>1, <1>3, <2>2, <2>5, LateIsKept DEF Late
  <2>7. QED BY <2>2, <2>3, <2>4, <2>5, <2>6 DEF CopyAt
<1>5. QED BY <1>3, <1>4 DEF Abreast

\* What the answer's cursor stands for is untouched by a step that leaves a copy as
\* it is, and forgets no write.
LEMMA AppliedFrame ==
  ASSUME DeckTypeInv, NEW d \in Device, NEW id \in Id, Local(d), Remembers(d), AppliedAt(d, id),
         job[d].step \in Late, job'[d].step \in Late, deck'[d][id] = deck[d][id],
         Quiet(d, id)' => Quiet(d, id)
  PROVE  AppliedAt(d, id)'
<1>1. /\ table' = table /\ epoch' = epoch /\ rev' = rev /\ prunedRev' = prunedRev
      /\ Deleted(id)' <=> Deleted(id)
  BY LocalFrame
<1>2. QED BY <1>1 DEF AppliedAt, Refused, Serves, Remembers, Agrees, Shown, NotAhead

\* The steps that follow the merge: each leaves what the answer's cursor stands for.
LEMMA DropReadHolds ==
  ASSUME DeckTypeInv, DeckTypeInv', NEW d \in Device, Abreast(d), DropRead(d)
  PROVE  Abreast(d)'
<1>1. /\ Local(d) /\ SameStore(d) /\ Remembers(d)
      /\ job[d].step = "merged" /\ job'[d].step = "drop"
      /\ \A id \in Id : id \in job'[d].drop => id \in job[d].answer.deletions
  BY DropReadFacts
<1>2. /\ Clock(d)' = Clock(d) /\ deck'[d] = deck[d] /\ dirty'[d] = dirty[d]
      /\ tombs'[d] = tombs[d] /\ cursor'[d] = cursor[d]
  BY <1>1, LocalFrame DEF SameStore
<1>3. Holds(d)'
  BY <1>1, <1>2, HoldsFrame DEF Abreast, Answered, Late, Remembers
<1>4. ASSUME NEW id \in Id
      PROVE  CopyAt(d, id)'
  <2>1. CopyAt(d, id)
    BY DEF Abreast
  <2>2. UploadAt(d, id)'
    BY <1>1, <1>2, <2>1 DEF CopyAt, UploadAt, Early, Remembers
  <2>3. SinceAt(d, id)' /\ PutAt(d, id)'
    BY <1>1 DEF SinceAt, Trusted, PutAt, Remembers
  <2>4. AnswerAt(d, id)'
    BY <1>1, <2>1, AnswerFrame DEF CopyAt, Answered, Late
  <2>5. AppliedAt(d, id)'
    <3>1. Quiet(d, id)' => Quiet(d, id)
      BY <1>1, <1>2 DEF Quiet, Remembers
    <3>2. QED BY <1>1, <1>2, <2>1, <3>1, AppliedFrame DEF CopyAt, Late
  <2>6. KeptAt(d, id)'
    BY <1>1, <1>3, <2>2, <2>5, LateIsKept DEF Late
  <2>7. QED BY <2>2, <2>3, <2>4, <2>5, <2>6 DEF CopyAt
<1>5. QED BY <1>3, <1>4 DEF Abreast

LEMMA DropWriteHolds ==
  ASSUME DeckTypeInv, DeckTypeInv', NEW d \in Device, Abreast(d), DropWrite(d)
  PROVE  Abreast(d)'
<1>1. /\ Local(d) /\ Remembers(d)
      /\ dirty'[d] = dirty[d] /\ tombs'[d] = tombs[d] /\ cursor'[d] = cursor[d]
      /\ job[d].step = "drop" /\ job'[d].step = "dropped"
      /\ \A id \in Id : deck'[d][id] = IF id \in job[d].drop THEN None ELSE deck[d][id]
  BY DropWriteFacts
<1>2. /\ Clock(d)' = Clock(d) /\ table' = table
  BY <1>1, LocalFrame
<1>3. Holds(d)'
  BY <1>1, <1>2, HoldsFrame DEF Abreast, Answered, Late, Remembers
<1>4. ASSUME NEW id \in Id
      PROVE  CopyAt(d, id)'
  <2>1. CopyAt(d, id)
    BY DEF Abreast
  <2>2. UploadAt(d, id)'
    BY <1>1, <1>2, <2>1 DEF CopyAt, UploadAt, Early, Remembers
  <2>3. SinceAt(d, id)' /\ PutAt(d, id)'
    BY <1>1 DEF SinceAt, Trusted, PutAt
  <2>4. AnswerAt(d, id)'
    BY <1>1, <2>1, AnswerFrame DEF CopyAt, Answered, Late
  <2>5. AppliedAt(d, id)'
    <3>1. CASE id \notin job[d].drop
      <4>1. deck'[d][id] = deck[d][id] /\ (Quiet(d, id)' => Quiet(d, id))
        BY <1>1, <3>1 DEF Quiet, Remembers
      <4>2. QED BY <1>1, <2>1, <4>1, AppliedFrame DEF CopyAt, Late
    <3>2. CASE id \in job[d].drop
      <4>1. deck'[d][id] = None /\ id \in job[d].answer.deletions
        BY <1>1, <2>1, <3>2 DEF CopyAt, PutAt
      <4> SUFFICES ASSUME Serves(job[d].answer.cursor, job[d].user)'
                   PROVE  Agrees(None, table[job[d].user][id], job[d].answer.cursor.rev, Deleted(id)')
        BY <1>1, <1>2, <4>1 DEF AppliedAt, Remembers
      <4>2. job[d].answer.cursor.epoch = epoch
        BY <1>1, LocalFrame DEF Serves, CanServeDelta, Remembers
      <4>3. LET row == table[job[d].user][id]
            IN ~(row.card # None /\ row.card.rev <= job[d].answer.cursor.rev)
        BY <1>1, <2>1, <4>1, <4>2 DEF CopyAt, AnswerAt, Answered, Late
      <4>4. QED BY <4>3 DEF Agrees, Shown, NotAhead
    <3>3. QED BY <3>1, <3>2
  <2>6. KeptAt(d, id)'
    BY <1>1, <1>3, <2>2, <2>5, LateIsKept DEF Late
  <2>7. QED BY <2>2, <2>3, <2>4, <2>5, <2>6 DEF CopyAt
<1>5. QED BY <1>3, <1>4 DEF Abreast

LEMMA ClearHolds ==
  ASSUME DeckTypeInv, DeckTypeInv', NEW d \in Device, Abreast(d), ClearTombs(d) \/ ClearDirty(d)
  PROVE  Abreast(d)'
<1>1. /\ Local(d) /\ Remembers(d) /\ deck'[d] = deck[d] /\ cursor'[d] = cursor[d]
      /\ \/ /\ job[d].step = "dropped" /\ job'[d].step = "forwarded"
            /\ dirty'[d] = dirty[d]
         \/ /\ job[d].step = "forwarded" /\ job'[d].step = "clean"
            /\ \A id \in Id : dirty'[d][id] =
                 IF dirty[d][id] = job[d].dirty[id] THEN None ELSE dirty[d][id]
  BY ClearTombsFacts, ClearDirtyFacts
<1>2. Clock(d)' = Clock(d)
  BY <1>1, LocalFrame
<1>3. Holds(d)'
  BY <1>1, HoldsFrame DEF Abreast, Answered, Late, Remembers
<1>4. ASSUME NEW id \in Id
      PROVE  CopyAt(d, id)'
  <2>1. CopyAt(d, id)
    BY DEF Abreast
  <2>2. UploadAt(d, id)'
    BY <1>1, <1>2, <2>1 DEF CopyAt, UploadAt, Early, Remembers
  <2>3. SinceAt(d, id)' /\ PutAt(d, id)'
    BY <1>1 DEF SinceAt, Trusted, PutAt
  <2>4. AnswerAt(d, id)'
    BY <1>1, <2>1, AnswerFrame DEF CopyAt, Answered, Late
  <2>5. AppliedAt(d, id)'
    <3>1. Quiet(d, id)' => Quiet(d, id)
      BY <1>1, <2>1 DEF Quiet, Remembers, CopyAt, UploadAt
    <3>2. QED BY <1>1, <2>1, <3>1, AppliedFrame DEF CopyAt, Late
  <2>6. KeptAt(d, id)'
    BY <1>1, <1>3, <2>2, <2>5, LateIsKept DEF Late
  <2>7. QED BY <2>2, <2>3, <2>4, <2>5, <2>6 DEF CopyAt
<1>5. QED BY <1>3, <1>4 DEF Abreast

\* A finished sync hands its cursor to the device; one cut short leaves it the old.
LEMMA SetCursorHolds ==
  ASSUME DeckTypeInv, DeckTypeInv', NEW d \in Device, Abreast(d), SetCursor(d)
  PROVE  Abreast(d)'
<1>1. /\ Local(d) /\ job[d].step = "clean" /\ job'[d].step = "idle"
      /\ deck'[d] = deck[d] /\ dirty'[d] = dirty[d] /\ tombs'[d] = tombs[d]
      /\ cursor'[d] = IF Refused(job[d]) THEN None ELSE job[d].answer.cursor
  BY SetCursorFacts, NoJobFits
<1>2. /\ table' = table /\ epoch' = epoch /\ rev' = rev /\ prunedRev' = prunedRev
      /\ Clock(d)' = Clock(d) /\ account'[d] = account[d]
      /\ \A id \in Id : Deleted(id)' <=> Deleted(id)
  BY <1>1, LocalFrame
<1>3. Holds(d)'
  BY <1>1, <1>2 DEF Abreast, Holds, Answered, Late
<1>4. ASSUME NEW id \in Id
      PROVE  CopyAt(d, id)'
  <2>1. CopyAt(d, id) /\ job[d].answer.cursor.user = job[d].user
    BY <1>1, TypesAt DEF Abreast, Answered, Late
  <2>2. UploadAt(d, id)'
    BY <1>1, <1>2, <2>1 DEF CopyAt, UploadAt, Early
  <2>3. KeptAt(d, id)'
    <3> SUFFICES ASSUME Serves(cursor'[d], account[d]), Clean(d, id)'
                 PROVE  Agrees(deck[d][id], table[account[d]][id], cursor'[d].rev, Deleted(id))
      BY <1>1, <1>2 DEF KeptAt, Serves, Agrees, Shown, NotAhead
    <3>1. ~Refused(job[d]) /\ cursor'[d] = job[d].answer.cursor /\ account[d] = job[d].user
      BY <1>1, <2>1 DEF Serves, CanServeDelta
    <3>2. Quiet(d, id) \/ deck[d][id] = None
      BY <1>1 DEF Clean, Quiet
    <3>3. QED BY <1>1, <2>1, <3>1, <3>2 DEF CopyAt, AppliedAt, Late
  <2>4. SinceAt(d, id)' /\ AnswerAt(d, id)' /\ PutAt(d, id)' /\ AppliedAt(d, id)'
    BY <1>1 DEF SinceAt, Trusted, AnswerAt, PutAt, AppliedAt, Answered, Late
  <2>5. QED BY <2>2, <2>3, <2>4 DEF CopyAt
<1>5. QED BY <1>3, <1>4 DEF Abreast

LEMMA AbortHolds ==
  ASSUME DeckTypeInv, DeckTypeInv', NEW d \in Device, Abreast(d), Abort(d)
  PROVE  ServerMoves /\ Abreast(d)'
<1>1. /\ UNCHANGED serverVars /\ past' = past /\ SameStore(d)
      /\ account'[d] = account[d] /\ job'[d].step = "idle"
  BY AbortFacts, NoJobFits
<1>2. /\ UNCHANGED <<meta, tables>> /\ now' = now /\ epoch' = epoch /\ rev' = rev
      /\ \A id \in Id : Deleted(id) => Deleted(id)'
  BY <1>1 DEF serverVars, meta, Deleted
<1>3. ServerMoves
  BY <1>2, IdleMoves
<1>4. Holds(d)'
  BY <1>1, <1>2 DEF Abreast, Holds, Answered, Late, SameStore
<1>5. ASSUME NEW id \in Id
      PROVE  CopyAt(d, id)'
  <2>1. CopyAt(d, id) /\ Clock(d)' = Clock(d)
    BY <1>2 DEF Abreast, Clock
  <2>2. UploadAt(d, id)'
    BY <1>1, <2>1 DEF CopyAt, UploadAt, Early, SameStore
  <2>3. KeptAt(d, id)'
    BY <1>1, <1>3, <2>1, KeptStands DEF CopyAt, Abreast, Stands, SameStore
  <2>4. SinceAt(d, id)' /\ AnswerAt(d, id)' /\ PutAt(d, id)' /\ AppliedAt(d, id)'
    BY <1>1 DEF SinceAt, Trusted, AnswerAt, PutAt, AppliedAt, Answered, Late
  <2>5. QED BY <2>2, <2>3, <2>4 DEF CopyAt
<1>6. QED BY <1>3, <1>4, <1>5 DEF Abreast

-----------------------------------------------------------------------------
(* The invariant holds.                                                    *)

\* No tombstone appears on a device, in a request or on the server but of a word
\* deleted by now.
TombsKept(d, id) ==
  /\ tombs'[d][id] \in {tombs[d][id], None}
  /\ job'[d].step \in {"waiting"} \cup Answered =>
       \/ job'[d].tombs[id] = tombs[d][id]
       \/ job[d].step \in {"waiting"} \cup Answered /\ job'[d].tombs[id] = job[d].tombs[id]

LEMMA UndeletedStep ==
  ASSUME NeverDeleted, \A id \in Id : Deleted(id) => Deleted(id)',
         \A id \in Id : ~Deleted(id)' =>
           /\ \A v \in User : /\ table'[v][id].tomb = None
                              /\ backup' # None => backup'.table[v][id].tomb = None
           /\ \A d \in Device : TombsKept(d, id),
         \A m \in stray' : m \in stray \/ \E d \in Device : /\ job[d].step = "waiting"
                                                            /\ m.tombs = job[d].tombs
  PROVE  NeverDeleted'
<1> SUFFICES ASSUME NEW id \in Id, ~Deleted(id)' PROVE Undeleted(id)'
  BY DEF NeverDeleted
<1>1. Undeleted(id)
  BY DEF NeverDeleted
<1>2. ASSUME NEW d \in Device
      PROVE  /\ tombs'[d][id] = None
             /\ job'[d].step \in {"waiting"} \cup Answered => job'[d].tombs[id] = None
  BY <1>1 DEF Undeleted, TombsKept
<1>3. ASSUME NEW m \in stray' PROVE m.tombs[id] = None
  BY <1>1, <1>3 DEF Undeleted
<1>4. QED BY <1>2, <1>3 DEF Undeleted

\* A step that leaves the server alone: one device's tombstones move, or its job.
LEMMA UndeletedLocally ==
  ASSUME NeverDeleted, NEW d \in Device, Others(d), table' = table, backup' = backup,
         stray' = stray, \A id \in Id : Deleted(id) => Deleted(id)',
         \A id \in Id : ~Deleted(id)' => TombsKept(d, id)
  PROVE  NeverDeleted'
<1>1. ASSUME NEW id \in Id, ~Deleted(id)'
      PROVE  /\ \A v \in User : /\ table'[v][id].tomb = None
                                /\ backup' # None => backup'.table[v][id].tomb = None
             /\ \A e \in Device : TombsKept(e, id)
  BY <1>1 DEF NeverDeleted, Undeleted, Others, Same, TombsKept
<1>2. QED BY <1>1, UndeletedStep

LEMMA DeckCopyStarts == DeckInit => CopyInv
<1> SUFFICES ASSUME DeckInit PROVE CopyInv
  OBVIOUS
<1>1. DeckTypeInv
  BY DeckTypesStart
<1>2. /\ backup = None /\ stray = {}
      /\ \A u \in User, id \in Id : table[u][id].tomb = None
  BY DEF DeckInit, Init, EmptyRow
<1>3. ASSUME NEW d \in Device
      PROVE  /\ tombs[d] = Nothing /\ dirty[d] = Nothing /\ deck[d] = Nothing
             /\ cursor[d] = None /\ job[d].step = "idle"
  BY <1>3, NoJobFits DEF DeckInit
<1>4. NeverDeleted
  BY <1>2, <1>3 DEF NeverDeleted, Undeleted, Nothing, Answered, Late
<1>5. ASSUME NEW d \in Device
      PROVE  Abreast(d)
  <2>1. Holds(d)
    BY <1>3 DEF Holds, Answered, Late
  <2>2. ASSUME NEW id \in Id
        PROVE  CopyAt(d, id)
    <3>1. UploadAt(d, id)
      BY <1>3 DEF UploadAt, Nothing, Early
    <3>2. KeptAt(d, id) /\ SinceAt(d, id)
      BY <1>3 DEF KeptAt, Serves, CanServeDelta, SinceAt, Trusted
    <3>3. AnswerAt(d, id) /\ PutAt(d, id) /\ AppliedAt(d, id)
      BY <1>3 DEF AnswerAt, PutAt, AppliedAt, Answered, Late
    <3>4. QED BY <3>1, <3>2, <3>3 DEF CopyAt
  <2>3. QED BY <2>1, <2>2 DEF Abreast
<1>6. QED BY <1>1, <1>4, <1>5 DEF CopyInv

\* What the user does.
LEMMA UserKeepsCopies ==
  ASSUME ~DeletesMidSync, CopyInv, DeckTypeInv', NEW d \in Device, UserStep(d)
  PROVE  ServerMoves /\ Others(d) /\ NeverDeleted' /\ Abreast(d)'
<1>1. DeckTypeInv /\ NeverDeleted /\ Abreast(d) /\ now \in Nat
  BY ServerTypes DEF CopyInv
<1>2. ASSUME NEW id \in Id, Add(d, id) \/ Edit(d, id) \/ Rate(d, id)
      PROVE  ServerMoves /\ Others(d) /\ NeverDeleted' /\ Abreast(d)'
  <2>1. Writes(d, id)
    BY <1>1, <1>2, WriteFacts
  <2>2. /\ UNCHANGED <<meta, tables>> /\ now' = now + 1 /\ Others(d)
        /\ table' = table /\ backup' = backup /\ stray' = stray
        /\ tombs'[d] = tombs[d] /\ job'[d] = job[d]
        /\ \A i \in Id : Deleted(i) => Deleted(i)'
    BY <2>1 DEF Writes, tables, Deleted
  <2>3. ServerMoves
    BY <1>1, <2>2, IdleMoves
  <2>4. NeverDeleted'
    BY <1>1, <2>2, UndeletedLocally DEF TombsKept
  <2>5. QED BY <1>1, <2>1, <2>2, <2>3, <2>4, WriteHolds
<1>3. ASSUME NEW ids \in SUBSET Id, Delete(d, ids)
      PROVE  ServerMoves /\ Others(d) /\ NeverDeleted' /\ Abreast(d)'
  <2>1. Deletes(d, ids)
    BY <1>1, <1>3, DeleteFacts
  <2>2. /\ UNCHANGED <<meta, tables>> /\ now' = now + 1 /\ Others(d)
        /\ table' = table /\ backup' = backup /\ stray' = stray /\ job'[d] = job[d]
    BY <2>1 DEF Deletes, tables
  <2>3. ASSUME NEW i \in Id
        PROVE  /\ Deleted(i) => Deleted(i)'
               /\ ~Deleted(i)' => tombs'[d][i] = tombs[d][i]
    <3>1. /\ past'[i].deleted = IF i \in ids /\ past[i].deleted = None THEN now'
                                ELSE past[i].deleted
          /\ i \notin ids => tombs'[d][i] = tombs[d][i]
          /\ now' # None
      BY <1>1, <2>1, <2>2 DEF Deletes
    <3>2. QED BY <3>1 DEF Deleted
  <2>4. ServerMoves
    BY <1>1, <2>2, <2>3, IdleMoves
  <2>5. NeverDeleted'
    BY <1>1, <2>2, <2>3, UndeletedLocally DEF TombsKept
  <2>6. QED BY <1>1, <2>1, <2>2, <2>4, <2>5, DeleteHolds
<1>4. CASE Load(d) \/ \E u \in User : SignIn(d, u)
  <2>1. Settles(d)
    BY <1>1, <1>4, SettleFacts
  <2>2. /\ UNCHANGED <<meta, tables>> /\ now' = now /\ Others(d)
        /\ table' = table /\ backup' = backup /\ stray' = stray
        /\ tombs'[d] = tombs[d] /\ job'[d] = job[d]
        /\ \A i \in Id : Deleted(i) => Deleted(i)'
    BY <2>1 DEF Settles, serverVars, tables, Deleted
  <2>3. ServerMoves
    BY <1>1, <2>2, IdleMoves
  <2>4. NeverDeleted'
    BY <1>1, <2>2, UndeletedLocally DEF TombsKept
  <2>5. QED BY <1>1, <2>1, <2>2, <2>3, <2>4, SettleHolds
<1>5. QED BY <1>2, <1>3, <1>4 DEF UserStep

\* What a sync does on its device.
LEMMA SyncKeepsCopies ==
  ASSUME CopyInv, DeckTypeInv', NEW d \in Device, SyncStep(d)
  PROVE  ServerMoves /\ Others(d) /\ NeverDeleted' /\ Abreast(d)'
<1>1. DeckTypeInv /\ NeverDeleted /\ Abreast(d)
  BY DEF CopyInv
<1>2. ASSUME Local(d), \A id \in Id : TombsKept(d, id)
      PROVE  ServerMoves /\ Others(d) /\ NeverDeleted'
  <2>1. /\ ServerMoves /\ table' = table /\ \A id \in Id : Deleted(id)' <=> Deleted(id)
    BY <1>1, <1>2, LocalFrame
  <2>2. Others(d) /\ backup' = backup /\ stray' = stray
    BY <1>2 DEF Local, serverVars
  <2>3. NeverDeleted'
    BY <1>1, <1>2, <2>1, <2>2, UndeletedLocally
  <2>4. QED BY <2>1, <2>2, <2>3
<1>3. CASE Begin(d) \/ ReadCards(d)
  <2>1. Local(d) /\ SameStore(d) /\ job'[d].step \in {"dirty", "cards"}
    BY <1>1, <1>3, BeginFacts, ReadCardsFacts
  <2>2. \A id \in Id : TombsKept(d, id)
    BY <2>1 DEF TombsKept, SameStore, Answered, Late
  <2>3. QED BY <1>1, <1>2, <1>3, <2>1, <2>2, BeginHolds, ReadHolds
<1>4. CASE ReadTombsAndSend(d)
  <2>1. Local(d) /\ SameStore(d) /\ job'[d].tombs = tombs[d]
    BY <1>1, <1>4, ReadTombsFacts
  <2>2. \A id \in Id : TombsKept(d, id)
    BY <2>1 DEF TombsKept, SameStore
  <2>3. QED BY <1>1, <1>2, <1>4, <2>1, <2>2, ReadHolds
<1>5. CASE Handle(d)
  <2>1. ServerMoves /\ Abreast(d)'
    BY <1>1, <1>5, HandleHolds
  <2>2. PICK u, s, delta : Answering(d, u, s, delta)
    BY <1>1, <1>5, HandleFacts
  <2>3. /\ Others(d) /\ tombs'[d] = tombs[d] /\ stray' = stray /\ past' = past
        /\ job[d].step = "waiting" /\ job'[d].tombs = job[d].tombs
        /\ u \in User /\ u = job[d].user
        /\ Sync(u, job[d].cards, job[d].tombs, {}, None)
    BY <2>2 DEF Answering, SameStore
  <2>4. job[d].cards \in Copies /\ job[d].tombs \in Times
    BY <1>1 DEF DeckTypeInv, DevicesFit, JobFits
  <2>5. \A id \in Id : ~Deleted(id) => job[d].tombs[id] = None
    BY <1>1, <2>3 DEF NeverDeleted, Undeleted
  <2>6. \A id \in Id : ~Deleted(id) => \A v \in User :
          /\ table'[v][id].tomb = None
          /\ backup' # None => backup'.table[v][id].tomb = None
    BY <1>1, <2>3, <2>4, <2>5, SyncMoves
  <2>7. \A id \in Id : Deleted(id)' <=> Deleted(id)
    BY <2>3 DEF Deleted
  <2>8. \A e \in Device, id \in Id : TombsKept(e, id)
    BY <2>3 DEF TombsKept, Others, Same
  <2>9. NeverDeleted'
    BY <1>1, <2>3, <2>6, <2>7, <2>8, UndeletedStep
  <2>10. QED BY <2>1, <2>3, <2>9
<1>6. CASE MergeRead(d) \/ DropRead(d)
  <2>1. Local(d) /\ SameStore(d) /\ Remembers(d) /\ job[d].step \in Answered
    BY <1>1, <1>6, MergeReadFacts, DropReadFacts DEF Answered, Late
  <2>2. \A id \in Id : TombsKept(d, id)
    BY <2>1 DEF TombsKept, SameStore, Remembers
  <2>3. QED BY <1>1, <1>2, <1>6, <2>1, <2>2, MergeReadHolds, DropReadHolds
<1>7. CASE MergePut(d) \/ DropWrite(d) \/ ClearDirty(d)
  <2>1. Local(d) /\ tombs'[d] = tombs[d] /\ Remembers(d) /\ job[d].step \in Answered
    BY <1>1, <1>7, MergePutFacts, DropWriteFacts, ClearDirtyFacts DEF Answered, Late
  <2>2. \A id \in Id : TombsKept(d, id)
    BY <2>1 DEF TombsKept, Remembers
  <2>3. QED BY <1>1, <1>2, <1>7, <2>1, <2>2, MergePutHolds, DropWriteHolds, ClearHolds
<1>8. CASE ClearTombs(d)
  <2>1. /\ Local(d) /\ Remembers(d) /\ job[d].step \in Answered
        /\ \A id \in Id : tombs'[d][id] \in {tombs[d][id], None}
    BY <1>1, <1>8, ClearTombsFacts DEF Answered, Late
  <2>2. \A id \in Id : TombsKept(d, id)
    BY <2>1 DEF TombsKept, Remembers
  <2>3. QED BY <1>1, <1>2, <1>8, <2>1, <2>2, ClearHolds
<1>9. CASE SetCursor(d)
  <2>1. Local(d) /\ tombs'[d] = tombs[d] /\ job'[d].step = "idle"
    BY <1>1, <1>9, SetCursorFacts, NoJobFits
  <2>2. \A id \in Id : TombsKept(d, id)
    BY <2>1 DEF TombsKept, Answered, Late
  <2>3. QED BY <1>1, <1>2, <1>9, <2>1, <2>2, SetCursorHolds
<1>10. CASE Abort(d)
  <2>1. ServerMoves /\ Abreast(d)'
    BY <1>1, <1>10, AbortHolds
  <2>2. /\ table' = table /\ backup' = backup /\ past' = past /\ Others(d)
        /\ tombs'[d] = tombs[d] /\ job'[d].step = "idle"
        /\ \/ stray' = stray
           \/ /\ job[d].step = "waiting"
              /\ stray' = stray \cup {[user |-> job[d].user, cards |-> job[d].cards,
                                       tombs |-> job[d].tombs]}
    BY <1>1, <1>10, AbortFacts, NoJobFits DEF serverVars, tables, SameStore
  <2>3. \A id \in Id : Deleted(id)' <=> Deleted(id)
    BY <2>2 DEF Deleted
  <2>4. \A e \in Device, id \in Id : TombsKept(e, id)
    BY <2>2 DEF TombsKept, Others, Same, Answered, Late
  <2>5. \A m \in stray' : m \in stray \/ \E e \in Device : /\ job[e].step = "waiting"
                                                           /\ m.tombs = job[e].tombs
    BY <2>2
  <2>6. \A id \in Id : ~Deleted(id)' => \A v \in User :
          /\ table'[v][id].tomb = None
          /\ backup' # None => backup'.table[v][id].tomb = None
    BY <1>1, <2>2, <2>3 DEF NeverDeleted, Undeleted
  <2>7. NeverDeleted'
    BY <1>1, <2>3, <2>4, <2>5, <2>6, UndeletedStep
  <2>8. QED BY <2>1, <2>2, <2>7
<1>11. QED BY <1>3, <1>4, <1>5, <1>6, <1>7, <1>8, <1>9, <1>10 DEF SyncStep

\* A restore, if there is one, rotates the epoch.
RestoresRotate == Rotates \/ [~Restore]_vars

LEMMA CopyStep ==
  RestoresRotate /\ ~DeletesMidSync /\ CopyInv /\ [DeckNext]_vars => CopyInv'
<1> SUFFICES ASSUME RestoresRotate, ~DeletesMidSync, CopyInv, [DeckNext]_vars PROVE CopyInv'
  OBVIOUS
<1>1. DeckTypeInv /\ DeckTypeInv' /\ NeverDeleted
  BY DeckTypesStep DEF CopyInv
<1>2. ASSUME NEW d \in Device, ServerMoves, Others(d), NeverDeleted', Abreast(d)'
      PROVE  CopyInv'
  <2>1. ASSUME NEW e \in Device PROVE Abreast(e)'
    BY <1>1, <1>2, <2>1, BystanderHolds DEF CopyInv, Others
  <2>2. QED BY <1>1, <1>2, <2>1 DEF CopyInv
<1>3. ASSUME NEW d \in Device, UserStep(d)
      PROVE  CopyInv'
  BY <1>1, <1>2, <1>3, UserKeepsCopies
<1>4. ASSUME NEW d \in Device, SyncStep(d)
      PROVE  CopyInv'
  BY <1>1, <1>2, <1>4, SyncKeepsCopies
<1>5. ASSUME ServerMoves, \A d \in Device : Same(d), past' = past, stray' \subseteq stray,
             \A id \in Id : ~Deleted(id) => \A v \in User :
               /\ table'[v][id].tomb = None
               /\ backup' # None => backup'.table[v][id].tomb = None
      PROVE  CopyInv'
  <2>1. \A id \in Id : Deleted(id)' <=> Deleted(id)
    BY <1>5 DEF Deleted
  <2>2. \A d \in Device, id \in Id : TombsKept(d, id)
    BY <1>5 DEF TombsKept, Same
  <2>3. NeverDeleted'
    BY <1>1, <1>5, <2>1, <2>2, UndeletedStep
  <2>4. ASSUME NEW d \in Device PROVE Abreast(d)'
    BY <1>1, <1>5, <2>4, BystanderHolds DEF CopyInv
  <2>5. QED BY <1>1, <2>3, <2>4 DEF CopyInv
<1>6. ASSUME NEW m \in stray, HandleStray(m)
      PROVE  CopyInv'
  <2>1. /\ \A d \in Device : Same(d)
        /\ m.user \in User /\ m.cards \in Copies /\ m.tombs \in Times
        /\ Sync(m.user, m.cards, m.tombs, {}, None)
        /\ stray' \subseteq stray /\ past' = past
    BY <1>1, <1>6, StrayFacts
  <2>2. \A id \in Id : ~Deleted(id) => m.tombs[id] = None
    BY <1>1 DEF NeverDeleted, Undeleted
  <2>3. /\ ServerMoves
        /\ \A id \in Id : ~Deleted(id) => \A v \in User :
             /\ table'[v][id].tomb = None
             /\ backup' # None => backup'.table[v][id].tomb = None
    BY <1>1, <2>1, <2>2, SyncMoves
  <2>4. QED BY <1>5, <2>1, <2>3
<1>7. CASE Maintenance /\ ~UNCHANGED vars
  <2>1. /\ \A d \in Device : Same(d)
        /\ stray' \subseteq stray /\ past' = past /\ (Restart \/ TakeBackup \/ Restore)
        /\ Restore => Rotates
    BY <1>1, <1>7, MaintenanceFacts DEF RestoresRotate
  <2>2. /\ ServerMoves
        /\ \A id \in Id : ~Deleted(id) => \A v \in User :
             /\ table'[v][id].tomb = None
             /\ backup' # None => backup'.table[v][id].tomb = None
    BY <1>1, <2>1, OperatorMoves
  <2>3. QED BY <1>5, <2>1, <2>2
<1>8. CASE UNCHANGED vars
  <2>1. /\ \A d \in Device : Same(d)
        /\ UNCHANGED <<meta, tables>> /\ now' = now /\ table' = table /\ backup' = backup
        /\ stray' \subseteq stray /\ past' = past
    BY <1>8 DEF vars, deviceVars, serverVars, tables, Same
  <2>2. \A id \in Id : Deleted(id) => Deleted(id)'
    BY <2>1 DEF Deleted
  <2>3. ServerMoves
    BY <1>1, <2>1, <2>2, IdleMoves
  <2>4. \A id \in Id : ~Deleted(id) => \A v \in User :
          /\ table'[v][id].tomb = None
          /\ backup' # None => backup'.table[v][id].tomb = None
    BY <1>1, <2>1 DEF NeverDeleted, Undeleted
  <2>5. QED BY <1>5, <2>1, <2>3, <2>4
<1>9. QED BY <1>3, <1>4, <1>6, <1>7, <1>8 DEF DeckNext

\* What a device stands at: each copy with no unsent change agrees with the server's
\* row as far as the device's cursor goes, between syncs and during them. With
\* restores that rotate the epoch, and words deleted between syncs only.
THEOREM CopiesStandByCursors == Rotates /\ ~DeletesMidSync /\ DeckSpec => []CopyInv
<1>1. (Rotates => []Rotates) /\ (~DeletesMidSync => []~DeletesMidSync)
  OBVIOUS
<1>2. Rotates => RestoresRotate
  BY DEF RestoresRotate
<1>3. QED BY <1>1, <1>2, DeckCopyStarts, CopyStep, PTL DEF DeckSpec

\* No row is lost on its way to a device, whatever was edited, handed over late, cut
\* short, restored or signed into meanwhile.
THEOREM RowsReachDevices == Rotates /\ ~DeletesMidSync /\ DeckSpec => []CardsArrive
<1>1. CopyInv => CardsArrive
  <2> SUFFICES ASSUME CopyInv, NEW d \in Device, Usable(d), NEW id \in Id, Settled(d, id),
                      Served(d, id).card # None, Served(d, id).card.rev <= cursor[d].rev,
                      ~KeptOldLife(id, deck[d][id], Served(d, id).card)
               PROVE  deck[d][id] = Wire(Served(d, id).card)
    BY DEF CardsArrive
  <2>1. Serves(cursor[d], account[d]) /\ Clean(d, id)
    BY DEF Usable, Serves, Settled, Clean
  <2>2. Agrees(deck[d][id], Served(d, id), cursor[d].rev, Deleted(id))
    BY <2>1 DEF CopyInv, Abreast, CopyAt, KeptAt, Served
  <2>3. deck[d][id] # None => VersionMs(deck[d][id]) = deck[d][id].updated
    BY TypesAt, CopyFacts DEF CopyInv
  <2>4. QED BY <2>2, <2>3 DEF Agrees, Shown, KeptOldLife, Deleted
<1>2. QED BY <1>1, CopiesStandByCursors, PTL

\* A copy with no unsent change never claims a version its row does not have, which
\* would shut out every later edit of the other devices.
THEOREM CleanNeverLeads == Rotates /\ ~DeletesMidSync /\ DeckSpec => []CleanIsNotAhead
<1>1. CopyInv => CleanIsNotAhead
  <2> SUFFICES ASSUME CopyInv, NEW d \in Device, Usable(d), NEW id \in Id, Settled(d, id),
                      deck[d][id] # None, Served(d, id).card # None, past[id].deleted = None
               PROVE  VersionMs(deck[d][id]) <= Served(d, id).card.updated
    BY DEF CleanIsNotAhead
  <2>1. Serves(cursor[d], account[d]) /\ Clean(d, id)
    BY DEF Usable, Serves, Settled, Clean
  <2>2. Agrees(deck[d][id], Served(d, id), cursor[d].rev, Deleted(id))
    BY <2>1 DEF CopyInv, Abreast, CopyAt, KeptAt, Served
  <2>3. VersionMs(deck[d][id]) = deck[d][id].updated
    BY TypesAt, CopyFacts DEF CopyInv
  <2>4. QED BY <2>2, <2>3 DEF Agrees, NotAhead, Deleted
<1>2. QED BY <1>1, CopiesStandByCursors, PTL

-----------------------------------------------------------------------------
(* Deletes reach a device: first, no card is added ahead of a clock.       *)

ClocksAgree == \A d, e \in Device : Skew[d] = Skew[e]

AddedBy(c, t) == c # None => c.added <= t

\* When the word was last added, by the clock of the device.
LastAdded(d, id) == past[id].added + Skew[d]

\* What a device has, has sent and has been sent was added by then.
StoreBehind(d) ==
  \A id \in Id :
    /\ AddedBy(deck[d][id], LastAdded(d, id)) /\ AddedBy(held[d][id], LastAdded(d, id))
    /\ job[d].step \in {"cards", "waiting"} => AddedBy(job[d].cards[id], LastAdded(d, id))
    /\ job[d].step \in {"replied", "merge"} => AddedBy(job[d].answer.cards[id], LastAdded(d, id))
    /\ tombs[d][id] # None => tombs[d][id] <= Clock(d)

\* So was what the server holds, what its backup does, and what is on its way.
ServerBehind(d) ==
  \A id \in Id :
    /\ \A u \in User : /\ AddedBy(table[u][id].card, LastAdded(d, id))
                       /\ backup # None => AddedBy(backup.table[u][id].card, LastAdded(d, id))
    /\ \A m \in stray : AddedBy(m.cards[id], LastAdded(d, id))

NothingAhead ==
  /\ \A id \in Id : past[id].added <= now
  /\ \A d \in Device : StoreBehind(d) /\ ServerBehind(d)

\* Adds follow one another.
AddsRun == \A id \in Id : past'[id].added >= past[id].added

LEMMA AddedLater ==
  ASSUME NEW c, c # None => c.added \in Nat, NEW t \in Int, NEW s \in Int, t <= s, AddedBy(c, t)
  PROVE  AddedBy(c, s)
BY DEF AddedBy

\* A request gives a row no card but its own or the one it had.
LEMMA RequestKeepsAdded ==
  ASSUME NEW row \in Row, NEW del \in Int \cup {None}, NEW c \in Card \cup {None},
         NEW clock \in Nat, NEW r \in Nat, RowSound(row, clock, r),
         NEW new, new = MergeRow(row, del, c, clock, r + 1), NEW t,
         AddedBy(row.card, t), AddedBy(c, t)
  PROVE  AddedBy(new.card, t)
<1> DEFINE mid == ApplyDeletion(row, del, clock, r + 1)
<1>1. mid \in Row /\ new = UpsertCard(mid, c, clock, r + 1)
  BY DeletionKeepsRow DEF MergeRow
<1>2. mid = row \/ mid.card = None
  BY DeletionCases
<1>3. AddedBy(mid.card, t)
  BY <1>2 DEF AddedBy
<1> HIDE DEF mid
<1>4. \/ new = mid
      \/ c # None /\ new.card = Stamped(c, clock, r + 1)
      \/ mid.card # None /\ new.card = mid.card
  BY <1>1, UpsertCases
<1>5. QED BY <1>3, <1>4 DEF AddedBy, Stamped

\* A card sent with an older delete of the same word is a re-add, and stands.
LEMMA ReAddStands ==
  ASSUME NEW row \in Row, NEW del \in Nat, NEW c \in Card, c.added > del,
         NEW clock \in Nat, NEW r \in Nat, RowSound(row, clock, r),
         NEW new, new = MergeRow(row, del, c, clock, r + 1)
  PROVE  new.card # None
<1> DEFINE mid == ApplyDeletion(row, del, clock, r + 1)
           at == MsToEpoch(del, clock)
<1>1. mid \in Row /\ new = UpsertCard(mid, c, clock, r + 1)
  BY DeletionKeepsRow DEF MergeRow
<1>2. at \in Nat /\ at <= del /\ del # None /\ c # None /\ c.added \in Nat
  <2>1. c # None /\ del # None
    OBVIOUS
  <2>2. at \in Nat /\ at <= del
    BY DEF MsToEpoch
  <2>3. QED BY <2>1, <2>2 DEF Card
<1>3. \/ mid = row /\ Outlives(row.card, at)
      \/ mid.tomb # None /\ mid.tomb.at <= at
  BY <1>2, DeletionCases
<1> HIDE DEF mid, at
<1>4. mid.tomb # None => mid.tomb.at \in Nat
  BY <1>1 DEF Row, StoredTomb
<1>5. ~StaleReplica(mid, c)
  BY <1>2, <1>3, <1>4 DEF StaleReplica, Outlives, RowSound
<1>6. QED BY <1>1, <1>2, <1>5, UpsertCases

\* The clocks agree and do not run back.
LEMMA ClocksRun ==
  ASSUME DeckTypeInv, DeckTypeInv', NEW d \in Device, now' >= now
  PROVE  /\ Clock(d) \in Nat /\ Clock(d)' \in Nat /\ Clock(d)' >= Clock(d)
<1>1. now \in Nat /\ now' \in 1..MaxNow /\ Clock(d) \in Nat /\ Clock(d) = now + Skew[d]
      /\ Skew[d] \in Int
  BY ServerTypes, ClockFacts DEF DeckTypeInv, ServerFits
<1>2. Clock(d)' = now' + Skew[d]
  BY DEF Clock
<1>3. QED BY <1>1, <1>2

LEMMA AddTimesRun ==
  ASSUME DeckTypeInv, DeckTypeInv', AddsRun, NEW d \in Device, NEW id \in Id
  PROVE  /\ LastAdded(d, id) \in Int /\ LastAdded(d, id)' \in Int
         /\ LastAdded(d, id)' >= LastAdded(d, id)
<1>1. /\ past[id].added \in Nat /\ past'[id].added \in Nat /\ Skew[d] \in Int
      /\ past'[id].added >= past[id].added
  BY DeviceAssumption DEF DeckTypeInv, PastFits, AddsRun
<1>2. QED BY <1>1 DEF LastAdded

\* What was added was added by now.
LEMMA BehindClock ==
  ASSUME DeckTypeInv, NothingAhead, NEW d \in Device, NEW id \in Id
  PROVE  AddedBy(deck[d][id], Clock(d))
<1>1. /\ past[id].added \in Nat /\ past[id].added <= now /\ now \in Nat /\ Skew[d] \in Int
      /\ AddedBy(deck[d][id], LastAdded(d, id))
  BY DeviceAssumption, ServerTypes DEF DeckTypeInv, PastFits, NothingAhead, StoreBehind
<1>2. LastAdded(d, id) \in Int /\ Clock(d) \in Int /\ LastAdded(d, id) <= Clock(d)
  BY <1>1 DEF LastAdded, Clock
<1>3. deck[d][id] # None => deck[d][id].added \in Nat
  BY TypesAt, CopyFacts
<1>4. QED BY <1>1, <1>2, <1>3, AddedLater

LEMMA OneClock ==
  ASSUME ClocksAgree, NEW d \in Device, NEW e \in Device, NEW id \in Id
  PROVE  LastAdded(d, id) = LastAdded(e, id)
BY DEF ClocksAgree, LastAdded

LEMMA AddedTypes ==
  ASSUME DeckTypeInv, NEW d \in Device, NEW id \in Id
  PROVE  /\ deck[d][id] # None => deck[d][id].added \in Nat
         /\ held[d][id] # None => held[d][id].added \in Nat
         /\ job[d].cards[id] # None => job[d].cards[id].added \in Nat
         /\ job[d].step \in {"replied", "merge"} /\ job[d].answer.cards[id] # None
              => job[d].answer.cards[id].added \in Nat
         /\ tombs[d][id] # None => tombs[d][id] \in Nat
<1>1. /\ deck[d][id] # None => deck[d][id].added \in Nat
      /\ held[d][id] # None => held[d][id].added \in Nat
      /\ job[d].cards[id] # None => job[d].cards[id].added \in Nat
  BY TypesAt, CopyFacts
<1>2. job[d].step \in {"replied", "merge"} => job[d].answer.cards[id] \in Copy \cup {None}
  BY TypesAt DEF Answered
<1>3. job[d].step \in {"replied", "merge"} /\ job[d].answer.cards[id] # None
        => job[d].answer.cards[id].added \in Nat
  BY <1>2, CopyFacts
<1>4. tombs[d][id] # None => tombs[d][id] \in Nat
  BY TypesAt, StampAssumption
<1>5. QED BY <1>1, <1>3, <1>4

\* What the device knows of a word already.
Seen(d, id) ==
  {None, deck[d][id], held[d][id]}
    \cup (IF job[d].step \in {"replied", "merge"} THEN {job[d].answer.cards[id]} ELSE {})

LEMMA StoreStaysBehind ==
  ASSUME DeckTypeInv, DeckTypeInv', now' >= now, AddsRun, NEW d \in Device, StoreBehind(d),
         \A id \in Id :
           /\ deck'[d][id] \in Seen(d, id) \/ AddedBy(deck'[d][id], LastAdded(d, id)')
           /\ held'[d][id] \in Seen(d, id)
           /\ job'[d].step \in {"cards", "waiting"} =>
                \/ job'[d].cards[id] \in Seen(d, id)
                \/ job[d].step \in {"cards", "waiting"} /\ job'[d].cards = job[d].cards
           /\ job'[d].step \in {"replied", "merge"} =>
                \/ AddedBy(job'[d].answer.cards[id], LastAdded(d, id)')
                \/ job[d].step \in {"replied", "merge"} /\ job'[d].answer = job[d].answer
           /\ tombs'[d][id] \in {tombs[d][id], None, Clock(d)'}
  PROVE  StoreBehind(d)'
<1> SUFFICES ASSUME NEW id \in Id
             PROVE  /\ AddedBy(deck'[d][id], LastAdded(d, id)')
                    /\ AddedBy(held'[d][id], LastAdded(d, id)')
                    /\ job'[d].step \in {"cards", "waiting"} =>
                         AddedBy(job'[d].cards[id], LastAdded(d, id)')
                    /\ job'[d].step \in {"replied", "merge"} =>
                         AddedBy(job'[d].answer.cards[id], LastAdded(d, id)')
                    /\ tombs'[d][id] # None => tombs'[d][id] <= Clock(d)'
  BY DEF StoreBehind
<1> DEFINE t == LastAdded(d, id)
           s == LastAdded(d, id)'
<1>1. /\ t \in Int /\ s \in Int /\ s >= t
      /\ Clock(d) \in Nat /\ Clock(d)' \in Nat /\ Clock(d)' >= Clock(d)
  BY ClocksRun, AddTimesRun
<1>2. /\ deck[d][id] # None => deck[d][id].added \in Nat
      /\ held[d][id] # None => held[d][id].added \in Nat
      /\ job[d].cards[id] # None => job[d].cards[id].added \in Nat
      /\ job[d].step \in {"replied", "merge"} /\ job[d].answer.cards[id] # None
           => job[d].answer.cards[id].added \in Nat
      /\ tombs[d][id] # None => tombs[d][id] \in Nat
  BY AddedTypes
<1>3. /\ AddedBy(deck[d][id], t) /\ AddedBy(held[d][id], t)
      /\ job[d].step \in {"cards", "waiting"} => AddedBy(job[d].cards[id], t)
      /\ job[d].step \in {"replied", "merge"} => AddedBy(job[d].answer.cards[id], t)
      /\ tombs[d][id] # None => tombs[d][id] <= Clock(d)
  BY DEF StoreBehind
<1>4. /\ deck'[d][id] \in Seen(d, id) \/ AddedBy(deck'[d][id], s)
      /\ held'[d][id] \in Seen(d, id)
      /\ job'[d].step \in {"cards", "waiting"} =>
           \/ job'[d].cards[id] \in Seen(d, id)
           \/ job[d].step \in {"cards", "waiting"} /\ job'[d].cards = job[d].cards
      /\ job'[d].step \in {"replied", "merge"} =>
           \/ AddedBy(job'[d].answer.cards[id], s)
           \/ job[d].step \in {"replied", "merge"} /\ job'[d].answer = job[d].answer
      /\ tombs'[d][id] \in {tombs[d][id], None, Clock(d)'}
  OBVIOUS
<1> HIDE DEF t, s
<1>5. /\ AddedBy(deck[d][id], s) /\ AddedBy(held[d][id], s) /\ AddedBy(None, s)
      /\ job[d].step \in {"cards", "waiting"} => AddedBy(job[d].cards[id], s)
      /\ job[d].step \in {"replied", "merge"} => AddedBy(job[d].answer.cards[id], s)
  BY <1>1, <1>2, <1>3 DEF AddedBy
<1>6. ASSUME NEW c \in Seen(d, id) PROVE AddedBy(c, s)
  BY <1>5, <1>6 DEF Seen
<1>7. tombs'[d][id] # None => tombs'[d][id] <= Clock(d)'
  BY <1>1, <1>2, <1>3, <1>4
<1>8. QED BY <1>4, <1>5, <1>6, <1>7 DEF s

LEMMA ServerStaysBehind ==
  ASSUME DeckTypeInv, DeckTypeInv', AddsRun, NEW d \in Device, ServerBehind(d),
         table' = table, backup' = backup,
         \A m \in stray' : m \in stray \/ \A id \in Id : AddedBy(m.cards[id], LastAdded(d, id))
  PROVE  ServerBehind(d)'
<1> SUFFICES ASSUME NEW id \in Id
             PROVE  /\ \A u \in User :
                         /\ AddedBy(table'[u][id].card, LastAdded(d, id)')
                         /\ backup' # None => AddedBy(backup'.table[u][id].card, LastAdded(d, id)')
                    /\ \A m \in stray' : AddedBy(m.cards[id], LastAdded(d, id)')
  BY DEF ServerBehind
<1> DEFINE t == LastAdded(d, id)
           s == LastAdded(d, id)'
<1>1. t \in Int /\ s \in Int /\ t <= s
  BY AddTimesRun
<1>2. ASSUME NEW tbl, CardsFit(tbl), NEW u \in User, AddedBy(tbl[u][id].card, t)
      PROVE  AddedBy(tbl[u][id].card, s)
  <2>1. tbl[u][id].card # None => tbl[u][id].card.added \in Nat
    BY <1>2 DEF CardsFit, Wire, Copy
  <2>2. QED BY <1>1, <1>2, <2>1, AddedLater
<1>3. CardsFit(table) /\ (backup # None => CardsFit(backup.table))
  BY DEF DeckTypeInv, ServerFits
<1>4. ASSUME NEW m \in stray'
      PROVE  AddedBy(m.cards[id], s)
  <2>1. AddedBy(m.cards[id], t)
    BY <1>4 DEF ServerBehind
  <2>2. m.cards[id] \in Copy \cup {None}
    BY <1>4 DEF DeckTypeInv, StraysFit, Copies
  <2>3. m.cards[id] # None => m.cards[id].added \in Nat
    BY <2>2, CopyFacts
  <2>4. QED BY <1>1, <2>1, <2>3, AddedLater
<1>5. ASSUME NEW u \in User
      PROVE  /\ AddedBy(table[u][id].card, s)
             /\ backup # None => AddedBy(backup.table[u][id].card, s)
  <2>1. /\ AddedBy(table[u][id].card, t)
        /\ backup # None => AddedBy(backup.table[u][id].card, t)
    BY DEF ServerBehind
  <2>2. QED BY <1>2, <1>3, <2>1
<1>6. QED BY <1>4, <1>5

LEMMA SyncStaysBehind ==
  ASSUME DeckTypeInv, NEW d \in Device, ServerBehind(d), stray' \subseteq stray, past' = past,
         NEW u \in User, NEW cards \in Copies, NEW dels \in Times,
         Sync(u, cards, dels, {}, None), \A id \in Id : AddedBy(cards[id], LastAdded(d, id))
  PROVE  ServerBehind(d)' /\ now' = now
<1>1. /\ now' = now /\ rev \in Nat /\ now \in Nat
      /\ \A id \in Id : table'[u][id] = MergeRow(table[u][id], dels[id], cards[id], now, rev + 1)
      /\ \A v \in User \ {u} : table'[v] = table[v]
  BY SyncFits, ServerTypes DEF DeckTypeInv
<1>2. backup' = backup /\ \A id \in Id : LastAdded(d, id)' = LastAdded(d, id)
  BY DEF Sync, LastAdded
<1>3. ASSUME NEW id \in Id
      PROVE  AddedBy(table'[u][id].card, LastAdded(d, id))
  <2> DEFINE c == cards[id]
             del == dels[id]
  <2>0. AddedBy(c, LastAdded(d, id))
    OBVIOUS
  <2>1. c \in Copy \cup {None} /\ del \in Stamp \cup {None}
    BY DEF Copies, Times
  <2>2. /\ table[u][id] \in Row /\ RowSound(table[u][id], now, rev)
        /\ AddedBy(table[u][id].card, LastAdded(d, id))
        /\ table'[u][id] = MergeRow(table[u][id], del, c, now, rev + 1)
    BY <1>1, ServerTypes DEF ServerBehind
  <2> HIDE DEF c, del
  <2>3. c \in Card \cup {None} /\ del \in Int \cup {None}
    <3>1. c \in Card \cup {None}
      BY <2>1, CopyFacts
    <3>2. del \in Int \cup {None}
      BY <2>1
    <3>3. QED BY <3>1, <3>2
  <2>4. now \in Nat /\ rev \in Nat
    BY <1>1
  <2>5. QED BY <2>0, <2>2, <2>3, <2>4, RequestKeepsAdded
<1>4. QED BY <1>1, <1>2, <1>3 DEF ServerBehind

LEMMA OperatorStaysBehind ==
  ASSUME DeckTypeInv, NEW d \in Device, ServerBehind(d), stray' = stray, past' = past,
         Restart \/ TakeBackup \/ Restore
  PROVE  ServerBehind(d)'
<1>1. \A id \in Id : LastAdded(d, id)' = LastAdded(d, id)
  BY DEF LastAdded
<1>2. ASSUME NEW u \in User, NEW id \in Id
      PROVE  /\ AddedBy(table'[u][id].card, LastAdded(d, id))
             /\ backup' # None => AddedBy(backup'.table[u][id].card, LastAdded(d, id))
  <2>1. /\ AddedBy(table[u][id].card, LastAdded(d, id)) /\ table[u][id] \in Row
        /\ backup # None => AddedBy(backup.table[u][id].card, LastAdded(d, id))
    BY ServerTypes DEF ServerBehind
  <2>2. CASE Restart
    <3>1. /\ backup' = backup
          /\ table'[u][id] = IF Prunable(table[u][id]) THEN [table[u][id] EXCEPT !.tomb = None]
                             ELSE table[u][id]
      BY <2>2 DEF Restart
    <3>2. table'[u][id].card = table[u][id].card
      BY <2>1, <3>1 DEF Row
    <3>3. QED BY <2>1, <3>1, <3>2
  <2>3. CASE TakeBackup
    BY <2>1, <2>3 DEF TakeBackup, tables
  <2>4. CASE Restore
    BY <2>1, <2>4 DEF Restore
  <2>5. QED BY <2>2, <2>3, <2>4
<1>3. QED BY <1>1, <1>2 DEF ServerBehind

LEMMA NothingAheadStarts == DeckInit => NothingAhead
<1> SUFFICES ASSUME DeckInit PROVE NothingAhead
  OBVIOUS
<1>1. \A id \in Id : past[id].added <= now
  BY DEF DeckInit, Init
<1>2. ASSUME NEW d \in Device PROVE StoreBehind(d) /\ ServerBehind(d)
  <2>1. /\ deck[d] = Nothing /\ held[d] = Nothing /\ tombs[d] = Nothing
        /\ job[d].step = "idle" /\ backup = None /\ stray = {}
        /\ \A u \in User, id \in Id : table[u][id].card = None
    BY NoJobFits DEF DeckInit, Init, EmptyRow
  <2>2. QED BY <2>1 DEF StoreBehind, ServerBehind, AddedBy, Nothing
<1>3. QED BY <1>1, <1>2 DEF NothingAhead

\* Adds are at the present time, one after the other.
LEMMA AddsStep ==
  ASSUME DeckTypeInv, \A id \in Id : past[id].added <= now, NEW d \in Device,
         UserStep(d) \/ SyncStep(d)
  PROVE  AddsRun /\ now' >= now /\ \A id \in Id : past'[id].added <= now'
<1>1. now \in Nat /\ \A id \in Id : past[id].added \in Nat
  BY ServerTypes DEF DeckTypeInv, PastFits
<1>2. ASSUME NEW id \in Id, Add(d, id) \/ Edit(d, id) \/ Rate(d, id)
      PROVE  /\ now' = now + 1
             /\ \A i \in Id : past'[i].added \in {past[i].added, now'}
  BY <1>2, WriteFacts DEF Writes
<1>3. ASSUME NEW ids \in SUBSET Id, Delete(d, ids)
      PROVE  now' = now + 1 /\ \A i \in Id : past'[i].added = past[i].added
  BY <1>3, DeleteFacts DEF Deletes
<1>4. CASE Load(d) \/ \E u \in User : SignIn(d, u)
  BY <1>1, <1>4, SettleFacts DEF Settles, serverVars, AddsRun
<1>5. CASE Handle(d)
  <2>1. PICK u, t, delta : Answering(d, u, t, delta)
    BY <1>5, HandleFacts
  <2>2. past' = past BY <2>1 DEF Answering
  <2>3. now' = now BY <1>5 DEF Handle, Sync
  <2>4. QED BY <1>1, <2>2, <2>3 DEF AddsRun
<1>6. CASE Abort(d)
  <2>1. past' = past /\ now' = now
    BY <1>6, AbortFacts DEF serverVars, Abort
  <2>2. QED BY <1>1, <2>1 DEF AddsRun
<1>7. CASE SyncStep(d) /\ ~Handle(d) /\ ~Abort(d)
  <2>1. Local(d)
    BY <1>7, BeginFacts, ReadCardsFacts, ReadTombsFacts, MergeReadFacts, MergePutFacts,
       DropReadFacts, DropWriteFacts, ClearTombsFacts, ClearDirtyFacts, SetCursorFacts
       DEF SyncStep
  <2>2. past' = past /\ now' = now
    BY <2>1 DEF Local, serverVars
  <2>3. QED BY <1>1, <2>2 DEF AddsRun
<1>8. QED BY <1>1, <1>2, <1>3, <1>4, <1>5, <1>6, <1>7 DEF UserStep, AddsRun

\* What an actor does to its own store.
LEMMA ActorStaysBehind ==
  ASSUME DeckTypeInv, DeckTypeInv', now' >= now, AddsRun, NEW d \in Device,
         StoreBehind(d), ServerBehind(d), UserStep(d) \/ SyncStep(d)
  PROVE  StoreBehind(d)'
<1>1. ASSUME NEW id \in Id, Add(d, id) \/ Edit(d, id) \/ Rate(d, id)
      PROVE  StoreBehind(d)'
  <2>1. Writes(d, id)
    BY <1>1, WriteFacts
  <2> DEFINE t == LastAdded(d, id)
             s == LastAdded(d, id)'
  <2>2. s \in Int /\ t \in Int /\ s >= t
    BY AddTimesRun
  <2>3. AddedBy(deck'[d][id], s)
    <3>1. /\ AddedBy(deck[d][id], t) /\ AddedBy(held[d][id], t)
          /\ deck[d][id] # None => deck[d][id].added \in Nat
          /\ held[d][id] # None => held[d][id].added \in Nat
      BY AddedTypes DEF StoreBehind
    <3>2. \/ deck'[d][id].added = s
          \/ deck[d][id] # None /\ deck'[d][id].added = deck[d][id].added
          \/ held[d][id] # None /\ deck'[d][id].added = held[d][id].added
      BY <2>1 DEF Writes, LastAdded, Clock
    <3> HIDE DEF t, s
    <3> DEFINE new == deck'[d][id].added
               old == deck[d][id].added
               kept == held[d][id].added
    <3>3. new <= s
      <4>1. CASE new = s
        BY <2>2, <4>1
      <4>2. CASE deck[d][id] # None /\ new = old
        BY <2>2, <3>1, <4>2 DEF AddedBy
      <4>3. CASE held[d][id] # None /\ new = kept
        BY <2>2, <3>1, <4>3 DEF AddedBy
      <4>4. QED BY <3>2, <4>1, <4>2, <4>3
    <3>4. QED BY <3>3 DEF AddedBy
  <2>4. \A i \in Id :
          /\ deck'[d][i] \in Seen(d, i) \/ AddedBy(deck'[d][i], LastAdded(d, i)')
          /\ held'[d][i] \in Seen(d, i)
          /\ tombs'[d] = tombs[d] /\ job'[d] = job[d]
    BY <2>1, <2>3 DEF Writes, Seen, s
  <2>5. QED BY <2>4, StoreStaysBehind
<1>2. ASSUME NEW ids \in SUBSET Id, Delete(d, ids)
      PROVE  StoreBehind(d)'
  <2>1. Deletes(d, ids)
    BY <1>2, DeleteFacts
  <2>2. \A i \in Id :
          /\ deck'[d][i] \in Seen(d, i) /\ held'[d][i] \in Seen(d, i)
          /\ tombs'[d][i] \in {tombs[d][i], None, Clock(d)'} /\ job'[d] = job[d]
    BY <2>1 DEF Deletes, Seen
  <2>3. QED BY <2>2, StoreStaysBehind
<1>3. CASE Load(d) \/ \E u \in User : SignIn(d, u)
  <2>1. Settles(d)
    BY <1>3, SettleFacts
  <2>2. \A i \in Id :
          /\ deck'[d][i] \in Seen(d, i) /\ held'[d][i] \in Seen(d, i)
          /\ tombs'[d] = tombs[d] /\ job'[d] = job[d]
    BY <2>1 DEF Settles, Seen
  <2>3. QED BY <2>2, StoreStaysBehind
<1>4. CASE Begin(d) \/ ReadTombsAndSend(d) \/ MergeRead(d) \/ DropRead(d) \/ SetCursor(d) \/ Abort(d)
  <2>1. /\ deck'[d] = deck[d] /\ held'[d] = held[d] /\ tombs'[d] = tombs[d]
        /\ job'[d].step \in {"cards", "waiting"} =>
             job[d].step \in {"cards", "waiting"} /\ job'[d].cards = job[d].cards
        /\ job'[d].step \in {"replied", "merge"} =>
             job[d].step \in {"replied", "merge"} /\ job'[d].answer = job[d].answer
    BY <1>4, BeginFacts, ReadTombsFacts, MergeReadFacts, DropReadFacts, SetCursorFacts,
       AbortFacts, NoJobFits DEF Local, SameStore, Remembers
  <2>2. \A i \in Id : deck'[d][i] \in Seen(d, i) /\ held'[d][i] \in Seen(d, i)
    BY <2>1 DEF Seen
  <2>3. QED BY <2>1, <2>2, StoreStaysBehind
<1>5. CASE ReadCards(d)
  <2>1. /\ deck'[d] = deck[d] /\ held'[d] = held[d] /\ tombs'[d] = tombs[d]
        /\ job'[d].step = "cards"
        /\ \A i \in Id : job'[d].cards[i] \in {None, deck[d][i]}
    BY <1>5, ReadCardsFacts DEF Local, SameStore
  <2>2. \A i \in Id : /\ deck'[d][i] \in Seen(d, i) /\ held'[d][i] \in Seen(d, i)
                      /\ job'[d].cards[i] \in Seen(d, i)
    BY <2>1 DEF Seen
  <2>3. QED BY <2>1, <2>2, StoreStaysBehind
<1>6. CASE Handle(d)
  <2>1. PICK u, s, delta : Answering(d, u, s, delta)
    BY <1>6, HandleFacts
  <2>2. /\ deck'[d] = deck[d] /\ held'[d] = held[d] /\ tombs'[d] = tombs[d]
        /\ job[d].step = "waiting" /\ job'[d].step = "replied"
        /\ u \in User /\ u = job[d].user
        /\ Sync(u, job[d].cards, job[d].tombs, {}, None) /\ stray' = stray
        /\ \A i \in Id : job'[d].answer.cards[i] \in {None, Wire(table'[u][i].card)}
        /\ \A i \in Id : job'[d].answer.cards[i] # None => table'[u][i].card # None
        /\ past' = past
    BY <2>1 DEF Answering, SameStore, Returned
  <2>3. job[d].cards \in Copies /\ job[d].tombs \in Times
    BY DEF DeckTypeInv, DevicesFit, JobFits
  <2>4. ServerBehind(d)'
    BY <2>2, <2>3, SyncStaysBehind DEF StoreBehind
  <2>5. \A i \in Id : AddedBy(job'[d].answer.cards[i], LastAdded(d, i)')
    <3> SUFFICES ASSUME NEW i \in Id, job'[d].answer.cards[i] # None
                 PROVE  job'[d].answer.cards[i].added <= LastAdded(d, i)'
      BY DEF AddedBy
    <3>1. table'[u][i].card # None /\ table'[u][i].card.added <= LastAdded(d, i)'
      BY <2>2, <2>4 DEF ServerBehind, AddedBy
    <3>2. job'[d].answer.cards[i] = Wire(table'[u][i].card)
      BY <2>2
    <3>3. Wire(table'[u][i].card).added = table'[u][i].card.added
      BY DEF Wire
    <3>4. QED BY <3>1, <3>2, <3>3
  <2>6. \A i \in Id : deck'[d][i] \in Seen(d, i) /\ held'[d][i] \in Seen(d, i)
    BY <2>2 DEF Seen
  <2>7. QED BY <2>2, <2>5, <2>6, StoreStaysBehind
<1>7. CASE MergePut(d) \/ DropWrite(d) \/ ClearTombs(d) \/ ClearDirty(d)
  <2>1. /\ held'[d] = held[d] /\ job'[d].step \in Late
        /\ \A i \in Id : tombs'[d][i] \in {tombs[d][i], None}
        /\ \A i \in Id :
             \/ deck'[d][i] \in {deck[d][i], None}
             \/ job[d].step = "merge" /\ deck'[d][i] = job[d].answer.cards[i]
    BY <1>7, MergePutFacts, DropWriteFacts, ClearTombsFacts, ClearDirtyFacts DEF Local, Late
  <2>2. \A i \in Id : deck'[d][i] \in Seen(d, i) /\ held'[d][i] \in Seen(d, i)
    BY <2>1 DEF Seen
  <2>3. QED BY <2>1, <2>2, StoreStaysBehind DEF Late
<1>8. QED BY <1>1, <1>2, <1>3, <1>4, <1>5, <1>6, <1>7 DEF UserStep, SyncStep

LEMMA NothingAheadStep ==
  ASSUME ClocksAgree, DeckTypeInv, NothingAhead, [DeckNext]_vars
  PROVE  NothingAhead'
<1>1. DeckTypeInv'
  BY DeckTypesStep
<1>2. \A d \in Device : StoreBehind(d) /\ ServerBehind(d)
  BY DEF NothingAhead
<1>3. ASSUME NEW d \in Device, now' >= now, AddsRun, Same(d)
      PROVE  StoreBehind(d)'
  <2>1. \A i \in Id : deck'[d][i] \in Seen(d, i) /\ held'[d][i] \in Seen(d, i)
    BY <1>3 DEF Same, Seen
  <2>2. QED BY <1>1, <1>2, <1>3, <2>1, StoreStaysBehind DEF Same
<1>4. ASSUME NEW d \in Device, NEW e \in Device, Others(e), now' >= now, AddsRun,
             UserStep(e) \/ SyncStep(e)
      PROVE  StoreBehind(d)'
  <2>1. CASE e = d
    BY <1>1, <1>2, <1>4, <2>1, ActorStaysBehind
  <2>2. CASE e # d
    BY <1>3, <1>4, <2>2 DEF Others
  <2>3. QED BY <2>1, <2>2
<1>5. ASSUME NEW e \in Device, UserStep(e) \/ SyncStep(e)
      PROVE  AddsRun /\ now' >= now /\ \A id \in Id : past'[id].added <= now'
  BY <1>5, AddsStep DEF NothingAhead
<1>6. ASSUME past' = past, now' = now
      PROVE  AddsRun /\ now' >= now /\ \A id \in Id : past'[id].added <= now'
  <2>1. now \in Nat /\ \A id \in Id : past[id].added \in Nat
    BY ServerTypes DEF DeckTypeInv, PastFits
  <2>2. QED BY <1>6, <2>1 DEF AddsRun, NothingAhead
<1>7. ASSUME NEW e \in Device, UserStep(e)
      PROVE  \A d \in Device : StoreBehind(d)' /\ ServerBehind(d)'
  <2>1. Others(e) /\ table' = table /\ backup' = backup /\ stray' = stray
    <3>1. ASSUME NEW id \in Id, Add(e, id) \/ Edit(e, id) \/ Rate(e, id)
          PROVE  Others(e) /\ table' = table /\ backup' = backup /\ stray' = stray
      BY <3>1, WriteFacts DEF Writes, tables
    <3>2. ASSUME NEW ids \in SUBSET Id, Delete(e, ids)
          PROVE  Others(e) /\ table' = table /\ backup' = backup /\ stray' = stray
      BY <3>2, DeleteFacts DEF Deletes, tables
    <3>3. CASE Load(e) \/ \E u \in User : SignIn(e, u)
      BY <3>3, SettleFacts DEF Settles, serverVars, tables
    <3>4. QED BY <1>7, <3>1, <3>2, <3>3 DEF UserStep
  <2>2. AddsRun /\ now' >= now
    BY <1>7, <1>5
  <2>3. QED BY <1>1, <1>2, <1>4, <1>7, <2>1, <2>2, ServerStaysBehind
<1>8. ASSUME NEW e \in Device, SyncStep(e)
      PROVE  \A d \in Device : StoreBehind(d)' /\ ServerBehind(d)'
  <2> SUFFICES ASSUME NEW d \in Device PROVE StoreBehind(d)' /\ ServerBehind(d)'
    OBVIOUS
  <2>1. /\ StoreBehind(e) /\ \A id \in Id : LastAdded(e, id) = LastAdded(d, id)
        /\ AddsRun /\ now' >= now
    BY <1>2, <1>8, <1>5, OneClock
  <2>2. CASE Handle(e)
    <3>1. PICK u, s, delta : Answering(e, u, s, delta)
      BY <2>2, HandleFacts
    <3>2. /\ u \in User /\ job[e].step = "waiting" /\ Others(e) /\ past' = past
          /\ Sync(u, job[e].cards, job[e].tombs, {}, None) /\ stray' = stray
      BY <3>1 DEF Answering
    <3>3. job[e].cards \in Copies /\ job[e].tombs \in Times
      BY DEF DeckTypeInv, DevicesFit, JobFits
    <3>4. \A id \in Id : AddedBy(job[e].cards[id], LastAdded(d, id))
      BY <2>1, <3>2 DEF StoreBehind
    <3>5. ServerBehind(d)'
      BY <1>2, <3>2, <3>3, <3>4, SyncStaysBehind
    <3>6. QED BY <1>4, <1>8, <2>1, <3>2, <3>5
  <2>3. CASE Abort(e)
    <3>1. /\ UNCHANGED serverVars /\ Others(e)
          /\ \/ stray' = stray
             \/ /\ job[e].step = "waiting"
                /\ stray' = stray \cup {[user |-> job[e].user, cards |-> job[e].cards,
                                         tombs |-> job[e].tombs]}
      BY <2>3, AbortFacts
    <3>2. table' = table /\ backup' = backup
      BY <3>1 DEF serverVars, tables
    <3>3. job[e].step = "waiting" => \A id \in Id : AddedBy(job[e].cards[id], LastAdded(d, id))
      BY <2>1 DEF StoreBehind
    <3>4. \A m \in stray' : m \in stray \/ \A id \in Id : AddedBy(m.cards[id], LastAdded(d, id))
      BY <3>1, <3>3
    <3>5. QED BY <1>1, <1>2, <1>4, <1>8, <2>1, <3>1, <3>2, <3>4, ServerStaysBehind
  <2>4. CASE ~Handle(e) /\ ~Abort(e)
    <3>1. Local(e)
      BY <1>8, <2>4, BeginFacts, ReadCardsFacts, ReadTombsFacts, MergeReadFacts, MergePutFacts,
         DropReadFacts, DropWriteFacts, ClearTombsFacts, ClearDirtyFacts, SetCursorFacts
         DEF SyncStep
    <3>2. table' = table /\ backup' = backup /\ stray' = stray /\ Others(e)
      BY <3>1 DEF Local, serverVars, tables
    <3>3. QED BY <1>1, <1>2, <1>4, <1>8, <2>1, <3>2, ServerStaysBehind
  <2>5. QED BY <2>2, <2>3, <2>4
<1>9. ASSUME NEW m \in stray, HandleStray(m)
      PROVE  NothingAhead'
  <2>1. /\ \A d \in Device : Same(d)
        /\ m.user \in User /\ m.cards \in Copies /\ m.tombs \in Times
        /\ Sync(m.user, m.cards, m.tombs, {}, None) /\ stray' \subseteq stray /\ past' = past
    BY <1>9, StrayFacts
  <2>2. now' = now
    BY <2>1 DEF Sync
  <2>3. ASSUME NEW d \in Device PROVE StoreBehind(d)' /\ ServerBehind(d)'
    <3>1. \A id \in Id : AddedBy(m.cards[id], LastAdded(d, id))
      BY <1>2 DEF ServerBehind
    <3>2. QED BY <1>2, <1>3, <1>6, <2>1, <2>2, <3>1, SyncStaysBehind
  <2>4. QED BY <1>6, <2>1, <2>2, <2>3 DEF NothingAhead
<1>10. CASE Maintenance
  <2>1. /\ \A d \in Device : Same(d)
        /\ now' = now /\ past' = past /\ stray' = stray /\ (Restart \/ TakeBackup \/ Restore)
    BY <1>10, MaintenanceFacts
  <2>2. QED BY <1>2, <1>3, <1>6, <2>1, OperatorStaysBehind DEF NothingAhead
<1>11. CASE UNCHANGED vars
  <2>1. /\ \A d \in Device : Same(d)
        /\ now' = now /\ past' = past /\ table' = table /\ backup' = backup /\ stray' = stray
    BY <1>11 DEF vars, deviceVars, serverVars, tables, Same
  <2>2. QED BY <1>1, <1>2, <1>3, <1>6, <2>1, ServerStaysBehind DEF NothingAhead
<1>12. ASSUME NEW e \in Device, UserStep(e) \/ SyncStep(e)
       PROVE  NothingAhead'
  BY <1>7, <1>8, <1>12, <1>5 DEF NothingAhead
<1>13. QED BY <1>9, <1>10, <1>11, <1>12 DEF DeckNext

-----------------------------------------------------------------------------
(* Deletes reach a device: what its cursors then stand for.                *)

\* A word not written since the snapshot was added before the upload was read; the
\* tombstones sent are gone by the end; and where one stands between syncs, a card
\* of the word is a later re-add that has still to be sent.
SerialAt(d, id) ==
  /\ job[d].step \in Early /\ Quiet(d, id) => AddedBy(deck[d][id], job[d].at)
  /\ job[d].step \in {"forwarded", "clean"} => tombs[d][id] = None
  /\ job[d].step \in Early \cup {"idle"} /\ tombs[d][id] # None =>
       /\ deck[d][id] # None => dirty[d][id] # None /\ deck[d][id].added > tombs[d][id]
       /\ held[d][id] # None => held[d][id].added > tombs[d][id]

\* The device has no copy of a word whose row is gone, as far as a cursor at k tells.
RowGone(mine, row, k) == row.card = None /\ Covered(row, k) => mine = None

KeptGone(d, id) ==
  Serves(cursor[d], account[d]) /\ Clean(d, id)
    => RowGone(deck[d][id], table[account[d]][id], cursor[d].rev)

SinceGone(d, id) ==
  job[d].step \in {"dirty", "cards", "waiting"} /\ Serves(job[d].since, job[d].user)
  /\ Unasked(d, id)
    => RowGone(deck[d][id], table[job[d].user][id], job[d].since.rev)

\* A copy still there of a word the answer's cursor says is gone is about to be
\* dropped: the answer reports the delete, and nothing exempts the word from it.
Dropping(d, id) ==
  /\ job[d].step \in {"replied", "merge", "merged", "drop"}
  /\ id \in job[d].answer.deletions /\ job[d].tombs[id] = None
  /\ AddedBy(deck[d][id], job[d].at)
  /\ job[d].step = "drop" => id \in job[d].drop

AnswerGone(d, id) ==
  /\ job[d].step \in Answered /\ ~Refused(job[d])
  /\ Serves(job[d].answer.cursor, job[d].user)
  /\ Quiet(d, id) /\ deck[d][id] # None
  /\ table[job[d].user][id].card = None
  /\ Covered(table[job[d].user][id], job[d].answer.cursor.rev)
  => Dropping(d, id)

GoneAt(d, id) == SerialAt(d, id) /\ KeptGone(d, id) /\ SinceGone(d, id) /\ AnswerGone(d, id)

GoneInv ==
  CopyInv /\ NothingAhead /\ \A d \in Device \ Flaky, id \in Id : GoneAt(d, id)

\* A row a later cursor finds gone was so before, as far as that cursor goes.
LEMMA RowWasGone ==
  ASSUME ServerMoves, epoch' = epoch, NEW u \in User, NEW id \in Id, NEW k \in Nat,
         k <= rev, k >= prunedRev', table'[u][id].card = None, Covered(table'[u][id], k)
  PROVE  table[u][id].card = None /\ Covered(table[u][id], k)
BY DEF ServerMoves, RowMoves

LEMMA KeptGoneStands ==
  ASSUME DeckTypeInv, DeckTypeInv', ServerMoves, NEW d \in Device, NEW id \in Id,
         Holds(d), KeptGone(d, id), Stands(d, id),
         cursor'[d] = None \/ (cursor'[d] = cursor[d] /\ account'[d] = account[d])
  PROVE  KeptGone(d, id)'
<1> SUFFICES ASSUME CanServeDelta(cursor'[d], account'[d], epoch', rev' + 1, prunedRev'),
                    Clean(d, id)', table'[account'[d]][id].card = None,
                    Covered(table'[account'[d]][id], cursor'[d].rev)
             PROVE  deck'[d][id] = None
  BY DEF KeptGone, Serves, RowGone, Covered
<1>1. cursor'[d] # None
  BY DEF CanServeDelta
<1>2. cursor[d] \in Cursor \cup {None} /\ cursor'[d] = cursor[d] /\ account'[d] = account[d]
  BY <1>1, TypesAt
<1>3. /\ epoch' = epoch /\ Serves(cursor[d], account[d]) /\ account[d] \in User
      /\ cursor[d].rev \in Nat /\ cursor[d].rev <= rev /\ cursor[d].rev >= prunedRev'
  BY <1>2, StillServed DEF Holds
<1>4. Clean(d, id)
  BY DEF Clean, Stands
<1>5. QED BY <1>2, <1>3, <1>4, RowWasGone DEF KeptGone, RowGone, Stands

\* A step of another actor, a sign-in, or the loading of a session.
LEMMA GoneStands ==
  ASSUME DeckTypeInv, DeckTypeInv', ServerMoves, NEW d \in Device, NEW id \in Id,
         Holds(d), GoneAt(d, id), JobStands(d), Stands(d, id),
         held'[d][id] \in {held[d][id], deck[d][id], None}
  PROVE  GoneAt(d, id)'
<1>1. SerialAt(d, id)'
  BY DEF GoneAt, SerialAt, JobStands, Stands, Quiet, AddedBy
<1>2. KeptGone(d, id)'
  BY KeptGoneStands DEF GoneAt, JobStands
<1>3. SinceGone(d, id)'
  <2> SUFFICES ASSUME job[d].step \in {"dirty", "cards", "waiting"},
                      CanServeDelta(job[d].since, job[d].user, epoch', rev' + 1, prunedRev'),
                      Unasked(d, id)', table'[job[d].user][id].card = None,
                      Covered(table'[job[d].user][id], job[d].since.rev)
               PROVE  deck'[d][id] = None
    BY DEF SinceGone, Serves, RowGone, Covered, JobStands
  <2>1. job[d].since \in Cursor \cup {None}
    BY TypesAt
  <2>2. /\ epoch' = epoch /\ Serves(job[d].since, job[d].user) /\ job[d].user \in User
        /\ job[d].since.rev \in Nat /\ job[d].since.rev <= rev /\ job[d].since.rev >= prunedRev'
    BY <2>1, StillServed DEF Holds
  <2>3. Unasked(d, id)
    BY DEF Unasked, Quiet, Stands, JobStands
  <2>4. QED BY <2>2, <2>3, RowWasGone DEF GoneAt, SinceGone, RowGone, Stands
<1>4. AnswerGone(d, id)'
  <2> DEFINE c == job[d].answer.cursor
             u == job[d].user
  <2> SUFFICES ASSUME job[d].step \in Answered, ~Refused(job[d]),
                      CanServeDelta(c, u, epoch', rev' + 1, prunedRev'),
                      Quiet(d, id)', deck'[d][id] # None, table'[u][id].card = None,
                      Covered(table'[u][id], c.rev)
               PROVE  Dropping(d, id)
    BY DEF AnswerGone, Serves, Covered, JobStands, Stands, Refused, Dropping, AddedBy
  <2>1. c \in Cursor /\ Behind(c, epoch, rev)
    BY TypesAt DEF Holds
  <2> HIDE DEF c, u
  <2>2. /\ epoch' = epoch /\ Serves(c, u) /\ u \in User
        /\ c.rev \in Nat /\ c.rev <= rev /\ c.rev >= prunedRev'
    BY <2>1, StillServed
  <2>3. table[u][id].card = None /\ Covered(table[u][id], c.rev)
    BY <2>2, RowWasGone
  <2>4. Quiet(d, id) /\ deck[d][id] # None
    BY DEF Quiet, JobStands, Stands
  <2>5. QED BY <2>2, <2>3, <2>4 DEF GoneAt, AnswerGone, c, u
<1>5. QED BY <1>1, <1>2, <1>3, <1>4 DEF GoneAt

\* What the user writes is later than any tombstone of the word, and has an entry.
LEMMA WriteGone ==
  ASSUME DeckTypeInv, DeckTypeInv', ServerMoves, NEW d \in Device, Abreast(d), StoreBehind(d),
         NEW i \in Id, GoneAt(d, i), NEW id \in Id, Writes(d, id)
  PROVE  GoneAt(d, i)'
<1>1. CASE i # id
  <2>1. /\ JobStands(d) /\ Stands(d, i) /\ held'[d][i] \in {held[d][i], deck[d][i], None}
    BY <1>1 DEF Writes, JobStands, Stands
  <2>2. QED BY <2>1, GoneStands DEF Abreast
<1> SUFFICES ASSUME i = id PROVE GoneAt(d, id)'
  BY <1>1
<1>2. /\ dirty'[d][id] # None /\ Clock(d)' = Clock(d) + 1 /\ Clock(d) \in Nat
      /\ job[d].step # "idle" => ~Quiet(d, id)'
  BY WriteUnquiet DEF Abreast, CopyAt
<1>3. /\ job'[d] = job[d] /\ tombs'[d] = tombs[d] /\ deck'[d][id] # None
      /\ held'[d][id] \in {held[d][id], None} /\ SerialAt(d, id)
      /\ \/ deck'[d][id].added = Clock(d)'
         \/ deck[d][id] # None /\ deck'[d][id].added = deck[d][id].added
         \/ held[d][id] # None /\ deck'[d][id].added = held[d][id].added
  BY DEF Writes, GoneAt
<1>4. tombs[d][id] # None => tombs[d][id] \in Nat /\ tombs[d][id] <= Clock(d)
  BY AddedTypes DEF StoreBehind
<1>5. job[d].step \in Early \cup {"idle"} /\ tombs[d][id] # None => deck'[d][id].added > tombs[d][id]
  <2> SUFFICES ASSUME job[d].step \in Early \cup {"idle"}, tombs[d][id] # None
               PROVE  deck'[d][id].added > tombs[d][id]
    OBVIOUS
  <2>1. CASE deck'[d][id].added = Clock(d)'
    BY <1>2, <1>4, <2>1
  <2>2. CASE \/ deck[d][id] # None /\ deck'[d][id].added = deck[d][id].added
             \/ held[d][id] # None /\ deck'[d][id].added = held[d][id].added
    BY <1>3, <2>2 DEF SerialAt
  <2>3. QED BY <1>3, <2>1, <2>2
<1>6. SerialAt(d, id)'
  BY <1>2, <1>3, <1>5 DEF SerialAt, Early
<1>7. KeptGone(d, id)' /\ SinceGone(d, id)' /\ AnswerGone(d, id)'
  BY <1>2, <1>3 DEF KeptGone, Clean, SinceGone, Unasked, AnswerGone, Answered, Late
<1>8. QED BY <1>6, <1>7 DEF GoneAt

\* A delete leaves neither the card nor a copy of it in a session.
LEMMA DeleteGone ==
  ASSUME ~DeletesMidSync, DeckTypeInv, DeckTypeInv', ServerMoves, NEW d \in Device, Abreast(d),
         NEW i \in Id, GoneAt(d, i), NEW ids \in SUBSET Id, Deletes(d, ids)
  PROVE  GoneAt(d, i)'
<1>1. CASE i \notin ids
  <2>1. /\ JobStands(d) /\ Stands(d, i) /\ held'[d][i] \in {held[d][i], deck[d][i], None}
    BY <1>1 DEF Deletes, JobStands, Stands
  <2>2. QED BY <2>1, GoneStands DEF Abreast
<1>2. CASE i \in ids
  <2>1. /\ job'[d].step = "idle" /\ deck'[d][i] = None /\ held'[d][i] = None
        /\ tombs'[d][i] = Clock(d)'
    BY <1>2 DEF Deletes, Idle
  <2>2. tombs'[d][i] # None
    BY <2>1, ClockFacts DEF DeckTypeInv, Deletes
  <2>3. QED BY <2>1, <2>2 DEF GoneAt, SerialAt, KeptGone, RowGone, SinceGone, AnswerGone, Early,
                              Answered, Late
<1>3. QED BY <1>1, <1>2

LEMMA SettleGone ==
  ASSUME DeckTypeInv, DeckTypeInv', ServerMoves, NEW d \in Device, Abreast(d),
         NEW i \in Id, GoneAt(d, i), Settles(d)
  PROVE  GoneAt(d, i)'
<1>1. /\ JobStands(d) /\ Stands(d, i) /\ held'[d][i] \in {held[d][i], deck[d][i], None}
  BY DEF Settles, JobStands, Stands
<1>2. QED BY <1>1, GoneStands DEF Abreast

\* What a cursor says of a word stays while the store does.
LEMMA KeptGoneFrame ==
  ASSUME DeckTypeInv, NEW d \in Device, NEW id \in Id, Local(d), KeptGone(d, id),
         cursor'[d] = cursor[d], deck'[d][id] # None => deck'[d][id] = deck[d][id],
         Serves(cursor[d], account[d]) /\ Clean(d, id)' /\ deck'[d][id] # None => Clean(d, id)
  PROVE  KeptGone(d, id)'
<1>1. /\ table' = table /\ epoch' = epoch /\ rev' = rev /\ prunedRev' = prunedRev
      /\ account'[d] = account[d]
  BY LocalFrame
<1>2. QED BY <1>1 DEF KeptGone, Serves, RowGone, Covered

\* What the answer says does, while the word stays and the job remembers.
LEMMA AnswerGoneFrame ==
  ASSUME DeckTypeInv, NEW d \in Device, NEW id \in Id, Local(d), Remembers(d),
         job[d].step \in Answered, AnswerGone(d, id),
         Quiet(d, id)' /\ deck'[d][id] # None =>
           Quiet(d, id) /\ deck'[d][id] = deck[d][id] /\ (Dropping(d, id) => Dropping(d, id)')
  PROVE  AnswerGone(d, id)'
<1>1. /\ table' = table /\ epoch' = epoch /\ rev' = rev /\ prunedRev' = prunedRev
  BY LocalFrame
<1>2. QED BY <1>1 DEF AnswerGone, Serves, Covered, Refused, Remembers

LEMMA BeginGone ==
  ASSUME DeckTypeInv, NEW d \in Device, NEW id \in Id, GoneAt(d, id),
         AddedBy(deck[d][id], Clock(d)), Begin(d)
  PROVE  GoneAt(d, id)'
<1>1. /\ Local(d) /\ SameStore(d) /\ job[d].step = "idle" /\ job'[d].step = "dirty"
      /\ job'[d].user = account[d] /\ job'[d].at = Clock(d)
      /\ job'[d].since = cursor[d] /\ job'[d].dirty = dirty[d]
  BY BeginFacts DEF Idle
<1>2. /\ table' = table /\ epoch' = epoch /\ rev' = rev /\ prunedRev' = prunedRev
      /\ deck'[d] = deck[d] /\ dirty'[d] = dirty[d] /\ tombs'[d] = tombs[d] /\ cursor'[d] = cursor[d]
      /\ held'[d] = held[d]
  BY <1>1, LocalFrame DEF SameStore, Local
<1>3. GoneAt(d, id) /\ AddedBy(deck[d][id], Clock(d))
  OBVIOUS
<1>4. SerialAt(d, id)'
  BY <1>1, <1>2, <1>3 DEF GoneAt, SerialAt, Early, AddedBy
<1>5. KeptGone(d, id)'
  BY <1>1, <1>2, <1>3, KeptGoneFrame DEF GoneAt, Clean
<1>6. SinceGone(d, id)'
  <2>1. Unasked(d, id)' => Clean(d, id)
    BY <1>1, <1>2 DEF Unasked, Quiet, Clean
  <2>2. QED BY <1>1, <1>2, <1>3, <2>1 DEF GoneAt, SinceGone, KeptGone, Serves, RowGone, Covered
<1>7. AnswerGone(d, id)'
  BY <1>1 DEF AnswerGone, Answered, Late
<1>8. QED BY <1>4, <1>5, <1>6, <1>7 DEF GoneAt

LEMMA ReadGone ==
  ASSUME DeckTypeInv, NEW d \in Device, NEW id \in Id, GoneAt(d, id),
         ReadCards(d) \/ ReadTombsAndSend(d)
  PROVE  GoneAt(d, id)'
<1>1. /\ Local(d) /\ SameStore(d) /\ job[d].step \in {"dirty", "cards"}
      /\ job'[d].step \in {"cards", "waiting"}
      /\ job'[d].user = job[d].user /\ job'[d].since = job[d].since /\ job'[d].dirty = job[d].dirty
      /\ job'[d].at = job[d].at
  BY ReadCardsFacts, ReadTombsFacts
<1>2. /\ table' = table /\ epoch' = epoch /\ rev' = rev /\ prunedRev' = prunedRev
      /\ deck'[d] = deck[d] /\ dirty'[d] = dirty[d] /\ tombs'[d] = tombs[d] /\ cursor'[d] = cursor[d]
      /\ held'[d] = held[d]
  BY <1>1, LocalFrame DEF SameStore, Local
<1>3. GoneAt(d, id)
  OBVIOUS
<1>4. SerialAt(d, id)'
  BY <1>1, <1>2, <1>3 DEF GoneAt, SerialAt, Early, AddedBy, Quiet
<1>5. KeptGone(d, id)'
  BY <1>1, <1>2, <1>3, KeptGoneFrame DEF GoneAt, Clean
<1>6. SinceGone(d, id)'
  BY <1>1, <1>2, <1>3 DEF GoneAt, SinceGone, Serves, RowGone, Covered, Unasked, Quiet
<1>7. AnswerGone(d, id)'
  BY <1>1 DEF AnswerGone, Answered, Late
<1>8. QED BY <1>4, <1>5, <1>6, <1>7 DEF GoneAt

\* The server reports every delete the cursor it answers with covers, of a word the
\* device has as it had it.
LEMMA HandleGone ==
  ASSUME DeckTypeInv, DeckTypeInv', ServerMoves, NEW d \in Device, Abreast(d),
         NEW id \in Id, GoneAt(d, id), Handle(d)
  PROVE  GoneAt(d, id)'
<1> PICK u, s, delta : Answering(d, u, s, delta)
  BY HandleFacts
<1>1. /\ u = job[d].user /\ u \in User /\ s = job[d].since
      /\ delta = CanServeDelta(s, u, epoch, rev + 1, prunedRev)
      /\ job[d].step = "waiting" /\ job'[d].step = "replied"
      /\ job'[d].user = u /\ job'[d].at = job[d].at /\ job'[d].since = s
      /\ job'[d].dirty = job[d].dirty /\ job'[d].cards = job[d].cards
      /\ job'[d].tombs = job[d].tombs
      /\ deck'[d] = deck[d] /\ dirty'[d] = dirty[d] /\ tombs'[d] = tombs[d] /\ cursor'[d] = cursor[d]
      /\ account'[d] = account[d] /\ held'[d] = held[d]
      /\ Sync(u, job[d].cards, job[d].tombs, {}, None)
      /\ job'[d].answer.full = ~delta
  BY DEF Answering, SameStore
<1>2. /\ \A i \in Id : i \in job'[d].answer.deletions
                         <=> Returned(table'[u][i].tomb, s, delta, Asked(job[d], i))
  BY DEF Answering
<1>3. job[d].cards \in Copies /\ job[d].tombs \in Times
  BY DEF DeckTypeInv, DevicesFit, JobFits
<1>4. /\ now \in Nat /\ rev \in Nat
      /\ \A i \in Id : table'[u][i] = MergeRow(table[u][i], job[d].tombs[i], job[d].cards[i],
                                               now, rev + 1)
  BY <1>1, <1>3, SyncFits, ServerTypes DEF DeckTypeInv
<1>5. GoneAt(d, id) /\ UploadAt(d, id)
  BY DEF Abreast, CopyAt
<1>6. SerialAt(d, id)'
  BY <1>1, <1>5 DEF GoneAt, SerialAt, Early, Quiet, AddedBy
<1>7. KeptGone(d, id)'
  BY <1>1, <1>5, KeptGoneStands DEF GoneAt, Abreast, Stands
<1>8. SinceGone(d, id)'
  BY <1>1 DEF SinceGone
<1>9. AnswerGone(d, id)'
  <2> DEFINE mine == deck[d][id]
             row == table[u][id]
             new == table'[u][id]
             up == job[d].cards[id]
             del == job[d].tombs[id]
  <2> SUFFICES ASSUME ~Refused(job'[d]), Quiet(d, id)', mine # None, new.card = None
               PROVE  Dropping(d, id)'
    BY <1>1 DEF AnswerGone, Refused
  <2>1. Quiet(d, id)
    BY <1>1 DEF Quiet
  <2>2. /\ AddedBy(mine, job[d].at)
        /\ tombs[d][id] # None => mine.added > tombs[d][id] /\ dirty[d][id] # None
    BY <1>1, <1>5, <2>1 DEF GoneAt, SerialAt, Early
  <2>3. /\ up = IF s = None \/ job[d].dirty[id] # None THEN mine ELSE None
        /\ del = tombs[d][id] /\ dirty[d][id] = job[d].dirty[id]
    BY <1>1, <1>5, <2>1 DEF UploadAt, Quiet
  <2>4. /\ mine \in Copy \cup {None} /\ del \in Stamp \cup {None}
        /\ row \in Row /\ RowSound(row, now, rev)
        /\ new = MergeRow(row, del, up, now, rev + 1)
    BY <1>1, <1>4, TypesAt, ServerTypes
  <2>5. s # None => s.rev \in Nat
    BY <1>1, TypesAt DEF Cursor
  <2>6. /\ new.tomb # None => id \in job'[d].answer.deletions
                                <=> (~delta \/ new.tomb.rev > s.rev \/ Asked(job[d], id))
        /\ Asked(job[d], id) <=> up # None \/ del # None
    BY <1>2 DEF Returned, Asked
  <2>7. Unasked(d, id) /\ delta /\ row.card = None => ~Covered(row, s.rev)
    BY <1>1, <1>5 DEF GoneAt, SinceGone, Serves, RowGone
  <2>8. s # None => delta
    BY <1>1 DEF Refused
  <2> HIDE DEF mine, row, new, up, del
  <2>9. mine \in Card /\ (del # None => del \in Nat)
    BY <2>4, CopyFacts
  <2>10. del = None
    <3> SUFFICES ASSUME del # None PROVE FALSE
      OBVIOUS
    <3>1. up = mine /\ mine.added > del
      BY <2>2, <2>3
    <3>2. new.card # None
      BY <1>4, <2>4, <2>9, <3>1, ReAddStands
    <3>3. QED BY <3>2
  <2>11. new = UpsertCard(row, up, now, rev + 1)
    BY <2>4, <2>10 DEF MergeRow, ApplyDeletion
  <2>12. id \in job'[d].answer.deletions
    <3>1. CASE up # None
      <4>1. up \in Card /\ up = mine
        BY <2>3, <2>9, <3>1
      <4>2. new = row /\ StaleReplica(row, up)
        BY <1>4, <2>4, <2>11, <3>1, <4>1, UpsertCases
      <4>3. QED BY <2>6, <3>1, <4>2 DEF StaleReplica
    <3>2. CASE up = None
      <4>1. s # None /\ job[d].dirty[id] = None /\ new = row
        BY <2>3, <2>11, <3>2 DEF UpsertCard
      <4>2. Unasked(d, id)
        BY <2>1, <2>3, <2>10, <4>1 DEF Unasked
      <4>3. row.tomb # None /\ ~(row.tomb.rev <= s.rev)
        BY <2>7, <2>8, <4>1, <4>2 DEF Covered
      <4>4. row.tomb.rev \in Nat /\ s.rev \in Nat
        BY <2>4, <2>5, <4>1, <4>3 DEF Row, StoredTomb
      <4>5. QED BY <2>6, <4>1, <4>3, <4>4
    <3>3. QED BY <3>1, <3>2
  <2>13. QED BY <1>1, <2>2, <2>10, <2>12 DEF Dropping, mine, del
<1>10. QED BY <1>6, <1>7, <1>8, <1>9 DEF GoneAt

\* Once there is an answer, a cursor still served is no later than the answer's.
LEMMA LateServes ==
  ASSUME DeckTypeInv, NEW d \in Device, Holds(d), job[d].step \in Answered,
         Serves(cursor[d], account[d])
  PROVE  /\ ~Refused(job[d]) /\ account[d] = job[d].user
         /\ Serves(job[d].answer.cursor, job[d].user)
         /\ \A row \in Row : Covered(row, cursor[d].rev) => Covered(row, job[d].answer.cursor.rev)
<1> DEFINE c == cursor[d]
           j == job[d]
           a == j.answer.cursor
<1>1. /\ c \in Cursor \cup {None} /\ JobFits(j)
      /\ rev \in Nat /\ prunedRev \in Nat /\ epoch \in Nat
  BY ServerTypes DEF DeckTypeInv, DevicesFit
<1>2. c # None /\ j.step # "idle" /\ c = j.since /\ account[d] = j.user
  BY DEF Serves, CanServeDelta, Holds, Answered, Late
<1>3. /\ c \in Cursor /\ c.rev \in Nat /\ c.epoch \in Nat
      /\ a \in Cursor /\ a.rev \in Nat /\ a.epoch \in Nat /\ a.user = j.user
  BY <1>1, <1>2 DEF Cursor, JobFits, ReplyFits
<1>4. /\ Behind(a, epoch, rev) /\ ~j.answer.full
      /\ c.epoch = a.epoch /\ c.rev <= a.rev
  BY <1>2 DEF Holds
<1>5. ~Refused(j)
  BY <1>4 DEF Refused
<1>6. Serves(a, j.user)
  <2>1. c.epoch = epoch /\ c.rev >= prunedRev
    BY DEF Serves, CanServeDelta
  <2>2. a.rev <= rev /\ a.rev >= prunedRev
    BY <1>1, <1>3, <1>4, <2>1 DEF Behind
  <2>3. a # None
    BY <1>3, DeviceAssumption
  <2>4. QED BY <1>1, <1>3, <1>4, <2>1, <2>2, <2>3 DEF Serves, CanServeDelta
<1>7. ASSUME NEW row \in Row, Covered(row, c.rev) PROVE Covered(row, a.rev)
  <2> DEFINE r == row.tomb.rev
  <2>1. row.tomb # None => r \in Nat /\ r <= c.rev
    BY <1>7 DEF Covered, Row, StoredTomb
  <2> HIDE DEF c, a, r
  <2>2. row.tomb # None => r <= a.rev
    BY <1>3, <1>4, <2>1
  <2>3. QED BY <2>2 DEF Covered, r
<1>8. QED BY <1>2, <1>5, <1>6, <1>7

\* Nothing the answer writes is a word its cursor says is gone.
LEMMA GoneIsNotPut ==
  ASSUME NEW d \in Device, NEW id \in Id, AnswerAt(d, id), PutAt(d, id), job[d].step = "merge",
         Serves(job[d].answer.cursor, job[d].user),
         table[job[d].user][id].card = None,
         Covered(table[job[d].user][id], job[d].answer.cursor.rev)
  PROVE  id \notin job[d].put
<1>1. job[d].answer.cursor.epoch = epoch
  BY DEF Serves, CanServeDelta
<1>2. job[d].answer.cards[id] = None
  BY <1>1 DEF AnswerAt, Answered
<1>3. QED BY <1>2 DEF PutAt

LEMMA MergeGone ==
  ASSUME DeckTypeInv, NEW d \in Device, Abreast(d), NEW id \in Id, GoneAt(d, id),
         MergeRead(d) \/ MergePut(d)
  PROVE  GoneAt(d, id)'
<1>1. GoneAt(d, id) /\ CopyAt(d, id) /\ Holds(d)
  BY DEF Abreast
<1>2. CASE MergeRead(d)
  <2>1. /\ Local(d) /\ SameStore(d) /\ Remembers(d)
        /\ job[d].step = "replied" /\ job'[d].step = "merge"
    BY <1>2, MergeReadFacts
  <2>2. /\ deck'[d] = deck[d] /\ dirty'[d] = dirty[d] /\ tombs'[d] = tombs[d]
        /\ cursor'[d] = cursor[d] /\ held'[d] = held[d]
        /\ Quiet(d, id)' <=> Quiet(d, id)
    BY <2>1 DEF SameStore, Local, Quiet, Remembers
  <2>3. SerialAt(d, id)'
    BY <1>1, <2>1, <2>2 DEF GoneAt, SerialAt, Early, AddedBy, Remembers
  <2>4. KeptGone(d, id)'
    BY <1>1, <2>1, <2>2, KeptGoneFrame DEF GoneAt, Clean
  <2>5. AnswerGone(d, id)'
    <3>1. Dropping(d, id) => Dropping(d, id)'
      BY <2>1, <2>2 DEF Dropping, AddedBy, Remembers
    <3>2. QED BY <1>1, <2>1, <2>2, <3>1, AnswerGoneFrame DEF GoneAt, Answered
  <2>6. SinceGone(d, id)'
    BY <2>1 DEF SinceGone
  <2>7. QED BY <2>3, <2>4, <2>5, <2>6 DEF GoneAt
<1>3. CASE MergePut(d)
  <2>1. /\ Local(d) /\ Remembers(d) /\ dirty'[d] = dirty[d] /\ tombs'[d] = tombs[d]
        /\ cursor'[d] = cursor[d] /\ job[d].step = "merge" /\ job'[d].step = "merged"
        /\ id \notin job[d].put => deck'[d][id] = deck[d][id]
    BY <1>3, MergePutFacts
  <2>2. /\ table' = table /\ epoch' = epoch /\ rev' = rev /\ prunedRev' = prunedRev
        /\ account'[d] = account[d]
    BY <2>1, LocalFrame
  <2>3. job[d].user \in User /\ table[job[d].user][id] \in Row
    BY <2>1, TypesAt, ServerTypes
  <2>4. SerialAt(d, id)' /\ SinceGone(d, id)'
    BY <2>1 DEF SerialAt, SinceGone, Early
  <2>5. KeptGone(d, id)'
    <3> SUFFICES ASSUME Serves(cursor[d], account[d]), Clean(d, id)', deck'[d][id] # None,
                        table[account[d]][id].card = None,
                        Covered(table[account[d]][id], cursor[d].rev)
                 PROVE  FALSE
      BY <2>1, <2>2 DEF KeptGone, Serves, RowGone, Covered
    <3>1. /\ account[d] = job[d].user /\ Serves(job[d].answer.cursor, job[d].user)
          /\ Covered(table[job[d].user][id], job[d].answer.cursor.rev)
      BY <1>1, <2>1, <2>3, LateServes DEF Answered
    <3>2. deck'[d][id] = deck[d][id]
      BY <1>1, <2>1, <3>1, GoneIsNotPut DEF CopyAt
    <3>3. QED BY <1>1, <2>1, <3>2 DEF GoneAt, KeptGone, Clean, RowGone
  <2>6. AnswerGone(d, id)'
    <3> SUFFICES ASSUME ~Refused(job[d]), Serves(job[d].answer.cursor, job[d].user),
                        Quiet(d, id)', deck'[d][id] # None,
                        table[job[d].user][id].card = None,
                        Covered(table[job[d].user][id], job[d].answer.cursor.rev)
                 PROVE  Dropping(d, id)'
      BY <2>1, <2>2 DEF AnswerGone, Serves, Covered, Refused, Remembers
    <3>1. deck'[d][id] = deck[d][id]
      BY <1>1, <2>1, GoneIsNotPut DEF CopyAt
    <3>2. Quiet(d, id)
      BY <2>1 DEF Quiet, Remembers
    <3>3. Dropping(d, id)
      BY <1>1, <2>1, <3>1, <3>2 DEF GoneAt, AnswerGone, Answered
    <3>4. QED BY <2>1, <3>1, <3>3 DEF Dropping, Remembers, AddedBy
  <2>7. QED BY <2>4, <2>5, <2>6 DEF GoneAt
<1>4. QED BY <1>2, <1>3

\* The copies the answer's cursor says are gone are those dropped.
LEMMA DropGone ==
  ASSUME DeckTypeInv, NEW d \in Device, NEW id \in Id, GoneAt(d, id), DropRead(d) \/ DropWrite(d)
  PROVE  GoneAt(d, id)'
<1>1. GoneAt(d, id)
  OBVIOUS
<1>2. CASE DropRead(d)
  <2>1. /\ Local(d) /\ SameStore(d) /\ Remembers(d)
        /\ job[d].step = "merged" /\ job'[d].step = "drop"
        /\ id \in job'[d].drop <=> /\ id \in job[d].answer.deletions
                                   /\ DeletionApplies(job[d].tombs[id] # None, deck[d][id], job[d].at)
    BY <1>2, DropReadFacts
  <2>2. /\ deck'[d] = deck[d] /\ dirty'[d] = dirty[d] /\ tombs'[d] = tombs[d]
        /\ cursor'[d] = cursor[d]
        /\ Quiet(d, id)' <=> Quiet(d, id)
    BY <2>1 DEF SameStore, Quiet, Remembers
  <2>3. SerialAt(d, id)' /\ SinceGone(d, id)'
    BY <2>1 DEF SerialAt, SinceGone, Early
  <2>4. KeptGone(d, id)'
    BY <1>1, <2>1, <2>2, KeptGoneFrame DEF GoneAt, Clean
  <2>5. AnswerGone(d, id)'
    <3>1. Dropping(d, id) => Dropping(d, id)'
      BY <2>1, <2>2 DEF Dropping, AddedBy, Remembers, DeletionApplies
    <3>2. QED BY <1>1, <2>1, <2>2, <3>1, AnswerGoneFrame DEF GoneAt, Answered, Late
  <2>6. QED BY <2>3, <2>4, <2>5 DEF GoneAt
<1>3. CASE DropWrite(d)
  <2>1. /\ Local(d) /\ Remembers(d) /\ dirty'[d] = dirty[d] /\ tombs'[d] = tombs[d]
        /\ cursor'[d] = cursor[d] /\ job[d].step = "drop" /\ job'[d].step = "dropped"
        /\ deck'[d][id] # None => deck'[d][id] = deck[d][id] /\ id \notin job[d].drop
    BY <1>3, DropWriteFacts
  <2>2. SerialAt(d, id)' /\ SinceGone(d, id)'
    BY <2>1 DEF SerialAt, SinceGone, Early
  <2>3. KeptGone(d, id)'
    BY <1>1, <2>1, KeptGoneFrame DEF GoneAt, Clean
  <2>4. AnswerGone(d, id)'
    <3>1. deck'[d][id] # None => ~Dropping(d, id)
      BY <2>1 DEF Dropping
    <3>2. Quiet(d, id)' => Quiet(d, id)
      BY <2>1 DEF Quiet, Remembers
    <3>3. QED BY <1>1, <2>1, <3>1, <3>2, AnswerGoneFrame DEF GoneAt, Answered, Late
  <2>5. QED BY <2>2, <2>3, <2>4 DEF GoneAt
<1>4. QED BY <1>2, <1>3

\* After the drop a copy with nothing to send is one the answer's cursor does not
\* say is gone.
LEMMA LateIsThere ==
  ASSUME DeckTypeInv, NEW d \in Device, NEW id \in Id, Holds(d), AnswerGone(d, id),
         job[d].step \in {"dropped", "forwarded", "clean"}, Quiet(d, id), deck[d][id] # None,
         Serves(cursor[d], account[d])
  PROVE  ~(table[account[d]][id].card = None /\ Covered(table[account[d]][id], cursor[d].rev))
<1>1. job[d].step \in Answered
  BY DEF Answered, Late
<1>2. /\ ~Refused(job[d]) /\ account[d] = job[d].user
      /\ Serves(job[d].answer.cursor, job[d].user)
      /\ \A row \in Row : Covered(row, cursor[d].rev) => Covered(row, job[d].answer.cursor.rev)
  BY <1>1, LateServes
<1>3. table[job[d].user][id] \in Row
  BY <1>1, TypesAt, ServerTypes DEF Answered, Late
<1>4. ~Dropping(d, id)
  BY DEF Dropping
<1>5. QED BY <1>1, <1>2, <1>3, <1>4 DEF AnswerGone

LEMMA ClearGone ==
  ASSUME DeckTypeInv, NEW d \in Device, Abreast(d), NEW id \in Id, GoneAt(d, id),
         ClearTombs(d) \/ ClearDirty(d)
  PROVE  GoneAt(d, id)'
<1>1. GoneAt(d, id) /\ UploadAt(d, id) /\ Holds(d)
  BY DEF Abreast, CopyAt
<1>2. /\ Local(d) /\ Remembers(d) /\ deck'[d] = deck[d] /\ cursor'[d] = cursor[d]
      /\ \/ /\ job[d].step = "dropped" /\ job'[d].step = "forwarded"
            /\ dirty'[d] = dirty[d]
            /\ tombs'[d][id] = IF job[d].tombs[id] # None THEN None ELSE tombs[d][id]
         \/ /\ job[d].step = "forwarded" /\ job'[d].step = "clean"
            /\ dirty'[d][id] = IF dirty[d][id] = job[d].dirty[id] THEN None ELSE dirty[d][id]
            /\ tombs'[d] = tombs[d]
  BY ClearTombsFacts, ClearDirtyFacts
<1>3. SerialAt(d, id)' /\ SinceGone(d, id)'
  BY <1>1, <1>2 DEF GoneAt, SerialAt, SinceGone, Early, UploadAt
<1>4. Quiet(d, id)' => Quiet(d, id)
  BY <1>1, <1>2 DEF Quiet, Remembers, UploadAt
<1>5. KeptGone(d, id)'
  <2>1. /\ table' = table /\ epoch' = epoch /\ rev' = rev /\ prunedRev' = prunedRev
        /\ account'[d] = account[d]
    BY <1>2, LocalFrame
  <2> SUFFICES ASSUME Serves(cursor[d], account[d]), Clean(d, id)', deck[d][id] # None
               PROVE  ~(/\ table[account[d]][id].card = None
                        /\ Covered(table[account[d]][id], cursor[d].rev))
    BY <1>2, <2>1 DEF KeptGone, Serves, RowGone, Covered
  <2>2. Quiet(d, id)
    BY <1>1, <1>2 DEF Clean, Quiet, UploadAt
  <2>3. QED BY <1>1, <1>2, <2>2, LateIsThere DEF GoneAt
<1>6. AnswerGone(d, id)'
  <2>1. ~Dropping(d, id)
    BY <1>2 DEF Dropping
  <2>2. QED BY <1>1, <1>2, <1>4, <2>1, AnswerGoneFrame DEF GoneAt, Answered, Late
<1>7. QED BY <1>3, <1>5, <1>6 DEF GoneAt

\* A finished sync leaves no tombstone, and hands its cursor on.
LEMMA SetCursorGone ==
  ASSUME DeckTypeInv, NEW d \in Device, NEW id \in Id, GoneAt(d, id), SetCursor(d)
  PROVE  GoneAt(d, id)'
<1>1. /\ Local(d) /\ job[d].step = "clean" /\ job'[d].step = "idle"
      /\ deck'[d] = deck[d] /\ dirty'[d] = dirty[d] /\ tombs'[d] = tombs[d]
      /\ cursor'[d] = IF Refused(job[d]) THEN None ELSE job[d].answer.cursor
  BY SetCursorFacts, NoJobFits
<1>2. /\ table' = table /\ epoch' = epoch /\ rev' = rev /\ prunedRev' = prunedRev
      /\ account'[d] = account[d]
  BY <1>1, LocalFrame
<1>3. GoneAt(d, id) /\ job[d].answer.cursor.user = job[d].user
  BY <1>1, TypesAt DEF Answered, Late
<1>4. SerialAt(d, id)' /\ SinceGone(d, id)' /\ AnswerGone(d, id)'
  BY <1>1, <1>3 DEF GoneAt, SerialAt, SinceGone, AnswerGone, Early, Answered, Late
<1>5. KeptGone(d, id)'
  <2> SUFFICES ASSUME Serves(cursor'[d], account[d]), Clean(d, id)', deck[d][id] # None
               PROVE  ~(/\ table[account[d]][id].card = None
                        /\ Covered(table[account[d]][id], cursor'[d].rev))
    BY <1>1, <1>2 DEF KeptGone, Serves, RowGone, Covered
  <2>1. ~Refused(job[d]) /\ cursor'[d] = job[d].answer.cursor /\ account[d] = job[d].user
    BY <1>1, <1>3 DEF Serves, CanServeDelta
  <2>2. Quiet(d, id) /\ ~Dropping(d, id)
    BY <1>1 DEF Clean, Quiet, Dropping
  <2>3. QED BY <1>1, <1>3, <2>1, <2>2 DEF GoneAt, AnswerGone, Answered, Late
<1>6. QED BY <1>4, <1>5 DEF GoneAt

LEMMA GoneStarts == DeckInit => GoneInv
<1> SUFFICES ASSUME DeckInit PROVE GoneInv
  OBVIOUS
<1>1. CopyInv /\ NothingAhead
  BY DeckCopyStarts, NothingAheadStarts
<1>2. ASSUME NEW d \in Device, NEW id \in Id
      PROVE  GoneAt(d, id)
  <2>1. tombs[d][id] = None /\ deck[d][id] = None /\ job[d].step = "idle"
    BY NoJobFits DEF DeckInit, Nothing
  <2>2. QED BY <2>1 DEF GoneAt, SerialAt, KeptGone, SinceGone, AnswerGone, RowGone, Early,
                        Answered, Late
<1>3. QED BY <1>1, <1>2 DEF GoneInv

\* Every step moves the server, and is the step of one device if not of none.
LEMMA StepMoves ==
  ASSUME RestoresRotate, ~DeletesMidSync, CopyInv, [DeckNext]_vars
  PROVE  /\ ServerMoves
         /\ \/ \A d \in Device : Same(d)
            \/ \E e \in Device : Others(e) /\ (UserStep(e) \/ SyncStep(e))
<1>1. DeckTypeInv /\ DeckTypeInv' /\ NeverDeleted
  BY DeckTypesStep DEF CopyInv
<1>2. ASSUME NEW e \in Device, UserStep(e) \/ SyncStep(e)
      PROVE  ServerMoves /\ Others(e)
  BY <1>1, <1>2, UserKeepsCopies, SyncKeepsCopies
<1>3. ASSUME NEW m \in stray, HandleStray(m)
      PROVE  ServerMoves /\ \A d \in Device : Same(d)
  <2>1. /\ \A d \in Device : Same(d)
        /\ m.user \in User /\ m.cards \in Copies /\ m.tombs \in Times
        /\ Sync(m.user, m.cards, m.tombs, {}, None) /\ past' = past
    BY <1>1, <1>3, StrayFacts
  <2>2. \A id \in Id : ~Deleted(id) => m.tombs[id] = None
    BY <1>1 DEF NeverDeleted, Undeleted
  <2>3. QED BY <1>1, <2>1, <2>2, SyncMoves
<1>4. CASE Maintenance /\ ~UNCHANGED vars
  BY <1>1, <1>4, MaintenanceFacts, OperatorMoves DEF RestoresRotate
<1>5. CASE UNCHANGED vars
  <2>1. /\ \A d \in Device : Same(d)
        /\ UNCHANGED <<meta, tables>> /\ now' = now /\ past' = past
    BY <1>5 DEF vars, deviceVars, serverVars, tables, Same
  <2>2. \A id \in Id : Deleted(id) => Deleted(id)'
    BY <2>1 DEF Deleted
  <2>3. QED BY <1>1, <2>1, <2>2, IdleMoves
<1>6. QED BY <1>2, <1>3, <1>4, <1>5 DEF DeckNext

\* What holds of a device and a word is disturbed by nothing but a sync cut short.
LEMMA PairStep ==
  ASSUME ClocksAgree, RestoresRotate, ~DeletesMidSync, CopyInv, NothingAhead, [DeckNext]_vars,
         NEW d \in Device, NEW id \in Id, GoneAt(d, id), ~Abort(d)
  PROVE  GoneAt(d, id)'
<1>1. DeckTypeInv /\ DeckTypeInv' /\ Abreast(d) /\ StoreBehind(d)
  BY DeckTypesStep DEF CopyInv, NothingAhead
<1>2. ServerMoves
  BY StepMoves
<1>3. ASSUME Same(d) PROVE GoneAt(d, id)'
  <2>1. JobStands(d) /\ Stands(d, id) /\ held'[d][id] \in {held[d][id], deck[d][id], None}
    BY <1>3 DEF Same, JobStands, Stands
  <2>2. QED BY <1>1, <1>2, <2>1, GoneStands DEF Abreast
<1>4. ASSUME UserStep(d) PROVE GoneAt(d, id)'
  <2>1. ASSUME NEW i \in Id, Add(d, i) \/ Edit(d, i) \/ Rate(d, i)
        PROVE  GoneAt(d, id)'
    BY <1>1, <1>2, <2>1, WriteFacts, WriteGone
  <2>2. ASSUME NEW ids \in SUBSET Id, Delete(d, ids)
        PROVE  GoneAt(d, id)'
    BY <1>1, <1>2, <2>2, DeleteFacts, DeleteGone
  <2>3. CASE Load(d) \/ \E u \in User : SignIn(d, u)
    BY <1>1, <1>2, <2>3, SettleFacts, SettleGone
  <2>4. QED BY <1>4, <2>1, <2>2, <2>3 DEF UserStep
<1>5. ASSUME SyncStep(d) PROVE GoneAt(d, id)'
  <2>1. CASE Begin(d)
    BY <1>1, <2>1, BehindClock, BeginGone
  <2>2. CASE ReadCards(d) \/ ReadTombsAndSend(d) \/ Handle(d)
    BY <1>1, <1>2, <2>2, ReadGone, HandleGone
  <2>3. CASE MergeRead(d) \/ MergePut(d) \/ DropRead(d) \/ DropWrite(d)
    BY <1>1, <2>3, MergeGone, DropGone
  <2>4. CASE ClearTombs(d) \/ ClearDirty(d) \/ SetCursor(d)
    BY <1>1, <2>4, ClearGone, SetCursorGone
  <2>5. QED BY <1>5, <2>1, <2>2, <2>3, <2>4 DEF SyncStep
<1>6. QED BY <1>3, <1>4, <1>5, StepMoves DEF Others

LEMMA GoneStep ==
  ClocksAgree /\ RestoresRotate /\ ~DeletesMidSync /\ GoneInv /\ [DeckNext]_vars => GoneInv'
<1> SUFFICES ASSUME ClocksAgree, RestoresRotate, ~DeletesMidSync, GoneInv, [DeckNext]_vars
             PROVE  GoneInv'
  OBVIOUS
<1>1. CopyInv /\ NothingAhead /\ DeckTypeInv
  BY DEF GoneInv, CopyInv
<1>2. CopyInv' /\ NothingAhead'
  BY <1>1, CopyStep, NothingAheadStep
<1>3. ASSUME NEW d \in Device \ Flaky, NEW id \in Id PROVE GoneAt(d, id)'
  <2>1. GoneAt(d, id) /\ ~Abort(d)
    BY <1>1, AbortFacts DEF GoneInv
  <2>2. QED BY <1>1, <2>1, PairStep
<1>4. QED BY <1>2, <1>3 DEF GoneInv

\* The same of deletes, for devices whose syncs are not cut short: a word whose row
\* the device's cursor says is gone is off the device, or about to be dropped, or has
\* something to send. With clocks that agree, restores that rotate the epoch, and
\* words deleted between syncs only.
THEOREM GoneWordsLeave ==
  ClocksAgree /\ Rotates /\ ~DeletesMidSync /\ DeckSpec => []GoneInv
<1>1. (ClocksAgree => []ClocksAgree) /\ (Rotates => []Rotates)
  OBVIOUS
<1>2. ~DeletesMidSync => []~DeletesMidSync
  OBVIOUS
<1>3. Rotates => RestoresRotate
  BY DEF RestoresRotate
<1>4. QED BY <1>1, <1>2, <1>3, GoneStarts, GoneStep, PTL DEF DeckSpec

\* Deletes reach every such device, whatever the others' syncs, late requests, sign-ins
\* and restores do in between; so with the rows, which reach every device, a settled
\* copy is the server's.
THEOREM DeletesReachDevices ==
  ClocksAgree /\ Rotates /\ ~DeletesMidSync /\ DeckSpec => []CleanCopiesMatch
<1>1. GoneInv => DeletesArrive
  <2> SUFFICES ASSUME GoneInv, NEW d \in Device \ Flaky, Usable(d), NEW id \in Id,
                      Settled(d, id), Served(d, id).card = None,
                      Covered(Served(d, id), cursor[d].rev)
               PROVE  deck[d][id] = None
    BY DEF DeletesArrive, Covered
  <2>1. Serves(cursor[d], account[d]) /\ Clean(d, id)
    BY DEF Usable, Serves, Settled, Clean
  <2>2. QED BY <2>1 DEF GoneInv, GoneAt, KeptGone, RowGone, Served
<1>2. QED BY <1>1, GoneWordsLeave, RowsReachDevices, PTL DEF CleanCopiesMatch

-----------------------------------------------------------------------------
(* Deletes stick.                                                          *)

ClocksInStep == \A d \in Device : Skew[d] = 0
OneAccount == \A u, v \in User : u = v

\* The word was not added again since it was first deleted, if ever.
OneLife(id) == Deleted(id) => past[id].added < past[id].deleted

LateBy(at, t) == at # None => at >= t
RowLate(row, t) == row.tomb # None => row.tomb.at >= t

\* No tombstone of the word is from before its first delete.
TombsLate(id) ==
  Deleted(id) =>
    /\ past[id].deleted <= now
    /\ \A u \in User : RowLate(table[u][id], past[id].deleted)
    /\ \A d \in Device : /\ LateBy(tombs[d][id], past[id].deleted)
                         /\ job[d].step \in {"waiting"} \cup Answered =>
                              LateBy(job[d].tombs[id], past[id].deleted)
    /\ \A m \in stray : LateBy(m.tombs[id], past[id].deleted)

\* The server has taken the delete.
Ruled(id) == \A u \in User : table[u][id].tomb # None

\* It has, or a device has still to send it.
Told(id) == Deleted(id) => Ruled(id) \/ \E d \in Device : tombs[d][id] # None

\* A device that has to send it has no copy of the word, is answered with none, and
\* keeps its tombstone until the server has taken it.
DeadAt(d, id) ==
  /\ tombs[d][id] # None => deck[d][id] = None /\ held[d][id] = None
  /\ job[d].tombs[id] # None =>
       /\ job[d].step \in {"replied", "merge"} => job[d].answer.cards[id] = None
       /\ job[d].step \in Answered => Ruled(id)

StickAt(d, id) == OneLife(id) => GoneAt(d, id) /\ DeadAt(d, id) /\ Told(id)

StickInv ==
  /\ CopyInv /\ NothingAhead /\ epoch = 0
  /\ \A id \in Id : TombsLate(id)
  /\ \A d \in Device, id \in Id : StickAt(d, id)

\* A request keeps tombstones as late as the one it brings, and leaves a row one
\* that is later than every add of the word.
LEMMA LateRow ==
  ASSUME NEW row \in Row, NEW del \in Int \cup {None}, NEW c \in Card \cup {None},
         NEW clock \in Nat, NEW r \in Nat, RowSound(row, clock, r),
         NEW new, new = MergeRow(row, del, c, clock, r + 1),
         NEW t \in Nat, t <= clock, LateBy(del, t), RowLate(row, t)
  PROVE  /\ RowLate(new, t)
         /\ \A a \in Nat : /\ a < t /\ AddedBy(row.card, a) /\ AddedBy(c, a)
                           /\ del # None \/ row.tomb # None
                           => new.tomb # None
<1> DEFINE at == MsToEpoch(del, clock)
           mid == ApplyDeletion(row, del, clock, r + 1)
<1>1. mid \in Row /\ new = UpsertCard(mid, c, clock, r + 1)
  BY DeletionKeepsRow DEF MergeRow
<1>2. del # None => at \in Nat /\ at >= t
  <2>1. del # None => del \in Int /\ del >= t
    BY DEF LateBy
  <2>2. QED BY <2>1 DEF MsToEpoch
<1>3. \/ mid = row /\ (del = None \/ Outlives(row.card, at))
      \/ mid.tomb = MergeTomb(row.tomb, at, r + 1) /\ del # None
  BY DEF ApplyDeletion
<1> HIDE DEF mid, at
<1>4. /\ row.tomb # None => row.tomb.at \in Nat /\ row.tomb.at >= t /\ row.tomb \in StoredTomb
      /\ row.card # None => row.card.added \in Nat
  BY DEF Row, StoredTomb, StoredCard, RowLate
<1>5. del # None => /\ MergeTomb(row.tomb, at, r + 1) # None
                    /\ MergeTomb(row.tomb, at, r + 1).at >= t
  <2>1. CASE row.tomb = None \/ at < row.tomb.at
    <3>1. MergeTomb(row.tomb, at, r + 1) = [at |-> at, rev |-> r + 1]
      BY <2>1 DEF MergeTomb
    <3>2. at \in Nat => [at |-> at, rev |-> r + 1] \in StoredTomb
      BY DEF StoredTomb
    <3>3. QED BY <1>2, <3>1, <3>2, NoneAssumption
  <2>2. CASE row.tomb # None /\ ~(at < row.tomb.at)
    <3>1. MergeTomb(row.tomb, at, r + 1) = row.tomb
      BY <2>2 DEF MergeTomb
    <3>2. QED BY <1>4, <2>2, <3>1
  <2>3. QED BY <2>1, <2>2
<1>6. RowLate(mid, t)
  BY <1>3, <1>4, <1>5 DEF RowLate
<1>7. \/ new = mid /\ (c = None \/ StaleReplica(mid, c))
      \/ c # None /\ ~StaleReplica(mid, c) /\ new.tomb = None
  BY <1>1, UpsertCases
<1>8. ASSUME NEW a \in Nat, a < t, AddedBy(row.card, a), AddedBy(c, a),
             del # None \/ row.tomb # None
      PROVE  new.tomb # None
  <2>1. del # None => ~Outlives(row.card, at)
    BY <1>2, <1>4, <1>8 DEF Outlives, AddedBy
  <2>2. mid.tomb # None
    BY <1>3, <1>5, <1>8, <2>1
  <2>3. mid.tomb.at \in Nat /\ mid.tomb.at >= t
    BY <1>1, <1>6, <2>2 DEF Row, StoredTomb, RowLate
  <2>4. c # None => c.added \in Nat /\ c.added <= a
    BY <1>8 DEF AddedBy, Card
  <2>5. c # None => StaleReplica(mid, c)
    BY <2>2, <2>3, <2>4, <1>8 DEF StaleReplica
  <2>6. QED BY <1>7, <2>2, <2>5
<1>9. QED BY <1>6, <1>7, <1>8 DEF RowLate

\* The same of all the rows of a word.
LEMMA LateRows ==
  ASSUME DeckTypeInv, NEW id \in Id, TombsLate(id), Deleted(id),
         NEW u \in User, NEW cards \in Copies, NEW dels \in Times,
         Sync(u, cards, dels, {}, None), LateBy(dels[id], past[id].deleted)
  PROVE  /\ now' = now /\ epoch' = epoch
         /\ \A v \in User : RowLate(table'[v][id], past[id].deleted)
         /\ NothingAhead /\ ClocksInStep /\ OneLife(id) =>
              \A d \in Device : AddedBy(cards[id], LastAdded(d, id)) =>
                /\ dels[id] # None \/ table[u][id].tomb # None => table'[u][id].tomb # None
                /\ Ruled(id) => Ruled(id)'
<1>1. /\ now' = now /\ epoch' = epoch /\ rev \in Nat /\ now \in Nat
      /\ table'[u][id] = MergeRow(table[u][id], dels[id], cards[id], now, rev + 1)
      /\ \A v \in User \ {u} : table'[v] = table[v]
  BY SyncFits, ServerTypes DEF DeckTypeInv
<1> DEFINE c == cards[id]
           del == dels[id]
           t == past[id].deleted
           a == past[id].added
           row == table[u][id]
           new == table'[u][id]
<1>2. /\ row \in Row /\ RowSound(row, now, rev)
      /\ t \in Nat /\ t <= now /\ LateBy(del, t) /\ RowLate(row, t)
      /\ \A v \in User : RowLate(table[v][id], t)
      /\ a \in Nat
  BY ServerTypes DEF TombsLate, Deleted, DeckTypeInv, PastFits
<1>3. c \in Card \cup {None} /\ del \in Int \cup {None}
  <2>1. c \in Copy \cup {None} /\ del \in Stamp \cup {None}
    BY DEF Copies, Times
  <2> HIDE DEF c, del
  <2>2. c \in Card \cup {None}
    BY <2>1, CopyFacts
  <2>3. del \in Int \cup {None}
    <3>1. CASE del = None
      BY <3>1
    <3>2. CASE del \in Stamp
      BY <3>2
    <3>3. QED BY <2>1, <3>1, <3>2
  <2>4. QED BY <2>2, <2>3
<1>4. new = MergeRow(row, del, c, now, rev + 1)
  BY <1>1
<1> HIDE DEF c, del, t, a, row, new
<1>5. /\ RowLate(new, t)
      /\ a < t /\ AddedBy(row.card, a) /\ AddedBy(c, a) /\ (del # None \/ row.tomb # None)
           => new.tomb # None
  BY <1>1, <1>2, <1>3, <1>4, LateRow
<1>6. \A v \in User : RowLate(table'[v][id], t)
  BY <1>1, <1>2, <1>5 DEF new
<1>7. ASSUME NothingAhead, ClocksInStep, OneLife(id), NEW d \in Device,
             AddedBy(cards[id], LastAdded(d, id))
      PROVE  /\ dels[id] # None \/ table[u][id].tomb # None => table'[u][id].tomb # None
             /\ Ruled(id) => Ruled(id)'
  <2>1. LastAdded(d, id) = a /\ a < t
    BY <1>2, <1>7 DEF LastAdded, ClocksInStep, OneLife, a, t
  <2>2. AddedBy(row.card, a) /\ AddedBy(c, a)
    BY <1>7, <2>1 DEF NothingAhead, ServerBehind, row, c
  <2>3. dels[id] # None \/ table[u][id].tomb # None => table'[u][id].tomb # None
    BY <1>5, <2>1, <2>2 DEF del, row, new
  <2>4. QED BY <1>1, <2>3 DEF Ruled
<1>8. QED BY <1>1, <1>6, <1>7 DEF t

\* A sync moves the tombstones of a device to its job, and clears those it sent.
LEMMA SyncKeepsTombs ==
  ASSUME DeckTypeInv, NEW d \in Device, SyncStep(d)
  PROVE  /\ Others(d) /\ past' = past /\ now' = now
         /\ \A id \in Id : /\ TombsKept(d, id)
                           /\ tombs[d][id] # None => \/ tombs'[d][id] = tombs[d][id]
                                                     \/ /\ job[d].step = "dropped"
                                                        /\ job[d].tombs[id] # None
         /\ ~Handle(d) => table' = table /\ epoch' = epoch
         /\ ~Abort(d) => stray' = stray
<1>1. CASE Handle(d)
  <2>1. PICK u, s, delta : Answering(d, u, s, delta)
    BY <1>1, HandleFacts
  <2>2. QED BY <1>1, <2>1 DEF Answering, Sync, SameStore, TombsKept
<1>2. CASE Abort(d)
  <2>1. /\ UNCHANGED <<serverVars, past>> /\ Others(d) /\ SameStore(d) /\ job'[d].step = "idle"
    BY <1>2, AbortFacts, NoJobFits
  <2>2. now' = now /\ table' = table /\ epoch' = epoch
    BY <2>1 DEF serverVars, tables, meta
  <2>3. QED BY <1>2, <2>1, <2>2 DEF SameStore, TombsKept, Answered, Late
<1>3. CASE SyncStep(d) /\ ~Handle(d) /\ ~Abort(d)
  <2>1. Local(d)
    BY <1>3, BeginFacts, ReadCardsFacts, ReadTombsFacts, MergeReadFacts, MergePutFacts,
       DropReadFacts, DropWriteFacts, ClearTombsFacts, ClearDirtyFacts, SetCursorFacts
       DEF SyncStep
  <2>2. Others(d) /\ past' = past /\ now' = now /\ table' = table /\ epoch' = epoch /\ stray' = stray
    BY <2>1 DEF Local, serverVars, tables, meta
  <2>3. ASSUME NEW id \in Id
        PROVE  /\ TombsKept(d, id)
               /\ tombs[d][id] # None => \/ tombs'[d][id] = tombs[d][id]
                                         \/ job[d].step = "dropped" /\ job[d].tombs[id] # None
    <3>1. CASE Begin(d) \/ ReadCards(d)
      <4>1. SameStore(d) /\ job'[d].step \in {"dirty", "cards"}
        BY <3>1, BeginFacts, ReadCardsFacts
      <4>2. QED BY <4>1 DEF TombsKept, SameStore, Answered, Late
    <3>2. CASE ReadTombsAndSend(d)
      BY <3>2, ReadTombsFacts DEF TombsKept, SameStore
    <3>3. CASE MergeRead(d) \/ MergePut(d) \/ DropRead(d) \/ DropWrite(d) \/ ClearDirty(d)
      <4>1. tombs'[d] = tombs[d] /\ Remembers(d) /\ job[d].step \in Answered
        BY <3>3, MergeReadFacts, MergePutFacts, DropReadFacts, DropWriteFacts, ClearDirtyFacts
           DEF SameStore, Answered, Late
      <4>2. QED BY <4>1 DEF TombsKept, Remembers
    <3>4. CASE ClearTombs(d)
      <4>1. /\ Remembers(d) /\ job[d].step = "dropped" /\ job[d].step \in Answered
            /\ tombs'[d][id] = IF job[d].tombs[id] # None THEN None ELSE tombs[d][id]
        BY <3>4, ClearTombsFacts DEF Answered, Late
      <4>2. QED BY <4>1 DEF TombsKept, Remembers
    <3>5. CASE SetCursor(d)
      <4>1. tombs'[d] = tombs[d] /\ job'[d].step = "idle"
        BY <3>5, SetCursorFacts, NoJobFits
      <4>2. QED BY <4>1 DEF TombsKept, Answered, Late
    <3>6. QED BY <1>3, <3>1, <3>2, <3>3, <3>4, <3>5 DEF SyncStep
  <2>4. QED BY <1>3, <2>2, <2>3
<1>4. QED BY <1>1, <1>2, <1>3

\* What the user does to tombstones: a delete writes one, at the present time.
LEMMA UserKeepsTombs ==
  ASSUME DeckTypeInv, ClocksInStep, NEW d \in Device, UserStep(d)
  PROVE  /\ Others(d) /\ job'[d] = job[d] /\ table' = table /\ epoch' = epoch /\ stray' = stray
         /\ now \in Nat /\ now' \in Nat /\ now' >= now
         /\ \A id \in Id :
              \/ tombs'[d][id] = tombs[d][id] /\ past'[id].deleted = past[id].deleted
              \/ /\ tombs'[d][id] = now' /\ tombs'[d][id] # None /\ Deleted(id)'
                 /\ past'[id].deleted = IF Deleted(id) THEN past[id].deleted ELSE now'
<1>1. now \in Nat
  BY ServerTypes
<1>2. ASSUME NEW i \in Id, Add(d, i) \/ Edit(d, i) \/ Rate(d, i)
      PROVE  /\ Others(d) /\ job'[d] = job[d] /\ table' = table /\ epoch' = epoch /\ stray' = stray
             /\ now' = now + 1 /\ tombs'[d] = tombs[d]
             /\ \A id \in Id : past'[id].deleted = past[id].deleted
  BY <1>2, WriteFacts DEF Writes, tables, meta
<1>3. ASSUME NEW ids \in SUBSET Id, Delete(d, ids)
      PROVE  /\ Others(d) /\ job'[d] = job[d] /\ table' = table /\ epoch' = epoch /\ stray' = stray
             /\ now' = now + 1
             /\ \A id \in Id :
                  \/ tombs'[d][id] = tombs[d][id] /\ past'[id].deleted = past[id].deleted
                  \/ /\ tombs'[d][id] = now' /\ tombs'[d][id] # None /\ Deleted(id)'
                     /\ past'[id].deleted = IF Deleted(id) THEN past[id].deleted ELSE now'
  <2>1. Deletes(d, ids)
    BY <1>3, DeleteFacts
  <2>2. /\ Others(d) /\ job'[d] = job[d] /\ table' = table /\ epoch' = epoch /\ stray' = stray
        /\ now' = now + 1
    BY <2>1 DEF Deletes, tables, meta
  <2>3. Clock(d)' = now' /\ now' # None /\ now' \in Nat
    <3>1. now' \in Nat /\ now' # None
      BY <1>1, <2>2
    <3>2. Clock(d)' = now' + Skew[d]
      BY DEF Clock
    <3>3. Skew[d] = 0
      BY DEF ClocksInStep
    <3>4. \A n \in Nat : n + 0 = n
      OBVIOUS
    <3>5. Clock(d)' = now'
      BY <3>1, <3>2, <3>3, <3>4, Zenon
    <3>6. QED BY <3>1, <3>5
  <2>4. ASSUME NEW id \in Id
        PROVE  \/ tombs'[d][id] = tombs[d][id] /\ past'[id].deleted = past[id].deleted
               \/ /\ tombs'[d][id] = now' /\ tombs'[d][id] # None /\ Deleted(id)'
                  /\ past'[id].deleted = IF Deleted(id) THEN past[id].deleted ELSE now'
    <3>1. CASE id \in ids
      <4>1. /\ tombs'[d][id] = now'
            /\ past'[id].deleted = IF past[id].deleted = None THEN now' ELSE past[id].deleted
        BY <2>1, <2>3, <3>1 DEF Deletes
      <4>2. QED BY <2>3, <4>1 DEF Deleted
    <3>2. CASE id \notin ids
      BY <2>1, <3>2 DEF Deletes
    <3>3. QED BY <3>1, <3>2
  <2>5. QED BY <2>2, <2>4
<1>4. CASE Load(d) \/ \E u \in User : SignIn(d, u)
  BY <1>1, <1>4, SettleFacts DEF Settles, serverVars, tables, meta
<1>5. QED BY <1>1, <1>2, <1>3, <1>4 DEF UserStep

\* Every step is the user's on a device, a sync's, a late request's, or leaves the
\* devices and the rows alone.
LEMMA StickCases ==
  ASSUME DeckTypeInv, [DeckNext]_vars, [~Restart /\ ~Restore]_vars
  PROVE  \/ \E d \in Device : UserStep(d)
         \/ \E d \in Device : SyncStep(d)
         \/ \E m \in stray : HandleStray(m)
         \/ /\ \A d \in Device : Same(d)
            /\ table' = table /\ epoch' = epoch /\ now' = now /\ past' = past /\ stray' = stray
<1>1. CASE UNCHANGED vars
  BY <1>1 DEF vars, deviceVars, serverVars, tables, meta, Same
<1>2. CASE Maintenance /\ ~Restart /\ ~Restore
  <2>1. /\ \A d \in Device : Same(d)
        /\ now' = now /\ past' = past /\ stray' = stray /\ TakeBackup
    BY <1>2, MaintenanceFacts
  <2>2. QED BY <2>1 DEF TakeBackup, tables, meta
<1>3. QED BY <1>1, <1>2 DEF DeckNext

\* A word deleted once stays so, and once added again has had more than one life.
LEMMA LivesRun ==
  ASSUME DeckTypeInv, DeckTypeInv', NothingAhead, ClocksInStep, [DeckNext]_vars,
         [~Restart /\ ~Restore]_vars, NEW id \in Id
  PROVE  /\ Deleted(id) => past'[id].deleted = past[id].deleted /\ Deleted(id)'
         /\ OneLife(id)' => OneLife(id)
<1>1. /\ past[id].added \in Nat /\ past'[id].added \in Nat
      /\ Deleted(id) => past[id].deleted \in Nat
  BY DEF DeckTypeInv, PastFits, Deleted
<1>2. ASSUME NEW d \in Device, UserStep(d)
      PROVE  /\ past'[id].added >= past[id].added
             /\ Deleted(id) => past'[id].deleted = past[id].deleted
  BY <1>2, AddsStep, UserKeepsTombs DEF NothingAhead, AddsRun
<1>3. ASSUME past' = past
      PROVE  /\ past'[id].added >= past[id].added
             /\ Deleted(id) => past'[id].deleted = past[id].deleted
  BY <1>1, <1>3
<1>4. /\ past'[id].added >= past[id].added
      /\ Deleted(id) => past'[id].deleted = past[id].deleted
  BY <1>2, <1>3, StickCases, SyncKeepsTombs, StrayFacts
<1>5. Deleted(id) => Deleted(id)'
  BY <1>4 DEF Deleted
<1>6. ASSUME OneLife(id)', Deleted(id) PROVE past[id].added < past[id].deleted
  <2>1. past'[id].added < past'[id].deleted
    BY <1>5, <1>6 DEF OneLife
  <2>2. QED BY <1>1, <1>4, <1>6, <2>1
<1>7. QED BY <1>4, <1>5, <1>6 DEF OneLife

LEMMA LateFrame ==
  ASSUME NEW id \in Id, TombsLate(id), now' = now, past' = past,
         Deleted(id) => \A u \in User : RowLate(table'[u][id], past[id].deleted),
         \A d \in Device : TombsKept(d, id),
         \A m \in stray' : m \in stray \/ \E d \in Device : /\ job[d].step = "waiting"
                                                            /\ m.tombs = job[d].tombs
  PROVE  TombsLate(id)'
<1> SUFFICES ASSUME Deleted(id) PROVE TombsLate(id)'
  BY DEF TombsLate, Deleted
<1>1. ASSUME NEW d \in Device
      PROVE  /\ LateBy(tombs'[d][id], past[id].deleted)
             /\ job'[d].step \in {"waiting"} \cup Answered
                  => LateBy(job'[d].tombs[id], past[id].deleted)
  BY DEF TombsLate, TombsKept, LateBy
<1>2. ASSUME NEW m \in stray' PROVE LateBy(m.tombs[id], past[id].deleted)
  BY <1>2 DEF TombsLate
<1>3. QED BY <1>1, <1>2 DEF TombsLate

LEMMA LateStep ==
  ASSUME DeckTypeInv, DeckTypeInv', NeverDeleted, ClocksInStep, [DeckNext]_vars,
         [~Restart /\ ~Restore]_vars, NEW id \in Id, TombsLate(id)
  PROVE  TombsLate(id)' /\ epoch' = epoch
<1>1. ASSUME NEW d \in Device, Same(d) PROVE TombsKept(d, id)
  BY <1>1 DEF Same, TombsKept
<1>2. Deleted(id) => \A u \in User : RowLate(table[u][id], past[id].deleted)
  BY DEF TombsLate
<1>3. ASSUME NEW d \in Device, UserStep(d) PROVE TombsLate(id)' /\ epoch' = epoch
  <2>1. /\ Others(d) /\ job'[d] = job[d] /\ table' = table /\ epoch' = epoch /\ stray' = stray
        /\ now \in Nat /\ now' \in Nat /\ now' >= now
        /\ \/ tombs'[d][id] = tombs[d][id] /\ past'[id].deleted = past[id].deleted
           \/ /\ tombs'[d][id] = now' /\ tombs'[d][id] # None /\ Deleted(id)'
              /\ past'[id].deleted = IF Deleted(id) THEN past[id].deleted ELSE now'
    BY <1>3, UserKeepsTombs
  <2> DEFINE t == past'[id].deleted
  <2>2. \A e \in Device \ {d} : tombs'[e] = tombs[e] /\ job'[e] = job[e]
    BY <2>1 DEF Others, Same
  <2>3. CASE Deleted(id)
    <3>1. t = past[id].deleted /\ t \in Nat /\ t <= now
      BY <2>1, <2>3 DEF Deleted, TombsLate, DeckTypeInv, PastFits
    <3>2. t <= now' /\ LateBy(tombs'[d][id], t)
      BY <2>1, <2>3, <3>1 DEF TombsLate, LateBy
    <3> HIDE DEF t
    <3>3. /\ \A u \in User : RowLate(table[u][id], t)
          /\ \A e \in Device : /\ LateBy(tombs[e][id], t)
                               /\ job[e].step \in {"waiting"} \cup Answered => LateBy(job[e].tombs[id], t)
          /\ \A m \in stray : LateBy(m.tombs[id], t)
      BY <2>3, <3>1 DEF TombsLate
    <3>4. \A e \in Device : /\ LateBy(tombs'[e][id], t)
                            /\ job'[e].step \in {"waiting"} \cup Answered => LateBy(job'[e].tombs[id], t)
      BY <2>1, <2>2, <3>2, <3>3
    <3>5. QED BY <2>1, <3>2, <3>3, <3>4 DEF TombsLate, t
  <2>4. CASE ~Deleted(id) /\ Deleted(id)'
    <3>1. t = now' /\ tombs'[d][id] = now'
      BY <2>1, <2>4 DEF Deleted
    <3>2. Undeleted(id)
      BY <2>4 DEF NeverDeleted
    <3>3. /\ \A u \in User : RowLate(table'[u][id], t)
          /\ \A m \in stray' : LateBy(m.tombs[id], t)
          /\ \A e \in Device : job'[e].step \in {"waiting"} \cup Answered => LateBy(job'[e].tombs[id], t)
      BY <2>1, <2>2, <3>2 DEF Undeleted, RowLate, LateBy
    <3>4. \A e \in Device : LateBy(tombs'[e][id], t)
      BY <2>1, <2>2, <3>1, <3>2 DEF Undeleted, LateBy
    <3>5. QED BY <2>1, <3>1, <3>3, <3>4 DEF TombsLate
  <2>5. QED BY <2>1, <2>3, <2>4 DEF TombsLate
<1>4. ASSUME NEW d \in Device, SyncStep(d) PROVE TombsLate(id)' /\ epoch' = epoch
  <2>1. /\ Others(d) /\ past' = past /\ now' = now /\ TombsKept(d, id)
        /\ ~Handle(d) => table' = table /\ epoch' = epoch
        /\ ~Abort(d) => stray' = stray
    BY <1>4, SyncKeepsTombs
  <2>2. \A e \in Device : TombsKept(e, id)
    BY <1>1, <2>1 DEF Others
  <2>3. /\ epoch' = epoch
        /\ Deleted(id) => \A u \in User : RowLate(table'[u][id], past[id].deleted)
    <3>1. CASE Handle(d)
      <4>1. PICK u, s, delta : Answering(d, u, s, delta)
        BY <3>1, HandleFacts
      <4>2. /\ u \in User /\ job[d].step = "waiting" /\ epoch' = epoch
            /\ Sync(u, job[d].cards, job[d].tombs, {}, None)
        BY <4>1 DEF Answering, Sync
      <4>3. job[d].cards \in Copies /\ job[d].tombs \in Times
        BY DEF DeckTypeInv, DevicesFit, JobFits
      <4>4. Deleted(id) => LateBy(job[d].tombs[id], past[id].deleted)
        BY <4>2 DEF TombsLate
      <4>5. QED BY <4>2, <4>3, <4>4, LateRows
    <3>2. CASE ~Handle(d)
      BY <1>2, <2>1, <3>2
    <3>3. QED BY <3>1, <3>2
  <2>4. \A m \in stray' : m \in stray \/ \E e \in Device : /\ job[e].step = "waiting"
                                                           /\ m.tombs = job[e].tombs
    BY <2>1, AbortFacts
  <2>5. QED BY <2>1, <2>2, <2>3, <2>4, LateFrame
<1>5. ASSUME NEW m \in stray, HandleStray(m) PROVE TombsLate(id)' /\ epoch' = epoch
  <2>1. /\ m.user \in User /\ m.cards \in Copies /\ m.tombs \in Times
        /\ Sync(m.user, m.cards, m.tombs, {}, None)
        /\ stray' = stray \ {m} /\ past' = past /\ \A d \in Device : Same(d)
    BY <1>5, StrayFacts
  <2>2. now' = now /\ epoch' = epoch
    BY <2>1 DEF Sync
  <2>3. Deleted(id) => LateBy(m.tombs[id], past[id].deleted)
    BY DEF TombsLate
  <2>4. Deleted(id) => \A u \in User : RowLate(table'[u][id], past[id].deleted)
    BY <2>1, <2>3, LateRows
  <2>5. QED BY <1>1, <2>1, <2>2, <2>4, LateFrame
<1>6. CASE /\ \A d \in Device : Same(d)
           /\ table' = table /\ epoch' = epoch /\ now' = now /\ past' = past /\ stray' = stray
  BY <1>1, <1>2, <1>6, LateFrame
<1>7. QED BY <1>3, <1>4, <1>5, <1>6, StickCases

\* The server does not forget a delete it took.
LEMMA RuledStands ==
  ASSUME DeckTypeInv, NothingAhead, ClocksInStep, [DeckNext]_vars,
         [~Restart /\ ~Restore]_vars, NEW d \in Device, NEW id \in Id,
         TombsLate(id), OneLife(id), Deleted(id), Ruled(id)
  PROVE  Ruled(id)'
<1>1. ASSUME NEW e \in Device, Handle(e) PROVE Ruled(id)'
  <2>1. PICK u, s, delta : Answering(e, u, s, delta)
    BY <1>1, HandleFacts
  <2>2. /\ u \in User /\ job[e].step = "waiting"
        /\ Sync(u, job[e].cards, job[e].tombs, {}, None)
    BY <2>1 DEF Answering
  <2>3. job[e].cards \in Copies /\ job[e].tombs \in Times
    BY DEF DeckTypeInv, DevicesFit, JobFits
  <2>4. AddedBy(job[e].cards[id], LastAdded(e, id)) /\ LateBy(job[e].tombs[id], past[id].deleted)
    BY <2>2 DEF NothingAhead, StoreBehind, TombsLate
  <2>5. QED BY <2>2, <2>3, <2>4, LateRows
<1>2. ASSUME NEW m \in stray, HandleStray(m) PROVE Ruled(id)'
  <2>1. /\ m.user \in User /\ m.cards \in Copies /\ m.tombs \in Times
        /\ Sync(m.user, m.cards, m.tombs, {}, None)
    BY <1>2, StrayFacts
  <2>2. AddedBy(m.cards[id], LastAdded(d, id)) /\ LateBy(m.tombs[id], past[id].deleted)
    BY DEF NothingAhead, ServerBehind, TombsLate
  <2>3. QED BY <2>1, <2>2, LateRows
<1>3. ASSUME table' = table PROVE Ruled(id)'
  BY <1>3 DEF Ruled
<1>4. QED BY <1>1, <1>2, <1>3, StickCases, UserKeepsTombs, SyncKeepsTombs

\* It takes the delete a request brings, and answers with no card of the word.
LEMMA HandleRules ==
  ASSUME DeckTypeInv, DeckTypeInv', NeverDeleted, NothingAhead, ClocksInStep, OneAccount,
         NEW d \in Device, NEW u, NEW s, NEW delta, Answering(d, u, s, delta), NEW id \in Id,
         TombsLate(id), OneLife(id), job[d].tombs[id] # None
  PROVE  Ruled(id)' /\ job'[d].answer.cards[id] = None
<1>1. /\ u \in User /\ job[d].step = "waiting"
      /\ Sync(u, job[d].cards, job[d].tombs, {}, None)
      /\ table'[u][id].card = None => job'[d].answer.cards[id] = None
  BY DEF Answering, Returned
<1>2. job[d].cards \in Copies /\ job[d].tombs \in Times
  BY DEF DeckTypeInv, DevicesFit, JobFits
<1>3. AddedBy(job[d].cards[id], LastAdded(d, id)) /\ LateBy(job[d].tombs[id], past[id].deleted)
      /\ Deleted(id)
  BY <1>1 DEF NothingAhead, StoreBehind, TombsLate, NeverDeleted, Undeleted
<1>4. table'[u][id].tomb # None
  BY <1>1, <1>2, <1>3, LateRows
<1>5. RowSound(table'[u][id], now', rev')
  BY <1>1 DEF DeckTypeInv, ServerFits, IndInv, DatabaseSound
<1>6. table'[u][id].card = None
  BY <1>4, <1>5 DEF RowSound
<1>7. Ruled(id)'
  BY <1>1, <1>4 DEF Ruled, OneAccount
<1>8. QED BY <1>1, <1>6, <1>7

LEMMA DeadStep ==
  ASSUME CopyInv, NothingAhead, ClocksInStep, OneAccount, [DeckNext]_vars,
         [~Restart /\ ~Restore]_vars, NEW d \in Device, NEW id \in Id,
         TombsLate(id), OneLife(id)', DeadAt(d, id)
  PROVE  DeadAt(d, id)'
<1>1. /\ DeckTypeInv /\ DeckTypeInv' /\ NeverDeleted /\ UploadAt(d, id) /\ PutAt(d, id)
  BY DeckTypesStep DEF CopyInv, Abreast, CopyAt
<1>2. OneLife(id) /\ (Deleted(id) => past'[id].deleted = past[id].deleted /\ Deleted(id)')
  BY <1>1, LivesRun
<1>3. job[d].tombs[id] # None /\ job[d].step \in Answered => Ruled(id) /\ Ruled(id)'
  <2> SUFFICES ASSUME job[d].tombs[id] # None, job[d].step \in Answered
               PROVE  Ruled(id) /\ Ruled(id)'
    OBVIOUS
  <2>1. Deleted(id) /\ Ruled(id)
    BY <1>1 DEF NeverDeleted, Undeleted, DeadAt
  <2>2. QED BY <1>1, <1>2, <2>1, RuledStands
<1>4. ASSUME Same(d) PROVE DeadAt(d, id)'
  BY <1>3, <1>4 DEF Same, DeadAt
<1>5. ASSUME UserStep(d) PROVE DeadAt(d, id)'
  <2> SUFFICES ASSUME tombs'[d][id] # None PROVE deck'[d][id] = None /\ held'[d][id] = None
    <3>1. job'[d] = job[d]
      BY <1>1, <1>5, UserKeepsTombs
    <3>2. QED BY <1>3, <3>1 DEF DeadAt
  <2>1. ASSUME NEW i \in Id, Add(d, i) \/ Edit(d, i) \/ Rate(d, i)
        PROVE  deck'[d][id] = None /\ held'[d][id] = None
    <3>1. /\ Writes(d, i) /\ now' = now + 1 /\ tombs[d][id] # None
          /\ held'[d][id] \in {held[d][id], None}
      BY <1>1, <2>1, WriteFacts DEF Writes
    <3>2. /\ deck[d][id] = None /\ held[d][id] = None /\ held'[d][id] = None
          /\ Deleted(id)
      BY <1>1, <3>1 DEF DeadAt, NeverDeleted, Undeleted
    <3>3. CASE i = id
      <4>1. past'[id].added = now'
        BY <3>1, <3>2, <3>3 DEF Writes
      <4>2. past'[id].added < past'[id].deleted /\ past'[id].deleted = past[id].deleted
        BY <1>2, <3>2 DEF OneLife
      <4>3. past[id].deleted <= now /\ past[id].deleted \in Nat /\ now \in Nat
        BY <1>1, <3>2, ServerTypes DEF TombsLate, Deleted, DeckTypeInv, PastFits
      <4>4. FALSE
        BY <3>1, <4>1, <4>2, <4>3
      <4>5. QED BY <4>4
    <3>4. CASE i # id
      BY <3>1, <3>2, <3>4 DEF Writes
    <3>5. QED BY <3>3, <3>4
  <2>2. ASSUME NEW ids \in SUBSET Id, Delete(d, ids)
        PROVE  deck'[d][id] = None /\ held'[d][id] = None
    BY <1>1, <2>2, DeleteFacts DEF Deletes, DeadAt
  <2>3. CASE Load(d) \/ \E u \in User : SignIn(d, u)
    BY <1>1, <2>3, SettleFacts DEF Settles, DeadAt
  <2>4. QED BY <1>5, <2>1, <2>2, <2>3 DEF UserStep
<1>6. ASSUME SyncStep(d) PROVE DeadAt(d, id)'
  <2>1. CASE Begin(d) \/ ReadCards(d) \/ ReadTombsAndSend(d)
    <3>1. /\ Local(d) /\ SameStore(d) /\ job'[d].step \in {"dirty", "cards", "waiting"}
      BY <1>1, <2>1, BeginFacts, ReadCardsFacts, ReadTombsFacts
    <3>2. QED BY <3>1 DEF DeadAt, Local, SameStore, Answered, Late
  <2>2. CASE Handle(d)
    <3>1. PICK u, s, delta : Answering(d, u, s, delta)
      BY <1>1, <2>2, HandleFacts
    <3>2. SameStore(d) /\ held'[d] = held[d] /\ job'[d].tombs = job[d].tombs
      BY <3>1 DEF Answering
    <3>3. job[d].tombs[id] # None => Ruled(id)' /\ job'[d].answer.cards[id] = None
      BY <1>1, <1>2, <3>1, HandleRules
    <3>4. QED BY <3>2, <3>3 DEF DeadAt, SameStore
  <2>3. CASE MergeRead(d) \/ DropRead(d) \/ ClearDirty(d)
    <3>1. /\ Local(d) /\ deck'[d] = deck[d] /\ tombs'[d] = tombs[d] /\ Remembers(d)
          /\ job[d].step \in Answered
          /\ job'[d].step \in {"replied", "merge"} => job[d].step \in {"replied", "merge"}
      BY <1>1, <2>3, MergeReadFacts, DropReadFacts, ClearDirtyFacts
         DEF SameStore, Answered, Late
    <3>2. QED BY <1>3, <3>1 DEF DeadAt, Local, Remembers
  <2>4. CASE MergePut(d)
    <3>1. /\ Local(d) /\ Remembers(d) /\ tombs'[d] = tombs[d] /\ job[d].step = "merge"
          /\ job'[d].step = "merged" /\ (id \notin job[d].put => deck'[d][id] = deck[d][id])
      BY <1>1, <2>4, MergePutFacts
    <3>2. tombs[d][id] # None => id \notin job[d].put
      BY <1>1, <3>1 DEF UploadAt, PutAt, DeadAt
    <3>3. QED BY <1>3, <3>1, <3>2 DEF DeadAt, Local, Remembers, Answered
  <2>5. CASE DropWrite(d) \/ ClearTombs(d)
    <3>1. /\ Local(d) /\ Remembers(d) /\ job[d].step \in Answered
          /\ tombs'[d][id] \in {tombs[d][id], None}
          /\ deck'[d][id] \in {deck[d][id], None}
          /\ job'[d].step \notin {"replied", "merge"}
      BY <1>1, <2>5, DropWriteFacts, ClearTombsFacts DEF Answered, Late
    <3>2. QED BY <1>3, <3>1 DEF DeadAt, Local, Remembers
  <2>6. CASE SetCursor(d) \/ Abort(d)
    <3>1. /\ deck'[d] = deck[d] /\ tombs'[d] = tombs[d] /\ held'[d] = held[d]
          /\ job'[d].step = "idle"
      BY <1>1, <2>6, SetCursorFacts, AbortFacts, NoJobFits DEF SameStore, Local
    <3>2. QED BY <3>1 DEF DeadAt, Answered, Late
  <2>7. QED BY <1>6, <2>1, <2>2, <2>3, <2>4, <2>5, <2>6 DEF SyncStep
<1>7. QED BY <1>1, <1>4, <1>5, <1>6, StickCases, UserKeepsTombs, SyncKeepsTombs, StrayFacts DEF Others

LEMMA ToldStep ==
  ASSUME CopyInv, NothingAhead, ClocksInStep, [DeckNext]_vars,
         [~Restart /\ ~Restore]_vars, NEW d \in Device, NEW id \in Id,
         TombsLate(id), OneLife(id)', Told(id), \A e \in Device : DeadAt(e, id)
  PROVE  Told(id)'
<1>1. DeckTypeInv /\ DeckTypeInv'
  BY DeckTypesStep DEF CopyInv
<1>2. OneLife(id)
  BY <1>1, LivesRun
<1>3. Deleted(id) /\ Ruled(id) => Ruled(id)'
  BY <1>1, <1>2, RuledStands
<1>4. ASSUME NEW e \in Device, tombs[e][id] # None, Deleted(id)
      PROVE  tombs'[e][id] # None \/ Ruled(id)'
  <2>1. CASE Same(e)
    BY <1>4, <2>1 DEF Same
  <2>2. CASE UserStep(e)
    BY <1>1, <1>4, <2>2, UserKeepsTombs
  <2>3. CASE SyncStep(e)
    <3>1. tombs'[e][id] = tombs[e][id] \/ (job[e].step = "dropped" /\ job[e].tombs[id] # None)
      BY <1>1, <1>4, <2>3, SyncKeepsTombs
    <3>2. QED BY <1>3, <1>4, <3>1 DEF DeadAt, Answered, Late
  <2>4. QED BY <1>1, <2>1, <2>2, <2>3, StickCases, UserKeepsTombs, SyncKeepsTombs, StrayFacts
            DEF Others
<1>5. CASE Deleted(id)
  BY <1>3, <1>4, <1>5 DEF Told
<1>6. CASE ~Deleted(id) /\ Deleted(id)'
  <2>1. past' # past
    BY <1>6 DEF Deleted
  <2>2. PICK e \in Device : UserStep(e)
    BY <1>1, <2>1, StickCases, SyncKeepsTombs, StrayFacts
  <2>3. tombs'[e][id] # None
    BY <1>1, <1>6, <2>2, UserKeepsTombs DEF Deleted
  <2>4. QED BY <2>3 DEF Told
<1>7. QED BY <1>5, <1>6 DEF Told

\* A sync cut short leaves a tombstone beside no copy of its word.
LEMMA AbortGone ==
  ASSUME RestoresRotate, ~DeletesMidSync, CopyInv, [DeckNext]_vars,
         NEW d \in Device, Abort(d), NEW id \in Id, GoneAt(d, id), DeadAt(d, id)
  PROVE  GoneAt(d, id)'
<1>1. DeckTypeInv /\ DeckTypeInv' /\ ServerMoves /\ Holds(d)
  BY DeckTypesStep, StepMoves DEF CopyInv, Abreast
<1>2. /\ SameStore(d) /\ account'[d] = account[d] /\ held'[d] = held[d] /\ job'[d].step = "idle"
  BY <1>1, AbortFacts, NoJobFits
<1>3. SerialAt(d, id)'
  BY <1>2 DEF SerialAt, DeadAt, SameStore, Early
<1>4. KeptGone(d, id)'
  BY <1>1, <1>2, KeptGoneStands DEF GoneAt, Stands, SameStore
<1>5. SinceGone(d, id)' /\ AnswerGone(d, id)'
  BY <1>2 DEF SinceGone, AnswerGone, Answered, Late
<1>6. QED BY <1>3, <1>4, <1>5 DEF GoneAt

LEMMA StickStarts == DeckInit => StickInv
<1> SUFFICES ASSUME DeckInit PROVE StickInv
  OBVIOUS
<1>1. GoneInv /\ epoch = 0
  BY GoneStarts DEF DeckInit, Init
<1>2. ASSUME NEW id \in Id PROVE ~Deleted(id)
  BY DEF DeckInit, Deleted
<1>3. ASSUME NEW d \in Device, NEW id \in Id
      PROVE  GoneAt(d, id) /\ DeadAt(d, id) /\ Told(id)
  <2>1. tombs[d][id] = None /\ deck[d][id] = None /\ job[d].step = "idle"
    BY NoJobFits DEF DeckInit, Nothing
  <2>2. GoneAt(d, id)
    BY <2>1 DEF GoneAt, SerialAt, KeptGone, SinceGone, AnswerGone, RowGone, Early, Answered, Late
  <2>3. DeadAt(d, id) /\ Told(id)
    BY <1>2, <2>1 DEF DeadAt, Told, Answered, Late
  <2>4. QED BY <2>2, <2>3
<1>4. QED BY <1>1, <1>2, <1>3 DEF StickInv, GoneInv, StickAt, TombsLate

LEMMA StickStep ==
  /\ ~DeletesMidSync /\ ClocksInStep /\ OneAccount
  /\ StickInv /\ [DeckNext]_vars /\ [~Restart /\ ~Restore]_vars
  => StickInv'
<1> SUFFICES ASSUME ~DeletesMidSync, ClocksInStep, OneAccount,
                    StickInv, [DeckNext]_vars, [~Restart /\ ~Restore]_vars
             PROVE  StickInv'
  OBVIOUS
<1>1. /\ CopyInv /\ NothingAhead /\ epoch = 0 /\ DeckTypeInv /\ NeverDeleted
      /\ ClocksAgree /\ RestoresRotate
      /\ \A id \in Id : TombsLate(id)
  BY DEF StickInv, CopyInv, ClocksInStep, ClocksAgree, RestoresRotate
<1>2. CopyInv' /\ NothingAhead' /\ DeckTypeInv'
  BY <1>1, CopyStep, NothingAheadStep, DeckTypesStep
<1>3. ASSUME NEW id \in Id PROVE TombsLate(id)'
  BY <1>1, <1>2, LateStep
<1>4. epoch' = epoch
  <2>1. ASSUME NEW d \in Device, UserStep(d) PROVE epoch' = epoch
    BY <1>1, <2>1, UserKeepsTombs
  <2>2. ASSUME NEW d \in Device, SyncStep(d) PROVE epoch' = epoch
    <3>1. CASE Handle(d)
      BY <1>1, <3>1, HandleFacts DEF Answering, Sync
    <3>2. QED BY <1>1, <2>2, <3>1, SyncKeepsTombs
  <2>3. ASSUME NEW m \in stray, HandleStray(m) PROVE epoch' = epoch
    BY <1>1, <2>3, StrayFacts DEF Sync
  <2>4. QED BY <1>1, <2>1, <2>2, <2>3, StickCases
<1>5. ASSUME NEW d \in Device, NEW id \in Id, OneLife(id)'
      PROVE  GoneAt(d, id)' /\ DeadAt(d, id)' /\ Told(id)'
  <2>1. OneLife(id)
    BY <1>1, <1>2, <1>5, LivesRun
  <2>2. /\ GoneAt(d, id) /\ Told(id) /\ TombsLate(id)
        /\ \A e \in Device : DeadAt(e, id)
    BY <1>1, <2>1 DEF StickInv, StickAt
  <2>3. DeadAt(d, id)'
    BY <1>1, <1>5, <2>2, DeadStep
  <2>4. Told(id)'
    BY <1>1, <1>5, <2>2, ToldStep
  <2>5. GoneAt(d, id)'
    BY <1>1, <2>2, PairStep, AbortGone
  <2>6. QED BY <2>3, <2>4, <2>5
<1>6. ASSUME NEW d \in Device, NEW id \in Id PROVE StickAt(d, id)'
  BY <1>5 DEF StickAt
<1>7. QED BY <1>1, <1>2, <1>3, <1>4, <1>6 DEF StickInv

\* A word deleted after it was last added stays deleted: once every device has sent
\* its deletes the server has the tombstone, and no stale copy, late request or whole
\* upload of any device, cut short or not, brings the word back. With clocks in step,
\* for one account, as long as no tombstone is pruned and no backup restored: without
\* those, a copy can outlive the delete.
THEOREM DeletesStand ==
  /\ ~DeletesMidSync /\ ClocksInStep /\ OneAccount
  /\ DeckSpec /\ [][~Restart /\ ~Restore]_vars
  => []DeletesStick
<1>1. ~DeletesMidSync => []~DeletesMidSync
  OBVIOUS
<1>2. (ClocksInStep => []ClocksInStep) /\ (OneAccount => []OneAccount)
  OBVIOUS
<1>3. OneAccount /\ StickInv => DeletesStick
  <2> SUFFICES ASSUME OneAccount, StickInv, NEW id \in Id, Deleted(id),
                      past[id].added < past[id].deleted, DeletesForwarded(id),
                      NEW d \in Device, account[d] # None
               PROVE  /\ Served(d, id).card = None
                      /\ cursor[d] # None /\ cursor[d].rev = rev /\ Settled(d, id)
                           => deck[d][id] = None
    BY DEF DeletesStick, Deleted
  <2>1. /\ DeckTypeInv /\ epoch = 0 /\ Holds(d) /\ KeptGone(d, id) /\ Told(id)
        /\ \A e \in Device : tombs[e][id] = None
    BY DEF StickInv, StickAt, OneLife, GoneAt, CopyInv, Abreast, DeletesForwarded
  <2>2. account[d] \in User
    BY <2>1 DEF DeckTypeInv, DevicesFit
  <2>3. RowSound(Served(d, id), now, rev) /\ Served(d, id) \in Row
        /\ rev \in Nat /\ prunedRev \in Nat /\ prunedRev <= rev
    BY <2>1, <2>2, ServerTypes DEF Served
  <2>4. Served(d, id).tomb # None
    BY <2>1, <2>2 DEF Told, Ruled, Served
  <2>5. Served(d, id).card = None /\ Served(d, id).tomb.rev <= rev
    BY <2>3, <2>4 DEF RowSound
  <2>6. ASSUME cursor[d] # None, cursor[d].rev = rev, Settled(d, id)
        PROVE  deck[d][id] = None
    <3>1. cursor[d] \in Cursor
      BY <2>1, <2>6, TypesAt
    <3>2. cursor[d].epoch = epoch
      BY <2>1, <2>6, <3>1 DEF Cursor, Holds, Behind
    <3>3. cursor[d].user = account[d]
      BY <2>2, <3>1 DEF Cursor, OneAccount
    <3>4. Serves(cursor[d], account[d])
      BY <2>3, <2>6, <3>2, <3>3 DEF Serves, CanServeDelta
    <3>5. Clean(d, id)
      BY <2>6 DEF Settled, Clean
    <3>6. QED BY <2>1, <2>5, <2>6, <3>4, <3>5 DEF KeptGone, RowGone, Covered, Served
  <2>7. QED BY <2>5, <2>6
<1>4. QED BY <1>1, <1>2, <1>3, StickStarts, StickStep, PTL DEF DeckSpec
=============================================================================
