# Yomeru: a specification

Yomeru is a Japanese reader with spaced repetition. A browser extension and an
app (web, desktop, Android) each keep the user's deck locally and work without a
network; a small server (`server/`) lets the devices of one account share it.
What can go wrong without anybody noticing is there: a deck that several devices
edit offline, merged by stamps, moved by deltas, over a network that loses
answers and through storage that a crash can leave half written. This project
specifies that part, and around it what a user of one device meets: signing in,
the Review page, the settings, and the popup and underlines in a page. It holds
TLA+ modules, TLC configurations and TLAPS proofs; nothing here is needed to
build the program.

Contents: 1 inventory, 2 modules and how they match the code, 3 runs and bounds,
4 time and fairness, 5 proofs, 6 where code and comments disagree, 7 what is
left out, 8 plan.

## 1. Inventory

### The parts and their state

| Part | Code | State | Operations |
|---|---|---|---|
| sync endpoint | `server/src/api/sync.rs` | none of its own | one POST: take a revision, apply deletions, cards, answers, settings, read the answer, commit |
| sync clock | `server/src/db/sync_meta.rs` | epoch, rev, pruned rev | take the next revision, judge a cursor |
| cards, tombstones | `server/src/db/cards.rs`, `deletions.rs` | a row per user and id | upsert, delete, prune, read all or since |
| review log | `server/src/db/reviews.rs` | answers, append-only | insert or ignore, count drills |
| settings | `server/src/db/settings.rs` | one row per user | last-write-wins upsert |
| accounts | `server/src/db/auth.rs`, `api/auth.rs` | codes, attempts, sessions, users | request, verify, authenticate, prune |
| schema | `server/src/db/schema.rs` | the tables' shapes | create, drop and recreate, rotate the epoch |
| limits | `server/src/client_ip.rs`, `main.rs` | rate buckets | admit or refuse; prune at start and every six hours |
| operations | `deploy.sh`, `DEPLOY.md` | database file and its copies | back up, restore |
| extension | `extension/src/background/*.ts` | IndexedDB: cards, dirty, tombstones, reviews (outbox), drills, meta (cursor); storage: settings, token | card handlers, debounce, `doSync`, sign-in, import and export |
| app store | `app/shared/src/idb.rs` or `native/store.rs`, `store_common.rs` | the same stores, on IndexedDB or SQLite | the same functions |
| app sync | `app/shared/src/platform.rs`, `sync.rs` | generation, in-flight, retry | `arm_sync`, `schedule_sync`, `sync_now`, `do_sync` and its merge rules |
| review page | `app/shared/src/routes/review.rs`, `review_kanji.rs`, `kanji_deck.rs` | a session: its cards, the place in it, the side shown, a rating in flight; the kanji deck | load, start, drill, reveal, rate, reload, leave |
| settings | `extension/src/background/settings.ts`, `app/shared/src/platform.rs`, `routes/settings.rs` | four knobs and their stamp; URL, email, token; a page's copy of all | save, upload, adopt |
| app pages | `app/shared/src/routes/*.rs` | what they show | delete, sign in |
| scheduling | `crates/srs-core`, `app/shared/src/srs.rs` | none | FSRS, session building |
| dictionaries | `crates/*`, `server/src/api/lookup.rs` | immutable data | lookup, deinflection |
| page highlighter | `extension/src/content/*`, with `background/cards-backup.ts` | popup and its timers, the word marked, known words, underlined ranges | hover, select, hide, switch, rebuild |

### How they interact

A page or handler writes the local store (card and dirty entry in one
transaction) and then asks for a sync. The sync reads the dirty snapshot, the
cards it names (all cards when there is no cursor), the tombstones and the oldest
1,000 queued answers (`OUTBOX_BATCH`), in separate transactions, and posts them. The
server merges them in one transaction that begins by taking a revision, and answers with the
rows newer than the device's cursor (or all) plus the rows the request itself
named. The device merges cards, replays deletes, clears what it sent, settles
the outbox and stores the new cursor last. Sign-in changes the account under all
this; a restart of the server prunes tombstones; an operator may restore a backup.

A review session works on the cards as it read them and writes each back with its
log row in one transaction; a sync that lands makes the page load again, unless a
session has begun. Settings ride in the same request as cards, but are merged
whole and by one stamp. In a page, the content script asks the background page
for the deck's words once and then follows the change events of a copy of the
deck in `storage.local`.

A server starts by bringing the database of any earlier build to its own layout,
statement by statement, prunes, and only then listens.

### What is hard

* Three clocks: the server's, each device's, and the revision sequence. Merges
  compare stamps of different clocks.
* The IndexedDB stores yield between transactions, so the user writes in the
  middle of a sync; the native store does not, but may crash there.
* An answer may be lost after its request was committed, and a request its sender
  gave up on may be handled later.
* A cursor outlives what it was taken from: other accounts, pruned tombstones,
  restored databases.
* Two merge rules, one on the server and one on devices, have to pick the same
  winner.
* Every page is one thread of handlers and tasks that yield at each await: loads
  overlap, ratings are pressed twice, a tab is left while its write is under way, and
  a page that is left takes its tasks with it, between any two awaits.
* Transactions of SQLite read a snapshot and fail to write once another has
  committed; the upgrade at start commits statement by statement.
* Texts are measured in three units: bytes, characters and UTF-16 units.

### What makes each part correct

Server: a deleted word and a live one are never the same id; stamps never come
from the future; a retry changes nothing; cards do not roll back. Clock: a delta
is enough whenever it is served. Devices: a clean copy is the server's copy;
deletes stick; an answer never takes away a write. Answers: none lost, none
counted twice. Scheduler: one sync at a time, and every change gets one, or is given
up for a reason that can be named. Accounts:
a code is tried and used no more often than it may be, and nobody is signed out
early. Review: cards are taken one by one, only what was seen is rated, schedule
and log move together. Settings: the last edit decides, and all devices end with
it. Reader: the popup shows the longest word under the mouse and goes away; the
underlines are the deck's words, where they stand.

## 2. Modules and the code

```
SyncRules          merge rules, one row at a time
  SyncServer       tables, clock, request, pruning, backup and restore
    DeltaFeed      readers patching a view with deltas    (implements SnapshotReads)
    DeckSync       devices: cards, deletes, cursor, accounts
    AnswerSync     devices: review log and drill counts
  SettingsSync     devices: scheduler settings
ClientSchedulers     a device, running one of
  SyncScheduler        when the app syncs
  BackgroundScheduler  when the extension syncs
SnapshotReads      what the answers promise

OtpAuth            codes and sessions, two requests at a time
  SchemaUpgrade    the start on an older database, then OtpAuth
ReviewSession      the Review page: words, kanji, drills
Dictionary         deinflection, longest match, scan, hover lookup
  PageReader       popup, underlines, switch, the copy of the deck
```

`MC*` modules give small values to the constants; `*Proofs` modules hold the
theorems, those of the two schedulers and of SettingsSync all in
`ClientProofs`. `PROJECT.json` maps every definition to its lines.

**SyncRules.** A card is its three stamps: `added` (`added_ms`), `reviewed`
(`last_review_ms`), `updated` (`updated_ms`, the merge key). Every other field
travels with them and is read by no rule. A `Row` holds the card and the
tombstone of one id side by side, since the guards of each table look at the
other. `MergeRow` is `apply_deletions_tx` then `upsert_cards_tx`; `CardApplies`
and `DeletionApplies` are `cards_to_apply` and `deletions_to_apply` of the app and
their twins in `idb.ts`.

**SyncServer.** `Sync` is the write half of `sync_handler`, one action because
its first statement takes SQLite's write lock; `Response` is the read half, taken
in the state `Sync` leads to, which is what the same transaction sees. `Restart`
is the pruning `main.rs` does at start. `TakeBackup` and `Restore` are the
operator's; `Rotates` says whether a restore rotates the epoch.

**DeltaFeed** asks one question: are the rows of an answer enough? Readers keep a
cursor and patch a deck and a tally of drills. **SnapshotReads** states the
promise with no revision, cursor, tombstone or epoch: after an answer, the reader
holds the server's deck. DeltaFeed implements it under
`truth <- the live cards of the tables, seen <- view, token <- cursor`. The token is
there so that an answer which tells the reader nothing new is still a read, and a
read that misses somebody else's change cannot pass for a stuttering step.

**DeckSync** is `doSync` and `do_sync`, one action per store transaction:

| action | transaction or call |
|---|---|
| `Begin` | cursor and dirty snapshot; the upload time is taken first |
| `ReadCards`, `ReadTombsAndSend` | cards to send, tombstones, then the request |
| `Handle` | the server's transaction and its answer |
| `MergeRead`, `MergePut` | the merge's read and its write |
| `DropRead`, `DropWrite` | the reported deletes: read again, then delete |
| `ClearTombs`, `ClearDirty`, `SetCursor` | one transaction each, cursor last |
| `Abort`, `HandleStray` | network error, crash or failed transaction at any of them; the abandoned request handled late |
| `Add`, `Edit`, `Delete`, `Load`, `Rate`, `SignIn` | the user |

Facets chosen per run: `Yielding` (devices on IndexedDB: user steps between
transactions; others run from network await to network await as one turn, see
`InTurn`), `Sessions` (devices whose review page keeps cards in memory), `Skew`
(fast clocks), `Flaky` (syncs that can break off), `Reverifies` (sign-ins to the
same account again), `DeletesMidSync` (deletes while a sync runs).
The last is off in the passing runs: section 6 says why.

**AnswerSync** is the outbox half of the same syncs: `Batches` (the oldest
`OUTBOX_BATCH`), `Settle`, the cached counts and `Shown`, what the drill picker
displays. It is separate from DeckSync because the two touch disjoint stores and
share only the order of the steps.

**SyncScheduler** is `arm_sync`, `schedule_sync`, `sync_now` and the sync at start.
A sync is reduced to the changes it found when it began, the task it runs in (`by`) and
how it ends. Tasks of the debounce, of the start and of the drill log outlive the page
shown. Those of a press or a sign-in on the settings page, and those of a page's own
writes, are the page's (`spawn`): `LeavePage` drops them between two awaits, so a pressed
sync does not come to the line that lowers `in_flight`, which is remembered as
`stranded`, and a write that has gone through does not call `schedule_sync`. `lost` counts
the changes the code gives up: such a write, a sync that fails with no other asked for,
and no server or token (`SaveConnection`) when one is about to be scheduled or begins.

**BackgroundScheduler** is `scheduleSync`, `runSync` and `handleSyncCards` of the
extension, cut at their awaits: a token check that is asked (`asked`), answered
(`granted`) and then looks at the in-flight flag a second time (`ArmTimer`); a sync
that has yet to read its settings (`opening`), the store (`reading`), or is under way
with the changes it found (`sending`). `dropped` counts the changes the code gives up:
no token, `storage.local` failing, a sync that fails with no other asked for, and an
event page the browser unloads with its timer and flags (`Unload`, manifest.json).
Nothing syncs when the page is loaded again; the next change does.

In both, a sync that leaves a backlog behind, or whose cursor was refused, acknowledges
nothing yet and asks for another. **ClientSchedulers** puts the two side by side, a device
running one of them, and states the four promises of both.

**SettingsSync** takes the four knobs as one value: they are compared, stamped and
replaced together. `Open`, `Edit` and `Press` are a settings page that saves the
whole copy it holds; `SaveRead`/`SaveWrite` and `AdoptRead`/`AdoptWrite` are
`saveSettings` and `adoptRemoteSettings` with the await in between, which only
`Racing` devices use. `UpsertSettings`, the server's rule, is SyncRules' and also
part of SyncServer's `Sync`.

**OtpAuth** gives each request a task: asked, read, written. A transaction's write
goes through only if nothing was committed since its read (`CanWrite`): SQLite
answers the other with "busy" and the handler with 500, which is `Lose`. `Lose`
also stands for a failed statement, a closed connection and a failed e-mail.
**SchemaUpgrade** is `init_schema`: one action per statement (but for the indexes and the
epoch drawn after a stale cards table is dropped, section 6), from every layout
that earlier builds can have left (`Layouts`, `Coherent`), with `Stop` between any
two. When it has climbed all of `Steps`, the actions of OtpAuth run.

**ReviewSession** is both tabs of the Review page; only the open one is mounted.
Up to `MaxLoads` tasks of `load_session` run at once, a stretch between two awaits
at a time: `ReadKanji`, `PutKanji` or `KanjiFails` (`ensure_kanji_cards`, kanji tab
only), `ReadDue`, `SetDue`, `SetTrouble`. `Rate` starts a save and `Saved` ends it,
written or not; `SelectTab` cancels the tasks of the tab that is left. FSRS and
the clock are choices: which cards are due, which graduate.

**Dictionary** is functions only: `Deinflect`, `LookupLongestMatch`, `FindInText`,
`Hover`. Each loop of the code is a recursive function over the number of rounds:
`WithForms` over the rules, `NextLevel` over the queue, `Deinflect` over the depth,
and `FindInText` over `ScanStep`, whose state is the place, its UTF-16 offset and
the ranges so far. The properties compare them with definitions that have no order
and no loop: `Reach`, the forms some rules lead to, and `Stops`, the places of a
text where a scan looks. **PageReader** uses them on a page with an article the mouse moves over
and a feed the page's own script refills. `MoveTo`, `MoveOverPopup` and `Leave` are
the three listeners of the mouse; `HandleHover` and `HideFires` the two timers;
`Load`, `Answer`, `Receive`, `Refill` and `RebuildFires` the underlines;
`WriteCardsBackup` the copy of the deck and the event it causes.

## 3. Runs

| run | module, cfg | shows | bounds |
|---|---|---|---|
| `server_rows` | MCSyncServer | every request against one row: guards agree, stamps bounded, retries harmless, no rollback | 1 user, 1 id, cards over stamps {0,1,3}, delete times {-1,1,2,4}, 3 clock ticks, 3 revisions, 1 restore |
| `feed` | MCDeltaFeed | deltas are enough; SnapshotReads and exact tallies | 2 users, 1 reader, 3 revisions, retention 1 of 3 ticks, 1 restore |
| `deck_devices` | MCDeckSync | deletes stick, clean copies match (rows and deletes arrive), writes survive | 2 devices (d1 yielding; d2 native with a review session), 3 writes, 3 syncs handled |
| `deck_accounts` | MCDeckSync, DeckAccounts | rows arrive across accounts, syncs cut short anywhere, strays and a restore; a clean card is not ahead of the server's, also with a fast clock | 1 flaky device with a fast clock, 2 accounts, 2 writes, 3 syncs, 1 stray, 1 restore |
| `answers` | MCAnswerSync | no answer lost, none counted twice | 2 devices, 1 card, batch of 1, 3 answers, 4 requests, 1 stray |
| `schedulers` | ClientSchedulers | no overlap; every change has a sync coming and goes up, unless it is given up for a named reason or the app's flag is up for good (section 6, item 12) | app: 2 changes, 2 presses, 1 repeat, 1 failure, 1 sign-in or cleared URL, 1 restart, pages left without bound; extension: 3 changes, 1 press, 1 repeat, 2 sign-ins or sign-outs, 1 unload, failures without bound |
| `accounts` | MCAccounts | the upgrade ends in the current layout from any older one; codes are tried, used and spaced as promised; nobody is signed out | 2 addresses, 2 codes, 2 requests at once, 2 attempts, 3 clock ticks, 2 codes sent, 3 sessions, crashes without bound |
| `review` | MCReviewSession | sessions skip nothing, only seen cards are rated, schedule and log agree, a save does not lock the page | 2 words (one without glosses), 2 kanji, sessions of 2, drills of 1, 3 answers, 2 loads at once |
| `settings` | MCSettingsSync | a stamp is the last edit's; all devices settle on the same knobs | 1 app with a fast clock, 1 extension whose saves and adoptions race, 2 values, 3 saves, 1 failed sync |
| `reader` | MCReader | the popup is the longest word under the mouse and goes away; the underlines are the deck's | a text of 7 characters with an inflected verb, overlapping words and a wide character, 3 hover spots, 1 refill, 1 change of the deck |
| `restore_unrotated`, `deck_delete_midsync` | | counterexamples, section 6 | as above |

*Why one id.* No rule of the server or of a device reads two ids together: rows
are merged id by id, and a request's lists are functions of the id. Two ids share
only the cursor and the revision, whose effect on one id is another device's (or
an empty) request. The theorems of section 5 hold for any set of ids.

*Why these numbers.* The longest story the properties tell is: one device adds,
syncs, deletes, syncs, while another holds an older copy and syncs. That is three
or four writes and three or four revisions. Each property is also run against a
planted bug (`mutants` in `PROJECT.json`: a dropped guard, a swapped order, a
missing reset), and each is found within these bounds. The app's scheduler needs a change that a
running sync has read and one that it has not, and two presses: one whose page is left
and one after it. Cards in `deck_*` runs
carry the stamps the clients write; `MCStamp` plays no part there.

The Review page's hazards need two loads at once (an old one that comes back late
into a new session) and two cards (a press that lands on the next); three answers
leave one for the drill. For the settings, two devices and three saves are an edit
on each and a save of an old copy. The reader's text is made so that hovering needs
each rule: a word that begins one character before the mouse, a longer word that
hides a shorter one, an ending to undo, and offsets that differ in each unit.

*Deadlock* is not checked where a bounded clock or a bounded number of answers
ends every behaviour and the system may rest when nobody does anything; in
`settings` and `reader` it is.

## 4. Time and fairness

In DeckSync and AnswerSync every user write takes a millisecond of its own and
requests take none: only the order of writes and requests matters to the stamps.
Two writes in one millisecond are not modelled (hazard at `idb.ts:659`).

`TurnFree` makes a turn of a native device exclude other actors. That is sound:
between two awaits on the network its steps touch only its own store, so they
commute with everything outside.

Fairness is only ever assumed of the program, always weak:

* ReviewSession: the runtime goes on with every task it has (`LoadStep`, `Saved`,
  `DrillReady`), since every await of theirs, on the store or the dictionary, ends.
* SettingsSync: a save and a sync that have begun go on, and a device in use syncs
  again, at its next start or after its next change of the deck (an app with the flag up
  for good, item 12 of section 6, only at its next start). The last is what
  `DevicesAgree` rests on: a save itself asks for no sync.
* PageReader: timers fire.
* ClientSchedulers: in the app `Task`, the steps of the async runtime; in the extension
  `BackgroundTask`: while the background page is loaded, promises settle and the timer
  fires. Unloading it is not a task, and need never come.

In SyncScheduler the runtime polls every task that is there and can proceed, sleeps end
after two seconds, and a request ends in an answer or an error. Nothing is assumed of the
user: a press, a page left or a restart need never come. `EveryChangeGoesUp` therefore
allows `lost`, for a failed sync is not tried again by itself, and `stranded`, for only a
restart ends that.

## 5. Proofs

`SyncServerProofs` proves, for every set of users, ids, cards, answers, any clock
and any bounds, under the assumptions named in SyncRules and SyncServer (stamps
are naturals, `None` is none of the records), that `IndInv` is an inductive
invariant of `Spec`. `TypeOK`, `CardOrTombstone`, `RevsBehindClock` and
`NothingFromTheFuture` follow.

The strengthening is needed because of `Restore`: it makes the backup the
database, so the same facts have to hold of the backup, with its own revision and
pruned revision but the present clock. `IndInv` says `DatabaseSound` of both. The
proof goes action by action; for `Sync` it rests on a lemma that `MergeRow` keeps
`RowSound`, case by case over the guards. The action properties
(`DeleteTimeNeverMovesLater`, `NoRollback`) follow from lemmas on one row and
from the other actions leaving rows alone or removing tombstones.
`RetryChangesNothing` is a consequence of the invariant and an algebraic lemma:
`MergeRow` is idempotent on sound rows.

`DeltaFeedProofs` proves `ViewMissesOnlyNewerRows`, `TallyMissesOnlyNewerAnswers`,
`TallyIsExact` and the refinement of `SnapshotReads`, with the hypothesis `Rotates`. Its
invariant adds that no cursor is ahead of the server that issued it
(`CursorsBehind`): a cursor of the present epoch has a revision at most the
present one, a restore that rotates leaves every cursor in an older epoch, and a
tombstone that was pruned had a revision at most the recorded one. Without
`Rotates` the theorem is false, which is the run `restore_unrotated`.

`ClientProofs` proves `NeverTwoSyncs` and `NothingForgotten`, each the conjunction of
the app's and the extension's. For the app they are `OneAtATime` and
`EveryChangeIsScheduled`, for any number of changes, presses, pages left, sign-ins,
failures and restarts. `SchedulerInv` adds what the second rests on: `FlightCovers` (while
a sync runs, the last change is one it has read, or is flagged for a repeat, has yet to
call `schedule_sync`, or was given up), `RestCovers` (the same between syncs, with the
debounce), and `DebounceBetweenSyncs` (the newest generation does not sleep while the flag
is up, so the wake that finds it up is a stale one and may be ignored). `RetryInFlight`
says that a repeat is only ever asked of a sync under way, so one that ends before its
first await has none to look at. `StrandedUntilRestart` is the other side of the
exception that both make: once a pressed sync was dropped with its page, every step but a
restart leaves the flag up, nothing running and the server without the changes, whatever
the user presses.

For the extension they are `NoOverlap` and `NoChangeDropped`. There `OneSync` says at
which one place of `doSync` the sync is that the flag stands for, and
`TimerBetweenSyncs` that no timer runs beside it: `runSync` returns at once when it
finds the flag up, and a timer that could fire then would be lost.

`AnswerSyncProofs` proves `NoAnswerLost` for any devices, answers and batch size.
The strengthening is `AcknowledgedIsStored`: a device that has its answer, and so
will drop the rows it sent, is right that the server has them. It survives
aborted syncs and late requests because the log is append-only. `AnswerNext` has
no restore of the server: one would lose acknowledged answers, since no device
keeps what the server acknowledged (`platform.rs:396`).

It also proves `NoAnswerCountedTwice` and `ShownCountsMatch`, for which that is not
enough: a count is a number, and the outbox and the log are sets. `AnswerInv` says what
each count of a device counts (`CountFits`): the logged answers up to a cursor, which is
the stored one, the one a sync began with or the one of the answer on its way, each
with the queue as it is at that point (`Applied` is the count an answer would leave).
No count exceeds the drills that are logged and not queued (`Beyond`). `Settle` drops
the queued rows and takes the counts in one transaction, which is why the two agree
before and after and never in between.

`DeckSyncProofs` is about devices and the server together, for any number of devices,
accounts and ids. Each action is first reduced to what it does to one device and one id
(`Local`, `Writes`, `Deletes`, `Settles`), and each move of the server to what it does to
one row under a cursor (`ServerMoves`); the invariants are then proved from those facts,
the device that acts apart from the bystanders. There are five:

* *Types* (`DeckTypeInv`). That a merge with clocks of any skew sends only stamps the
  server's module allows is what `ClockAssumption` is for.
* *Turns* (`TurnInv`): a device that does not yield decides what to write and to drop
  from the deck as it still is. `LocalWritesSurvive` follows.
* *What a cursor stands for* (`CopyInv`), with the hypotheses `Rotates` and
  `~DeletesMidSync`; without the first the run `restore_unrotated`, without the second
  `deck_delete_midsync` is a counterexample. For a word with nothing to send, `KeptAt`
  says that device and row agree as far as the stored cursor goes. A sync moves that
  promise along: `SinceAt` holds it on the cursor sent until the answer is written,
  `AnswerAt` says that the answer has every covered row that changed since or was
  asked for, `PutAt` that the choice of the merge is still right, and `AppliedAt` holds it
  on the answer's cursor until `SetCursor` makes it the stored one. `UploadAt` bounds
  what is waiting by the device's clock, so that a write during the sync cannot look
  uploaded. A cursor that is refused, from another account or a past epoch promises
  nothing, and neither does one behind a pruning. `CardsArrive` and `CleanIsNotAhead`
  follow. `NeverDeleted` is there since the versions of a word's two lives say nothing
  of each other (section 6, item 5).
* *Deletes* (`GoneInv`), with the hypothesis `ClocksAgree` besides: devices may be ahead of
  the server, but not of each other. The delete is skipped where a word
  looks added after the upload, so what matters is that none was: `NothingAhead`
  says that of every copy on a device, in an answer, on its way and on the server.
  `KeptGone`, `SinceGone` and `AnswerGone` then carry "no row, no copy" along the same
  cursors; a copy that is still there is about to be dropped (`Dropping`), and `SerialAt`
  keeps a tombstone that was forwarded from excusing a word added later. It speaks of
  the devices outside `Flaky` (item 11). `CleanCopiesMatch` follows.
* *One life* (`StickInv`): of a word not added since it was first deleted, no tombstone on
  a device, on its way or on the server is from before that delete (`TombsLate`), and no
  copy was added after it (`NothingAhead`), so whichever request brings a tombstone
  leaves one behind and no request takes it away (`LateRow`). The server has one, or a
  device still has to send it (`Told`); that device has no copy of its own to send with
  it, and its tombstone is only cleared once the server's is there (`DeadAt`). Within
  one life this also closes the gap of item 11, so `GoneAt` holds of devices in
  `Flaky` too. `DeletesStick` follows. Its hypotheses are those of the `deck_devices` run,
  and TLC finds the property violated when any one of them is dropped: a clock ahead of
  the server's (the delete is cut to the server's time, the added time is not), words
  deleted during a sync (`deck_delete_midsync`), a second account (which never heard of the
  delete), a pruned tombstone, a restored backup. The last two are the hypothesis
  `[][~Restart /\ ~Restore]_vars`; syncs may be cut short and handled late.

`AccountsProofs` proves all six properties of the `accounts` run for any addresses,
codes, requests at once and crashes; of the constants it assumes what OtpAuth and
SchemaUpgrade state, with finitely many addresses, since the upgrade numbers them.
`StartInv` has three parts. `CodesInv`: every row's attempts are the wrong tries of
its issue, and a task whose snapshot is still fresh has read the row as it is; that
is why the second of two requests cannot use what the first used up. `AccountsInv`:
account numbers are not shared, and each session handed out is in the table, or in
the old one, under its address. `UpgradeInv` is a ladder: what has
been put right by the time a step is reached, which no later step undoes, so that a
start cut off anywhere may begin again. `CodesAreSpaced` needs the freshness too:
the row that a new code replaces is the row whose floor was looked at.

`ClientProofs` also proves `StampIsLastEdit`, with the hypothesis `App \subseteq
Careful`. It speaks of the devices whose storage is not
raced. The invariant adds that nothing writes between a save's read and its write
(`SaveFits`), that an app's page and the copy it saves are as old as what is stored
(`PageFits`), and that an answer about to be written is newer (`AdoptFits`). Without the
hypothesis it is false: an app page saves the stamp of its copy.

`ReviewSessionProofs` proves `NothingIsSkipped` and `AnswersAreSeen` with the
hypothesis `Patient`. `SessionInv` adds that a session under review is alone
(`ReviewAlone`: no load or drill is on its way into it), that what is being saved is
the card on the screen (`SavingFits`), and that the side shown is the one seen.
`LogMatchesProgress` needs `~Remote` as well; `LogInv` adds that the snapshots held by
loads, sessions and saves agree with the store until the card is answered.

`PageReaderProofs` is in two parts. The first is about Dictionary, for any rules,
index, characters and texts; its constants are assumed to be of their types and no
more. `DeinflectFindsAllForms`: the search by levels finds `Reach`, no more and no
less, so no form is lost to the list of those seen. `LookupReturnsLongestWord`: the
match is the longest prefix that is a word. `OffsetsRoundTrip`, and with it
`HoverFindsLongestWord`: the range a hover reports, in UTF-16 units, is read back as
the word it stands for. `ScanReadsAsHover`: the scan finds at its stops what the
hover finds there.

The loops are recursive functions, of which a prover knows nothing before it is
shown that they have values. The library's theorems for that, and for induction,
take operators as parameters, so both are proved here for sets: `Induction` (a set of
naturals with 0 and all successors is all of them) from the library's fact that the
order of the naturals is well founded, and `LoopExists` (a loop whose body is a function on a
set has a run) from that. A loop's invariant is then the set of rounds it holds at
(`Good`, `S`), and `Induction` closes it.

`WhollyJapanese` is the hypothesis of `HoverFindsLongestWord` and
`ReaderPopupShowsHovered`. The hover cuts the text at the first character that is not
Japanese, so no longer word can be missed only if no word has such a character.
`lookup.rs:180` says so of headwords; the theorem needs it of the endings in
`deinflect/src/rules.rs` too, all of which are kana and kanji. What deinflection leaves is a
prefix of the surface, so a character that no rule takes away is still there when
the index is asked (`FormKeepsOthers`). The run `reader` checks the hypothesis of
its instance (`InstanceIsJapanese`).

The second part is about the page, in three invariants:

* `QuietInv` is the types and `NothingLeftBehind`, and that a page that is off and
  `active` has never loaded a dictionary (`QuietWhenOff`). Without that, an answer that
  arrives while the switch is off would paint.
* `PopupInv`: a pending hover is for the place the mouse is at, unless it has left the
  page (`Leave` does not call the hover off); a popup a hover opened shows the word that
  `lastLookedUp` names; and with no timer pending, popup and mark are those of the place
  of the mouse (`PopupOfPlace`). The second is needed because a hover over the same
  word keeps the popup and moves only the mark. `PopupShowsHovered` follows with
  `HoverFindsLongestWord`.
* `PaintsKnown`: with no repainting pending, what is underlined is what the page's own
  copy of the deck says; it needs no hypothesis. `KnowsDeck` says that copy is the deck, and
  for that the deck must not change while one of the page's questions is being answered:
  `Patient` (section 6, item 10). `UnderlinesFollowDeck` follows with `ScanReadsAsHover`.

Only model-checked: `ChangesGoUp`, `RatingsEnd`, `DevicesAgree` and
`PopupGoesAway`, which are liveness under fairness and outside what the prover does.
Every other property of the passing runs is proved.

## 6. Where code and comments disagree

The first two are runs that TLC ends with a counterexample, and entries of
`findings`. The others were met while modelling; where a passing run leaves them
out, it says so by a constant or a named definition.

1. **Restore without rotation** (`restore_unrotated`). `sync_meta.rs:20` says a
   restore must rotate the epoch; the commands in `DEPLOY.md` do not.
2. **Delete during a sync** (`deck_delete_midsync`). The answer still carries the
   word; the merge sees it absent and puts it back. The next sync sends the
   delete, and the device does not replay deletes it sent. The word stays there.
   `DeletesMidSync` is FALSE in the passing runs.
3. **Edit during the merge**, IndexedDB only. `idb.ts:567` reads in one transaction
   and writes in another, against the promise at `idb.ts:511`. `LocalWritesSurvive`
   speaks of the devices that do not yield.
4. **Pruned tombstone.** The full snapshot is merged, not taken whole, so a device
   that was away keeps the word and, its cursor refused, uploads it with the whole
   deck (`deletions.rs:198`, against `:195`). Retention in the deck runs is longer than
   the run.
5. **Re-add against an edit of the old card.** The server decides by delete and added
   time, a device by version (`app/shared/src/sync.rs:250`, against `:236`); they keep
   different copies. `CardsArrive` leaves out `KeptOldLife`.
6. **A fast device's added time** can be taken for a local re-add elsewhere, so the
   word's delete is skipped there (`idb.ts:541`). The run with a fast clock does not
   check `DeletesArrive`; the theorem about it assumes `ClocksAgree`.
7. **Kanji cards put again.** `kanji_deck.rs:104` reads the deck, waits for the
   dictionary and puts the missing cards (`:129`) over what a sync or another load
   brought meanwhile. `Remote` is FALSE in the `review` run.
8. **A late load.** A load begun before a session starts resets `started` and the
   cards when its awaits end; `review.rs:220` says a sync must not yank a started
   session, but looks only when the load begins. `Patient` is TRUE in the `review` run.
9. **Stamps of app pages.** A save that changes no knob keeps the stamp of the page's
   copy (`platform.rs:480`), which may be older than the stored one
   (`app/shared/src/settings.rs:36`). `Careful` names the devices whose pages are
   opened anew.
10. **A change missed at the start.** The page's question for the deck's words is
    answered before it listens (`srs-highlighter.ts:98`). `Patient` is TRUE in `reader`.
11. **A sync cut short and an old tombstone.** A device deletes a word and adds it again;
    its sync uploads both and breaks off before it clears the tombstone. Another device
    deletes the new word. The next sync sends the old tombstone once more, and so does not
    replay the delete (`idb.ts:540`, against `:514`; `app/shared/src/sync.rs:276`): the word
    stays. `DeletesArrive` speaks of the devices outside `Flaky`; with two devices, one of
    them flaky, TLC finds the word left behind.
12. **A pressed sync dropped with its page.** `sync_now` raises `in_flight`
    (`platform.rs:518`), awaits `do_sync` and lowers it (`:520`). The settings page runs it
    in a task of the page (`routes/settings.rs:81`, `:112`), so leaving the page in between
    drops it with the flag up, though `rt.rs:60` has `spawn_detached` "so leaving a page
    can't cancel it". From then on `schedule_sync` only asks for a repeat
    (`platform.rs:501`), a debounce returns at once (`:259`) and "Sync now" says a sync is in
    progress (`:514`): no change goes up before the app is opened again, against "every
    pending change eventually goes up" (`platform.rs:250`). `NeverTwoSyncs` therefore allows
    the flag to be up without a sync when `stranded`, and `NothingForgotten` and
    `ChangesGoUp` leave that state out. Without the exception TLC needs one change, one
    press and one page left; `StrandedUntilRestart` proves that nothing but a restart
    helps. The extension's pages ask the background page to sync and do not have this.
13. **A write whose page is left.** The write and the `schedule_sync` after it are one task
    of the page (`routes/review.rs:305`, `word_list.rs:64`). IndexedDB commits the write even
    if the task is dropped (`idb.rs:391`), and then no sync is asked for until the next
    change, press or start. Drills are written in a task that outlives the page
    (`drill_log.rs:64`). The model counts such a change as `lost`.

Smaller ones, not in the way of a property: a request whose own older delete moves a
tombstone back can get a card accepted that was added before the standing delete
(`deletions.rs:134` against the wording of `cards.rs:80`); with two accounts, a sync cut
short and a failed drop of the cursor, a delete can be told to the wrong account only
(`routes/settings.rs:341`); an extension page that saves a URL or token over knobs
changed meanwhile stamps the old knobs as a new edit, against `settings.ts:29`; two
pages that save can lose each other's token; equal stamps with different knobs are
taken by the server (`>=`) and refused by devices (`>`); a save of settings schedules no
sync; leaving the page with the mouse does not call off the pending hover; deleting the
last card never updates the underlines (`cards-backup.ts:43` skips an empty deck, though
`srs-highlighter.ts:115` counts on every delete); a late answer to "Add" puts a word
deleted meanwhile back among the known ones; two words with one headword hovered in
turn keep the first one's entries (`content.ts:308`); the list of known words drops
kanji cards when asked for and keeps them when told (`applyCardsChange`); the scan
cuts a text greedily from its beginning, the hover looks one character back, so a
word may show in the popup and not be underlined; when the question fails, it is not
asked again (`srs-highlighter.ts:94`); with no server saved, `schedule_sync` takes the
default one and arms a sync, which looks at what was saved and fails (`platform.rs:470`,
`:311`). Two are out of reach today: `drop_stale_cards`
rotates the epoch in a statement of its own (`schema.rs:343`), but a table without
`updated_ms` is older than the epoch; and an import that keeps its old `added_ms`
(`cards-backup.ts:33`) would be deleted again by the next sync, but nothing sends that
message, and the app's import stamps afresh (`cards_io.rs:134`).

## 7. Not modelled

Listed with reasons under `components`. In short:

* FSRS: floating point over one card, of which neither tool has anything to say. That
  is also why due dates, intervals and graduation are choices in ReviewSession.
* Rendering: the pages' markup, theme, icons, messages, statistics, and the part of
  the popup that shows the state of a card. It reads state and changes none.
* Builders, `xtask`, tests and type conversions, most of the code by lines: they run
  once, or only carry data from one shape to another. The integration tests were read
  for what they expect; they are not behaviour of the system.
* Kanji, example and romaji tables: lookups in immutable data.
* Rate limits and request size limits: in front of the sync; a request they refuse
  changes nothing it reads.

This is why the definitions stand for a small share of the repository's lines: what
is left is either in the list above or planned in section 8.

Left out within modelled parts: two writes in one millisecond (`idb.ts:659`); a failed
drop of the cursor after sign-in; the order of due cards; the preference for primary
entries in a selection lookup; the popup's pin. `SwitchOn` takes the 60 ms of a hover
from before the switch-off to be over, and `WriteCardsBackup` takes its read and write
as one.

## 8. Plan

Done: the sync (SyncRules, SyncServer, SnapshotReads, DeltaFeed, DeckSync, AnswerSync,
SyncScheduler, BackgroundScheduler), accounts and upgrade (OtpAuth, SchemaUpgrade), ReviewSession,
SettingsSync, Dictionary and PageReader; proofs of all their
invariants and action properties. Left:

1. A DeckSync in which two writes share a millisecond.
2. The restore of a wiped extension store from its copy, with a crash half way.
