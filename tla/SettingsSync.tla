---------------------------- MODULE SettingsSync ----------------------------
(***************************************************************************)
(* The scheduler settings of one account, on its devices and the server:   *)
(* saved from settings pages, uploaded with every sync and adopted from    *)
(* its answer (extension/src/background/settings.ts, LocalSettings and     *)
(* do_sync in app/shared/src/platform.rs, routes/settings.rs).             *)
(*                                                                         *)
(* All four knobs are one value here, since they are compared, stamped and *)
(* replaced together. The server URL, email and token of a device travel   *)
(* through the same saves and are never merged: they are what makes a page *)
(* save knobs its user did not touch.                                      *)
(*                                                                         *)
(* A page holds the settings it was opened with. In the extension it hands *)
(* its copy to the background page, whose storage yields between reading   *)
(* the stored settings and writing; the app's key-value store does not.    *)
(***************************************************************************)
EXTENDS SyncRules

CONSTANTS Device,
          App,         \* devices running the app, the others the extension
          Racing,      \* devices on which something may get between read and write
          Careful,     \* devices whose user opens the page anew after every save
                       \* and every adoption
          Ahead,       \* devices whose clock is fast
          Knobs,       \* contents of the four synced fields
          Default,     \* what an untouched device has
          MaxSaves,    \* bound on the saves and sign-ins of all devices
          MaxFailures  \* bound on the syncs that end in an error

ASSUME SettingsAssumption ==
  /\ App \subseteq Device /\ Racing \subseteq Device \ App
  /\ Careful \subseteq Device /\ Ahead \subseteq Device
  /\ Default \in Knobs
  /\ MaxSaves \in Nat /\ MaxFailures \in Nat

VARIABLES
  stored,    \* each device's settings
  page,      \* what its open settings page holds, or None
  saving,    \* a save under way: what is saved, and the settings it is compared with
  job,       \* the sync in progress
  row,       \* the server's row of the account
  now,       \* ticks with every edit: no two edits share a stamp
  edited,    \* history: the stamp of the last knob change made on each device
  spent      \* saves and failed syncs so far

vars == <<stored, page, saving, job, row, now, edited, spent>>

Settings == [knobs: Knobs, updated: Nat]

Step == {"idle", "sent", "answered", "adopting"}

NoJob == [step |-> "idle", upload |-> None, answer |-> None]
NoSave == [step |-> "idle", copy |-> None, prev |-> None]

Init ==
  /\ stored = [d \in Device |-> [knobs |-> Default, updated |-> 0]]
  /\ page = [d \in Device |-> None]
  /\ saving = [d \in Device |-> NoSave]
  /\ job = [d \in Device |-> NoJob]
  /\ row = None
  /\ now = 0 /\ edited = [d \in Device |-> 0]
  /\ spent = [saves |-> 0, failures |-> 0]

\* An update of the store that has begun is finished first, except on Racing devices.
Free(d) == d \in Racing \/ (saving[d].step = "idle" /\ job[d].step # "adopting")

\* A fast clock is past every stamp of the others, for as long as a run lasts.
Clock(d) == IF d \in Ahead THEN now + MaxSaves ELSE now

Put(d, s) ==
  /\ stored' = [stored EXCEPT ![d] = s]
  /\ page' = IF d \in Careful THEN [page EXCEPT ![d] = None] ELSE page

-----------------------------------------------------------------------------
(* The user and the settings page.                                         *)

Open(d) ==
  /\ Free(d)
  /\ page' = [page EXCEPT ![d] = stored[d]]
  /\ UNCHANGED <<stored, saving, job, row, now, edited, spent>>

Edit(d, k) ==
  /\ page[d] # None
  /\ page' = [page EXCEPT ![d].knobs = k]
  /\ UNCHANGED <<stored, saving, job, row, now, edited, spent>>

Begun(d, copy) ==
  /\ Free(d) /\ saving[d].step = "idle"
  /\ spent.saves < MaxSaves /\ spent' = [spent EXCEPT !.saves = @ + 1]
  /\ saving' = [saving EXCEPT ![d] = [step |-> "read", copy |-> copy, prev |-> None]]
  /\ UNCHANGED <<stored, page, job, row, now, edited>>

\* "Save changes", or the page storing the token of a sign-in: both save the whole
\* copy the page holds.
Press(d) == page[d] # None /\ Begun(d, page[d])

\* On a sign-in the extension's background page stores the token first, over the
\* settings it has just read.
StoreToken(d) == d \notin App /\ Begun(d, stored[d])

SaveRead(d) ==
  /\ saving[d].step = "read"
  /\ saving' = [saving EXCEPT ![d].step = "write", ![d].prev = stored[d]]
  /\ UNCHANGED <<stored, page, job, row, now, edited, spent>>

Changed(s) == s.copy.knobs # s.prev.knobs

\* Mutant: the extension too trusts the stamp of the page's copy.
StampOfCopy(d, s) == IF Changed(s) THEN Clock(d) + 1 ELSE s.copy.updated

\* A save that changes no knob keeps a stamp: the stored one in the extension, the
\* one the page was opened with in the app.
SavedStamp(d, s) ==
  IF Changed(s) THEN Clock(d) + 1
  ELSE IF d \in App THEN s.copy.updated ELSE s.prev.updated

SaveWrite(d) ==
  \E s \in {saving[d]} :
    /\ s.step = "write"
    /\ Put(d, [knobs |-> s.copy.knobs, updated |-> SavedStamp(d, s)])
    /\ now' = IF Changed(s) THEN now + 1 ELSE now
    /\ edited' = IF Changed(s) THEN [edited EXCEPT ![d] = Clock(d) + 1] ELSE edited
    /\ saving' = [saving EXCEPT ![d] = NoSave]
    /\ UNCHANGED <<job, row, spent>>

-----------------------------------------------------------------------------
(* A sync, as far as the settings go.                                      *)

\* The extension sends nothing if this device has never had an edit.
Upload(d) == IF d \notin App /\ stored[d].updated = 0 THEN None ELSE stored[d]

Begin(d) ==
  /\ Free(d) /\ job[d].step = "idle"
  /\ job' = [job EXCEPT ![d] = [NoJob EXCEPT !.step = "sent", !.upload = Upload(d)]]
  /\ UNCHANGED <<stored, page, saving, row, now, edited, spent>>

Handle(d) ==
  /\ job[d].step = "sent"
  /\ row' = UpsertSettings(row, job[d].upload)
  /\ job' = [job EXCEPT ![d].step = "answered", ![d].answer = row']
  /\ UNCHANGED <<stored, page, saving, now, edited, spent>>

\* Mutant: the answer's settings are taken whatever happened here meanwhile.
AdoptReadAlways(d) ==
  /\ Free(d) /\ job[d].step = "answered"
  /\ job' = IF job[d].answer # None
            THEN [job EXCEPT ![d].step = "adopting"] ELSE [job EXCEPT ![d] = NoJob]
  /\ UNCHANGED <<stored, page, saving, row, now, edited, spent>>

\* The settings are read again, not taken from the start of the sync.
AdoptRead(d) ==
  /\ Free(d) /\ job[d].step = "answered"
  /\ job' = IF job[d].answer # None /\ job[d].answer.updated > stored[d].updated
            THEN [job EXCEPT ![d].step = "adopting"] ELSE [job EXCEPT ![d] = NoJob]
  /\ UNCHANGED <<stored, page, saving, row, now, edited, spent>>

\* The server's stamp is kept: a fresh one would send them back as an edit.
AdoptWrite(d) ==
  /\ job[d].step = "adopting"
  /\ Put(d, job[d].answer)
  /\ job' = [job EXCEPT ![d] = NoJob]
  /\ UNCHANGED <<saving, row, now, edited, spent>>

Fail(d) ==
  /\ job[d].step \in {"sent", "answered"}
  /\ spent.failures < MaxFailures /\ spent' = [spent EXCEPT !.failures = @ + 1]
  /\ job' = [job EXCEPT ![d] = NoJob]
  /\ UNCHANGED <<stored, page, saving, row, now, edited>>

-----------------------------------------------------------------------------
User(d) == Open(d) \/ (\E k \in Knobs : Edit(d, k)) \/ Press(d) \/ StoreToken(d)

Save(d) == SaveRead(d) \/ SaveWrite(d)

Sync(d) == Handle(d) \/ AdoptRead(d) \/ AdoptWrite(d)

Next == \E d \in Device : User(d) \/ Save(d) \/ Begin(d) \/ Sync(d) \/ Fail(d)

\* A save and a sync that have begun go on, and a device in use syncs again: at the
\* next start, or after the next change of the deck. (A save asks for no sync.)
Spec ==
  /\ Init /\ [][Next]_vars
  /\ \A d \in Device : WF_vars(Save(d)) /\ WF_vars(Begin(d)) /\ WF_vars(Sync(d))

-----------------------------------------------------------------------------
(* Properties.                                                             *)

\* "Wall-clock ms of the last scheduler edit on this device" (app/shared/src/
\* settings.rs:33): no save of a URL or token, no page that was open meanwhile and
\* no answer puts a stamp older than that edit on a device's settings, so it is
\* not an edit the user made there before that decides the next merge.
StampIsLastEdit == \A d \in Device \ Racing : stored[d].updated >= edited[d]

\* Once nobody saves any more, all devices come to the same settings, and stay
\* there: no two of them keep sending each other their own. Also with pages that
\* save an old copy, a save and an adoption that overwrite each other, fast clocks
\* and syncs that fail.
DevicesAgree == <>[](\A d, e \in Device : stored[d] = stored[e])
=============================================================================
