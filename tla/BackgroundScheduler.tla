------------------------ MODULE BackgroundScheduler ------------------------
(***************************************************************************)
(* When the extension syncs: the debounce, in-flight and retry flags in    *)
(* extension/src/background/sync.ts. Unlike the app's (SyncScheduler), it  *)
(* reads its settings before it arms the one timer, has no sync at start,  *)
(* and loses all of its flags when the background page is unloaded.        *)
(*                                                                         *)
(* A handler runs to its next await. What a sync does is DeckSync; here it *)
(* takes up the changes made before it reads the store.                    *)
(***************************************************************************)
EXTENDS Naturals, FiniteSets

CONSTANTS MaxChanges,  \* bound on the changes of the store
          MaxPresses,  \* bound on presses of "Sync now"
          MaxBacklog,  \* bound on syncs that ask for another one
          MaxTurns,    \* bound on sign-ins and sign-outs
          MaxUnloads   \* bound on unloadings of the background page

ASSUME BackgroundAssumption ==
  {MaxChanges, MaxPresses, MaxBacklog, MaxTurns, MaxUnloads} \subseteq Nat

VARIABLES
  changes,   \* changes of the store, counted
  acked,     \* how many of them the server has acknowledged
  dropped,   \* how many of them were given up: nothing is bound to send them
  bumps,     \* changes whose bumpDbVersion has yet to ask for a sync
  signedIn,  \* the settings have a server and a token
  asked,     \* pending getSettings() of scheduleSync
  granted,   \* of these, answered with a token
  syncTimer, syncInFlight, syncRetry, \* the flags of sync.ts
  opening,   \* syncs that have not yet read the settings
  reading,   \* syncs that found a token there and have not yet read the store
  sending,   \* for each other sync under way, the changes it found there
  turns      \* how much of each bound is used up

flags == <<syncTimer, syncInFlight, syncRetry>>
checks == <<asked, granted>>
syncs == <<opening, reading, sending>>
counts == <<changes, acked, dropped, bumps>>
backgroundVars == <<counts, signedIn, checks, flags, syncs, turns>>

BackgroundTypeOK ==
  /\ changes \in 0..MaxChanges /\ acked \in 0..changes /\ dropped \in 0..changes
  /\ bumps \in 0..changes /\ asked \in Nat /\ granted \in Nat
  /\ opening \in Nat /\ reading \in Nat
  /\ signedIn \in BOOLEAN /\ syncTimer \in BOOLEAN
  /\ syncInFlight \in BOOLEAN /\ syncRetry \in BOOLEAN
  /\ sending \subseteq 0..changes

NoTurns == [presses |-> 0, backlog |-> 0, signs |-> 0, unloads |-> 0]

BackgroundInit ==
  /\ changes = 0 /\ acked = 0 /\ dropped = 0 /\ bumps = 0
  /\ signedIn \in BOOLEAN /\ asked = 0 /\ granted = 0
  /\ syncTimer = FALSE /\ syncInFlight = FALSE /\ syncRetry = FALSE
  /\ opening = 0 /\ reading = 0 /\ sending = {}
  /\ turns = NoTurns

-----------------------------------------------------------------------------
Takes(what, bound) == turns[what] < bound /\ turns' = [turns EXCEPT ![what] = @ + 1]

\* A handler of a message, or a page of the app, writes the store.
Change ==
  /\ changes < MaxChanges /\ changes' = changes + 1 /\ bumps' = bumps + 1
  /\ UNCHANGED <<acked, dropped, signedIn, checks, flags, syncs, turns>>

\* Mutant: a change made during a sync asks for nothing.
RequestLost == asked' = (IF syncInFlight THEN asked ELSE asked + 1) /\ UNCHANGED syncRetry

\* scheduleSync, up to its await.
Request ==
  IF syncInFlight THEN syncRetry' = TRUE /\ UNCHANGED asked
  ELSE asked' = asked + 1 /\ UNCHANGED syncRetry

\* Mutant: it is called by handlers that have written nothing, too.
BumpAlways ==
  /\ bumps' = bumps - 1
  /\ Request
  /\ UNCHANGED <<changes, acked, dropped, signedIn, granted, syncTimer, syncInFlight, syncs, turns>>

\* bumpDbVersion, once its writes to storage.local have gone through.
Bump ==
  /\ bumps > 0 /\ bumps' = bumps - 1
  /\ Request
  /\ UNCHANGED <<changes, acked, dropped, signedIn, granted, syncTimer, syncInFlight, syncs, turns>>

\* One of them fails: the handler does too, and asks for no sync.
BumpFails ==
  /\ bumps > 0 /\ bumps' = bumps - 1 /\ dropped' = changes
  /\ UNCHANGED <<changes, acked, signedIn, checks, flags, syncs, turns>>

\* The settings as scheduleSync finds them.
SettingsRead ==
  /\ asked > 0 /\ asked' = asked - 1
  /\ IF signedIn THEN granted' = granted + 1 /\ UNCHANGED dropped
     ELSE dropped' = changes /\ UNCHANGED granted
  /\ UNCHANGED <<changes, acked, bumps, signedIn, flags, syncs, turns>>

\* The rest of scheduleSync: a pending timer is replaced.
ArmTimer ==
  /\ granted > 0 /\ granted' = granted - 1
  /\ IF syncInFlight THEN syncRetry' = TRUE /\ UNCHANGED syncTimer
     ELSE syncTimer' = TRUE /\ UNCHANGED syncRetry
  /\ UNCHANGED <<counts, signedIn, asked, syncInFlight, syncs, turns>>

StartSync == syncInFlight' = TRUE /\ opening' = opening + 1

\* runSync.
TimerFires ==
  /\ syncTimer /\ syncTimer' = FALSE
  /\ IF syncInFlight THEN UNCHANGED <<syncInFlight, opening>> ELSE StartSync
  /\ UNCHANGED <<counts, signedIn, checks, syncRetry, reading, sending, turns>>

\* Mutant: a press starts a sync, whether or not one is in flight.
SyncCardsAnyway ==
  /\ Takes("presses", MaxPresses)
  /\ syncTimer' = FALSE /\ StartSync
  /\ UNCHANGED <<counts, signedIn, checks, syncRetry, reading, sending>>

\* handleSyncCards: "Sync now".
SyncCards ==
  /\ Takes("presses", MaxPresses)
  /\ syncTimer' = FALSE
  /\ IF syncInFlight THEN syncRetry' = TRUE /\ UNCHANGED <<syncInFlight, opening>>
     ELSE StartSync /\ UNCHANGED syncRetry
  /\ UNCHANGED <<counts, signedIn, checks, reading, sending>>

\* doSync reads its settings, and then the store.
FindToken ==
  /\ opening > 0 /\ signedIn
  /\ opening' = opening - 1 /\ reading' = reading + 1
  /\ UNCHANGED <<counts, signedIn, checks, flags, sending, turns>>

ReadStore ==
  /\ reading > 0
  /\ reading' = reading - 1 /\ sending' = sending \cup {changes}
  /\ UNCHANGED <<counts, signedIn, checks, flags, opening, turns>>

\* Mutant: the flag is cleared and nothing scheduled for it.
EndForgets(repeat) == syncInFlight' = FALSE /\ syncRetry' = FALSE /\ UNCHANGED asked

\* The end of a sync, in runSync and in handleSyncCards.
EndSync(repeat) ==
  /\ syncInFlight' = FALSE /\ syncRetry' = FALSE
  /\ asked' = IF syncRetry \/ repeat THEN asked + 1 ELSE asked

\* `repeat`: a refused cursor or an outbox backlog. What was found is not all up yet,
\* and another sync is asked for.
SyncLands(n) ==
  \E repeat \in BOOLEAN :
    /\ n \in sending /\ sending' = sending \ {n}
    /\ IF repeat THEN Takes("backlog", MaxBacklog) ELSE UNCHANGED turns
    /\ acked' = IF ~repeat /\ n > acked THEN n ELSE acked
    /\ EndSync(repeat)
    /\ UNCHANGED <<changes, dropped, bumps, signedIn, granted, syncTimer, opening, reading>>

\* A failed sync is repeated only if something asked for that while it ran.
GivesUp(n) == dropped' = IF ~syncRetry /\ n > dropped THEN n ELSE dropped

NotSignedIn ==
  /\ opening > 0 /\ ~signedIn /\ opening' = opening - 1
  /\ GivesUp(changes) /\ EndSync(FALSE)
  /\ UNCHANGED <<changes, acked, bumps, signedIn, granted, syncTimer, reading, sending, turns>>

\* The store cannot be read.
StoreFails ==
  /\ reading > 0 /\ reading' = reading - 1
  /\ GivesUp(changes) /\ EndSync(FALSE)
  /\ UNCHANGED <<changes, acked, bumps, signedIn, granted, syncTimer, opening, sending, turns>>

\* The network, the server or the store fails after that.
SyncBreaks(n) ==
  /\ n \in sending /\ sending' = sending \ {n}
  /\ GivesUp(n) /\ EndSync(FALSE)
  /\ UNCHANGED <<changes, acked, bumps, signedIn, granted, syncTimer, opening, reading, turns>>

SignInOrOut ==
  /\ Takes("signs", MaxTurns) /\ signedIn' = ~signedIn
  /\ UNCHANGED <<counts, checks, flags, syncs>>

\* The browser ends the background page, whatever it was doing. No sync follows when it
\* is loaded again, but a page of the app may yet send the message for its own write.
Unload ==
  /\ Takes("unloads", MaxUnloads)
  /\ bumps' \in 0..bumps /\ asked' = 0 /\ granted' = 0
  /\ opening' = 0 /\ reading' = 0 /\ sending' = {}
  /\ syncTimer' = FALSE /\ syncInFlight' = FALSE /\ syncRetry' = FALSE
  /\ dropped' = changes
  /\ UNCHANGED <<changes, acked, signedIn>>

Outside == Change \/ SyncCards \/ SignInOrOut \/ Unload

BackgroundTask ==
  \/ Bump \/ BumpFails \/ SettingsRead \/ ArmTimer \/ TimerFires
  \/ FindToken \/ NotSignedIn \/ ReadStore \/ StoreFails
  \/ \E n \in sending : SyncLands(n) \/ SyncBreaks(n)

BackgroundNext == Outside \/ BackgroundTask

\* Promises settle and timers fire while the page is there.
BackgroundSpec ==
  BackgroundInit /\ [][BackgroundNext]_backgroundVars /\ WF_backgroundVars(BackgroundTask)

-----------------------------------------------------------------------------
(* Properties.                                                             *)

\* "A separate IN_FLIGHT flag prevents overlapping requests" (sync.ts:55): the flag is
\* up exactly while a sync runs, and never two do.
NoOverlap == opening + reading + Cardinality(sending) = IF syncInFlight THEN 1 ELSE 0

\* "So no change is silently dropped" (sync.ts:57): the last change, unless the server
\* has it, has a sync coming: a timer, a check on its way to one, a sync that has it or
\* will read it, or the flag to run another. Given up is a change only if its sync
\* failed with no repeat asked for, if no token was found, if storage.local failed, or
\* if the page was unloaded.
NoChangeDropped ==
  changes > acked /\ changes > dropped =>
    \/ bumps > 0 \/ asked > 0 \/ granted > 0 \/ syncTimer
    \/ syncInFlight /\ (syncRetry \/ opening > 0 \/ reading > 0 \/ changes \in sending)

\* And it comes: each change is acknowledged in the end or given up.
EveryChangeLands == \A n \in 1..MaxChanges : changes = n ~> acked >= n \/ dropped >= n
=============================================================================
