--------------------------- MODULE SyncScheduler ---------------------------
(***************************************************************************)
(* When the app syncs: the debounce, in-flight and retry flags around      *)
(* do_sync in app/shared/src/platform.rs, the "Sync now" button and the    *)
(* sync at startup (app/shared/src/app.rs). What a sync does is DeckSync   *)
(* and AnswerSync; here it takes up every change written before it began   *)
(* and succeeds, fails, or is dropped with the page that runs it.          *)
(*                                                                         *)
(* A debounce task sleeps with the generation it was armed with. All of    *)
(* this is one task queue: a step runs to its next await. Tasks of the     *)
(* debounce, of the start and of the drill log outlive the page shown;     *)
(* those of a press and of a page's own writes end with it (rt.rs:60).     *)
(***************************************************************************)
EXTENDS Naturals

CONSTANTS MaxWrites,     \* bound on the changes the user makes
          MaxManual,     \* bound on presses of "Sync now"
          MaxAgain,      \* bound on syncs that ask for another one
          MaxFailedSyncs, \* bound on syncs that fail
          MaxConnections, \* bound on sign-ins and on clearings of the server's URL
          MaxRestarts    \* bound on closings of the app

ASSUME SchedulerAssumption ==
  {MaxWrites, MaxManual, MaxAgain, MaxFailedSyncs, MaxConnections, MaxRestarts} \subseteq Nat

VARIABLES
  written,    \* changes in the store, counted
  uploaded,   \* how many of them the server has acknowledged
  lost,       \* how many of them were given up: nothing is bound to send them
  calls,      \* a page's writes that have not yet called schedule_sync
  drills,     \* the same of the drill log, whose tasks outlive the page
  configured, \* the settings have a server and a token
  generation, \* SyncState.generation
  inFlight,   \* SyncState.in_flight
  retry,      \* SyncState.retry
  asleep,     \* generations of the sleeping debounce tasks
  running,    \* the syncs under way: the changes each found, the task it is in
  stranded,   \* whether a pressed sync was dropped with its page since the app started
  used        \* how much of each bound is used up

state == <<generation, inFlight, retry, asleep>>
pending == <<calls, drills>>
schedulerVars ==
  <<written, uploaded, lost, pending, configured, state, running, stranded, used>>

SyncOf(found) == [found : found, by : {"debounce", "start", "page"}]

SchedulerTypeOK ==
  /\ written \in 0..MaxWrites /\ uploaded \in 0..written /\ lost \in 0..written
  /\ calls \in 0..written /\ drills \in 0..written
  /\ generation \in Nat /\ asleep \subseteq 1..generation
  /\ configured \in BOOLEAN /\ inFlight \in BOOLEAN /\ retry \in BOOLEAN
  /\ stranded \in BOOLEAN
  /\ running \subseteq SyncOf(0..written)

Unused == [manual |-> 0, again |-> 0, failures |-> 0, connections |-> 0, restarts |-> 0]

\* The app has been opened: it syncs, if it can.
SchedulerInit ==
  /\ written = 0 /\ uploaded = 0 /\ lost = 0 /\ calls = 0 /\ drills = 0
  /\ configured \in BOOLEAN
  /\ generation = 1 /\ inFlight = configured /\ retry = FALSE /\ asleep = {}
  /\ running = IF configured THEN {[found |-> 0, by |-> "start"]} ELSE {}
  /\ stranded = FALSE
  /\ used = Unused

-----------------------------------------------------------------------------
Uses(what, bound) == used[what] < bound /\ used' = [used EXCEPT ![what] = @ + 1]

Arm ==
  /\ generation' = generation + 1
  /\ asleep' = asleep \cup {generation + 1}

\* do_sync up to its first await. With nothing configured it ends there and the flag
\* is cleared at once; no repeat can have been asked for.
Start(by) ==
  IF configured
  THEN /\ inFlight' = TRUE /\ running' = running \cup {[found |-> written, by |-> by]}
       /\ UNCHANGED lost
  ELSE lost' = written /\ UNCHANGED <<inFlight, running>>

\* A page or the drill log writes the store. A page left while its transaction runs
\* cannot take it back (idb.rs:391), and then nobody asks for a sync.
Write ==
  /\ written < MaxWrites /\ written' = written + 1
  /\ \/ calls' = calls + 1 /\ UNCHANGED <<drills, lost>>
     \/ drills' = drills + 1 /\ UNCHANGED <<calls, lost>>
     \/ lost' = written + 1 /\ UNCHANGED pending
  /\ UNCHANGED <<uploaded, configured, state, running, stranded, used>>

\* Mutant: a change made during a sync is left to it.
AskDropped ==
  /\ IF configured THEN UNCHANGED lost ELSE lost' = written
  /\ IF configured /\ ~inFlight THEN Arm /\ UNCHANGED <<inFlight, retry>> ELSE UNCHANGED state

\* schedule_sync.
Ask ==
  \/ /\ ~configured /\ lost' = written
     /\ UNCHANGED state
  \/ /\ configured /\ inFlight /\ retry' = TRUE
     /\ UNCHANGED <<lost, generation, inFlight, asleep>>
  \/ /\ configured /\ ~inFlight /\ Arm
     /\ UNCHANGED <<lost, inFlight, retry>>

\* It is called after the write has gone through.
ScheduleSync ==
  /\ \/ calls > 0 /\ calls' = calls - 1 /\ UNCHANGED drills
     \/ drills > 0 /\ drills' = drills - 1 /\ UNCHANGED calls
  /\ Ask
  /\ UNCHANGED <<written, uploaded, configured, running, stranded, used>>

\* A task whose generation has passed returns without syncing.
Wake(g) ==
  /\ g \in asleep /\ asleep' = asleep \ {g}
  /\ IF g = generation /\ ~inFlight THEN Start("debounce")
     ELSE UNCHANGED <<lost, inFlight, running>>
  /\ UNCHANGED <<written, uploaded, pending, configured, generation, retry, stranded, used>>

\* Mutant: "Sync now" does not look whether a sync is in flight.
SyncNowAnyway ==
  /\ Uses("manual", MaxManual)
  /\ generation' = generation + 1
  /\ Start("page")
  /\ UNCHANGED <<written, uploaded, pending, configured, retry, asleep, stranded>>

\* sync_now, pressed on the settings page, or called there after signing in: it cancels
\* the pending debounce and syncs, or asks for a repeat. The button is off while a sync
\* of the page runs.
SyncNow ==
  /\ Uses("manual", MaxManual)
  /\ \A s \in running : s.by # "page"
  /\ generation' = generation + 1
  /\ \/ inFlight /\ retry' = TRUE /\ UNCHANGED <<lost, inFlight, running>>
     \/ ~inFlight /\ Start("page") /\ UNCHANGED retry
  /\ UNCHANGED <<written, uploaded, pending, configured, asleep, stranded>>

\* Leaving a page drops its tasks where they are. A pressed sync does not come to the
\* line that clears the flag; a write that has gone through does not ask for a sync.
LeavePage ==
  /\ calls > 0 \/ \E s \in running : s.by = "page"
  /\ running' = {s \in running : s.by # "page"}
  /\ stranded' = (stranded \/ running' # running)
  /\ calls' = 0
  /\ lost' = IF calls > 0 THEN written ELSE lost
  /\ UNCHANGED <<written, uploaded, drills, configured, state, used>>

\* The settings page saves a token, or an empty URL.
SaveConnection ==
  /\ Uses("connections", MaxConnections)
  /\ configured' = ~configured
  /\ UNCHANGED <<written, uploaded, lost, pending, state, running, stranded>>

\* A repeat was asked for, mid-flight or by the sync itself. arm_sync arms it as it is;
\* sync_now calls schedule_sync, which looks at the settings first.
Repeats(s, again) == (retry \/ again) /\ (s.by = "debounce" \/ configured)

\* Mutant: the flag is cleared but no debounce is armed for it.
RearmForgotten(s, again) == retry' = FALSE /\ UNCHANGED <<generation, asleep>>

Rearm(s, again) ==
  /\ retry' = FALSE
  /\ IF Repeats(s, again) THEN Arm ELSE UNCHANGED <<generation, asleep>>

\* The end of a sync. Without a repeat, `abandoned` changes are given up; and all of
\* them, if one was asked for and refused.
Finish(s, again, abandoned) ==
  LET gone == IF Repeats(s, again) THEN 0
              ELSE IF retry \/ again THEN written ELSE abandoned IN
  /\ s \in running /\ running' = running \ {s}
  /\ inFlight' = FALSE
  /\ lost' = IF gone > lost THEN gone ELSE lost
  /\ Rearm(s, again)
  /\ UNCHANGED <<written, pending, configured, stranded>>

\* `again`: a refused cursor or an outbox backlog. What was found is not all up yet,
\* and another sync is asked for.
Succeed(s) ==
  \E again \in BOOLEAN :
    /\ IF again THEN Uses("again", MaxAgain) ELSE UNCHANGED used
    /\ uploaded' = IF ~again /\ s.found > uploaded THEN s.found ELSE uploaded
    /\ Finish(s, again, 0)

SyncFails(s) ==
  /\ Uses("failures", MaxFailedSyncs)
  /\ Finish(s, FALSE, s.found)
  /\ UNCHANGED uploaded

\* The app starts, with nothing left of the tasks and flags of the last time.
Launch ==
  /\ Uses("restarts", MaxRestarts)
  /\ calls' = 0 /\ drills' = 0 /\ retry' = FALSE /\ stranded' = FALSE
  /\ generation' = 1
  /\ inFlight' = configured
  /\ running' = IF configured THEN {[found |-> written, by |-> "start"]} ELSE {}
  /\ lost' = IF configured THEN lost ELSE written
  /\ UNCHANGED <<written, uploaded, configured>>

\* Mutant: the sleeping tasks of the closed app are still around.
RestartKeepsTasks == Launch /\ UNCHANGED asleep

\* The app is closed, whatever it was doing, and opened again: it syncs at once.
Restart == Launch /\ asleep' = {}

UserActs == Write \/ SyncNow \/ LeavePage \/ SaveConnection \/ Restart

Task ==
  \/ ScheduleSync
  \/ \E g \in asleep : Wake(g)
  \/ \E s \in running : Succeed(s) \/ SyncFails(s)

SchedulerNext == UserActs \/ Task

\* The runtime wakes every sleeping task and resumes every finished request, as long
\* as their tasks are there. The user need not do anything.
SchedulerSpec == SchedulerInit /\ [][SchedulerNext]_schedulerVars /\ WF_schedulerVars(Task)

-----------------------------------------------------------------------------
(* Properties.                                                             *)

\* Two syncs never overlap, whatever mix of debounces, retries and presses; and the flag
\* is up exactly while one runs, or for good once a pressed one was dropped with its
\* page (platform.rs:518): nothing runs then.
OneAtATime ==
  /\ \A r, s \in running : r = s
  /\ inFlight <=> running # {} \/ stranded
  /\ stranded => running = {}

\* Every change the server lacks is on its way: its debounce sleeps with the
\* current generation, or the running sync has it or is flagged to repeat, or its
\* schedule_sync is still to be called. Given up is a change only if its sync failed or
\* had no token, with no repeat to follow, or if its page was left before it could ask.
\* And nothing is on its way once the flag is up for good.
EveryChangeIsScheduled ==
  written > uploaded /\ written > lost /\ ~stranded =>
    \/ generation \in asleep
    \/ inFlight /\ (retry \/ \E s \in running : s.found = written)
    \/ calls + drills > 0

\* "So every pending change eventually goes up" (platform.rs:250), with the same two
\* exceptions; the code knows no second try and no way to lower the flag.
EveryChangeGoesUp ==
  \A n \in 1..MaxWrites : written = n ~> uploaded >= n \/ lost >= n \/ stranded
=============================================================================
