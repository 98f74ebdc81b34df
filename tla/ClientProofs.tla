---------------------------- MODULE ClientProofs ----------------------------
(***************************************************************************)
(* Proofs about three small parts of a client, each by itself.             *)
(*                                                                         *)
(* SyncScheduler: types, one sync at a time, and that a change the server  *)
(* lacks has a sync coming or was given up, for any number of changes,     *)
(* presses, pages left, sign-ins, repeats, failures and restarts; and that *)
(* a pressed sync dropped with its page ends all that until a restart.     *)
(*                                                                         *)
(* BackgroundScheduler: the same for the extension's scheduler, where a    *)
(* change may also be given up, for any number of sign-ins and unloads.    *)
(*                                                                         *)
(* SettingsSync: no device's settings fall behind the last edit made on    *)
(* it, for any devices, knobs, clocks and bounds. In the app this rests on *)
(* the page being opened anew after each save and each adoption (Careful). *)
(***************************************************************************)
EXTENDS ClientSchedulers, SettingsSync, FiniteSetTheorems, TLAPS

-----------------------------------------------------------------------------
(* When the app syncs.                                                     *)

Totals ==
  /\ written \in 0..MaxWrites /\ uploaded \in 0..written /\ lost \in 0..written
  /\ calls \in 0..written /\ drills \in 0..written

Generations == generation \in Nat /\ asleep \subseteq 1..generation

RunningTyped == running \subseteq SyncOf(0..written)

Flags ==
  /\ configured \in BOOLEAN /\ inFlight \in BOOLEAN
  /\ retry \in BOOLEAN /\ stranded \in BOOLEAN

\* A repeat is only ever asked of a sync under way.
RetryInFlight == retry => inFlight

\* The debounce of the current generation only sleeps between syncs, so that its
\* waking is never ignored.
DebounceBetweenSyncs == inFlight => generation \notin asleep

\* A sync under way has the last change, or will be followed by another, or the
\* change has not asked for a sync yet or never will. It holds after a failure, too.
FlightCovers ==
  running # {} =>
    \/ retry \/ calls + drills > 0 \/ lost = written
    \/ \E s \in running : s.found = written

\* Between syncs, what the server lacks has a debounce, unless it was given up.
RestCovers ==
  ~inFlight /\ written > uploaded /\ written > lost =>
    generation \in asleep \/ calls + drills > 0

SchedulerTyped == Totals /\ Generations /\ RunningTyped /\ Flags

SchedulerInv ==
  /\ SchedulerTyped
  /\ OneAtATime /\ RetryInFlight /\ DebounceBetweenSyncs /\ FlightCovers /\ RestCovers

LEMMA Bounds == MaxWrites \in Nat
BY SchedulerAssumption DEF SchedulerAssumption

\* A new generation is the latest of those asleep.
LEMMA ArmCounts == ASSUME Generations, Arm PROVE Generations'
<1>1. generation' \in Nat /\ generation' = generation + 1
  BY DEF Arm, Generations
<1>2. \A g \in asleep : g \in 1..generation'
  BY <1>1 DEF Generations
<1>3. generation' \in 1..generation'
  BY <1>1 DEF Generations
<1> QED BY <1>1, <1>2, <1>3 DEF Arm, Generations

\* A sync begins only between syncs, and then it is the only one.
LEMMA StartCounts ==
  ASSUME SchedulerInv, ~inFlight, NEW by \in {"debounce", "start", "page"}, Start(by),
         UNCHANGED <<written, configured, retry, stranded>>
  PROVE  /\ lost' \in 0..written /\ RunningTyped'
         /\ inFlight' \in BOOLEAN
         /\ OneAtATime'
         /\ running' = {} \/ \E s \in running' : s.found = written
         /\ ~inFlight' => lost' = written
<1>1. running = {} /\ ~stranded BY DEF SchedulerInv, OneAtATime
<1>2. CASE configured
  <2>1. inFlight' = TRUE /\ running' = {[found |-> written, by |-> by]} /\ lost' = lost
    BY <1>1, <1>2 DEF Start
  <2>2. [found |-> written, by |-> by] \in SyncOf(0..written)
    BY Bounds DEF SchedulerInv, SchedulerTyped, Totals, SyncOf
  <2>3. RunningTyped' BY <2>1, <2>2 DEF RunningTyped, SyncOf
  <2>4. OneAtATime' BY <1>1, <2>1 DEF OneAtATime
  <2> QED BY <2>1, <2>3, <2>4 DEF SchedulerInv, SchedulerTyped, Totals
<1>3. CASE ~configured
  <2>1. lost' = written /\ inFlight' = inFlight /\ running' = {}
    BY <1>1, <1>3 DEF Start
  <2>2. RunningTyped' BY <2>1 DEF RunningTyped
  <2>3. OneAtATime' BY <1>1, <2>1 DEF OneAtATime
  <2>4. inFlight' \in BOOLEAN BY <2>1 DEF SchedulerInv, SchedulerTyped, Flags
  <2>5. lost' \in 0..written BY <2>1, Bounds DEF SchedulerInv, SchedulerTyped, Totals
  <2> QED BY <2>1, <2>2, <2>3, <2>4, <2>5
<1> QED BY <1>2, <1>3

LEMMA InitSound == SchedulerInit => SchedulerInv
<1> SUFFICES ASSUME SchedulerInit PROVE SchedulerInv
  OBVIOUS
<1>1. Totals BY Bounds DEF SchedulerInit, Totals
<1>2. Generations BY DEF SchedulerInit, Generations
<1>3. RunningTyped BY <1>1 DEF SchedulerInit, RunningTyped, Totals, SyncOf
<1>4. Flags BY DEF SchedulerInit, Flags
<1>5. OneAtATime /\ RetryInFlight BY DEF SchedulerInit, OneAtATime, RetryInFlight
<1>6. DebounceBetweenSyncs /\ RestCovers
  BY DEF SchedulerInit, DebounceBetweenSyncs, RestCovers
<1>7. FlightCovers BY DEF SchedulerInit, FlightCovers
<1> QED
  BY <1>1, <1>2, <1>3, <1>4, <1>5, <1>6, <1>7 DEF SchedulerInv, SchedulerTyped

-----------------------------------------------------------------------------
(* What the user does.                                                     *)

LEMMA WriteSound == SchedulerInv /\ Write => SchedulerInv'
<1> SUFFICES ASSUME SchedulerInv, Write PROVE SchedulerInv'
  OBVIOUS
<1> USE DEF SchedulerInv, SchedulerTyped, Write, state, pending
<1>1. Totals' BY Bounds DEF Totals
<1>2. Generations' BY DEF Generations
<1>3. RunningTyped'
  <2>1. \A n \in 0..written : n \in 0..written' BY DEF Totals
  <2> QED BY <2>1 DEF RunningTyped, SyncOf
<1>4. Flags' BY DEF Flags
<1>5. OneAtATime' /\ RetryInFlight' BY DEF OneAtATime, RetryInFlight
<1>6. DebounceBetweenSyncs' BY DEF DebounceBetweenSyncs
<1>7. calls' + drills' > 0 \/ lost' = written' BY DEF Totals
<1>8. FlightCovers' BY <1>7 DEF FlightCovers
<1>9. lost' = written' => ~(written' > lost') BY <1>1 DEF Totals
<1>10. RestCovers' BY <1>7, <1>9 DEF RestCovers
<1> QED BY <1>1, <1>2, <1>3, <1>4, <1>5, <1>6, <1>8, <1>10

LEMMA SyncNowSound == SchedulerInv /\ SyncNow => SchedulerInv'
<1> SUFFICES ASSUME SchedulerInv, SyncNow PROVE SchedulerInv'
  OBVIOUS
<1> USE DEF SchedulerInv, SchedulerTyped, SyncNow, pending
<1>1. Generations' BY DEF Generations
<1>2. generation' \notin asleep' BY DEF Generations
<1>3. CASE inFlight
  <2> USE <1>3
  <2>1. Totals' BY DEF Totals
  <2>2. RunningTyped' BY DEF RunningTyped, SyncOf
  <2>3. Flags' BY DEF Flags
  <2>4. OneAtATime' /\ RetryInFlight' BY DEF OneAtATime, RetryInFlight
  <2>5. DebounceBetweenSyncs' BY <1>2 DEF DebounceBetweenSyncs
  <2>6. FlightCovers' /\ RestCovers' BY DEF FlightCovers, RestCovers
  <2> QED BY <1>1, <2>1, <2>2, <2>3, <2>4, <2>5, <2>6
<1>4. CASE ~inFlight
  <2>0. /\ Start("page") /\ UNCHANGED <<written, uploaded, calls, drills>>
        /\ UNCHANGED <<configured, retry, stranded>>
    BY <1>4
  <2>1. /\ lost' \in 0..written /\ RunningTyped' /\ inFlight' \in BOOLEAN /\ OneAtATime'
        /\ running' = {} \/ \E s \in running' : s.found = written
        /\ ~inFlight' => lost' = written
    BY <1>4, <2>0, StartCounts
  <2>2. Totals' BY <2>0, <2>1 DEF Totals
  <2>3. Flags' BY <2>0, <2>1 DEF Flags
  <2>4. RetryInFlight' BY <1>4, <2>0 DEF RetryInFlight
  <2>5. DebounceBetweenSyncs' BY <1>2 DEF DebounceBetweenSyncs
  <2>6. FlightCovers' BY <2>0, <2>1 DEF FlightCovers
  <2>7. RestCovers' BY <2>0, <2>1, <2>2 DEF RestCovers, Totals
  <2> QED BY <1>1, <2>1, <2>2, <2>3, <2>4, <2>5, <2>6, <2>7
<1> QED BY <1>3, <1>4

\* What goes with the page: its sync, and the flag stays up for good; its calls, and the
\* last change is given up.
LEMMA LeavePageSound == SchedulerInv /\ LeavePage => SchedulerInv'
<1> SUFFICES ASSUME SchedulerInv, LeavePage PROVE SchedulerInv'
  OBVIOUS
<1> USE DEF SchedulerInv, SchedulerTyped, LeavePage, state
<1>1. Totals' BY Bounds DEF Totals
<1>2. Generations' BY DEF Generations
<1>3. RunningTyped' BY DEF RunningTyped, SyncOf
<1>4. Flags' BY DEF Flags
<1>5. running' = running \/ (running # {} /\ running' = {} /\ stranded')
  BY DEF OneAtATime
<1>6. OneAtATime' BY <1>5 DEF OneAtATime, Flags
<1>7. RetryInFlight' /\ DebounceBetweenSyncs' BY DEF RetryInFlight, DebounceBetweenSyncs
<1>8. (calls = calls' /\ lost = lost') \/ lost' = written' BY DEF Totals
<1>9. FlightCovers' BY <1>5, <1>8 DEF FlightCovers
<1>10. RestCovers' BY <1>1, <1>8 DEF RestCovers, Totals
<1> QED BY <1>1, <1>2, <1>3, <1>4, <1>6, <1>7, <1>9, <1>10

LEMMA SaveConnectionSound == SchedulerInv /\ SaveConnection => SchedulerInv'
<1> SUFFICES ASSUME SchedulerInv, SaveConnection PROVE SchedulerInv'
  OBVIOUS
<1> USE DEF SchedulerInv, SchedulerTyped, SaveConnection, state, pending
<1>1. Totals' /\ Generations' /\ RunningTyped'
  BY DEF Totals, Generations, RunningTyped, SyncOf
<1>2. Flags' BY DEF Flags
<1>3. OneAtATime' /\ RetryInFlight' /\ DebounceBetweenSyncs'
  BY DEF OneAtATime, RetryInFlight, DebounceBetweenSyncs
<1>4. FlightCovers' /\ RestCovers' BY DEF FlightCovers, RestCovers
<1> QED BY <1>1, <1>2, <1>3, <1>4

LEMMA RestartSound == SchedulerInv /\ Restart => SchedulerInv'
<1> SUFFICES ASSUME SchedulerInv, Restart PROVE SchedulerInv'
  OBVIOUS
<1> USE DEF SchedulerInv, SchedulerTyped, Restart, Launch
<1>1. Totals' BY Bounds DEF Totals
<1>2. Generations' BY DEF Generations
<1>3. RunningTyped' BY <1>1 DEF RunningTyped, Totals, SyncOf
<1>4. Flags' BY DEF Flags
<1>5. OneAtATime' BY DEF OneAtATime, Flags
<1>6. RetryInFlight' /\ DebounceBetweenSyncs' BY DEF RetryInFlight, DebounceBetweenSyncs
<1>7. FlightCovers' BY DEF FlightCovers
<1>8. RestCovers' BY <1>1 DEF RestCovers, Totals, Flags
<1> QED BY <1>1, <1>2, <1>3, <1>4, <1>5, <1>6, <1>7, <1>8

-----------------------------------------------------------------------------
(* What the tasks do.                                                      *)

\* schedule_sync: it flags the sync under way, arms a debounce, or gives up.
LEMMA AskSound ==
  ASSUME SchedulerInv, Ask, UNCHANGED <<written, uploaded, configured, running, stranded>>,
         calls' \in 0..written, drills' \in 0..written
  PROVE  SchedulerInv'
<1> USE DEF SchedulerInv, SchedulerTyped, Ask, state
<1>1. Totals' BY Bounds DEF Totals, Arm
<1>2. Generations'
  <2>1. CASE Arm BY <2>1, ArmCounts
  <2>2. CASE UNCHANGED <<generation, asleep>> BY <2>2 DEF Generations
  <2> QED BY <2>1, <2>2
<1>3. RunningTyped' BY DEF RunningTyped, SyncOf
<1>4. Flags' BY DEF Flags, Arm
<1>5. OneAtATime' BY DEF OneAtATime
<1>6. RetryInFlight' BY DEF RetryInFlight
<1>7. DebounceBetweenSyncs'
  <2>1. inFlight' = inFlight BY DEF Arm
  <2>2. inFlight => UNCHANGED <<generation, asleep>> OBVIOUS
  <2> QED BY <2>1, <2>2 DEF DebounceBetweenSyncs
<1>8. \/ lost' = written'
      \/ inFlight' /\ retry'
      \/ ~inFlight' /\ generation' \in asleep'
  <2>1. CASE ~configured BY <2>1
  <2>2. CASE configured /\ inFlight BY <2>2
  <2>3. CASE configured /\ ~inFlight BY <2>3 DEF Arm
  <2> QED BY <2>1, <2>2, <2>3
<1>9. FlightCovers'
  <2>1. running' # {} => inFlight' BY <1>5 DEF OneAtATime
  <2> QED BY <1>8, <2>1 DEF FlightCovers
<1>10. RestCovers'
  <2>1. lost' = written' => ~(written' > lost') BY <1>1 DEF Totals
  <2> QED BY <1>8, <2>1 DEF RestCovers
<1> QED BY <1>1, <1>2, <1>3, <1>4, <1>5, <1>6, <1>7, <1>9, <1>10

LEMMA ScheduleSyncSound == SchedulerInv /\ ScheduleSync => SchedulerInv'
<1> SUFFICES ASSUME SchedulerInv, ScheduleSync PROVE SchedulerInv'
  OBVIOUS
<1>1. calls' \in 0..written /\ drills' \in 0..written
  BY Bounds DEF ScheduleSync, SchedulerInv, SchedulerTyped, Totals
<1> QED BY <1>1, AskSound DEF ScheduleSync

LEMMA WakeSound == ASSUME NEW g \in asleep, SchedulerInv, Wake(g) PROVE SchedulerInv'
<1> USE DEF SchedulerInv, SchedulerTyped, Wake, pending
<1>1. Generations' BY DEF Generations
<1>2. CASE g = generation /\ ~inFlight
  <2>0. /\ Start("debounce") /\ UNCHANGED <<written, uploaded, calls, drills>>
        /\ UNCHANGED <<configured, retry, stranded>>
    BY <1>2
  <2>1. /\ lost' \in 0..written /\ RunningTyped' /\ inFlight' \in BOOLEAN /\ OneAtATime'
        /\ running' = {} \/ \E s \in running' : s.found = written
        /\ ~inFlight' => lost' = written
    BY <1>2, <2>0, StartCounts
  <2>2. Totals' BY <2>0, <2>1 DEF Totals
  <2>3. Flags' BY <2>0, <2>1 DEF Flags
  <2>4. RetryInFlight' BY <1>2, <2>0 DEF RetryInFlight
  <2>5. DebounceBetweenSyncs' BY <1>2 DEF DebounceBetweenSyncs
  <2>6. FlightCovers' BY <2>0, <2>1 DEF FlightCovers
  <2>7. RestCovers' BY <2>0, <2>1, <2>2 DEF RestCovers, Totals
  <2> QED BY <1>1, <2>1, <2>2, <2>3, <2>4, <2>5, <2>6, <2>7
<1>3. CASE ~(g = generation /\ ~inFlight)
  <2>0. /\ UNCHANGED <<written, uploaded, lost, calls, drills, configured>>
        /\ UNCHANGED <<generation, inFlight, retry, running, stranded>>
        /\ asleep' = asleep \ {g}
    BY <1>3
  <2>1. Totals' /\ RunningTyped' BY <2>0 DEF Totals, RunningTyped, SyncOf
  <2>2. Flags' BY <2>0 DEF Flags
  <2>3. OneAtATime' /\ RetryInFlight' BY <2>0 DEF OneAtATime, RetryInFlight
  <2>4. DebounceBetweenSyncs' BY <2>0 DEF DebounceBetweenSyncs
  <2>5. FlightCovers' BY <2>0 DEF FlightCovers
  <2>6. RestCovers' BY <1>3, <2>0 DEF RestCovers
  <2> QED BY <1>1, <2>1, <2>2, <2>3, <2>4, <2>5, <2>6
<1> QED BY <1>2, <1>3

\* The end of a sync: nothing is running any more. What it was to send is sent or given
\* up, or a debounce has it.
LEMMA FinishSound ==
  ASSUME SchedulerInv, NEW s \in running, NEW again \in BOOLEAN,
         NEW abandoned \in 0..s.found, Finish(s, again, abandoned),
         uploaded' \in 0..written, uploaded' >= uploaded,
         again \/ abandoned = s.found \/ uploaded' >= s.found
  PROVE  SchedulerInv'
<1> USE DEF SchedulerInv, SchedulerTyped, pending
<1>1. /\ running' = {} /\ inFlight /\ ~stranded /\ generation \notin asleep
      /\ s.found \in 0..written
  BY DEF Finish, OneAtATime, DebounceBetweenSyncs, RunningTyped, SyncOf
<1>2. /\ inFlight' = FALSE /\ retry' = FALSE
      /\ UNCHANGED <<written, calls, drills, configured, stranded>>
  BY DEF Finish, Rearm
<1>3. /\ lost' \in 0..written /\ lost' >= lost
      /\ ~Repeats(s, again) => lost' >= abandoned
      /\ ~Repeats(s, again) /\ (retry \/ again) => lost' = written
  <2>1. abandoned \in 0..written BY <1>1, Bounds DEF Totals
  <2>2. CASE Repeats(s, again) BY <2>2, Bounds DEF Finish, Totals
  <2>3. CASE ~Repeats(s, again) /\ (retry \/ again) BY <2>1, <2>3, Bounds DEF Finish, Totals
  <2>4. CASE ~Repeats(s, again) /\ ~(retry \/ again) BY <2>1, <2>4, Bounds DEF Finish, Totals
  <2> QED BY <2>2, <2>3, <2>4
<1>4. Totals' BY <1>2, <1>3 DEF Totals
<1>5. Generations' /\ (Repeats(s, again) => generation' \in asleep')
  <2>1. CASE Repeats(s, again)
    <3>1. Arm BY <2>1 DEF Finish, Rearm
    <3> QED BY <3>1, ArmCounts DEF Arm
  <2>2. CASE ~Repeats(s, again) BY <2>2 DEF Finish, Rearm, Generations
  <2> QED BY <2>1, <2>2
<1>6. RunningTyped' BY <1>1 DEF RunningTyped
<1>7. Flags' BY <1>2 DEF Flags
<1>8. OneAtATime' /\ RetryInFlight' /\ DebounceBetweenSyncs' /\ FlightCovers'
  BY <1>1, <1>2 DEF OneAtATime, RetryInFlight, DebounceBetweenSyncs, FlightCovers
<1>9. RestCovers'
  <2> SUFFICES ASSUME written > uploaded', written > lost', ~(generation' \in asleep')
               PROVE  calls + drills > 0
    BY <1>2 DEF RestCovers
  <2>1. ~Repeats(s, again) BY <1>5
  <2>2. ~retry /\ ~again BY <1>3, <2>1 DEF Totals
  <2>3. s.found # written BY <1>1, <1>3, <2>1, <2>2 DEF Totals
  <2>4. \A r \in running : r = s BY DEF OneAtATime
  <2>5. lost # written BY <1>3 DEF Totals
  <2> QED BY <2>2, <2>3, <2>4, <2>5 DEF FlightCovers
<1> QED BY <1>4, <1>5, <1>6, <1>7, <1>8, <1>9

LEMMA FoundTyped ==
  ASSUME SchedulerInv, NEW s \in running
  PROVE  /\ s.found \in Nat /\ s.found \in 0..written /\ 0 \in 0..s.found
         /\ s.found \in 0..s.found /\ uploaded \in 0..written
BY Bounds DEF SchedulerInv, SchedulerTyped, Totals, RunningTyped, SyncOf

LEMMA SucceedSound == ASSUME NEW s \in running, SchedulerInv, Succeed(s) PROVE SchedulerInv'
<1> PICK again \in BOOLEAN :
      /\ uploaded' = IF ~again /\ s.found > uploaded THEN s.found ELSE uploaded
      /\ Finish(s, again, 0)
  BY DEF Succeed
<1>1. uploaded' \in 0..written /\ uploaded' >= uploaded /\ (again \/ uploaded' >= s.found)
  BY FoundTyped
<1> QED BY <1>1, FoundTyped, FinishSound

LEMMA SyncFailsSound ==
  ASSUME NEW s \in running, SchedulerInv, SyncFails(s) PROVE SchedulerInv'
<1>1. uploaded' = uploaded /\ Finish(s, FALSE, s.found) BY DEF SyncFails
<1>2. uploaded' \in 0..written /\ uploaded' >= uploaded BY <1>1, FoundTyped
<1> QED BY <1>1, <1>2, FoundTyped, FinishSound

LEMMA NextSound == SchedulerInv /\ [SchedulerNext]_schedulerVars => SchedulerInv'
<1> SUFFICES ASSUME SchedulerInv, [SchedulerNext]_schedulerVars PROVE SchedulerInv'
  OBVIOUS
<1>1. CASE UserActs
  BY <1>1, WriteSound, SyncNowSound, LeavePageSound, SaveConnectionSound, RestartSound
     DEF UserActs
<1>2. CASE ScheduleSync BY <1>2, ScheduleSyncSound
<1>3. CASE \E g \in asleep : Wake(g) BY <1>3, WakeSound
<1>4. CASE \E s \in running : Succeed(s) BY <1>4, SucceedSound
<1>5. CASE \E s \in running : SyncFails(s) BY <1>5, SyncFailsSound
<1>6. CASE UNCHANGED schedulerVars
  BY <1>6 DEF schedulerVars, state, pending, SchedulerInv, SchedulerTyped, Totals, Generations,
     RunningTyped, Flags, OneAtATime, RetryInFlight, DebounceBetweenSyncs, FlightCovers,
     RestCovers
<1> QED BY <1>1, <1>2, <1>3, <1>4, <1>5, <1>6 DEF SchedulerNext, Task

\* The inductive invariant of arm_sync, schedule_sync and sync_now, with pages that are
\* left at any point of their tasks.
THEOREM SchedulerIsSound == SchedulerSpec => []SchedulerInv
BY InitSound, NextSound, PTL DEF SchedulerSpec

\* A pressed sync that is dropped with its page leaves the flag up, and after that no
\* press, change, sign-in or timer ends it or gets anything to the server, until the app is
\* opened again (platform.rs:259, :501, :514). The promise of platform.rs:250 fails there.
THEOREM StrandedUntilRestart ==
  SchedulerSpec =>
    [][stranded => Restart \/ (stranded' /\ inFlight' /\ running' = {}
                               /\ UNCHANGED uploaded)]_schedulerVars
<1>1. ASSUME SchedulerInv, [SchedulerNext]_schedulerVars
      PROVE  [stranded => Restart \/ (stranded' /\ inFlight' /\ running' = {}
                                      /\ UNCHANGED uploaded)]_schedulerVars
  <2> SUFFICES ASSUME stranded, SchedulerNext, ~Restart
               PROVE  stranded' /\ inFlight' /\ running' = {} /\ UNCHANGED uploaded
    BY <1>1
  <2>1. inFlight /\ running = {} BY <1>1 DEF SchedulerInv, OneAtATime
  <2>2. CASE Write \/ SaveConnection BY <2>1, <2>2 DEF Write, SaveConnection, state
  <2>3. CASE SyncNow BY <2>1, <2>3 DEF SyncNow
  <2>4. CASE LeavePage BY <2>1, <2>4 DEF LeavePage, state
  <2>5. CASE ScheduleSync BY <2>1, <2>5 DEF ScheduleSync, Ask, state
  <2>6. CASE \E g \in asleep : Wake(g) BY <2>1, <2>6 DEF Wake
  <2>7. CASE \E s \in running : Succeed(s) \/ SyncFails(s) BY <2>1, <2>7
  <2> QED BY <2>2, <2>3, <2>4, <2>5, <2>6, <2>7 DEF SchedulerNext, UserActs, Task
<1> QED BY <1>1, SchedulerIsSound, PTL DEF SchedulerSpec

-----------------------------------------------------------------------------
(* The settings of a device.                                               *)

SaveState == [step: {"idle", "read", "write"}, copy: Settings \cup {None},
              prev: Settings \cup {None}]
JobState == [step: Step, upload: Settings \cup {None}, answer: Settings \cup {None}]

SettingsTyped ==
  /\ stored \in [Device -> Settings]
  /\ page \in [Device -> Settings \cup {None}]
  /\ saving \in [Device -> SaveState]
  /\ job \in [Device -> JobState]
  /\ row \in Settings \cup {None}
  /\ now \in Nat /\ edited \in [Device -> Nat]

\* A save has its copy, then what it is compared with; an adoption its answer.
Filled(d) ==
  /\ saving[d].step # "idle" => saving[d].copy \in Settings
  /\ saving[d].step = "write" => saving[d].prev \in Settings
  /\ job[d].step = "adopting" => job[d].answer \in Settings

\* Nothing writes the stored settings between a save's read and its write.
SaveFits(d) ==
  saving[d].step # "idle" =>
    /\ job[d].step # "adopting"
    /\ saving[d].step = "write" => saving[d].prev = stored[d]
    /\ d \in App => saving[d].copy.updated = stored[d].updated

\* An app's page is as old as what is stored.
PageFits(d) == d \in App /\ page[d] # None => page[d].updated = stored[d].updated

\* What is about to be adopted is newer than what is stored.
AdoptFits(d) ==
  job[d].step = "adopting" => job[d].answer.updated > stored[d].updated

NotBehind(d) == stored[d].updated >= edited[d]

DeviceInv(d) == SaveFits(d) /\ PageFits(d) /\ AdoptFits(d) /\ NotBehind(d)

StampInv ==
  /\ SettingsTyped
  /\ \A d \in Device : Filled(d)
  /\ \A d \in Device \ Racing : DeviceInv(d)

Others(d) ==
  \A e \in Device \ {d} :
    /\ stored'[e] = stored[e] /\ page'[e] = page[e] /\ saving'[e] = saving[e]
    /\ job'[e] = job[e] /\ edited'[e] = edited[e]

-----------------------------------------------------------------------------
LEMMA Shapes ==
  /\ NoSave \in SaveState /\ NoSave.step = "idle"
  /\ NoJob \in JobState /\ NoJob.step = "idle"
  /\ \A s \in Settings : s.knobs \in Knobs /\ s.updated \in Nat
  /\ \A k \in Knobs, n \in Nat :
       /\ [knobs |-> k, updated |-> n] \in Settings
       /\ [knobs |-> k, updated |-> n].updated = n
BY DEF NoSave, SaveState, NoJob, JobState, Step, Settings

\* A step of one device leaves the others as they were.
LEMMA OneDevice ==
  ASSUME StampInv, NEW d \in Device, Others(d), SettingsTyped', Filled(d)',
         d \notin Racing => DeviceInv(d)'
  PROVE  StampInv'
<1>1. ASSUME NEW e \in Device \ Racing PROVE DeviceInv(e)'
  <2>1. CASE e = d BY <2>1
  <2>2. CASE e # d
    <3>1. DeviceInv(e) BY DEF StampInv
    <3>2. stored'[e] = stored[e] /\ page'[e] = page[e] /\ saving'[e] = saving[e]
          /\ job'[e] = job[e] /\ edited'[e] = edited[e]
      BY <2>2 DEF Others
    <3> QED
      BY <3>1, <3>2 DEF DeviceInv, SaveFits, PageFits, AdoptFits, NotBehind
  <2> QED BY <2>1, <2>2
<1>2. ASSUME NEW e \in Device PROVE Filled(e)'
  <2>1. CASE e = d BY <2>1
  <2>2. CASE e # d BY <2>2 DEF StampInv, Others, Filled
  <2> QED BY <2>1, <2>2
<1> QED BY <1>1, <1>2 DEF StampInv

LEMMA ClockType ==
  ASSUME now \in Nat, NEW d \in Device
  PROVE  Clock(d) \in Nat /\ Clock(d) + 1 \in Nat
<1>1. MaxSaves \in Nat BY SettingsAssumption
<1> QED BY <1>1 DEF Clock

-----------------------------------------------------------------------------
(* The page.                                                               *)

LEMMA OpenSound ==
  ASSUME StampInv, NEW d \in Device, Open(d)
  PROVE  StampInv'
<1>1. SettingsTyped BY DEF StampInv
<1>2. page'[d] = stored[d] /\ Others(d)
      /\ UNCHANGED <<stored, saving, job, row, now, edited>>
  BY <1>1 DEF Open, Others, SettingsTyped
<1>3. SettingsTyped' BY <1>1, <1>2 DEF Open, SettingsTyped
<1>4. d \notin Racing => DeviceInv(d)'
  BY <1>2 DEF StampInv, DeviceInv, SaveFits, PageFits, AdoptFits, NotBehind
<1>5. Filled(d)' BY <1>2 DEF StampInv, Filled
<1> QED BY <1>2, <1>3, <1>4, <1>5, OneDevice

LEMMA EditSound ==
  ASSUME StampInv, NEW d \in Device, NEW k \in Knobs, Edit(d, k)
  PROVE  StampInv'
<1>1. SettingsTyped /\ page[d] \in Settings BY DEF StampInv, SettingsTyped, Edit
<1>2. [page[d] EXCEPT !.knobs = k] \in Settings
      /\ [page[d] EXCEPT !.knobs = k].updated = page[d].updated
  BY <1>1 DEF Settings
<1>3. page' = [page EXCEPT ![d] = [page[d] EXCEPT !.knobs = k]]
      /\ UNCHANGED <<stored, saving, job, row, now, edited>>
  BY DEF Edit
<1>4. page'[d] = [page[d] EXCEPT !.knobs = k] /\ Others(d)
  BY <1>1, <1>3 DEF Others, SettingsTyped
<1>5. SettingsTyped' BY <1>1, <1>2, <1>3 DEF SettingsTyped
<1>6. d \notin Racing => DeviceInv(d)'
  BY <1>2, <1>3, <1>4
     DEF Edit, StampInv, DeviceInv, SaveFits, PageFits, AdoptFits, NotBehind
<1>7. Filled(d)' BY <1>3 DEF StampInv, Filled
<1> QED BY <1>4, <1>5, <1>6, <1>7, OneDevice

LEMMA BegunSound ==
  ASSUME StampInv, NEW d \in Device, NEW copy \in Settings, Begun(d, copy),
         d \in App \ Racing => copy.updated = stored[d].updated
  PROVE  StampInv'
<1> PICK s : s = [step |-> "read", copy |-> copy, prev |-> None]
  OBVIOUS
<1>1. s \in SaveState /\ s.step = "read" /\ s.copy = copy BY DEF SaveState
<1>2. SettingsTyped BY DEF StampInv
<1>3. saving' = [saving EXCEPT ![d] = s]
      /\ UNCHANGED <<stored, page, job, row, now, edited>>
  BY DEF Begun
<1>4. saving'[d] = s /\ Others(d) BY <1>2, <1>3 DEF Others, SettingsTyped
<1>5. SettingsTyped' BY <1>1, <1>2, <1>3 DEF SettingsTyped
<1>6. ASSUME d \notin Racing PROVE DeviceInv(d)'
  <2>1. job[d].step # "adopting" BY <1>6 DEF Begun, Free
  <2> QED
    BY <1>1, <1>3, <1>4, <1>6, <2>1
       DEF StampInv, DeviceInv, SaveFits, PageFits, AdoptFits, NotBehind
<1>7. Filled(d)' BY <1>1, <1>3, <1>4 DEF StampInv, Filled
<1> QED BY <1>4, <1>5, <1>6, <1>7, OneDevice

LEMMA SaveReadSound ==
  ASSUME StampInv, NEW d \in Device, SaveRead(d)
  PROVE  StampInv'
<1> PICK s : s = [saving[d] EXCEPT !.step = "write", !.prev = stored[d]]
  OBVIOUS
<1>1. SettingsTyped BY DEF StampInv
<1>2. saving[d] \in SaveState /\ stored[d] \in Settings BY <1>1 DEF SettingsTyped
<1>3. s \in SaveState /\ s.step = "write" /\ s.copy = saving[d].copy /\ s.prev = stored[d]
  BY <1>2 DEF SaveState
<1>4. saving' = [saving EXCEPT ![d] = s]
      /\ UNCHANGED <<stored, page, job, row, now, edited>>
  BY <1>1 DEF SaveRead, SettingsTyped
<1>5. saving'[d] = s /\ Others(d) BY <1>1, <1>4 DEF Others, SettingsTyped
<1>6. SettingsTyped' BY <1>1, <1>3, <1>4 DEF SettingsTyped
<1>7. saving[d].step # "idle" BY DEF SaveRead
<1>8. ASSUME d \notin Racing PROVE DeviceInv(d)'
  <2>1. DeviceInv(d) BY <1>8 DEF StampInv
  <2>2. SaveFits(d)' BY <1>3, <1>4, <1>5, <1>7, <2>1 DEF DeviceInv, SaveFits
  <2> QED BY <1>4, <2>1, <2>2 DEF DeviceInv, PageFits, AdoptFits, NotBehind
<1>9. Filled(d)' BY <1>2, <1>3, <1>4, <1>5, <1>7 DEF StampInv, Filled
<1> QED BY <1>5, <1>6, <1>8, <1>9, OneDevice

\* What a write does to the device, apart from the stored settings.
LEMMA PutShape ==
  ASSUME SettingsTyped, NEW d \in Device, NEW s \in Settings, Put(d, s)
  PROVE  /\ stored' \in [Device -> Settings] /\ stored'[d] = s
         /\ page' \in [Device -> Settings \cup {None}]
         /\ d \in Careful => page'[d] = None
         /\ \A e \in Device \ {d} : stored'[e] = stored[e] /\ page'[e] = page[e]
BY DEF Put, SettingsTyped

LEMMA SaveWriteSound ==
  ASSUME App \subseteq Careful, StampInv, NEW d \in Device, SaveWrite(d)
  PROVE  StampInv'
<1> DEFINE s == saving[d]
           put == [knobs |-> s.copy.knobs, updated |-> SavedStamp(d, s)]
<1>1. SettingsTyped BY DEF StampInv
<1>2. /\ s.step = "write" /\ Put(d, put)
      /\ saving' = [saving EXCEPT ![d] = NoSave]
      /\ now' = IF Changed(s) THEN now + 1 ELSE now
      /\ edited' = IF Changed(s) THEN [edited EXCEPT ![d] = Clock(d) + 1] ELSE edited
      /\ UNCHANGED <<job, row>>
  BY DEF SaveWrite
<1>11. s.copy \in Settings /\ s.prev \in Settings BY <1>2 DEF StampInv, Filled
<1>3. SavedStamp(d, s) \in Nat
  BY <1>1, <1>11, ClockType, Shapes DEF SavedStamp, SettingsTyped
<1>4. put \in Settings /\ put.updated = SavedStamp(d, s) BY <1>3, <1>11, Shapes
<1> HIDE DEF put
<1>5. /\ stored' \in [Device -> Settings] /\ stored'[d] = put
      /\ page' \in [Device -> Settings \cup {None}]
      /\ d \in Careful => page'[d] = None
      /\ \A e \in Device \ {d} : stored'[e] = stored[e] /\ page'[e] = page[e]
  BY <1>1, <1>2, <1>4, PutShape
<1>6. saving'[d] = NoSave /\ \A e \in Device \ {d} : saving'[e] = saving[e]
  BY <1>1, <1>2 DEF SettingsTyped
<1>7. /\ edited' \in [Device -> Nat] /\ now' \in Nat
      /\ Changed(s) => edited'[d] = Clock(d) + 1
      /\ ~Changed(s) => edited'[d] = edited[d]
      /\ \A e \in Device \ {d} : edited'[e] = edited[e]
  BY <1>1, <1>2, ClockType DEF SettingsTyped
<1>8. Others(d) BY <1>2, <1>5, <1>6, <1>7 DEF Others
<1>9. SettingsTyped' BY <1>1, <1>2, <1>5, <1>7, Shapes DEF SettingsTyped
<1>10. ASSUME d \notin Racing PROVE DeviceInv(d)'
  <2>1. SaveFits(d) /\ NotBehind(d) BY <1>10 DEF StampInv, DeviceInv
  <2>2. NotBehind(d)'
    <3>1. CASE Changed(s)
      <4>1. stored'[d].updated = edited'[d] BY <1>4, <1>5, <1>7, <3>1 DEF SavedStamp
      <4>2. edited'[d] \in Nat BY <1>7
      <4> QED BY <4>1, <4>2 DEF NotBehind
    <3>2. CASE ~Changed(s)
      <4>1. SavedStamp(d, s) = stored[d].updated
        BY <1>2, <2>1, <3>2 DEF SavedStamp, SaveFits
      <4> QED BY <1>4, <1>5, <1>7, <2>1, <3>2, <4>1 DEF NotBehind
    <3> QED BY <3>1, <3>2
  <2>3. PageFits(d)' BY <1>5 DEF PageFits
  <2>4. SaveFits(d)' BY <1>6, Shapes DEF SaveFits
  <2>5. AdoptFits(d)' BY <1>2, <2>1 DEF SaveFits, AdoptFits
  <2> QED BY <2>2, <2>3, <2>4, <2>5 DEF DeviceInv
<1>12. Filled(d)' BY <1>2, <1>6, Shapes DEF StampInv, Filled
<1> QED BY <1>8, <1>9, <1>10, <1>12, OneDevice

-----------------------------------------------------------------------------
(* A sync.                                                                 *)

\* A step that changes the job only, and lets no adoption begin.
LEMMA JobSound ==
  ASSUME StampInv, NEW d \in Device, NEW j \in JobState, j.step # "adopting",
         job' = [job EXCEPT ![d] = j], row' \in Settings \cup {None},
         UNCHANGED <<stored, page, saving, now, edited>>
  PROVE  StampInv'
<1>1. SettingsTyped BY DEF StampInv
<1>2. job'[d] = j /\ Others(d) BY <1>1 DEF Others, SettingsTyped
<1>3. SettingsTyped' BY <1>1 DEF SettingsTyped
<1>4. d \notin Racing => DeviceInv(d)'
  BY <1>2 DEF StampInv, DeviceInv, SaveFits, PageFits, AdoptFits, NotBehind
<1>5. Filled(d)' BY <1>2 DEF StampInv, Filled
<1> QED BY <1>2, <1>3, <1>4, <1>5, OneDevice

LEMMA BeginSound ==
  ASSUME StampInv, NEW d \in Device, Begin(d)
  PROVE  StampInv'
<1> PICK j : j = [NoJob EXCEPT !.step = "sent", !.upload = Upload(d)]
  OBVIOUS
<1>1. SettingsTyped BY DEF StampInv
<1>2. Upload(d) \in Settings \cup {None} BY <1>1 DEF Upload, SettingsTyped
<1>3. j \in JobState /\ j.step # "adopting" BY <1>2 DEF NoJob, JobState, Step
<1>4. row' \in Settings \cup {None} BY <1>1 DEF Begin, SettingsTyped
<1> QED BY <1>3, <1>4, JobSound DEF Begin

LEMMA HandleSound ==
  ASSUME StampInv, NEW d \in Device, Handle(d)
  PROVE  StampInv'
<1> PICK j : j = [job[d] EXCEPT !.step = "answered", !.answer = row']
  OBVIOUS
<1>1. SettingsTyped /\ job[d] \in JobState BY DEF StampInv, SettingsTyped
<1>2. row' \in Settings \cup {None}
  BY <1>1 DEF Handle, UpsertSettings, JobState, SettingsTyped
<1>3. j \in JobState /\ j.step # "adopting" BY <1>1, <1>2 DEF JobState, Step
<1>4. job' = [job EXCEPT ![d] = j] BY <1>1 DEF Handle, SettingsTyped
<1> QED BY <1>2, <1>3, <1>4, JobSound DEF Handle

LEMMA FailSound ==
  ASSUME StampInv, NEW d \in Device, Fail(d)
  PROVE  StampInv'
<1>1. row' \in Settings \cup {None} BY DEF Fail, StampInv, SettingsTyped
<1> QED BY <1>1, Shapes, JobSound DEF Fail

LEMMA AdoptReadSound ==
  ASSUME StampInv, NEW d \in Device, AdoptRead(d)
  PROVE  StampInv'
<1>1. SettingsTyped /\ job[d] \in JobState BY DEF StampInv, SettingsTyped
<1>2. row' \in Settings \cup {None} BY <1>1 DEF AdoptRead, SettingsTyped
<1>3. CASE job[d].answer # None /\ job[d].answer.updated > stored[d].updated
  <2> PICK j : j = [job[d] EXCEPT !.step = "adopting"]
    OBVIOUS
  <2>1. j \in JobState /\ j.step = "adopting" /\ j.answer = job[d].answer
    BY <1>1 DEF JobState, Step
  <2>2. job' = [job EXCEPT ![d] = j] /\ UNCHANGED <<stored, page, saving, now, edited>>
    BY <1>1, <1>3 DEF AdoptRead, SettingsTyped
  <2>3. job'[d] = j /\ Others(d) BY <1>1, <2>2 DEF Others, SettingsTyped
  <2>4. SettingsTyped' BY <1>1, <1>2, <2>1, <2>2 DEF SettingsTyped
  <2>5. job[d].answer \in Settings BY <1>1, <1>3 DEF JobState
  <2>6. Filled(d)' BY <2>1, <2>2, <2>3, <2>5 DEF StampInv, Filled
  <2>7. ASSUME d \notin Racing PROVE DeviceInv(d)'
    <3>1. DeviceInv(d) BY <2>7 DEF StampInv
    <3>2. saving[d].step = "idle" BY <2>7 DEF AdoptRead, Free
    <3>3. SaveFits(d)' BY <2>2, <3>2 DEF SaveFits
    <3>4. AdoptFits(d)' BY <1>3, <2>1, <2>2, <2>3 DEF AdoptFits
    <3> QED BY <2>2, <3>1, <3>3, <3>4 DEF DeviceInv, PageFits, NotBehind
  <2> QED BY <2>3, <2>4, <2>6, <2>7, OneDevice
<1>4. CASE ~(job[d].answer # None /\ job[d].answer.updated > stored[d].updated)
  <2>1. job' = [job EXCEPT ![d] = NoJob] /\ UNCHANGED <<stored, page, saving, now, edited>>
    BY <1>4 DEF AdoptRead
  <2> QED BY <1>2, <2>1, Shapes, JobSound
<1> QED BY <1>3, <1>4

LEMMA AdoptWriteSound ==
  ASSUME App \subseteq Careful, StampInv, NEW d \in Device, AdoptWrite(d)
  PROVE  StampInv'
<1> PICK s : s = job[d].answer
  OBVIOUS
<1>1. SettingsTyped BY DEF StampInv
<1>2. job[d].step = "adopting" /\ Put(d, s) /\ job' = [job EXCEPT ![d] = NoJob]
      /\ UNCHANGED <<saving, row, now, edited>>
  BY DEF AdoptWrite
<1>3. s \in Settings /\ s.updated \in Nat BY <1>2, Shapes DEF StampInv, Filled
<1>4. /\ stored' \in [Device -> Settings] /\ stored'[d] = s
      /\ page' \in [Device -> Settings \cup {None}]
      /\ d \in Careful => page'[d] = None
      /\ \A e \in Device \ {d} : stored'[e] = stored[e] /\ page'[e] = page[e]
  BY <1>1, <1>2, <1>3, PutShape
<1>5. job'[d] = NoJob /\ \A e \in Device \ {d} : job'[e] = job[e]
  BY <1>1, <1>2 DEF SettingsTyped
<1>6. Others(d) BY <1>2, <1>4, <1>5 DEF Others
<1>7. SettingsTyped' BY <1>1, <1>2, <1>4, Shapes DEF SettingsTyped
<1>8. Filled(d)' BY <1>2, <1>5, Shapes DEF StampInv, Filled
<1>9. ASSUME d \notin Racing PROVE DeviceInv(d)'
  <2>1. SaveFits(d) /\ AdoptFits(d) /\ NotBehind(d) BY <1>9 DEF StampInv, DeviceInv
  <2>2. saving[d].step = "idle" BY <1>2, <2>1 DEF SaveFits
  <2>3. SaveFits(d)' BY <1>2, <2>2 DEF SaveFits
  <2>4. PageFits(d)' BY <1>4 DEF PageFits
  <2>5. AdoptFits(d)' BY <1>5, Shapes DEF AdoptFits
  <2>6. stored[d].updated \in Nat /\ edited[d] \in Nat BY <1>1, Shapes DEF SettingsTyped
  <2>7. NotBehind(d)'
    BY <1>2, <1>3, <1>4, <2>1, <2>6 DEF AdoptFits, NotBehind
  <2> QED BY <2>3, <2>4, <2>5, <2>7 DEF DeviceInv
<1> QED BY <1>6, <1>7, <1>8, <1>9, OneDevice

-----------------------------------------------------------------------------
LEMMA StampInit == Init => StampInv
<1> SUFFICES ASSUME Init PROVE StampInv
  OBVIOUS
<1> PICK s : s = [knobs |-> Default, updated |-> 0]
  OBVIOUS
<1>1. s \in Settings /\ s.updated = 0 BY SettingsAssumption, Shapes
<1>2. stored = [d \in Device |-> s] /\ page = [d \in Device |-> None]
      /\ saving = [d \in Device |-> NoSave] /\ job = [d \in Device |-> NoJob]
      /\ row = None /\ now = 0 /\ edited = [d \in Device |-> 0]
  BY DEF Init
<1>3. SettingsTyped BY <1>1, <1>2, Shapes DEF SettingsTyped
<1>4. \A d \in Device : Filled(d) BY <1>2, Shapes DEF Filled
<1>5. ASSUME NEW d \in Device PROVE DeviceInv(d)
  BY <1>1, <1>2, Shapes DEF DeviceInv, SaveFits, PageFits, AdoptFits, NotBehind
<1> QED BY <1>3, <1>4, <1>5 DEF StampInv

LEMMA StampStep ==
  ASSUME App \subseteq Careful, StampInv, [Next]_vars
  PROVE  StampInv'
<1>1. CASE UNCHANGED vars
  BY <1>1 DEF vars, StampInv, SettingsTyped, Filled, DeviceInv, SaveFits, PageFits,
              AdoptFits, NotBehind
<1>2. ASSUME NEW d \in Device, Press(d) PROVE StampInv'
  <2>1. page[d] \in Settings BY <1>2 DEF Press, StampInv, SettingsTyped
  <2>2. d \in App \ Racing => page[d].updated = stored[d].updated
    BY <1>2 DEF Press, StampInv, DeviceInv, PageFits
  <2> QED BY <1>2, <2>1, <2>2, BegunSound DEF Press
<1>3. ASSUME NEW d \in Device, StoreToken(d) PROVE StampInv'
  <2>1. stored[d] \in Settings BY DEF StampInv, SettingsTyped
  <2> QED BY <1>3, <2>1, BegunSound DEF StoreToken
<1>4. ASSUME NEW d \in Device, User(d) PROVE StampInv'
  BY <1>2, <1>3, <1>4, OpenSound, EditSound DEF User
<1>5. ASSUME NEW d \in Device, Save(d) PROVE StampInv'
  BY <1>5, SaveReadSound, SaveWriteSound DEF Save
<1>6. ASSUME NEW d \in Device, Begin(d) \/ Sync(d) \/ Fail(d) PROVE StampInv'
  BY <1>6, Shapes, BeginSound, HandleSound, AdoptReadSound, AdoptWriteSound, FailSound
     DEF Sync
<1> QED BY <1>1, <1>4, <1>5, <1>6 DEF Next

\* No save of a URL or token, no page open meanwhile and no answer puts an older
\* stamp on a device's settings than that of the last edit made there: where storage
\* is not raced (settings.ts:32, platform.rs:424-494) and an app's page is not kept
\* open over a save or an adoption.
THEOREM StampsAreKept == ASSUME App \subseteq Careful PROVE Spec => []StampIsLastEdit
<1>1. Init => StampInv BY StampInit
<1>2. StampInv /\ [Next]_vars => StampInv' BY StampStep
<1>3. StampInv => StampIsLastEdit BY DEF StampInv, DeviceInv, NotBehind, StampIsLastEdit
<1> QED BY <1>1, <1>2, <1>3, PTL DEF Spec

-----------------------------------------------------------------------------
(* When the extension syncs.                                               *)

\* The flag stands for one sync, which is at one place of doSync.
OneSync ==
  IF syncInFlight
  THEN \/ opening = 1 /\ reading = 0 /\ sending = {}
       \/ opening = 0 /\ reading = 1 /\ sending = {}
       \/ opening = 0 /\ reading = 0 /\ \E n \in 0..changes : sending = {n}
  ELSE opening = 0 /\ reading = 0 /\ sending = {}

\* No timer runs beside a sync, so that its firing is never ignored.
TimerBetweenSyncs == ~(syncInFlight /\ syncTimer)

Amounts ==
  /\ changes \in 0..MaxChanges /\ acked \in 0..changes /\ dropped \in 0..changes
  /\ bumps \in 0..changes /\ asked \in Nat /\ granted \in Nat
  /\ opening \in Nat /\ reading \in Nat
  /\ sending \subseteq 0..changes

Switches ==
  /\ signedIn \in BOOLEAN /\ syncTimer \in BOOLEAN
  /\ syncInFlight \in BOOLEAN /\ syncRetry \in BOOLEAN

BackgroundInv == Amounts /\ Switches /\ OneSync /\ TimerBetweenSyncs /\ NoChangeDropped

\* The sync that found n is the one under way.
LEMMA SenderIsTheSync ==
  ASSUME BackgroundInv, NEW n \in sending
  PROVE  syncInFlight /\ opening = 0 /\ reading = 0 /\ sending = {n} /\ n \in 0..changes
BY DEF BackgroundInv, OneSync

LEMMA BackgroundStart == BackgroundInit => BackgroundInv
<1> SUFFICES ASSUME BackgroundInit PROVE BackgroundInv
  OBVIOUS
<1> USE DEF BackgroundInit
<1>1. Amounts BY BackgroundAssumption DEF Amounts
<1>2. Switches BY DEF Switches
<1>3. OneSync /\ TimerBetweenSyncs BY DEF OneSync, TimerBetweenSyncs
<1>4. NoChangeDropped BY DEF NoChangeDropped
<1> QED BY <1>1, <1>2, <1>3, <1>4 DEF BackgroundInv

-----------------------------------------------------------------------------
(* The steps of a handler and of scheduleSync.                             *)

LEMMA ChangeKeeps == ASSUME BackgroundInv, Change PROVE BackgroundInv'
<1> USE DEF BackgroundInv, Amounts, Switches, Change, checks, flags, syncs
<1>1. Amounts' BY BackgroundAssumption
<1>2. Switches' OBVIOUS
<1>3. OneSync' BY DEF OneSync
<1>4. TimerBetweenSyncs' BY DEF TimerBetweenSyncs
<1>5. NoChangeDropped' BY DEF NoChangeDropped
<1> QED BY <1>1, <1>2, <1>3, <1>4, <1>5

LEMMA BumpKeeps == ASSUME BackgroundInv, Bump \/ BumpFails PROVE BackgroundInv'
<1> USE DEF BackgroundInv, Amounts, Switches, checks, flags, syncs
<1>1. CASE Bump
  <2> USE <1>1 DEF Bump, Request
  <2>1. Amounts' OBVIOUS
  <2>2. Switches' OBVIOUS
  <2>3. OneSync' /\ TimerBetweenSyncs' BY DEF OneSync, TimerBetweenSyncs
  <2>4. NoChangeDropped' BY DEF NoChangeDropped
  <2> QED BY <2>1, <2>2, <2>3, <2>4
<1>2. CASE BumpFails
  <2> USE <1>2 DEF BumpFails
  <2>1. Amounts' OBVIOUS
  <2>2. Switches' OBVIOUS
  <2>3. OneSync' /\ TimerBetweenSyncs' BY DEF OneSync, TimerBetweenSyncs
  <2>4. NoChangeDropped' BY DEF NoChangeDropped
  <2> QED BY <2>1, <2>2, <2>3, <2>4
<1> QED BY <1>1, <1>2

LEMMA ScheduleKeeps == ASSUME BackgroundInv, SettingsRead \/ ArmTimer PROVE BackgroundInv'
<1> USE DEF BackgroundInv, Amounts, Switches, checks, flags, syncs
<1>1. CASE SettingsRead
  <2> USE <1>1 DEF SettingsRead
  <2>1. Amounts' OBVIOUS
  <2>2. Switches' OBVIOUS
  <2>3. OneSync' /\ TimerBetweenSyncs' BY DEF OneSync, TimerBetweenSyncs
  <2>4. NoChangeDropped' BY DEF NoChangeDropped
  <2> QED BY <2>1, <2>2, <2>3, <2>4
<1>2. CASE ArmTimer
  <2> USE <1>2 DEF ArmTimer, counts
  <2>1. Amounts' OBVIOUS
  <2>2. Switches' OBVIOUS
  <2>3. OneSync' /\ TimerBetweenSyncs' BY DEF OneSync, TimerBetweenSyncs
  <2>4. NoChangeDropped' BY DEF NoChangeDropped
  <2> QED BY <2>1, <2>2, <2>3, <2>4
<1> QED BY <1>1, <1>2

-----------------------------------------------------------------------------
(* The steps of a sync.                                                    *)

\* A timer fires, or a press comes, between two syncs.
LEMMA StartKeeps == ASSUME BackgroundInv, TimerFires \/ SyncCards PROVE BackgroundInv'
<1> USE DEF BackgroundInv, Amounts, Switches, StartSync, counts, checks
<1>1. CASE TimerFires
  <2> USE <1>1 DEF TimerFires
  <2>1. Amounts' OBVIOUS
  <2>2. Switches' OBVIOUS
  <2>3. OneSync' BY DEF OneSync
  <2>4. TimerBetweenSyncs' BY DEF TimerBetweenSyncs
  <2>5. NoChangeDropped' BY DEF NoChangeDropped, TimerBetweenSyncs
  <2> QED BY <2>1, <2>2, <2>3, <2>4, <2>5
<1>2. CASE SyncCards
  <2> USE <1>2 DEF SyncCards
  <2>1. Amounts' OBVIOUS
  <2>2. Switches' OBVIOUS
  <2>3. OneSync' BY DEF OneSync
  <2>4. TimerBetweenSyncs' BY DEF TimerBetweenSyncs
  <2>5. NoChangeDropped' BY DEF NoChangeDropped
  <2> QED BY <2>1, <2>2, <2>3, <2>4, <2>5
<1> QED BY <1>1, <1>2

LEMMA ReadKeeps == ASSUME BackgroundInv, FindToken \/ ReadStore PROVE BackgroundInv'
<1> USE DEF BackgroundInv, Amounts, Switches, counts, checks, flags
<1>1. CASE FindToken
  <2> USE <1>1 DEF FindToken
  <2>1. Amounts' OBVIOUS
  <2>2. Switches' OBVIOUS
  <2>3. OneSync' BY DEF OneSync
  <2>4. TimerBetweenSyncs' BY DEF TimerBetweenSyncs
  <2>5. NoChangeDropped' BY DEF NoChangeDropped, OneSync
  <2> QED BY <2>1, <2>2, <2>3, <2>4, <2>5
<1>2. CASE ReadStore
  <2> USE <1>2 DEF ReadStore
  <2>1. Amounts' OBVIOUS
  <2>2. Switches' OBVIOUS
  <2>3. syncInFlight /\ opening = 0 /\ reading = 1 /\ sending = {} BY DEF OneSync
  <2>4. syncInFlight' /\ opening' = 0 /\ reading' = 0 /\ sending' = {changes'} BY <2>3
  <2>5. OneSync' BY <2>4 DEF OneSync
  <2>6. TimerBetweenSyncs' BY DEF TimerBetweenSyncs
  <2>7. NoChangeDropped' BY DEF NoChangeDropped, OneSync
  <2> QED BY <2>1, <2>2, <2>5, <2>6, <2>7
<1> QED BY <1>1, <1>2

\* A sync ends without an answer: what it would have sent is given up, unless
\* another was asked for.
LEMMA EmptyHandedKeeps == ASSUME BackgroundInv, NotSignedIn \/ StoreFails PROVE BackgroundInv'
<1> USE DEF BackgroundInv, Amounts, Switches, GivesUp, EndSync
<1>1. CASE NotSignedIn
  <2> USE <1>1 DEF NotSignedIn
  <2>1. Amounts' OBVIOUS
  <2>2. Switches' OBVIOUS
  <2>3. OneSync' BY DEF OneSync
  <2>4. TimerBetweenSyncs' BY DEF TimerBetweenSyncs
  <2>5. NoChangeDropped' BY DEF NoChangeDropped
  <2> QED BY <2>1, <2>2, <2>3, <2>4, <2>5
<1>2. CASE StoreFails
  <2> USE <1>2 DEF StoreFails
  <2>1. Amounts' OBVIOUS
  <2>2. Switches' OBVIOUS
  <2>3. OneSync' BY DEF OneSync
  <2>4. TimerBetweenSyncs' BY DEF TimerBetweenSyncs
  <2>5. NoChangeDropped' BY DEF NoChangeDropped
  <2> QED BY <2>1, <2>2, <2>3, <2>4, <2>5
<1> QED BY <1>1, <1>2

LEMMA LandKeeps ==
  ASSUME BackgroundInv, NEW n \in sending, SyncLands(n) PROVE BackgroundInv'
<1>1. PICK repeat \in BOOLEAN :
        /\ sending' = sending \ {n}
        /\ acked' = IF ~repeat /\ n > acked THEN n ELSE acked
        /\ EndSync(repeat)
        /\ UNCHANGED <<changes, dropped, bumps, signedIn, granted, syncTimer, opening, reading>>
  BY DEF SyncLands
<1> USE <1>1, SenderIsTheSync DEF BackgroundInv, Amounts, Switches, EndSync
<1>2. Amounts' OBVIOUS
<1>3. Switches' OBVIOUS
<1>4. OneSync' BY DEF OneSync
<1>5. TimerBetweenSyncs' BY DEF TimerBetweenSyncs
<1>6. NoChangeDropped' BY DEF NoChangeDropped
<1> QED BY <1>2, <1>3, <1>4, <1>5, <1>6

LEMMA BreakKeeps ==
  ASSUME BackgroundInv, NEW n \in sending, SyncBreaks(n) PROVE BackgroundInv'
<1> USE SenderIsTheSync DEF BackgroundInv, Amounts, Switches, SyncBreaks, GivesUp, EndSync
<1>1. Amounts' OBVIOUS
<1>2. Switches' OBVIOUS
<1>3. OneSync' BY DEF OneSync
<1>4. TimerBetweenSyncs' BY DEF TimerBetweenSyncs
<1>5. NoChangeDropped' BY DEF NoChangeDropped
<1> QED BY <1>1, <1>2, <1>3, <1>4, <1>5

\* The settings change hands, or the page is unloaded with all it was doing.
LEMMA OutsideKeeps == ASSUME BackgroundInv, SignInOrOut \/ Unload PROVE BackgroundInv'
<1> USE DEF BackgroundInv, Amounts, Switches, counts, checks, flags, syncs
<1>1. CASE SignInOrOut
  <2> USE <1>1 DEF SignInOrOut
  <2>1. Amounts' OBVIOUS
  <2>2. Switches' OBVIOUS
  <2>3. OneSync' BY DEF OneSync
  <2>4. TimerBetweenSyncs' BY DEF TimerBetweenSyncs
  <2>5. NoChangeDropped' BY DEF NoChangeDropped
  <2> QED BY <2>1, <2>2, <2>3, <2>4, <2>5
<1>2. CASE Unload
  <2> USE <1>2 DEF Unload
  <2>1. Amounts' OBVIOUS
  <2>2. Switches' OBVIOUS
  <2>3. OneSync' BY DEF OneSync
  <2>4. TimerBetweenSyncs' BY DEF TimerBetweenSyncs
  <2>5. NoChangeDropped' BY DEF NoChangeDropped
  <2> QED BY <2>1, <2>2, <2>3, <2>4, <2>5
<1> QED BY <1>1, <1>2

LEMMA BackgroundStep ==
  ASSUME BackgroundInv, [BackgroundNext]_backgroundVars PROVE BackgroundInv'
<1>1. CASE UNCHANGED backgroundVars
  BY <1>1 DEF backgroundVars, counts, checks, flags, syncs, BackgroundInv, Amounts, Switches,
              OneSync, TimerBetweenSyncs, NoChangeDropped
<1>2. CASE Outside
  BY <1>2, ChangeKeeps, StartKeeps, OutsideKeeps DEF Outside
<1>3. CASE BackgroundTask
  BY <1>3, BumpKeeps, ScheduleKeeps, StartKeeps, ReadKeeps, EmptyHandedKeeps, LandKeeps,
     BreakKeeps DEF BackgroundTask
<1> QED BY <1>1, <1>2, <1>3 DEF BackgroundNext

\* The inductive invariant of scheduleSync, runSync and handleSyncCards.
THEOREM BackgroundIsSound == BackgroundSpec => []BackgroundInv
BY BackgroundStart, BackgroundStep, PTL DEF BackgroundSpec

-----------------------------------------------------------------------------
(* Either client of a device.                                              *)

ClientInv == client \in {"app", "extension"} /\ SchedulerInv /\ BackgroundInv

LEMMA ClientAlways == ClientSpec => []ClientInv
<1>1. ClientInit => ClientInv
  BY InitSound, BackgroundStart DEF ClientInit, ClientInv
<1>2. ClientInv /\ [ClientNext]_clientVars => ClientInv'
  <2> SUFFICES ASSUME ClientInv, [ClientNext]_clientVars PROVE ClientInv'
    OBVIOUS
  <2>1. client' = client /\ [SchedulerNext]_schedulerVars /\ [BackgroundNext]_backgroundVars
    BY DEF ClientNext, OnApp, OnExtension, clientVars
  <2> QED BY <2>1, NextSound, BackgroundStep DEF ClientInv
<1> QED BY <1>1, <1>2, PTL DEF ClientSpec

\* What the two schedulers work on is well-typed throughout.
THEOREM ClientTypes == ClientSpec => []ClientTypeOK
<1>1. ClientInv => ClientTypeOK
  BY DEF ClientInv, ClientTypeOK, SchedulerInv, SchedulerTyped, Totals, Generations,
         RunningTyped, Flags, SchedulerTypeOK,
         BackgroundInv, Amounts, Switches, BackgroundTypeOK
<1> QED BY <1>1, ClientAlways, PTL

\* However presses, timers, changes and pages left fall between the awaits, two syncs of a
\* device never overlap, and the flag is up exactly while one runs (platform.rs:262,
\* sync.ts:55); in the app also, with none running, once a pressed one went with its page.
THEOREM SyncsNeverOverlap == ClientSpec => []NeverTwoSyncs
<1>1. SchedulerInv => OneAtATime BY DEF SchedulerInv
<1>2. BackgroundInv => NoOverlap
  BY FS_EmptySet, FS_Singleton DEF BackgroundInv, OneSync, NoOverlap
<1>3. ClientInv => NeverTwoSyncs BY <1>1, <1>2 DEF ClientInv, NeverTwoSyncs
<1> QED BY <1>3, ClientAlways, PTL

\* A change the server lacks has a sync coming, unless it was given up for one of the reasons
\* the two modules name or the app's flag is up for good (`stranded`), for any number of
\* changes, presses, pages left, repeats, failures, restarts, sign-ins and unloads. The
\* sources promise it without the exceptions (platform.rs:250, sync.ts:57).
THEOREM ChangesAreScheduled == ClientSpec => []NothingForgotten
<1>1. SchedulerInv => EveryChangeIsScheduled
  <2> SUFFICES ASSUME SchedulerInv, written > uploaded, written > lost, ~stranded
               PROVE  \/ generation \in asleep
                      \/ inFlight /\ (retry \/ \E s \in running : s.found = written)
                      \/ calls + drills > 0
    BY DEF EveryChangeIsScheduled
  <2>1. CASE ~inFlight BY <2>1 DEF SchedulerInv, RestCovers
  <2>2. CASE inFlight
    <3>1. running # {} BY <2>2 DEF SchedulerInv, OneAtATime
    <3>2. lost # written BY DEF SchedulerInv, SchedulerTyped, Totals
    <3> QED BY <2>2, <3>1, <3>2 DEF SchedulerInv, FlightCovers
  <2> QED BY <2>1, <2>2
<1>2. ClientInv => NothingForgotten
  BY <1>1 DEF ClientInv, BackgroundInv, NothingForgotten
<1> QED BY <1>2, ClientAlways, PTL
=============================================================================
