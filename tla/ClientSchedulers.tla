-------------------------- MODULE ClientSchedulers --------------------------
(***************************************************************************)
(* A device runs the app or the extension, each with a scheduler of its    *)
(* own: the same promises, asked of both.                                  *)
(***************************************************************************)
EXTENDS SyncScheduler, BackgroundScheduler

VARIABLE client  \* what the device runs

clientVars == <<client, schedulerVars, backgroundVars>>

ClientInit == client \in {"app", "extension"} /\ SchedulerInit /\ BackgroundInit

OnApp(action) == client = "app" /\ action /\ UNCHANGED <<client, backgroundVars>>
OnExtension(action) == client = "extension" /\ action /\ UNCHANGED <<client, schedulerVars>>

ClientNext == OnApp(SchedulerNext) \/ OnExtension(BackgroundNext)

\* The runtime of the app goes on with its tasks, that of the browser with the promises
\* and the timer of a background page that is there.
ClientSpec ==
  /\ ClientInit /\ [][ClientNext]_clientVars
  /\ WF_clientVars(OnApp(Task)) /\ WF_clientVars(OnExtension(BackgroundTask))

-----------------------------------------------------------------------------
(* Properties.                                                             *)

\* What both schedulers work on: counts, generations, flags and syncs under way.
ClientTypeOK ==
  client \in {"app", "extension"} /\ SchedulerTypeOK /\ BackgroundTypeOK

\* Two syncs of a device never overlap, whatever mix of timers, repeats and presses
\* (platform.rs:262, sync.ts:55). The flag that sees to it comes down when a sync ends, and
\* in the app not when it is dropped with the page it was pressed on (platform.rs:518).
NeverTwoSyncs == OneAtATime /\ NoOverlap

\* A change the server lacks has a sync coming: "so no change is silently dropped"
\* (sync.ts:57). Both modules name the changes that are given up; and in the app none has
\* a sync coming once a pressed sync was dropped with its page (`stranded`).
NothingForgotten == EveryChangeIsScheduled /\ NoChangeDropped

\* And that sync comes, with the same exceptions: "So every pending change eventually
\* goes up" (platform.rs:250).
ChangesGoUp == EveryChangeGoesUp /\ EveryChangeLands
=============================================================================
