----------------------------- MODULE AnswerSync -----------------------------
(***************************************************************************)
(* Devices uploading their review log: the outbox half of do_sync, over    *)
(* the server of SyncServer. Every answer, scheduled review or drill, is   *)
(* queued in the outbox; a sync uploads the oldest Batch of them and is    *)
(* answered with drill counts. What the drill picker shows is the cached   *)
(* counts plus the drills still queued (app/shared/src/drill_log.rs).      *)
(*                                                                         *)
(* The cards of the same sync are in DeckSync. Here a request carries none,*)
(* so the store transactions that only touch cards are left out.           *)
(***************************************************************************)
EXTENDS SyncServer

CONSTANTS Device,
          Batch,       \* OUTBOX_BATCH
          MaxStray     \* bound on abandoned requests still in the network

ASSUME AnswerAssumption ==
  /\ User # {}
  /\ Batch \in Nat \ {0}
  /\ MaxStray \in Nat
  /\ IsFiniteSet(Answer)
  /\ \A a \in Answer : a.kind # "malformed"

VARIABLES
  outbox,   \* store `reviews`: answers the server has not acknowledged
  counts,   \* store `drills`: the server's drill counts of the last answer
  cursor,   \* store `meta`
  job,      \* the sync in progress, lost in a crash
  stray,    \* uploads whose sender gave up on them, not yet handled
  given     \* history: every answer given on a device

deviceVars == <<outbox, counts, cursor, job>>
vars == <<serverVars, deviceVars, stray, given>>

\* All devices are signed in to one account.
Owner == CHOOSE u \in User : TRUE

NoJob == [step |-> "idle", since |-> None, sent |-> {}, answer |-> None]

AnswerTypeOK ==
  /\ TypeOK
  /\ outbox \in [Device -> SUBSET Answer]
  /\ counts \in [Device -> [Id -> Nat]]
  /\ cursor \in [Device -> Cursor \cup {None}]
  /\ \A d \in Device : /\ job[d].step \in {"idle", "waiting", "replied", "settled"}
                       /\ Cardinality(job[d].sent) <= Batch
  /\ given \in [Device -> SUBSET Answer]

AnswerInit ==
  /\ Init
  /\ outbox = [d \in Device |-> {}]
  /\ counts = [d \in Device |-> [id \in Id |-> 0]]
  /\ cursor = [d \in Device |-> None]
  /\ job = [d \in Device |-> NoJob]
  /\ stray = {}
  /\ given = [d \in Device |-> {}]

Idle(d) == job[d].step = "idle"

-----------------------------------------------------------------------------
\* An answer is logged with the millisecond it was given in.
Give(d, a) ==
  /\ now < MaxNow /\ now' = now + 1
  /\ a.ms = now'
  /\ outbox' = [outbox EXCEPT ![d] = @ \cup {a}]
  /\ given' = [given EXCEPT ![d] = @ \cup {a}]
  /\ UNCHANGED <<meta, tables, backup, counts, cursor, job, stray>>

\* Mutant: the batch is cut in key order, which is by card id.
BatchesByKey(answers) ==
  {b \in SUBSET answers : Cardinality(b) = IF Cardinality(answers) > Batch THEN Batch
                                           ELSE Cardinality(answers)}

\* Mutant: a backlog goes up in one request.
BatchesUnlimited(answers) == {answers}

\* The oldest answers, at most Batch of them.
Batches(answers) ==
  {b \in SUBSET answers :
     /\ Cardinality(b) = IF Cardinality(answers) > Batch THEN Batch ELSE Cardinality(answers)
     /\ \A x \in b, y \in answers \ b : x.ms <= y.ms}

\* The cursor and the outbox are read one after the other; an answer given in
\* between is like one given before.
Send(d) ==
  /\ Idle(d)
  /\ \E batch \in Batches(outbox[d]) :
       job' = [job EXCEPT ![d] = [NoJob EXCEPT !.step = "waiting", !.since = cursor[d],
                                               !.sent = batch]]
  /\ UNCHANGED <<serverVars, outbox, counts, cursor, stray, given>>

NoList == [id \in Id |-> None]

Handle(d) ==
  \E j \in {job[d]} :
    /\ j.step = "waiting"
    /\ Sync(Owner, NoList, NoList, j.sent, None)
    /\ \E answer \in {Response(Owner, j.since, {}, j.sent)'} :
         job' = [job EXCEPT ![d].step = "replied", ![d].answer = answer]
    /\ UNCHANGED <<outbox, counts, cursor, stray, given>>

\* Mutant: settling empties the outbox.
SettleAll(d) ==
  /\ job[d].step = "replied"
  /\ outbox' = [outbox EXCEPT ![d] = {}]
  /\ counts' = [counts EXCEPT ![d] = [id \in Id |->
       IF id \in DOMAIN job[d].answer.counts THEN job[d].answer.counts[id]
       ELSE IF job[d].answer.full THEN 0 ELSE @[id]]]
  /\ job' = [job EXCEPT ![d].step = "settled"]
  /\ UNCHANGED <<serverVars, cursor, stray, given>>

\* One transaction: drop the rows that were sent, take the counts.
Settle(d) ==
  /\ job[d].step = "replied"
  /\ outbox' = [outbox EXCEPT ![d] = @ \ job[d].sent]
  /\ counts' = [counts EXCEPT ![d] = [id \in Id |->
       IF id \in DOMAIN job[d].answer.counts THEN job[d].answer.counts[id]
       ELSE IF job[d].answer.full THEN 0 ELSE @[id]]]
  /\ job' = [job EXCEPT ![d].step = "settled"]
  /\ UNCHANGED <<serverVars, cursor, stray, given>>

SetCursor(d) ==
  /\ job[d].step = "settled"
  /\ cursor' = [cursor EXCEPT ![d] =
       IF job[d].since # None /\ job[d].answer.full THEN None ELSE job[d].answer.cursor]
  /\ job' = [job EXCEPT ![d] = NoJob]
  /\ UNCHANGED <<serverVars, outbox, counts, stray, given>>

\* A network error, a failed transaction or a crash ends the sync where it is.
Abort(d) ==
  /\ ~Idle(d)
  /\ job' = [job EXCEPT ![d] = NoJob]
  /\ stray' \in {stray} \cup (IF job[d].step = "waiting" THEN {stray \cup {job[d].sent}} ELSE {})
  /\ Cardinality(stray') <= MaxStray
  /\ UNCHANGED <<serverVars, outbox, counts, cursor, given>>

HandleStray(batch) ==
  /\ Sync(Owner, NoList, NoList, batch, None)
  /\ stray' = stray \ {batch}
  /\ UNCHANGED <<deviceVars, given>>

\* Signing in again drops the cursor; the next answer is a full one.
SignIn(d) ==
  /\ cursor[d] # None
  /\ cursor' = [cursor EXCEPT ![d] = None]
  /\ UNCHANGED <<serverVars, outbox, counts, job, stray, given>>

AnswerNext ==
  \/ \E d \in Device :
       \/ \E a \in Answer : Give(d, a)
       \/ Send(d) \/ Handle(d) \/ Settle(d) \/ SetCursor(d) \/ Abort(d) \/ SignIn(d)
  \/ \E batch \in stray : HandleStray(batch)

AnswerSpec == AnswerInit /\ [][AnswerNext]_vars

-----------------------------------------------------------------------------
(* Properties.                                                             *)

Pending(d, id) == {a \in outbox[d] : a.kind = "drill" /\ a.card = id}

\* What the drill picker shows for a card, mid-sync or not.
Shown(d, id) == counts[d][id] + Cardinality(Pending(d, id))

Stored(a) == log[Owner][a] # None

\* Every answer given is queued on its device until the server has it, whatever
\* was lost, repeated or given while a sync was in flight.
NoAnswerLost ==
  \A d \in Device : \A a \in given[d] : a \in outbox[d] \/ Stored(a)

\* No answer is counted twice: a drill whose upload was acknowledged to nobody is
\* both stored and queued, but not in the cached counts as well. It takes the
\* batch to be the oldest rows: the retry then carries exactly the rows in doubt.
NoAnswerCountedTwice ==
  \A d \in Device, id \in Id :
    Shown(d, id) <= Cardinality(Pending(d, id) \cup Drills(Owner, id))

\* Between syncs the counts shown are exact, up to answers newer than the cursor.
ShownCountsMatch ==
  \A d \in Device, id \in Id :
    /\ Idle(d) /\ CanServeDelta(cursor[d], Owner, epoch, rev + 1, prunedRev)
    /\ \A a \in Drills(Owner, id) : log[Owner][a] <= cursor[d].rev
    => Shown(d, id) = Cardinality(Pending(d, id) \cup Drills(Owner, id))
=============================================================================
