------------------------- MODULE AnswerSyncProofs --------------------------
(***************************************************************************)
(* Proofs about AnswerSync, for any devices, answers and batch size, and   *)
(* whatever is aborted, repeated or handled late: no answer is lost, none  *)
(* is counted twice, and between syncs the counts shown are exact.         *)
(***************************************************************************)
EXTENDS AnswerSync, SyncServerProofs, FiniteSetTheorems

\* What the server has of the owner's log, and the revision that would stamp more.
LogTyped ==
  /\ rev \in Nat
  /\ DOMAIN log = User
  /\ \A a \in Answer : log[Owner][a] \in Nat \cup {None}

DevicesTyped ==
  /\ outbox \in [Device -> SUBSET Answer]
  /\ given \in [Device -> SUBSET Answer]
  /\ DOMAIN job = Device
  /\ \A d \in Device : job[d].sent \subseteq Answer

\* Abandoned uploads are of answers, too.
StraysTyped == stray \subseteq SUBSET Answer

\* A device that has its answer, and so will drop the rows it sent from the
\* outbox, is right that the server has them.
AcknowledgedIsStored ==
  \A d \in Device : job[d].step \in {"replied", "settled"} =>
    \A a \in job[d].sent : Stored(a)

OutboxInv ==
  LogTyped /\ DevicesTyped /\ StraysTyped /\ AcknowledgedIsStored /\ NoAnswerLost

LEMMA OwnerIsUser == Owner \in User
BY AnswerAssumption DEF AnswerAssumption, Owner

LEMMA NoneIsNoNat == \A n \in Nat : n # None
BY NoneAssumption DEF NoneAssumption

LEMMA AllValid == \A a \in Answer : a.kind # "malformed"
BY AnswerAssumption DEF AnswerAssumption

LEMMA OutboxStarts == AnswerInit => OutboxInv
<1> SUFFICES ASSUME AnswerInit PROVE OutboxInv
  OBVIOUS
<1>1. LogTyped
  BY OwnerIsUser DEF AnswerInit, Init, LogTyped
<1>2. DevicesTyped
  BY DEF AnswerInit, NoJob, DevicesTyped
<1>3. AcknowledgedIsStored
  BY DEF AnswerInit, NoJob, AcknowledgedIsStored
<1>4. NoAnswerLost
  BY DEF AnswerInit, NoAnswerLost
<1>5. StraysTyped
  BY DEF AnswerInit, StraysTyped
<1> QED BY <1>1, <1>2, <1>3, <1>4, <1>5 DEF OutboxInv

\* The server stores what it is sent and forgets nothing it had.
LEMMA SyncStores ==
  ASSUME LogTyped, NEW batch \in SUBSET Answer, Sync(Owner, NoList, NoList, batch, None)
  PROVE  /\ LogTyped'
         /\ \A a \in Answer : Stored(a) => Stored(a)'
         /\ \A a \in batch : Stored(a)'
<1>1. rev' \in Nat /\ rev + 1 \in Nat
  BY DEF Sync, LogTyped
<1>2. log' = [log EXCEPT ![Owner] = InsertReviews(log[Owner], batch, rev + 1)]
  BY DEF Sync
<1>3. DOMAIN log' = User /\ log'[Owner] = InsertReviews(log[Owner], batch, rev + 1)
  BY <1>2, OwnerIsUser DEF LogTyped
<1>4. \A a \in Answer : log'[Owner][a] =
        IF log[Owner][a] = None /\ a \in batch THEN rev + 1 ELSE log[Owner][a]
  BY <1>3, AllValid DEF InsertReviews, ValidAnswers
<1>5. LogTyped'
  BY <1>1, <1>3, <1>4 DEF LogTyped
<1>6. \A a \in Answer : Stored(a) => Stored(a)'
  BY <1>4 DEF Stored
<1>7. \A a \in batch : Stored(a)'
  BY <1>1, <1>4, NoneIsNoNat DEF Stored
<1> QED BY <1>5, <1>6, <1>7

\* It stores nothing else.
LEMMA SyncStoresOnly ==
  ASSUME LogTyped, NEW batch \in SUBSET Answer, Sync(Owner, NoList, NoList, batch, None)
  PROVE  \A a \in Answer : Stored(a)' <=> Stored(a) \/ a \in batch
<1>1. log'[Owner] = InsertReviews(log[Owner], batch, rev + 1)
  BY OwnerIsUser DEF Sync, LogTyped
<1>2. ASSUME NEW a \in Answer, Stored(a)'
      PROVE  Stored(a) \/ a \in batch
  BY <1>1, <1>2 DEF InsertReviews, ValidAnswers, Stored
<1>3. QED BY <1>2, SyncStores

\* Steps that leave the server's log and the answers given alone and drop nothing
\* from an outbox.
LEMMA LogKept ==
  ASSUME OutboxInv, UNCHANGED <<rev, log>>
  PROVE  LogTyped' /\ \A a \in Answer : Stored(a) <=> Stored(a)'
BY DEF OutboxInv, LogTyped, Stored

LEMMA GiveSound == ASSUME NEW d \in Device, NEW a \in Answer, OutboxInv, Give(d, a)
                   PROVE  OutboxInv'
<1>1. UNCHANGED <<rev, log, job>>
  BY DEF Give, meta, tables
<1>2. LogTyped' /\ \A x \in Answer : Stored(x) <=> Stored(x)'
  BY <1>1, LogKept
<1>3. /\ outbox' = [outbox EXCEPT ![d] = @ \cup {a}]
      /\ given' = [given EXCEPT ![d] = @ \cup {a}]
  BY DEF Give
<1>4. DevicesTyped'
  BY <1>1, <1>3 DEF OutboxInv, DevicesTyped
<1>5. AcknowledgedIsStored'
  BY <1>1, <1>2 DEF OutboxInv, DevicesTyped, AcknowledgedIsStored
<1>6. NoAnswerLost'
  BY <1>2, <1>3 DEF OutboxInv, DevicesTyped, NoAnswerLost
<1>7. StraysTyped'
  BY DEF Give, OutboxInv, StraysTyped
<1> QED BY <1>2, <1>4, <1>5, <1>6, <1>7 DEF OutboxInv

LEMMA SendSound == ASSUME NEW d \in Device, OutboxInv, Send(d) PROVE OutboxInv'
<1>1. UNCHANGED <<rev, log, outbox, given>>
  BY DEF Send, serverVars, meta, tables
<1>2. LogTyped' /\ \A x \in Answer : Stored(x) <=> Stored(x)'
  BY <1>1, LogKept
<1>3. PICK batch \in SUBSET outbox[d] :
        job' = [job EXCEPT ![d] = [NoJob EXCEPT !.step = "waiting", !.since = cursor[d],
                                                !.sent = batch]]
  BY DEF Send, Batches
<1>4. /\ job'[d].sent = batch /\ job'[d].step = "waiting"
      /\ \A e \in Device \ {d} : job'[e] = job[e]
      /\ DOMAIN job' = Device
  BY <1>3 DEF OutboxInv, DevicesTyped, NoJob
<1>5. DevicesTyped'
  BY <1>1, <1>4 DEF OutboxInv, DevicesTyped
<1>6. AcknowledgedIsStored'
  BY <1>2, <1>4 DEF OutboxInv, DevicesTyped, AcknowledgedIsStored
<1>7. NoAnswerLost'
  BY <1>1, <1>2 DEF OutboxInv, DevicesTyped, NoAnswerLost
<1>8. StraysTyped'
  BY DEF Send, OutboxInv, StraysTyped
<1> QED BY <1>2, <1>5, <1>6, <1>7, <1>8 DEF OutboxInv

LEMMA HandleSound == ASSUME NEW d \in Device, OutboxInv, Handle(d) PROVE OutboxInv'
<1>1. /\ Sync(Owner, NoList, NoList, job[d].sent, None)
      /\ UNCHANGED <<outbox, given>>
  BY DEF Handle
<1>2. job[d].sent \in SUBSET Answer
  BY DEF OutboxInv, DevicesTyped
<1>3. /\ LogTyped'
      /\ \A a \in Answer : Stored(a) => Stored(a)'
      /\ \A a \in job[d].sent : Stored(a)'
  BY <1>1, <1>2, SyncStores DEF OutboxInv
<1>4. PICK answer : job' = [job EXCEPT ![d].step = "replied", ![d].answer = answer]
  BY DEF Handle
<1>5. /\ job'[d].sent = job[d].sent
      /\ \A e \in Device \ {d} : job'[e] = job[e]
      /\ DOMAIN job' = Device
  BY <1>4 DEF OutboxInv, DevicesTyped
<1>6. DevicesTyped'
  BY <1>1, <1>5 DEF OutboxInv, DevicesTyped
<1>7. AcknowledgedIsStored'
  BY <1>3, <1>5 DEF OutboxInv, DevicesTyped, AcknowledgedIsStored
<1>8. NoAnswerLost'
  BY <1>1, <1>3 DEF OutboxInv, DevicesTyped, NoAnswerLost
<1>9. StraysTyped'
  BY DEF Handle, OutboxInv, StraysTyped
<1> QED BY <1>3, <1>6, <1>7, <1>8, <1>9 DEF OutboxInv

LEMMA SettleSound == ASSUME NEW d \in Device, OutboxInv, Settle(d) PROVE OutboxInv'
<1>1. UNCHANGED <<rev, log, given>>
  BY DEF Settle, serverVars, meta, tables
<1>2. LogTyped' /\ \A x \in Answer : Stored(x) <=> Stored(x)'
  BY <1>1, LogKept
<1>3. /\ job[d].step = "replied"
      /\ outbox' = [outbox EXCEPT ![d] = @ \ job[d].sent]
      /\ job' = [job EXCEPT ![d].step = "settled"]
  BY DEF Settle
<1>4. /\ \A e \in Device : job'[e].sent = job[e].sent
      /\ \A e \in Device \ {d} : job'[e] = job[e]
      /\ DOMAIN job' = Device
  BY <1>3 DEF OutboxInv, DevicesTyped
<1>5. DevicesTyped'
  BY <1>1, <1>3, <1>4 DEF OutboxInv, DevicesTyped
<1>6. AcknowledgedIsStored'
  BY <1>2, <1>3, <1>4 DEF OutboxInv, DevicesTyped, AcknowledgedIsStored
<1>7. NoAnswerLost'
  <2>1. \A e \in Device \ {d} : outbox'[e] = outbox[e]
    BY <1>3 DEF OutboxInv, DevicesTyped
  <2>2. outbox'[d] = outbox[d] \ job[d].sent
    BY <1>3 DEF OutboxInv, DevicesTyped
  <2>3. \A a \in job[d].sent : Stored(a)
    BY <1>3 DEF OutboxInv, AcknowledgedIsStored
  <2> QED BY <1>1, <1>2, <2>1, <2>2, <2>3 DEF OutboxInv, DevicesTyped, NoAnswerLost
<1>8. StraysTyped'
  BY DEF Settle, OutboxInv, StraysTyped
<1> QED BY <1>2, <1>5, <1>6, <1>7, <1>8 DEF OutboxInv

\* Steps that end a sync: the job is forgotten and nothing else of this changes.
LEMMA EndSound ==
  ASSUME NEW d \in Device, OutboxInv, UNCHANGED <<rev, log, outbox, given>>,
         job' = [job EXCEPT ![d] = NoJob], StraysTyped'
  PROVE  OutboxInv'
<1>1. LogTyped' /\ \A x \in Answer : Stored(x) <=> Stored(x)'
  BY LogKept
<1>2. /\ job'[d].sent = {} /\ job'[d].step = "idle"
      /\ \A e \in Device \ {d} : job'[e] = job[e]
      /\ DOMAIN job' = Device
  BY DEF OutboxInv, DevicesTyped, NoJob
<1>3. DevicesTyped'
  BY <1>2 DEF OutboxInv, DevicesTyped
<1>4. AcknowledgedIsStored'
  BY <1>1, <1>2 DEF OutboxInv, DevicesTyped, AcknowledgedIsStored
<1>5. NoAnswerLost'
  BY <1>1 DEF OutboxInv, DevicesTyped, NoAnswerLost
<1> QED BY <1>1, <1>3, <1>4, <1>5 DEF OutboxInv

LEMMA SetCursorSound == ASSUME NEW d \in Device, OutboxInv, SetCursor(d) PROVE OutboxInv'
<1>1. UNCHANGED <<rev, log, outbox, given>> /\ job' = [job EXCEPT ![d] = NoJob]
  BY DEF SetCursor, serverVars, meta, tables
<1>2. StraysTyped'
  BY DEF SetCursor, OutboxInv, StraysTyped
<1> QED BY <1>1, <1>2, EndSound

LEMMA AbortSound == ASSUME NEW d \in Device, OutboxInv, Abort(d) PROVE OutboxInv'
<1>1. UNCHANGED <<rev, log, outbox, given>> /\ job' = [job EXCEPT ![d] = NoJob]
  BY DEF Abort, serverVars, meta, tables
<1>2. stray' \subseteq stray \cup {job[d].sent}
  BY DEF Abort
<1>3. StraysTyped'
  BY <1>2 DEF OutboxInv, DevicesTyped, StraysTyped
<1> QED BY <1>1, <1>3, EndSound

LEMMA SignInSound == ASSUME NEW d \in Device, OutboxInv, SignIn(d) PROVE OutboxInv'
BY DEF SignIn, serverVars, meta, tables, OutboxInv, LogTyped, DevicesTyped, StraysTyped,
   AcknowledgedIsStored, NoAnswerLost, Stored

\* An upload its sender gave up on is handled late: the server stores it.
LEMMA StraySound ==
  ASSUME NEW batch \in stray, OutboxInv, HandleStray(batch) PROVE OutboxInv'
<1>1. /\ Sync(Owner, NoList, NoList, batch, None)
      /\ stray' = stray \ {batch}
      /\ UNCHANGED <<outbox, job, given>>
  BY DEF HandleStray, deviceVars
<1>2. batch \in SUBSET Answer
  BY DEF OutboxInv, StraysTyped
<1>3. LogTyped' /\ \A a \in Answer : Stored(a) => Stored(a)'
  BY <1>1, <1>2, SyncStores DEF OutboxInv
<1>4. DevicesTyped' /\ StraysTyped'
  BY <1>1 DEF OutboxInv, DevicesTyped, StraysTyped
<1>5. AcknowledgedIsStored'
  BY <1>1, <1>3 DEF OutboxInv, DevicesTyped, AcknowledgedIsStored
<1>6. NoAnswerLost'
  BY <1>1, <1>3 DEF OutboxInv, DevicesTyped, NoAnswerLost
<1> QED BY <1>3, <1>4, <1>5, <1>6 DEF OutboxInv

LEMMA OutboxStep == OutboxInv /\ [AnswerNext]_vars => OutboxInv'
<1> SUFFICES ASSUME OutboxInv, [AnswerNext]_vars PROVE OutboxInv'
  OBVIOUS
<1>1. ASSUME NEW d \in Device, NEW a \in Answer, Give(d, a) PROVE OutboxInv'
  BY <1>1, GiveSound
<1>2. ASSUME NEW d \in Device, Send(d) PROVE OutboxInv'
  BY <1>2, SendSound
<1>3. ASSUME NEW d \in Device, Handle(d) PROVE OutboxInv'
  BY <1>3, HandleSound
<1>4. ASSUME NEW d \in Device, Settle(d) PROVE OutboxInv'
  BY <1>4, SettleSound
<1>5. ASSUME NEW d \in Device, SetCursor(d) PROVE OutboxInv'
  BY <1>5, SetCursorSound
<1>6. ASSUME NEW d \in Device, Abort(d) PROVE OutboxInv'
  BY <1>6, AbortSound
<1>7. ASSUME NEW d \in Device, SignIn(d) PROVE OutboxInv'
  BY <1>7, SignInSound
<1>8. ASSUME NEW batch \in stray, HandleStray(batch) PROVE OutboxInv'
  BY <1>8, StraySound
<1>9. CASE UNCHANGED vars
  BY <1>9 DEF vars, serverVars, meta, tables, deviceVars, OutboxInv, LogTyped, DevicesTyped,
     StraysTyped, AcknowledgedIsStored, NoAnswerLost, Stored
<1> QED BY <1>1, <1>2, <1>3, <1>4, <1>5, <1>6, <1>7, <1>8, <1>9 DEF AnswerNext

\* The inductive invariant of the outbox: what a device is about to drop is stored.
THEOREM OutboxIsSound == AnswerSpec => []OutboxInv
BY OutboxStarts, OutboxStep, PTL DEF AnswerSpec

\* Every answer given is queued on its device until the server has it.
THEOREM AnswersAreNeverLost == AnswerSpec => []NoAnswerLost
<1>1. OutboxInv => NoAnswerLost BY DEF OutboxInv
<1> QED BY <1>1, OutboxIsSound, PTL

-----------------------------------------------------------------------------
(* Which queued rows may be on the server already.                         *)

\* The rows of `rows` that are its oldest, one batch of them or fewer.
Oldest(some, rows) ==
  /\ some \subseteq rows
  /\ Cardinality(some) <= Batch
  /\ \A x \in some, y \in rows \ some : x.ms < y.ms

\* Queued rows an earlier upload took along: the server has them, or may yet.
InDoubt(d) == {a \in outbox[d] : Stored(a) \/ \E batch \in stray : a \in batch}

\* Every answer has a millisecond of its own, and none is from the future.
AnswersApart ==
  /\ now \in Nat
  /\ \A d \in Device : outbox[d] \subseteq given[d] /\ job[d].sent \subseteq given[d]
  /\ \A d \in Device : \A a \in given[d] : a.ms <= now
  /\ \A a \in Answer : Stored(a) => a.ms <= now
  /\ \A batch \in stray : \A a \in batch : a.ms <= now
  /\ \A d, e \in Device : \A a \in given[d], b \in given[e] : a.ms = b.ms => d = e /\ a = b

\* The rows in doubt are the oldest in the outbox, so whatever batch is sent next
\* carries them all.
BatchFits(d) ==
  /\ Oldest(InDoubt(d), outbox[d])
  /\ job[d].step \in {"waiting", "replied"} =>
       Oldest(job[d].sent, outbox[d]) /\ InDoubt(d) \subseteq job[d].sent

BatchInv == OutboxInv /\ AnswersApart /\ \A d \in Device : BatchFits(d)

LEMMA AnswerMs == \A a \in Answer : a.ms \in Nat
BY ServerAssumption, StampAssumption DEF ServerAssumption, StampAssumption, AnswerShape

LEMMA SomeFinite == ASSUME NEW s \in SUBSET Answer
                    PROVE  IsFiniteSet(s) /\ Cardinality(s) \in Nat
BY AnswerAssumption, FS_Subset, FS_CardinalityType DEF AnswerAssumption

\* A batch is the oldest rows, and as many as any set of oldest rows: it holds
\* every such set. This is where the order of the outbox matters.
LEMMA BatchHoldsOldest ==
  ASSUME NEW rows \in SUBSET Answer, NEW b \in Batches(rows),
         \A x, y \in rows : x.ms = y.ms => x = y
  PROVE  /\ Oldest(b, rows)
         /\ \A some : Oldest(some, rows) => some \subseteq b
<1>1. /\ b \subseteq rows
      /\ Cardinality(b) = IF Cardinality(rows) > Batch THEN Batch ELSE Cardinality(rows)
      /\ \A x \in b, y \in rows \ b : x.ms <= y.ms
  BY DEF Batches
<1>2. /\ Cardinality(rows) \in Nat /\ Batch \in Nat
      /\ IsFiniteSet(rows) /\ IsFiniteSet(b) /\ Cardinality(b) \in Nat
  BY <1>1, SomeFinite, AnswerAssumption DEF AnswerAssumption
<1>3. Oldest(b, rows)
  <2>1. Cardinality(b) <= Batch
    BY <1>1, <1>2
  <2>2. \A x \in b, y \in rows \ b : x.ms < y.ms
    <3>1. ASSUME NEW x \in b, NEW y \in rows \ b
          PROVE  x.ms < y.ms
      <4>1. x \in Answer /\ y \in Answer /\ x \in rows /\ y \in rows /\ x # y
        BY <1>1
      <4>2. x.ms <= y.ms /\ x.ms # y.ms
        BY <1>1, <4>1
      <4>3. QED BY <4>1, <4>2, AnswerMs
    <3>2. QED BY <3>1
  <2>3. QED BY <1>1, <2>1, <2>2 DEF Oldest
<1>4. ASSUME NEW some, Oldest(some, rows), NEW a \in some, a \notin b
      PROVE  FALSE
  <2>1. some \in SUBSET Answer /\ a \in rows /\ a \in Answer
        /\ Cardinality(some) <= Batch /\ \A x \in some, y \in rows \ some : x.ms < y.ms
    BY <1>4 DEF Oldest
  <2>2. b \subseteq some \ {a}
    <3>1. ASSUME NEW x \in b, x \notin some
          PROVE  FALSE
      <4>1. x \in rows /\ x \in Answer
        BY <1>1
      <4>2. x.ms <= a.ms /\ a.ms < x.ms
        BY <1>1, <1>4, <2>1, <3>1, <4>1
      <4>3. QED BY <2>1, <4>1, <4>2, AnswerMs
    <3>2. QED BY <1>4, <3>1
  <2>3. /\ IsFiniteSet(some) /\ Cardinality(some) \in Nat
        /\ IsFiniteSet(some \ {a}) /\ Cardinality(some \ {a}) = Cardinality(some) - 1
    BY <1>4, <2>1, SomeFinite, FS_RemoveElement
  <2>4. Cardinality(b) <= Cardinality(some) - 1
    BY <2>2, <2>3, FS_Subset
  <2>5. Cardinality(some) <= Cardinality(rows)
    BY <1>2, <1>4, FS_Subset DEF Oldest
  <2>6. QED BY <1>1, <1>2, <2>1, <2>3, <2>4, <2>5
<1>5. QED BY <1>3, <1>4

\* Newer rows do not make any of the oldest less old.
LEMMA OldestWithNewer ==
  ASSUME NEW some, NEW rows, NEW a, Oldest(some, rows), \A x \in rows : x.ms < a.ms
  PROVE  Oldest(some, rows \cup {a})
BY DEF Oldest

LEMMA BatchStarts == AnswerInit => BatchInv
<1> SUFFICES ASSUME AnswerInit PROVE BatchInv
  OBVIOUS
<1>1. OutboxInv
  BY OutboxStarts
<1>2. \A a \in Answer : ~Stored(a)
  BY OwnerIsUser DEF AnswerInit, Init, Stored
<1>3. AnswersApart
  BY <1>2 DEF AnswersApart, AnswerInit, Init, NoJob
<1>4. ASSUME NEW d \in Device
      PROVE  BatchFits(d)
  <2>1. outbox[d] = {} /\ InDoubt(d) = {} /\ job[d].step = "idle"
    BY DEF AnswerInit, NoJob, InDoubt
  <2>2. Cardinality({}) <= Batch
    BY FS_EmptySet, AnswerAssumption DEF AnswerAssumption
  <2>3. QED BY <2>1, <2>2 DEF BatchFits, Oldest
<1>5. QED BY <1>1, <1>3, <1>4 DEF BatchInv

\* What one row of a device's outbox says of another's uploads: nothing.
LEMMA OutboxesApart ==
  ASSUME BatchInv, NEW d \in Device, NEW e \in Device, e # d
  PROVE  \A a \in outbox[e] : a \notin job[d].sent
BY DEF BatchInv, AnswersApart

\* Steps that leave the log, the strays, the outboxes and the jobs' batches alone.
LEMMA BatchKept ==
  ASSUME BatchInv, OutboxInv', NEW d \in Device,
         UNCHANGED <<now, log, stray, outbox, given>>,
         \A e \in Device : \/ job'[e] = job[e]
                           \/ job'[e].sent = {} /\ job'[e].step = "idle"
                           \/ job'[e].sent = job[e].sent /\ job'[e].step \notin {"waiting", "replied"}
  PROVE  BatchInv'
<1>1. \A a \in Answer : Stored(a)' <=> Stored(a)
  BY DEF Stored
<1>2. \A e \in Device : InDoubt(e)' = InDoubt(e)
  BY <1>1 DEF InDoubt, Stored
<1>3. \A e \in Device : job'[e].sent = job[e].sent \/ job'[e].sent = {}
  OBVIOUS
<1>4. AnswersApart'
  BY <1>1, <1>3 DEF BatchInv, AnswersApart
<1>5. \A e \in Device : BatchFits(e)'
  BY <1>2 DEF BatchInv, BatchFits
<1>6. QED BY <1>4, <1>5 DEF BatchInv

LEMMA GiveKeepsBatch == ASSUME NEW d \in Device, NEW a \in Answer, BatchInv, Give(d, a)
                        PROVE  BatchInv'
<1>1. OutboxInv'
  BY GiveSound DEF BatchInv
<1>2. /\ now \in Nat /\ now' = now + 1 /\ a.ms = now + 1
      /\ outbox' = [outbox EXCEPT ![d] = @ \cup {a}]
      /\ given' = [given EXCEPT ![d] = @ \cup {a}]
      /\ UNCHANGED <<log, stray, job>>
  BY DEF Give, BatchInv, AnswersApart, tables
<1>3. /\ \A e \in Device : outbox[e] \subseteq given[e] /\ job[e].sent \subseteq given[e]
      /\ \A e \in Device : given[e] \subseteq Answer /\ \A x \in given[e] : x.ms <= now
      /\ \A x \in Answer : Stored(x) => x.ms <= now
      /\ \A batch \in stray : \A x \in batch : x.ms <= now
      /\ \A e, f \in Device : \A x \in given[e], y \in given[f] : x.ms = y.ms => e = f /\ x = y
  BY DEF BatchInv, AnswersApart, OutboxInv, DevicesTyped
<1>4. /\ outbox'[d] = outbox[d] \cup {a} /\ given'[d] = given[d] \cup {a}
      /\ \A e \in Device \ {d} : outbox'[e] = outbox[e] /\ given'[e] = given[e]
  BY <1>2 DEF BatchInv, OutboxInv, DevicesTyped
<1>5. /\ \A e \in Device : \A x \in given[e] : x.ms # a.ms /\ x.ms < a.ms
      /\ ~Stored(a) /\ \A batch \in stray : a \notin batch
  BY <1>2, <1>3, AnswerMs
<1>6. \A x \in Answer : Stored(x)' <=> Stored(x)
  BY <1>2 DEF Stored
<1>7. AnswersApart'
  <2>1. \A e \in Device : outbox'[e] \subseteq given'[e] /\ job'[e].sent \subseteq given'[e]
    BY <1>2, <1>3, <1>4
  <2>2. \A e \in Device : \A x \in given'[e] : x.ms <= now'
    BY <1>2, <1>3, <1>4, AnswerMs
  <2>3. \A x \in Answer : Stored(x)' => x.ms <= now'
    BY <1>2, <1>3, <1>6, AnswerMs
  <2>4. \A batch \in stray' : \A x \in batch : x.ms <= now'
    BY <1>2, <1>3, AnswerMs DEF BatchInv, OutboxInv, StraysTyped
  <2>5. ASSUME NEW e \in Device, NEW f \in Device, NEW x \in given'[e], NEW y \in given'[f],
               x.ms = y.ms
        PROVE  e = f /\ x = y
    <3>1. (x \in given[e] \/ (e = d /\ x = a)) /\ (y \in given[f] \/ (f = d /\ y = a))
      BY <1>4
    <3>2. QED BY <1>3, <1>5, <2>5, <3>1
  <2>6. QED BY <1>2, <2>1, <2>2, <2>3, <2>4, <2>5 DEF AnswersApart
<1>8. ASSUME NEW e \in Device
      PROVE  BatchFits(e)'
  <2>1. InDoubt(e)' = InDoubt(e)
    <3>1. \A x \in outbox[e] : x \in Answer
      BY <1>3
    <3>2. CASE e = d
      BY <1>2, <1>4, <1>5, <1>6, <3>1, <3>2 DEF InDoubt
    <3>3. CASE e # d
      BY <1>2, <1>4, <1>6, <3>1, <3>3 DEF InDoubt
    <3>4. QED BY <3>2, <3>3
  <2>2. BatchFits(e)
    BY DEF BatchInv
  <2>3. ASSUME NEW some, Oldest(some, outbox[e])
        PROVE  Oldest(some, outbox'[e])
    BY <1>3, <1>4, <1>5, <2>3, OldestWithNewer
  <2>4. Oldest(InDoubt(e), outbox'[e])
    BY <2>2, <2>3 DEF BatchFits
  <2>5. job[e].step \in {"waiting", "replied"} =>
          Oldest(job[e].sent, outbox'[e]) /\ InDoubt(e) \subseteq job[e].sent
    BY <2>2, <2>3 DEF BatchFits
  <2>6. QED BY <1>2, <2>1, <2>4, <2>5 DEF BatchFits
<1>9. QED BY <1>1, <1>7, <1>8 DEF BatchInv

\* The batch sent carries every row in doubt.
LEMMA SendKeepsBatch == ASSUME NEW d \in Device, BatchInv, Send(d) PROVE BatchInv'
<1>1. OutboxInv'
  BY SendSound DEF BatchInv
<1>2. UNCHANGED <<now, log, stray, outbox, given>>
  BY DEF Send, serverVars, tables
<1>3. PICK batch \in Batches(outbox[d]) :
        job' = [job EXCEPT ![d] = [NoJob EXCEPT !.step = "waiting", !.since = cursor[d],
                                                !.sent = batch]]
  BY DEF Send
<1>4. /\ job'[d].sent = batch /\ \A e \in Device \ {d} : job'[e] = job[e]
      /\ outbox[d] \in SUBSET Answer /\ batch \subseteq outbox[d]
  BY <1>3 DEF BatchInv, OutboxInv, DevicesTyped, NoJob, Batches
<1>5. Oldest(batch, outbox[d]) /\ \A some : Oldest(some, outbox[d]) => some \subseteq batch
  <2>1. \A x, y \in outbox[d] : x.ms = y.ms => x = y
    BY DEF BatchInv, AnswersApart
  <2>2. QED BY <1>4, <2>1, BatchHoldsOldest
<1>6. \A a \in Answer : Stored(a)' <=> Stored(a)
  BY <1>2 DEF Stored
<1>7. \A e \in Device : InDoubt(e)' = InDoubt(e)
  BY <1>2 DEF InDoubt, Stored
<1>8. AnswersApart'
  BY <1>2, <1>4, <1>6 DEF BatchInv, AnswersApart
<1>9. \A e \in Device : BatchFits(e)'
  BY <1>2, <1>4, <1>5, <1>7 DEF BatchInv, BatchFits
<1>10. QED BY <1>1, <1>8, <1>9 DEF BatchInv

\* A handled upload: the rows it carried go from in doubt to stored.
LEMMA HandleKeepsBatch == ASSUME NEW d \in Device, BatchInv, Handle(d) PROVE BatchInv'
<1>1. OutboxInv'
  BY HandleSound DEF BatchInv
<1>2. /\ Sync(Owner, NoList, NoList, job[d].sent, None) /\ job[d].step = "waiting"
      /\ UNCHANGED <<now, stray, outbox, given>>
  BY DEF Handle, Sync
<1>3. job[d].sent \in SUBSET Answer /\ LogTyped
  BY DEF BatchInv, OutboxInv, DevicesTyped
<1>4. \A a \in Answer : Stored(a)' <=> Stored(a) \/ a \in job[d].sent
  BY <1>2, <1>3, SyncStoresOnly
<1>5. PICK answer : job' = [job EXCEPT ![d].step = "replied", ![d].answer = answer]
  BY DEF Handle
<1>6. /\ job'[d].sent = job[d].sent /\ \A e \in Device \ {d} : job'[e] = job[e]
      /\ \A e \in Device : job'[e].sent = job[e].sent
  BY <1>5 DEF BatchInv, OutboxInv, DevicesTyped
<1>7. \A a \in job[d].sent : a.ms <= now
  BY DEF BatchInv, AnswersApart
<1>8. AnswersApart'
  BY <1>2, <1>4, <1>6, <1>7 DEF BatchInv, AnswersApart
<1>9. BatchFits(d)'
  <2>1. Oldest(job[d].sent, outbox[d]) /\ InDoubt(d) \subseteq job[d].sent
    BY <1>2 DEF BatchInv, BatchFits
  <2>2. \A a \in outbox[d] : a \in Answer
    BY DEF BatchInv, OutboxInv, DevicesTyped
  <2>3. InDoubt(d)' = job[d].sent
    BY <1>2, <1>4, <2>1, <2>2 DEF InDoubt, Oldest
  <2>4. QED BY <1>2, <1>6, <2>1, <2>3 DEF BatchFits
<1>10. ASSUME NEW e \in Device, e # d
       PROVE  BatchFits(e)'
  <2>1. \A a \in outbox[e] : a \in Answer /\ a \notin job[d].sent
    BY <1>10, OutboxesApart DEF BatchInv, OutboxInv, DevicesTyped
  <2>2. InDoubt(e)' = InDoubt(e)
    BY <1>2, <1>4, <2>1 DEF InDoubt
  <2>3. job'[e] = job[e]
    BY <1>6, <1>10
  <2>4. QED BY <1>2, <2>2, <2>3 DEF BatchInv, BatchFits
<1>11. QED BY <1>1, <1>8, <1>9, <1>10 DEF BatchInv

\* An acknowledged batch leaves no row in doubt.
LEMMA SettleKeepsBatch == ASSUME NEW d \in Device, BatchInv, Settle(d) PROVE BatchInv'
<1>1. OutboxInv'
  BY SettleSound DEF BatchInv
<1>2. /\ job[d].step = "replied"
      /\ outbox' = [outbox EXCEPT ![d] = @ \ job[d].sent]
      /\ job' = [job EXCEPT ![d].step = "settled"]
      /\ UNCHANGED <<now, log, stray, given>>
  BY DEF Settle, serverVars, tables
<1>3. /\ outbox'[d] = outbox[d] \ job[d].sent /\ job'[d].step = "settled"
      /\ \A e \in Device \ {d} : outbox'[e] = outbox[e] /\ job'[e] = job[e]
      /\ \A e \in Device : job'[e].sent = job[e].sent /\ outbox'[e] \subseteq outbox[e]
  BY <1>2 DEF BatchInv, OutboxInv, DevicesTyped
<1>4. \A a \in Answer : Stored(a)' <=> Stored(a)
  BY <1>2 DEF Stored
<1>5. AnswersApart'
  BY <1>2, <1>3, <1>4 DEF BatchInv, AnswersApart
<1>6. BatchFits(d)'
  <2>1. InDoubt(d) \subseteq job[d].sent
    BY <1>2 DEF BatchInv, BatchFits
  <2>2. InDoubt(d)' = {}
    BY <1>2, <1>3, <2>1 DEF InDoubt, Stored
  <2>3. Cardinality({}) <= Batch
    BY FS_EmptySet, AnswerAssumption DEF AnswerAssumption
  <2>4. QED BY <1>3, <2>2, <2>3 DEF BatchFits, Oldest
<1>7. ASSUME NEW e \in Device, e # d
      PROVE  BatchFits(e)'
  <2>1. InDoubt(e)' = InDoubt(e) /\ job'[e] = job[e] /\ outbox'[e] = outbox[e]
    BY <1>2, <1>3, <1>7 DEF InDoubt, Stored
  <2>2. QED BY <2>1 DEF BatchInv, BatchFits
<1>8. QED BY <1>1, <1>5, <1>6, <1>7 DEF BatchInv

\* An upload given up on leaves the rows it carried in doubt: still the oldest.
LEMMA AbortKeepsBatch == ASSUME NEW d \in Device, BatchInv, Abort(d) PROVE BatchInv'
<1>1. OutboxInv'
  BY AbortSound DEF BatchInv
<1>2. /\ job' = [job EXCEPT ![d] = NoJob]
      /\ stray' = stray \/ (job[d].step = "waiting" /\ stray' = stray \cup {job[d].sent})
      /\ UNCHANGED <<now, log, outbox, given>>
  BY DEF Abort, serverVars, tables
<1>3. /\ job'[d].sent = {} /\ job'[d].step = "idle"
      /\ \A e \in Device \ {d} : job'[e] = job[e]
  BY <1>2 DEF BatchInv, OutboxInv, DevicesTyped, NoJob
<1>4. CASE stray' = stray
  BY <1>1, <1>2, <1>3, <1>4, BatchKept
<1>5. CASE job[d].step = "waiting" /\ stray' = stray \cup {job[d].sent}
  <2>1. \A a \in Answer : Stored(a)' <=> Stored(a)
    BY <1>2 DEF Stored
  <2>2. AnswersApart'
    BY <1>2, <1>3, <1>5, <2>1 DEF BatchInv, AnswersApart
  <2>3. BatchFits(d)'
    <3>1. Oldest(job[d].sent, outbox[d]) /\ InDoubt(d) \subseteq job[d].sent
      BY <1>5 DEF BatchInv, BatchFits
    <3>2. InDoubt(d)' = job[d].sent
      BY <1>2, <1>5, <3>1 DEF InDoubt, Oldest, Stored
    <3>3. QED BY <1>2, <1>3, <3>1, <3>2 DEF BatchFits
  <2>4. ASSUME NEW e \in Device, e # d
        PROVE  BatchFits(e)'
    <3>1. \A a \in outbox[e] : a \notin job[d].sent
      BY <2>4, OutboxesApart
    <3>2. InDoubt(e)' = InDoubt(e) /\ job'[e] = job[e]
      BY <1>2, <1>3, <1>5, <2>4, <3>1 DEF InDoubt, Stored
    <3>3. QED BY <1>2, <3>2 DEF BatchInv, BatchFits
  <2>5. QED BY <1>1, <2>2, <2>3, <2>4 DEF BatchInv
<1>6. QED BY <1>2, <1>4, <1>5

\* A late upload turns doubt into certainty, for the same rows.
LEMMA StrayKeepsBatch ==
  ASSUME NEW batch \in stray, BatchInv, HandleStray(batch) PROVE BatchInv'
<1>1. OutboxInv'
  BY StraySound DEF BatchInv
<1>2. /\ Sync(Owner, NoList, NoList, batch, None)
      /\ stray' = stray \ {batch}
      /\ UNCHANGED <<now, outbox, job, given>>
  BY DEF HandleStray, deviceVars, Sync
<1>3. batch \in SUBSET Answer /\ LogTyped
  BY DEF BatchInv, OutboxInv, StraysTyped
<1>4. \A a \in Answer : Stored(a)' <=> Stored(a) \/ a \in batch
  BY <1>2, <1>3, SyncStoresOnly
<1>5. AnswersApart'
  BY <1>2, <1>4 DEF BatchInv, AnswersApart
<1>6. ASSUME NEW e \in Device
      PROVE  BatchFits(e)'
  <2>1. \A a \in outbox[e] : a \in Answer
    BY DEF BatchInv, OutboxInv, DevicesTyped
  <2>2. InDoubt(e)' = InDoubt(e)
    BY <1>2, <1>4, <2>1 DEF InDoubt
  <2>3. QED BY <1>2, <2>2 DEF BatchInv, BatchFits
<1>7. QED BY <1>1, <1>5, <1>6 DEF BatchInv

LEMMA BatchStep == BatchInv /\ [AnswerNext]_vars => BatchInv'
<1> SUFFICES ASSUME BatchInv, [AnswerNext]_vars PROVE BatchInv'
  OBVIOUS
<1>1. OutboxInv'
  BY OutboxStep DEF BatchInv
<1>2. ASSUME NEW d \in Device, SetCursor(d) PROVE BatchInv'
  <2>1. UNCHANGED <<now, log, stray, outbox, given>> /\ job' = [job EXCEPT ![d] = NoJob]
    BY <1>2 DEF SetCursor, serverVars, tables
  <2>2. /\ \A e \in Device \ {d} : job'[e] = job[e]
        /\ job'[d].sent = {} /\ job'[d].step = "idle"
    BY <2>1 DEF BatchInv, OutboxInv, DevicesTyped, NoJob
  <2>3. QED BY <1>1, <2>1, <2>2, BatchKept
<1>3. ASSUME NEW d \in Device, SignIn(d) PROVE BatchInv'
  BY <1>1, <1>3, BatchKept DEF SignIn, serverVars, tables
<1>4. ASSUME NEW d \in Device, NEW a \in Answer, Give(d, a) PROVE BatchInv'
  BY <1>4, GiveKeepsBatch
<1>5. ASSUME NEW d \in Device, Send(d) PROVE BatchInv'
  BY <1>5, SendKeepsBatch
<1>6. ASSUME NEW d \in Device, Handle(d) PROVE BatchInv'
  BY <1>6, HandleKeepsBatch
<1>7. ASSUME NEW d \in Device, Settle(d) PROVE BatchInv'
  BY <1>7, SettleKeepsBatch
<1>8. ASSUME NEW d \in Device, Abort(d) PROVE BatchInv'
  BY <1>8, AbortKeepsBatch
<1>9. ASSUME NEW batch \in stray, HandleStray(batch) PROVE BatchInv'
  BY <1>9, StrayKeepsBatch
<1>10. CASE UNCHANGED vars
  <2>1. UNCHANGED <<now, log, stray, outbox, given, job>>
    BY <1>10 DEF vars, serverVars, tables, deviceVars
  <2>2. \A a \in Answer : Stored(a)' <=> Stored(a)
    BY <2>1 DEF Stored
  <2>3. \A e \in Device : InDoubt(e)' = InDoubt(e)
    BY <2>1 DEF InDoubt, Stored
  <2>4. QED BY <1>1, <2>1, <2>2, <2>3 DEF BatchInv, AnswersApart, BatchFits
<1>11. QED BY <1>2, <1>3, <1>4, <1>5, <1>6, <1>7, <1>8, <1>9, <1>10 DEF AnswerNext

-----------------------------------------------------------------------------
(* What the cached counts count, for a log `lg` of the owner's answers.    *)

LogFunction == [Answer -> Nat \cup {None}]

DrillsIn(lg, id) == {a \in Answer : a.kind = "drill" /\ a.card = id /\ lg[a] # None}

\* The drills of a card the server has, but for those in `queue`.
Beyond(lg, queue, id) == DrillsIn(lg, id) \ queue

\* No drill of the card was stored after revision k.
NoneSince(lg, k, id) == \A a \in DrillsIn(lg, id) : lg[a] <= k

\* Counts that are never too high, and exact if nothing was stored since k.
Fits(n, lg, queue, k, id) ==
  /\ n <= Cardinality(Beyond(lg, queue, id))
  /\ NoneSince(lg, k, id) => n = Cardinality(Beyond(lg, queue, id))

\* A log that took in a batch under revision r + 1.
Grown(lg, batch, r) ==
  [a \in Answer |-> IF lg[a] = None /\ a \in batch THEN r + 1 ELSE lg[a]]

LEMMA BeyondFinite ==
  ASSUME NEW lg \in LogFunction, NEW queue, NEW id
  PROVE  IsFiniteSet(Beyond(lg, queue, id)) /\ Cardinality(Beyond(lg, queue, id)) \in Nat
<1>1. Beyond(lg, queue, id) \in SUBSET Answer
  BY DEF Beyond, DrillsIn
<1>2. QED BY <1>1, SomeFinite

\* An answer the server does not have makes no difference to the counts.
LEMMA QueueMore ==
  ASSUME NEW lg \in LogFunction, NEW queue, NEW a \in Answer, lg[a] = None, NEW id
  PROVE  Beyond(lg, queue \cup {a}, id) = Beyond(lg, queue, id)
BY DEF Beyond, DrillsIn

\* A later revision is a weaker promise to keep.
LEMMA FitsEarlier ==
  ASSUME NEW lg \in LogFunction, NEW queue, NEW id, NEW n, NEW k \in Nat, NEW j \in Nat,
         j <= k, Fits(n, lg, queue, k, id)
  PROVE  Fits(n, lg, queue, j, id)
<1>1. ASSUME NoneSince(lg, j, id)
      PROVE  NoneSince(lg, k, id)
  <2>1. ASSUME NEW a \in DrillsIn(lg, id)
        PROVE  lg[a] <= k
    <3>1. lg[a] \in Nat /\ lg[a] <= j
      BY <1>1 DEF NoneSince, DrillsIn, LogFunction
    <3>2. QED BY <3>1
  <2>2. QED BY <2>1 DEF NoneSince
<1>2. QED BY <1>1 DEF Fits

\* What arrives is stamped past every cursor handed out: the counts still fit.
LEMMA FitsLater ==
  ASSUME NEW lg \in LogFunction, NEW batch \in SUBSET Answer, NEW r \in Nat,
         NEW n \in Nat, NEW queue, NEW id
  PROVE  /\ Grown(lg, batch, r) \in LogFunction
         /\ n <= Cardinality(Beyond(lg, queue, id))
              => n <= Cardinality(Beyond(Grown(lg, batch, r), queue, id))
         /\ \A k \in Nat : k <= r /\ Fits(n, lg, queue, k, id)
              => Fits(n, Grown(lg, batch, r), queue, k, id)
<1> DEFINE new == Grown(lg, batch, r)
<1>1. /\ new \in LogFunction
      /\ \A a \in Answer : new[a] = IF lg[a] = None /\ a \in batch THEN r + 1 ELSE lg[a]
  BY DEF Grown, LogFunction
<1> HIDE DEF new
<1>2. DrillsIn(lg, id) \subseteq DrillsIn(new, id)
  BY <1>1 DEF DrillsIn
<1>3. Cardinality(Beyond(lg, queue, id)) <= Cardinality(Beyond(new, queue, id))
  <2>1. Beyond(lg, queue, id) \in SUBSET Beyond(new, queue, id)
    BY <1>2 DEF Beyond
  <2>2. IsFiniteSet(Beyond(new, queue, id))
    BY <1>1, BeyondFinite
  <2>3. QED BY <2>1, <2>2, FS_Subset
<1>4. /\ Cardinality(Beyond(lg, queue, id)) \in Nat
      /\ Cardinality(Beyond(new, queue, id)) \in Nat
  BY <1>1, BeyondFinite
<1>5. n <= Cardinality(Beyond(lg, queue, id)) => n <= Cardinality(Beyond(new, queue, id))
  BY <1>3, <1>4
<1>6. ASSUME NEW k \in Nat, k <= r, Fits(n, lg, queue, k, id)
      PROVE  Fits(n, new, queue, k, id)
  <2>1. ASSUME NoneSince(new, k, id)
        PROVE  n = Cardinality(Beyond(new, queue, id))
    <3>1. \A a \in DrillsIn(new, id) : lg[a] # None /\ new[a] = lg[a]
      <4>1. ASSUME NEW a \in DrillsIn(new, id)
            PROVE  lg[a] # None /\ new[a] = lg[a]
        <5>1. a \in Answer /\ new[a] \in Nat /\ new[a] <= k
          BY <1>1, <2>1 DEF NoneSince, DrillsIn, LogFunction
        <5>2. new[a] # r + 1
          BY <1>6, <5>1
        <5>3. QED BY <1>1, <5>1, <5>2, NoneIsNoNat
      <4>2. QED BY <4>1
    <3>2. DrillsIn(new, id) = DrillsIn(lg, id)
      BY <1>2, <3>1 DEF DrillsIn
    <3>3. NoneSince(lg, k, id)
      BY <2>1, <3>1, <3>2 DEF NoneSince
    <3>4. QED BY <1>6, <3>2, <3>3 DEF Fits, Beyond
  <2>2. QED BY <1>5, <1>6, <2>1 DEF Fits
<1>7. QED BY <1>1, <1>5, <1>6 DEF new

-----------------------------------------------------------------------------
(* The invariant of the counts.                                            *)

\* The counts a device has once it has applied the answer of its job.
Applied(d, id) ==
  IF id \in DOMAIN job[d].answer.counts THEN job[d].answer.counts[id]
  ELSE IF job[d].answer.full THEN 0 ELSE counts[d][id]

\* Cursors, the one a job began with and the one of its answer: none is ahead of the
\* server, and the stored one is not ahead of the answer.
CursorsFit(d) ==
  /\ cursor[d] \in Cursor \cup {None} /\ (cursor[d] # None => cursor[d].rev <= rev)
  /\ job[d].since \in Cursor \cup {None} /\ (job[d].since # None => job[d].since.rev <= rev)
  /\ job[d].step \in {"replied", "settled"} =>
       /\ job[d].answer.cursor \in Cursor /\ job[d].answer.cursor.rev <= rev
       /\ cursor[d] # None => cursor[d].rev <= job[d].answer.cursor.rev

CountFits(d, id) ==
  /\ counts[d][id] \in Nat
  /\ counts[d][id] <= Cardinality(Beyond(log[Owner], outbox[d], id))
  /\ cursor[d] # None => Fits(counts[d][id], log[Owner], outbox[d], cursor[d].rev, id)
  /\ job[d].step = "waiting" /\ job[d].since # None =>
       Fits(counts[d][id], log[Owner], outbox[d], job[d].since.rev, id)
  /\ job[d].step = "replied" =>
       /\ Applied(d, id) \in Nat
       /\ Fits(Applied(d, id), log[Owner], outbox[d] \ job[d].sent,
               job[d].answer.cursor.rev, id)
  /\ job[d].step = "settled" =>
       Fits(counts[d][id], log[Owner], outbox[d], job[d].answer.cursor.rev, id)

JobTyped(d) ==
  /\ job[d] = [step |-> job[d].step, since |-> job[d].since, sent |-> job[d].sent,
               answer |-> job[d].answer]
  /\ job[d].step \in {"idle", "waiting", "replied", "settled"}
  /\ Cardinality(job[d].sent) <= Batch

AnswerInv ==
  /\ BatchInv /\ IndInv
  /\ cursor \in [Device -> Cursor \cup {None}]
  /\ counts \in [Device -> [Id -> Nat]]
  /\ \A d \in Device : JobTyped(d) /\ CursorsFit(d) /\ \A id \in Id : CountFits(d, id)
LEMMA AnswerStarts == AnswerInit => AnswerInv
<1> SUFFICES ASSUME AnswerInit PROVE AnswerInv
  OBVIOUS
<1>1. BatchInv
  BY BatchStarts
<1>2. IndInv
  BY InitSound DEF AnswerInit
<1>3. /\ cursor \in [Device -> Cursor \cup {None}]
      /\ counts \in [Device -> [Id -> Nat]]
      /\ log[Owner] = [a \in Answer |-> None]
  BY OwnerIsUser DEF AnswerInit, Init
<1>4. ASSUME NEW d \in Device
      PROVE  JobTyped(d) /\ CursorsFit(d) /\ \A id \in Id : CountFits(d, id)
  <2>1. /\ cursor[d] = None /\ job[d].step = "idle" /\ job[d].since = None /\ job[d].sent = {}
        /\ \A id \in Id : counts[d][id] = 0
    BY DEF AnswerInit, NoJob
  <2>2. JobTyped(d)
    <3>1. job[d] = [step |-> "idle", since |-> None, sent |-> {}, answer |-> None]
      BY DEF AnswerInit, NoJob
    <3>2. QED BY <3>1, FS_EmptySet, AnswerAssumption DEF JobTyped, AnswerAssumption
  <2>3. ASSUME NEW id \in Id
        PROVE  CountFits(d, id)
    <3>1. log[Owner] \in LogFunction
      BY <1>3 DEF LogFunction
    <3>2. Cardinality(Beyond(log[Owner], outbox[d], id)) \in Nat
      BY <3>1, BeyondFinite
    <3>3. QED BY <2>1, <3>2 DEF CountFits
  <2>4. QED BY <2>1, <2>2, <2>3 DEF CursorsFit
<1>5. QED BY <1>1, <1>2, <1>3, <1>4 DEF AnswerInv

\* The types the steps need.
LEMMA AnswerTypes ==
  ASSUME AnswerInv
  PROVE  /\ rev \in Nat /\ log[Owner] \in LogFunction
         /\ outbox \in [Device -> SUBSET Answer] /\ DOMAIN job = Device
         /\ cursor \in [Device -> Cursor \cup {None}] /\ counts \in [Device -> [Id -> Nat]]
         /\ \A d \in Device : job[d].sent \in SUBSET Answer
<1>1. rev \in Nat /\ log \in [User -> [Answer -> Nat \cup {None}]]
  BY DEF AnswerInv, IndInv, TypeOK
<1>2. log[Owner] \in LogFunction
  BY <1>1, OwnerIsUser DEF LogFunction
<1>3. QED BY <1>1, <1>2 DEF AnswerInv, BatchInv, OutboxInv, DevicesTyped

\* What an upload does to the server.
LEMMA UploadGrows ==
  ASSUME AnswerInv, NEW batch \in SUBSET Answer, Sync(Owner, NoList, NoList, batch, None)
  PROVE  /\ IndInv' /\ rev' = rev + 1
         /\ log'[Owner] = Grown(log[Owner], batch, rev)
<1>1. NoList \in CardList /\ NoList \in DeletionList
  BY DEF NoList, CardList, DeletionList
<1>2. IndInv'
  BY <1>1, OwnerIsUser, SyncKeepsSound DEF AnswerInv
<1>3. log'[Owner] = InsertReviews(log[Owner], batch, rev + 1)
  BY OwnerIsUser DEF Sync, AnswerInv, IndInv, TypeOK
<1>4. \A a \in Answer : a \in ValidAnswers(batch) <=> a \in batch
  BY AllValid DEF ValidAnswers
<1>5. QED BY <1>2, <1>3, <1>4 DEF Sync, InsertReviews, Grown

\* Whoever's upload it is, what the other devices have counted still fits.
LEMMA UploadKeepsCounts ==
  ASSUME AnswerInv, NEW batch \in SUBSET Answer, Sync(Owner, NoList, NoList, batch, None),
         NEW e \in Device, counts'[e] = counts[e], outbox'[e] = outbox[e],
         cursor'[e] = cursor[e], job'[e] = job[e]
  PROVE  JobTyped(e)' /\ CursorsFit(e)' /\ \A id \in Id : CountFits(e, id)'
<1>1. /\ rev' = rev + 1 /\ log'[Owner] = Grown(log[Owner], batch, rev)
      /\ rev \in Nat /\ log[Owner] \in LogFunction
  BY UploadGrows, AnswerTypes
<1>2. JobTyped(e) /\ CursorsFit(e)
  BY DEF AnswerInv
<1>3. JobTyped(e)'
  BY <1>2 DEF JobTyped
<1>4. CursorsFit(e)'
  BY <1>1, <1>2 DEF CursorsFit, Cursor
<1>5. ASSUME NEW id \in Id
      PROVE  CountFits(e, id)'
  <2>1. CountFits(e, id)
    BY DEF AnswerInv
  <2>2. ASSUME NEW n \in Nat, NEW queue, NEW k \in Nat, k <= rev,
               Fits(n, log[Owner], queue, k, id)
        PROVE  Fits(n, log'[Owner], queue, k, id)
    BY <1>1, <2>2, FitsLater
  <2>3. counts[e][id] <= Cardinality(Beyond(log'[Owner], outbox[e], id))
    BY <1>1, <2>1, FitsLater DEF CountFits
  <2>4. Applied(e, id)' = Applied(e, id)
    BY DEF Applied
  <2>5. /\ cursor[e] # None => cursor[e].rev \in Nat /\ cursor[e].rev <= rev
        /\ job[e].since # None => job[e].since.rev \in Nat /\ job[e].since.rev <= rev
        /\ job[e].step \in {"replied", "settled"} =>
             job[e].answer.cursor.rev \in Nat /\ job[e].answer.cursor.rev <= rev
    BY <1>2 DEF CursorsFit, Cursor
  <2>6. QED BY <2>1, <2>2, <2>3, <2>4, <2>5 DEF CountFits
<1>6. QED BY <1>3, <1>4, <1>5

\* The answer to an upload, field by field.
LEMMA AnswerFields ==
  ASSUME NEW s, NEW sent, NEW q, q = Response(Owner, s, {}, sent)', NEW delta,
         delta <=> CanServeDelta(s, Owner, epoch', rev', prunedRev')
  PROVE  /\ q.full = ~delta
         /\ q.cursor = [epoch |-> epoch', user |-> Owner, rev |-> rev']
         /\ \A id \in Id :
              /\ id \in DOMAIN q.counts <=>
                   /\ DrillsIn(log'[Owner], id) # {}
                   /\ \/ ~delta
                      \/ \E a \in DrillsIn(log'[Owner], id) : log'[Owner][a] > s.rev
                      \/ \E a \in sent : a.card = id
              /\ id \in DOMAIN q.counts =>
                   q.counts[id] = Cardinality(DrillsIn(log'[Owner], id))
<1> DEFINE serves == CanServeDelta(s, Owner, epoch', rev', prunedRev')
           counted(i) == /\ Drills(Owner, i)' # {}
                         /\ \/ ~serves
                            \/ \E a \in Drills(Owner, i)' : log'[Owner][a] > s.rev
                            \/ \E a \in sent : a.card = i
<1>1. q = [cards |-> [id \in Id |->
                        IF Returned(table'[Owner][id].card, s, serves, id \in {})
                        THEN Wire(table'[Owner][id].card) ELSE None],
           deletions |-> {id \in Id : Returned(table'[Owner][id].tomb, s, serves, id \in {})},
           counts |-> [id \in {i \in Id : counted(i)} |-> Cardinality(Drills(Owner, id)')],
           settings |-> prefs'[Owner],
           cursor |-> [epoch |-> epoch', user |-> Owner, rev |-> rev'],
           full |-> ~serves]
  BY DEF Response, Counted
<1>2. \A id \in Id : Drills(Owner, id)' = DrillsIn(log'[Owner], id)
  BY DEF Drills, DrillsIn
<1> HIDE DEF serves
<1>3. /\ q.full = ~serves
      /\ q.cursor = [epoch |-> epoch', user |-> Owner, rev |-> rev']
      /\ q.counts = [id \in {i \in Id : counted(i)} |-> Cardinality(Drills(Owner, id)')]
  BY <1>1
<1>4. QED BY <1>2, <1>3 DEF serves
\* The device that is answered: its counts, once it applies the answer, fit.
LEMMA HandleKeepsCounts ==
  ASSUME AnswerInv, NEW d \in Device, Handle(d)
  PROVE  AnswerInv'
<1>1. PICK s, sent, q :
        /\ s = job[d].since /\ sent = job[d].sent
        /\ q = Response(Owner, s, {}, sent)'
        /\ job' = [job EXCEPT ![d].step = "replied", ![d].answer = q]
  BY DEF Handle
<1>2. /\ Sync(Owner, NoList, NoList, job[d].sent, None) /\ job[d].step = "waiting"
      /\ UNCHANGED <<outbox, counts, cursor, epoch, prunedRev>>
  BY DEF Handle, Sync
<1>3. sent \in SUBSET Answer /\ rev \in Nat /\ log[Owner] \in LogFunction
      /\ outbox \in [Device -> SUBSET Answer] /\ DOMAIN job = Device
  BY <1>1, AnswerTypes
<1>4. IndInv' /\ rev' = rev + 1 /\ log'[Owner] = Grown(log[Owner], sent, rev)
  BY <1>1, <1>2, <1>3, UploadGrows
<1>5. BatchInv'
  BY HandleKeepsBatch DEF AnswerInv
<1>6. JobTyped(d) /\ CursorsFit(d)
  BY DEF AnswerInv
<1>7. /\ job'[d] = [step |-> "replied", since |-> s, sent |-> sent, answer |-> q]
      /\ \A e \in Device \ {d} : job'[e] = job[e]
  BY <1>1, <1>3, <1>6 DEF JobTyped
<1> DEFINE delta == CanServeDelta(s, Owner, epoch', rev', prunedRev')
           lg == log'[Owner]
<1>8. /\ q.full = ~delta
      /\ q.cursor = [epoch |-> epoch', user |-> Owner, rev |-> rev']
      /\ \A id \in Id :
           /\ id \in DOMAIN q.counts <=>
                /\ DrillsIn(lg, id) # {}
                /\ \/ ~delta
                   \/ \E a \in DrillsIn(lg, id) : lg[a] > s.rev
                   \/ \E a \in sent : a.card = id
           /\ id \in DOMAIN q.counts => q.counts[id] = Cardinality(DrillsIn(lg, id))
  BY <1>1, AnswerFields
<1> HIDE DEF delta
<1>9. lg \in LogFunction
  BY <1>3, <1>4 DEF Grown, LogFunction
<1>10. JobTyped(d)'
  BY <1>6, <1>7, <1>1 DEF JobTyped
<1>11. CursorsFit(d)'
  <2>1. q.cursor \in Cursor /\ q.cursor.rev = rev'
    BY <1>2, <1>3, <1>4, <1>8, OwnerIsUser DEF IndInv, TypeOK, Cursor
  <2>2. QED BY <1>1, <1>2, <1>3, <1>4, <1>6, <1>7, <2>1 DEF CursorsFit, Cursor
<1>12. ASSUME NEW id \in Id
       PROVE  CountFits(d, id)'
  <2> DEFINE n == counts[d][id]
             queue == outbox[d]
             left == outbox[d] \ sent
  <2>1. n \in Nat /\ n <= Cardinality(Beyond(log[Owner], queue, id)) /\ CountFits(d, id)
    BY DEF AnswerInv, CountFits
  <2>2. n <= Cardinality(Beyond(lg, queue, id))
    BY <1>3, <1>4, <2>1, FitsLater
  <2>3. cursor[d] # None => Fits(n, lg, queue, cursor[d].rev, id)
    BY <1>3, <1>4, <1>6, <2>1, FitsLater DEF CursorsFit, CountFits, Cursor
  \* The rows not sent are not in doubt: the server has none of them.
  <2>4. DrillsIn(lg, id) \cap left = {}
    <3>1. InDoubt(d)' \subseteq sent
      BY <1>5, <1>7 DEF BatchInv, BatchFits
    <3>2. QED BY <1>2, <3>1 DEF InDoubt, Stored, DrillsIn
  <2>5. Beyond(lg, left, id) = DrillsIn(lg, id)
    BY <2>4 DEF Beyond
  <2> DEFINE applied == IF id \in DOMAIN q.counts THEN q.counts[id] ELSE IF q.full THEN 0 ELSE n
  <2>6. applied = Cardinality(DrillsIn(lg, id))
    <3>1. CASE id \in DOMAIN q.counts
      BY <1>8, <3>1
    <3>2. CASE id \notin DOMAIN q.counts /\ DrillsIn(lg, id) = {}
      <4>1. Beyond(lg, queue, id) = {}
        BY <3>2 DEF Beyond
      <4>2. Cardinality(DrillsIn(lg, id)) = 0 /\ n = 0
        BY <2>1, <2>2, <3>2, <4>1, FS_EmptySet
      <4>3. QED BY <3>2, <4>2
    <3>3. CASE id \notin DOMAIN q.counts /\ DrillsIn(lg, id) # {}
      <4>1. delta /\ ~q.full /\ (\A a \in sent : a.card # id)
            /\ \A a \in DrillsIn(lg, id) : ~(lg[a] > s.rev)
        BY <1>8, <3>3
      <4>2. s # None /\ s.rev \in Nat
        BY <1>1, <1>6, <4>1 DEF delta, CanServeDelta, CursorsFit, Cursor
      <4>3. DrillsIn(log[Owner], id) = DrillsIn(lg, id)
            /\ \A a \in DrillsIn(lg, id) : log[Owner][a] = lg[a]
        BY <1>4, <4>1 DEF Grown, DrillsIn
      <4>4. NoneSince(log[Owner], s.rev, id)
        <5>1. ASSUME NEW a \in DrillsIn(log[Owner], id)
              PROVE  log[Owner][a] <= s.rev
          <6>1. log[Owner][a] \in Nat /\ ~(log[Owner][a] > s.rev)
            BY <1>3, <4>1, <4>3, <5>1 DEF DrillsIn, LogFunction
          <6>2. QED BY <4>2, <6>1
        <5>2. QED BY <5>1 DEF NoneSince
      <4>5. Fits(n, log[Owner], queue, s.rev, id)
        BY <1>1, <1>2, <2>1, <4>2 DEF CountFits
      <4>6. n = Cardinality(Beyond(log[Owner], queue, id))
        BY <4>4, <4>5 DEF Fits
      <4>7. Beyond(log[Owner], queue, id) = DrillsIn(lg, id)
        BY <2>4, <4>1, <4>3 DEF Beyond, DrillsIn
      <4>8. QED BY <3>3, <4>1, <4>6, <4>7
    <3>4. QED BY <3>1, <3>2, <3>3
  <2>7. Cardinality(Beyond(lg, left, id)) \in Nat
    BY <1>9, BeyondFinite
  <2>8. applied \in Nat /\ \A k : Fits(applied, lg, left, k, id)
    BY <2>5, <2>6, <2>7 DEF Fits
  <2>9. Applied(d, id)' = applied
    BY <1>2, <1>7 DEF Applied
  <2> HIDE DEF applied
  <2>10. QED BY SMTT(30), <1>2, <1>7, <2>1, <2>2, <2>3, <2>8, <2>9 DEF CountFits
<1>13. ASSUME NEW e \in Device, e # d
       PROVE  JobTyped(e)' /\ CursorsFit(e)' /\ \A id \in Id : CountFits(e, id)'
  BY <1>1, <1>2, <1>3, <1>7, <1>13, UploadKeepsCounts
<1>14. QED BY <1>2, <1>4, <1>5, <1>10, <1>11, <1>12, <1>13 DEF AnswerInv

LEMMA StrayKeepsCounts ==
  ASSUME AnswerInv, NEW batch \in stray, HandleStray(batch)
  PROVE  AnswerInv'
<1>1. /\ Sync(Owner, NoList, NoList, batch, None) /\ UNCHANGED <<outbox, counts, cursor, job>>
      /\ batch \in SUBSET Answer
  BY DEF HandleStray, deviceVars, AnswerInv, BatchInv, OutboxInv, StraysTyped
<1>2. BatchInv' /\ IndInv'
  BY <1>1, StrayKeepsBatch, UploadGrows DEF AnswerInv
<1>3. \A e \in Device : JobTyped(e)' /\ CursorsFit(e)' /\ \A id \in Id : CountFits(e, id)'
  BY <1>1, UploadKeepsCounts
<1>4. QED BY <1>1, <1>2, <1>3 DEF AnswerInv
\* A device nothing happens to, while the server's log stays as it is.
LEMMA OthersFit ==
  ASSUME AnswerInv, NEW e \in Device, UNCHANGED <<rev, log>>, counts'[e] = counts[e],
         outbox'[e] = outbox[e], cursor'[e] = cursor[e], job'[e] = job[e]
  PROVE  JobTyped(e)' /\ CursorsFit(e)' /\ \A id \in Id : CountFits(e, id)'
<1>1. JobTyped(e) /\ CursorsFit(e) /\ \A id \in Id : CountFits(e, id)
  BY DEF AnswerInv
<1>2. JobTyped(e)' /\ CursorsFit(e)'
  BY <1>1 DEF JobTyped, CursorsFit
<1>3. \A id \in Id : Applied(e, id)' = Applied(e, id)
  BY DEF Applied
<1>4. QED BY <1>1, <1>2, <1>3 DEF CountFits

\* A new answer is not on the server, whatever it is queued behind.
LEMMA GiveKeepsCounts ==
  ASSUME AnswerInv, NEW d \in Device, NEW a \in Answer, Give(d, a)
  PROVE  AnswerInv'
<1>1. BatchInv'
  BY GiveKeepsBatch DEF AnswerInv
<1>2. IndInv'
  BY StepKeepsSound DEF AnswerInv, Give, Next, Housekeeping, Tick
<1>3. /\ UNCHANGED <<rev, log, counts, cursor, job>>
      /\ outbox' = [outbox EXCEPT ![d] = @ \cup {a}] /\ now \in Nat /\ a.ms = now + 1
  BY DEF Give, meta, tables, AnswerInv, BatchInv, AnswersApart
<1>4. /\ outbox'[d] = outbox[d] \cup {a}
      /\ \A e \in Device \ {d} : outbox'[e] = outbox[e]
  BY <1>3, AnswerTypes
<1>5. log[Owner][a] = None
  <2>1. ~Stored(a)
    BY <1>3 DEF AnswerInv, BatchInv, AnswersApart
  <2>2. QED BY <2>1 DEF Stored
<1>6. JobTyped(d)' /\ CursorsFit(d)'
  BY <1>3 DEF AnswerInv, JobTyped, CursorsFit
<1>7. ASSUME NEW id \in Id
      PROVE  CountFits(d, id)'
  <2>1. CountFits(d, id) /\ log[Owner] \in LogFunction
    BY AnswerTypes DEF AnswerInv
  <2>2. Applied(d, id)' = Applied(d, id)
    BY <1>3 DEF Applied
  <2>3. Beyond(log[Owner], outbox'[d], id) = Beyond(log[Owner], outbox[d], id)
    BY <1>4, <1>5, <2>1, QueueMore
  <2>4. Beyond(log[Owner], outbox'[d] \ job[d].sent, id)
          = Beyond(log[Owner], outbox[d] \ job[d].sent, id)
    BY <1>4, <1>5 DEF Beyond, DrillsIn
  <2>5. \A n, k : /\ Fits(n, log[Owner], outbox[d], k, id)
                       => Fits(n, log[Owner], outbox'[d], k, id)
                  /\ Fits(n, log[Owner], outbox[d] \ job[d].sent, k, id)
                       => Fits(n, log[Owner], outbox'[d] \ job[d].sent, k, id)
    BY <2>3, <2>4 DEF Fits
  <2>6. QED BY <1>3, <2>1, <2>2, <2>3, <2>5 DEF CountFits
<1>8. \A e \in Device \ {d} : JobTyped(e)' /\ CursorsFit(e)' /\ \A id \in Id : CountFits(e, id)'
  BY <1>3, <1>4, OthersFit
<1>9. QED BY <1>1, <1>2, <1>3, <1>6, <1>7, <1>8 DEF AnswerInv

\* Device steps: the server is left alone.
LEMMA ServerAlone == ASSUME AnswerInv, UNCHANGED serverVars
                     PROVE  IndInv' /\ UNCHANGED <<rev, log>>
<1>1. IndInv'
  BY StepKeepsSound DEF AnswerInv
<1>2. QED BY <1>1 DEF serverVars, meta, tables

LEMMA SendKeepsCounts == ASSUME AnswerInv, NEW d \in Device, Send(d) PROVE AnswerInv'
<1>1. BatchInv' /\ IndInv' /\ UNCHANGED <<rev, log>>
  BY SendKeepsBatch, ServerAlone DEF AnswerInv, Send
<1>2. PICK batch \in Batches(outbox[d]) :
        job' = [job EXCEPT ![d] = [NoJob EXCEPT !.step = "waiting", !.since = cursor[d],
                                                !.sent = batch]]
  BY DEF Send
<1>3. /\ job'[d] = [step |-> "waiting", since |-> cursor[d], sent |-> batch, answer |-> None]
      /\ \A e \in Device \ {d} : job'[e] = job[e]
      /\ UNCHANGED <<outbox, counts, cursor>>
  BY <1>2, AnswerTypes DEF Send, NoJob
<1>4. Cardinality(batch) <= Batch
  <2>1. outbox[d] \in SUBSET Answer /\ \A x, y \in outbox[d] : x.ms = y.ms => x = y
    BY AnswerTypes DEF AnswerInv, BatchInv, AnswersApart
  <2>2. QED BY <2>1, BatchHoldsOldest DEF Oldest
<1>5. JobTyped(d)' /\ CursorsFit(d)'
  <2>1. CursorsFit(d)
    BY DEF AnswerInv
  <2>2. /\ job'[d].step = "waiting" /\ job'[d].since = cursor[d] /\ job'[d].sent = batch
        /\ job'[d].answer = None
    BY <1>3
  <2>3. JobTyped(d)'
    BY <1>3, <1>4, <2>2 DEF JobTyped
  <2>4. QED BY <1>1, <1>3, <2>1, <2>2, <2>3 DEF CursorsFit
<1>6. ASSUME NEW id \in Id
      PROVE  CountFits(d, id)'
  <2>1. CountFits(d, id)
    BY DEF AnswerInv
  <2>2. job'[d].step = "waiting" /\ job'[d].since = cursor[d]
    BY <1>3
  <2>3. QED BY <1>1, <1>3, <2>1, <2>2 DEF CountFits
<1>7. \A e \in Device \ {d} : JobTyped(e)' /\ CursorsFit(e)' /\ \A id \in Id : CountFits(e, id)'
  BY <1>1, <1>3, OthersFit
<1>8. QED BY <1>1, <1>3, <1>5, <1>6, <1>7 DEF AnswerInv

LEMMA SettleKeepsCounts == ASSUME AnswerInv, NEW d \in Device, Settle(d) PROVE AnswerInv'
<1>1. BatchInv' /\ IndInv' /\ UNCHANGED <<rev, log, cursor>>
  BY SettleKeepsBatch, ServerAlone DEF AnswerInv, Settle
<1>2. /\ job[d].step = "replied"
      /\ outbox' = [outbox EXCEPT ![d] = @ \ job[d].sent]
      /\ counts' = [counts EXCEPT ![d] = [id \in Id |->
           IF id \in DOMAIN job[d].answer.counts THEN job[d].answer.counts[id]
           ELSE IF job[d].answer.full THEN 0 ELSE @[id]]]
      /\ job' = [job EXCEPT ![d].step = "settled"]
  BY DEF Settle
<1>3. JobTyped(d) /\ CursorsFit(d)
  BY DEF AnswerInv
<1>4. /\ outbox'[d] = outbox[d] \ job[d].sent
      /\ counts'[d] = [id \in Id |-> Applied(d, id)]
      /\ job'[d] = [step |-> "settled", since |-> job[d].since, sent |-> job[d].sent,
                    answer |-> job[d].answer]
      /\ \A e \in Device \ {d} : outbox'[e] = outbox[e] /\ counts'[e] = counts[e] /\ job'[e] = job[e]
  BY <1>2, <1>3, AnswerTypes DEF JobTyped, Applied
<1>5. JobTyped(d)' /\ CursorsFit(d)'
  BY <1>1, <1>2, <1>3, <1>4 DEF JobTyped, CursorsFit
<1>6. ASSUME NEW id \in Id
      PROVE  CountFits(d, id)'
  <2>1. CountFits(d, id) /\ log[Owner] \in LogFunction
    BY AnswerTypes DEF AnswerInv
  <2>2. /\ Applied(d, id) \in Nat
        /\ Fits(Applied(d, id), log[Owner], outbox[d] \ job[d].sent, job[d].answer.cursor.rev, id)
    BY <1>2, <2>1 DEF CountFits
  <2>3. cursor[d] # None =>
          Fits(Applied(d, id), log[Owner], outbox[d] \ job[d].sent, cursor[d].rev, id)
    BY <1>2, <1>3, <2>1, <2>2, FitsEarlier DEF CursorsFit, Cursor
  <2>4. counts'[d][id] = Applied(d, id)
    BY <1>4
  <2>5. Applied(d, id) <= Cardinality(Beyond(log[Owner], outbox[d] \ job[d].sent, id))
    BY <2>2 DEF Fits
  <2>6. QED BY <1>1, <1>4, <2>2, <2>3, <2>4, <2>5 DEF CountFits
<1>7. \A e \in Device \ {d} : JobTyped(e)' /\ CursorsFit(e)' /\ \A id \in Id : CountFits(e, id)'
  BY <1>1, <1>4, OthersFit
<1>8. counts' \in [Device -> [Id -> Nat]]
  <2>1. \A id \in Id : Applied(d, id) \in Nat
    BY <1>2 DEF AnswerInv, CountFits
  <2>2. [id \in Id |-> Applied(d, id)] \in [Id -> Nat]
    BY <2>1
  <2>3. QED BY <1>2, <1>4, <2>2, AnswerTypes
<1>9. QED BY <1>1, <1>4, <1>5, <1>6, <1>7, <1>8 DEF AnswerInv

\* A sync that ends, with its cursor taken or with the one that was there.
LEMMA EndKeepsCounts ==
  ASSUME AnswerInv, BatchInv', IndInv', UNCHANGED <<rev, log, outbox, counts>>,
         NEW d \in Device, job' = job \/ job' = [job EXCEPT ![d] = NoJob],
         NEW c \in {cursor[d], None, job[d].answer.cursor}, cursor' = [cursor EXCEPT ![d] = c],
         c = job[d].answer.cursor => job[d].step = "settled" \/ c \in {None, cursor[d]}
  PROVE  AnswerInv'
<1>1. /\ cursor'[d] = c
      /\ job'[d] = job[d] \/ job'[d] = NoJob
      /\ \A e \in Device \ {d} : cursor'[e] = cursor[e] /\ job'[e] = job[e]
  BY AnswerTypes
<1>2. JobTyped(d) /\ CursorsFit(d)
  BY DEF AnswerInv
<1>3. JobTyped(d)'
  BY <1>1, <1>2, FS_EmptySet, AnswerAssumption DEF JobTyped, NoJob, AnswerAssumption
<1>4. CursorsFit(d)'
  BY <1>1, <1>2 DEF CursorsFit, NoJob, Cursor
<1>5. ASSUME NEW id \in Id
      PROVE  CountFits(d, id)'
  <2>1. CountFits(d, id)
    BY DEF AnswerInv
  <2>2. c # None => Fits(counts[d][id], log[Owner], outbox[d], c.rev, id)
    BY <2>1 DEF CountFits
  <2>3. job'[d] = job[d] => Applied(d, id)' = Applied(d, id)
    BY DEF Applied
  <2>4. CASE job'[d] = NoJob
    <3>1. job'[d].step = "idle"
      BY <2>4 DEF NoJob
    <3>2. QED BY <1>1, <2>1, <2>2, <3>1 DEF CountFits
  <2>5. CASE job'[d] = job[d]
    BY <1>1, <2>1, <2>2, <2>3, <2>5 DEF CountFits
  <2>6. QED BY <1>1, <2>4, <2>5
<1>6. \A e \in Device \ {d} : JobTyped(e)' /\ CursorsFit(e)' /\ \A id \in Id : CountFits(e, id)'
  BY <1>1, OthersFit
<1>7. cursor' \in [Device -> Cursor \cup {None}]
  <2>1. c \in Cursor \cup {None}
    BY <1>2 DEF CursorsFit
  <2>2. QED BY <2>1, AnswerTypes
<1>8. QED BY <1>1, <1>3, <1>4, <1>5, <1>6, <1>7 DEF AnswerInv

LEMMA AnswerStep == AnswerInv /\ [AnswerNext]_vars => AnswerInv'
<1> SUFFICES ASSUME AnswerInv, [AnswerNext]_vars PROVE AnswerInv'
  OBVIOUS
<1> USE AnswerTypes
<1>1. ASSUME NEW d \in Device, NEW a \in Answer, Give(d, a) PROVE AnswerInv'
  BY <1>1, GiveKeepsCounts
<1>2. ASSUME NEW d \in Device, Send(d) PROVE AnswerInv'
  BY <1>2, SendKeepsCounts
<1>3. ASSUME NEW d \in Device, Handle(d) PROVE AnswerInv'
  BY <1>3, HandleKeepsCounts
<1>4. ASSUME NEW d \in Device, Settle(d) PROVE AnswerInv'
  BY <1>4, SettleKeepsCounts
<1>5. ASSUME NEW batch \in stray, HandleStray(batch) PROVE AnswerInv'
  BY <1>5, StrayKeepsCounts
<1>6. BatchInv'
  BY BatchStep DEF AnswerInv
<1>7. ASSUME NEW d \in Device, SetCursor(d) PROVE AnswerInv'
  <2> DEFINE c == IF job[d].since # None /\ job[d].answer.full THEN None ELSE job[d].answer.cursor
  <2>1. /\ job[d].step = "settled" /\ job' = [job EXCEPT ![d] = NoJob]
        /\ cursor' = [cursor EXCEPT ![d] = c]
        /\ UNCHANGED <<serverVars, outbox, counts>>
    BY <1>7 DEF SetCursor
  <2>2. c \in {cursor[d], None, job[d].answer.cursor}
    OBVIOUS
  <2> HIDE DEF c
  <2>3. QED BY <1>6, <2>1, <2>2, ServerAlone, EndKeepsCounts
<1>8. ASSUME NEW d \in Device, Abort(d) PROVE AnswerInv'
  <2>1. /\ job' = [job EXCEPT ![d] = NoJob] /\ cursor' = [cursor EXCEPT ![d] = cursor[d]]
        /\ UNCHANGED <<serverVars, outbox, counts>>
    BY <1>8 DEF Abort
  <2>2. QED BY <1>6, <2>1, ServerAlone, EndKeepsCounts
<1>9. ASSUME NEW d \in Device, SignIn(d) PROVE AnswerInv'
  <2>1. job' = job /\ cursor' = [cursor EXCEPT ![d] = None] /\ UNCHANGED <<serverVars, outbox, counts>>
    BY <1>9 DEF SignIn
  <2>2. QED BY <1>6, <2>1, ServerAlone, EndKeepsCounts
<1>10. CASE UNCHANGED vars
  <2>1. UNCHANGED <<serverVars, outbox, counts, cursor, job>>
    BY <1>10 DEF vars, deviceVars
  <2>2. IndInv' /\ UNCHANGED <<rev, log>>
    BY <2>1, ServerAlone
  <2>3. QED BY <1>6, <2>1, <2>2, OthersFit DEF AnswerInv
<1>11. QED BY <1>1, <1>2, <1>3, <1>4, <1>5, <1>7, <1>8, <1>9, <1>10 DEF AnswerNext

-----------------------------------------------------------------------------
(* What the invariant says of the counts shown.                            *)

\* The inductive invariant: the rows in doubt are the oldest, so a retry carries
\* exactly those, and every count held fits the log as of the cursor it came with.
THEOREM AnswersFit == AnswerSpec => []AnswerInv
BY AnswerStarts, AnswerStep, PTL DEF AnswerSpec

\* The queued drills of a card and the stored ones together are the queued ones
\* and those beyond the queue.
LEMMA ShownTogether ==
  ASSUME AnswerInv, NEW d \in Device, NEW id \in Id
  PROVE  /\ Cardinality(Pending(d, id)) \in Nat
         /\ Cardinality(Pending(d, id) \cup Drills(Owner, id))
              = Cardinality(Pending(d, id)) + Cardinality(Beyond(log[Owner], outbox[d], id))
<1> DEFINE P == Pending(d, id)
           B == Beyond(log[Owner], outbox[d], id)
<1>1. outbox[d] \in SUBSET Answer /\ log[Owner] \in LogFunction
  BY AnswerTypes
<1>2. /\ P \cup Drills(Owner, id) = P \cup B /\ P \cap B = {}
      /\ P \in SUBSET Answer
  BY <1>1 DEF Pending, Beyond, Drills, DrillsIn
<1>3. /\ IsFiniteSet(P) /\ Cardinality(P) \in Nat
      /\ IsFiniteSet(B) /\ Cardinality(B) \in Nat
  BY <1>1, <1>2, SomeFinite, BeyondFinite
<1> HIDE DEF P, B
<1>4. Cardinality(P \cup B) = Cardinality(P) + Cardinality(B) - Cardinality(P \cap B)
  BY <1>3, FS_Union
<1>5. Cardinality(P \cap B) = 0
  BY <1>2, FS_EmptySet DEF P, B
<1>6. P \cup Drills(Owner, id) = P \cup B
  BY <1>2 DEF P, B
<1>7. Cardinality(P \cup Drills(Owner, id)) = Cardinality(P) + Cardinality(B)
  <2>1. Cardinality(P \cup B) = Cardinality(P) + Cardinality(B)
    BY <1>3, <1>4, <1>5
  <2>2. QED BY <1>6, <2>1, Zenon
<1>8. QED BY <1>3, <1>7 DEF P, B

\* AnswerTypeOK: among others, that no upload is ever larger than a batch.
THEOREM AnswerTypesHold == AnswerSpec => []AnswerTypeOK
<1>1. AnswerInv => AnswerTypeOK
  BY DEF AnswerInv, AnswerTypeOK, IndInv, BatchInv, OutboxInv, DevicesTyped, JobTyped
<1>2. QED BY <1>1, AnswersFit, PTL

\* No answer is counted twice: a drill both stored and queued is not in the
\* cached counts as well.
THEOREM NothingIsCountedTwice == AnswerSpec => []NoAnswerCountedTwice
<1>1. AnswerInv => NoAnswerCountedTwice
  <2>1. ASSUME AnswerInv, NEW d \in Device, NEW id \in Id
        PROVE  Shown(d, id) <= Cardinality(Pending(d, id) \cup Drills(Owner, id))
    <3>1. CountFits(d, id) /\ log[Owner] \in LogFunction
      BY <2>1, AnswerTypes DEF AnswerInv
    <3>2. Cardinality(Beyond(log[Owner], outbox[d], id)) \in Nat
      BY <3>1, BeyondFinite
    <3>3. QED BY <2>1, <3>1, <3>2, ShownTogether DEF CountFits, Shown
  <2>2. QED BY <2>1 DEF NoAnswerCountedTwice
<1>2. QED BY <1>1, AnswersFit, PTL

\* Between syncs the counts shown are exact, up to answers newer than the cursor.
THEOREM CountsShownAreExact == AnswerSpec => []ShownCountsMatch
<1>1. AnswerInv => ShownCountsMatch
  <2>1. ASSUME AnswerInv, NEW d \in Device, NEW id \in Id,
               CanServeDelta(cursor[d], Owner, epoch, rev + 1, prunedRev),
               \A a \in Drills(Owner, id) : log[Owner][a] <= cursor[d].rev
        PROVE  Shown(d, id) = Cardinality(Pending(d, id) \cup Drills(Owner, id))
    <3>1. CountFits(d, id)
      BY <2>1 DEF AnswerInv
    <3>2. cursor[d] # None /\ NoneSince(log[Owner], cursor[d].rev, id)
      BY <2>1 DEF CanServeDelta, NoneSince, Drills, DrillsIn
    <3>3. counts[d][id] = Cardinality(Beyond(log[Owner], outbox[d], id)) /\ counts[d][id] \in Nat
      BY <3>1, <3>2 DEF CountFits, Fits
    <3>4. QED BY <2>1, <3>3, ShownTogether DEF Shown
  <2>2. QED BY <2>1 DEF ShownCountsMatch
<1>2. QED BY <1>1, AnswersFit, PTL
=============================================================================
