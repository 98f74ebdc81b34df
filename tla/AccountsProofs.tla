--------------------------- MODULE AccountsProofs ---------------------------
(***************************************************************************)
(* Proofs about signing in and about the upgrade of an older database, for *)
(* any addresses, codes, requests at once, clock and limits.               *)
(***************************************************************************)
EXTENDS SchemaUpgrade, FiniteSetTheorems, FunctionTheorems, TLAPS

LEMMA Bounds ==
  /\ Floor \in Nat /\ Ttl \in Nat /\ Life \in Nat /\ MaxIssues \in Nat
  /\ Attempts \in Nat /\ Attempts > 0
<1>1. Floor \in Nat BY AuthAssumption
<1>2. Ttl \in Nat BY AuthAssumption
<1>3. Life \in Nat BY AuthAssumption
<1>4. MaxIssues \in Nat BY AuthAssumption
<1>5. Attempts \in Nat \ {0} BY AuthAssumption
<1>6. Attempts \in Nat /\ Attempts > 0 BY <1>5
<1> QED BY <1>1, <1>2, <1>3, <1>4, <1>6

LEMMA Normalized ==
  ASSUME NEW typed \in Spelling, NormalEmail[typed] # ""
  PROVE  NormalEmail[typed] \in Email
BY AuthAssumption

-----------------------------------------------------------------------------
(* Tasks.                                                                  *)

LEMMA IdleTask == Idle \in TaskState /\ Idle.pc = "idle"
BY DEF Idle, TaskState

\* The fields of a request that has asked, read or verified.
LEMMA TaskShape ==
  ASSUME NEW k \in TaskState
  PROVE  /\ k.pc \in {"idle", "asked", "read", "valid"}
         /\ k.pc = "idle" => k = Idle
         /\ k.pc \in {"asked", "read"} =>
              /\ k.kind \in {"request", "verify"} /\ k.email \in Email
              /\ k.code \in Code \cup {None} /\ k.now \in Nat
         /\ k.pc = "read" => k \in ReadTask
                            /\ k.row \in Otp \cup {None} /\ k.fresh \in BOOLEAN
         /\ k.pc = "valid" => k.email \in Email /\ k.now \in Nat /\ k.issue \in Nat
<1>1. k = Idle \/ k \in AskedTask \/ k \in ReadTask \/ k \in ValidTask
  BY DEF TaskState
<1>2. CASE k = Idle BY <1>2, IdleTask
<1>3. CASE k \in AskedTask BY <1>3 DEF AskedTask
<1>4. CASE k \in ReadTask BY <1>4 DEF ReadTask
<1>5. CASE k \in ValidTask BY <1>5 DEF ValidTask
<1> QED BY <1>1, <1>2, <1>3, <1>4, <1>5

LEMMA FreshExcept ==
  ASSUME NEW k \in TaskState, k.pc = "read"
  PROVE  /\ [k EXCEPT !.fresh = FALSE] \in TaskState
         /\ [k EXCEPT !.fresh = FALSE].pc = "read"
         /\ [k EXCEPT !.fresh = FALSE].fresh = FALSE
<1>1. k \in ReadTask BY TaskShape
<1>2. [k EXCEPT !.fresh = FALSE] \in ReadTask BY <1>1 DEF ReadTask
<1> QED BY <1>1, <1>2 DEF TaskState, ReadTask

\* What a commit does to the requests that had read before it, and to no other.
LEMMA OvertakenTasks ==
  ASSUME tasks \in [Task -> TaskState]
  PROVE  /\ Overtaken \in [Task -> TaskState]
         /\ \A t \in Task :
              /\ Overtaken[t].pc = tasks[t].pc
              /\ tasks[t].pc # "read" => Overtaken[t] = tasks[t]
              /\ tasks[t].pc = "read" => ~Overtaken[t].fresh
BY FreshExcept DEF Overtaken

LEMMA CommittedTasks ==
  ASSUME tasks \in [Task -> TaskState], NEW t \in Task, NEW after \in TaskState,
         Commit(t, after)
  PROVE  /\ tasks' \in [Task -> TaskState] /\ tasks'[t] = after
         /\ \A u \in Task \ {t} :
              /\ tasks'[u].pc = tasks[u].pc
              /\ tasks[u].pc # "read" => tasks'[u] = tasks[u]
              /\ tasks[u].pc = "read" => ~tasks'[u].fresh
<1>1. tasks' = [Overtaken EXCEPT ![t] = after] BY DEF Commit
<1>2. tasks' \in [Task -> TaskState] BY <1>1, OvertakenTasks
<1>3. tasks'[t] = after BY <1>1, OvertakenTasks
<1>4. \A u \in Task \ {t} : tasks'[u] = Overtaken[u] BY <1>1, OvertakenTasks
<1> QED BY <1>2, <1>3, <1>4, OvertakenTasks

-----------------------------------------------------------------------------
(* The codes. What AttemptsAreExact and OneSignInPerCode rest on: a request *)
(* that may still write has read the row as it is, rows and issues go       *)
(* together, and an issue that was accepted is in no row.                   *)

RowsTyped == otps \in [Email -> Otp \cup {None}]

TasksTyped == tasks \in [Task -> TaskState]

CountsTyped ==
  /\ now \in Nat
  /\ issues \in Nat /\ issues <= MaxIssues
  /\ wrong \in [1..MaxIssues -> 0..Attempts]

GrantsTyped ==
  granted \subseteq [token : Nat, email : Email, expires : Nat, issue : Nat]

CodesTyped == RowsTyped /\ TasksTyped /\ CountsTyped /\ GrantsTyped

ReadsAreCurrent ==
  \A t \in Task : tasks[t].pc = "read" /\ tasks[t].fresh =>
    tasks[t].row = otps[tasks[t].email]

RowsOwnIssues ==
  \A e \in Email : OtpRow(e) =>
    /\ otps[e].issue \in 1..issues
    /\ \A f \in Email : OtpRow(f) /\ otps[f].issue = otps[e].issue => f = e

NewIssuesAreUntried == \A i \in 1..MaxIssues : i > issues => wrong[i] = 0

UsedOnce ==
  /\ \A g, h \in granted : g.issue = h.issue /\ g.issue # 0 => g = h
  /\ \A t, u \in Task : tasks[t].pc = "valid" /\ tasks[u].pc = "valid"
                         /\ tasks[t].issue = tasks[u].issue => t = u
  /\ \A g \in granted, t \in Task : tasks[t].pc = "valid" => g.issue # tasks[t].issue

UsedIsGone ==
  /\ \A g \in granted :
       g.issue <= issues /\ \A e \in Email : OtpRow(e) => otps[e].issue # g.issue
  /\ \A t \in Task : tasks[t].pc = "valid" =>
       /\ tasks[t].issue \in 1..issues
       /\ \A e \in Email : OtpRow(e) => otps[e].issue # tasks[t].issue

CodesInv ==
  /\ CodesTyped /\ ReadsAreCurrent /\ RowsOwnIssues /\ NewIssuesAreUntried
  /\ AttemptsAreExact /\ UsedOnce /\ UsedIsGone

LEMMA CodesAreSingle == CodesInv => OneSignInPerCode
<1> SUFFICES ASSUME CodesInv, NEW i \in 1..issues, SignIns(i) # {}
             PROVE  /\ \E only \in SignIns(i) : SignIns(i) = {only}
                    /\ \A e \in Email : OtpRow(e) => otps[e].issue # i
  BY DEF OneSignInPerCode
<1> i # 0 BY DEF CodesInv, CodesTyped, CountsTyped
<1>1. CASE \E g \in granted : g.issue = i
  <2> PICK g \in granted : g.issue = i BY <1>1
  <2>1. SignIns(i) = {g} BY DEF SignIns, CodesInv, UsedOnce
  <2> QED BY <2>1 DEF CodesInv, UsedIsGone
<1>2. CASE ~\E g \in granted : g.issue = i
  <2> PICK t \in Task : tasks[t].pc = "valid" /\ tasks[t].issue = i
    BY <1>2 DEF SignIns
  <2>1. SignIns(i) = {t} BY <1>2 DEF SignIns, CodesInv, UsedOnce
  <2> QED BY <2>1 DEF CodesInv, UsedIsGone
<1> QED BY <1>1, <1>2

-----------------------------------------------------------------------------
(* One step of the codes at a time.                                        *)

\* A request moves on and the tables do not change.
LEMMA QuietStep ==
  ASSUME CodesInv, NEW t \in Task, NEW after \in TaskState,
         tasks' = [tasks EXCEPT ![t] = after],
         after.pc # "valid",
         after.pc = "read" => after.row = otps[after.email],
         UNCHANGED <<now, dbVars, history>>
  PROVE  CodesInv'
<1>1. tasks' \in [Task -> TaskState] /\ tasks'[t] = after
      /\ \A u \in Task \ {t} : tasks'[u] = tasks[u]
  BY DEF CodesInv, CodesTyped, TasksTyped
<1>2. UNCHANGED <<now, otps, issues, wrong, granted>> BY DEF dbVars, history
<1>3. CodesTyped'
  BY <1>1, <1>2 DEF CodesInv, CodesTyped, TasksTyped, RowsTyped, CountsTyped, GrantsTyped
<1>4. ReadsAreCurrent' BY <1>1, <1>2 DEF CodesInv, ReadsAreCurrent
<1>5. RowsOwnIssues' /\ NewIssuesAreUntried' /\ AttemptsAreExact'
  BY <1>2 DEF CodesInv, RowsOwnIssues, NewIssuesAreUntried, AttemptsAreExact, OtpRow
<1>6. UsedOnce' BY <1>1, <1>2 DEF CodesInv, UsedOnce
<1>7. UsedIsGone' BY <1>1, <1>2 DEF CodesInv, UsedIsGone, OtpRow
<1> QED BY <1>3, <1>4, <1>5, <1>6, <1>7 DEF CodesInv

LEMMA QuietActions ==
  ASSUME CodesInv, NEW t \in Task,
         \/ \E typed \in Spelling : AskCode(t, typed)
         \/ \E typed \in Spelling, c \in Code : TryCode(t, typed, c)
         \/ ReadOtp(t) \/ RefuseCode(t) \/ NoSuchCode(t) \/ Lose(t)
  PROVE  CodesInv'
<1>1. ASSUME NEW typed \in Spelling, AskCode(t, typed) PROVE CodesInv'
  <2> DEFINE after == [pc |-> "asked", kind |-> "request",
                       email |-> NormalEmail[typed], code |-> None, now |-> now]
  <2>1. after \in TaskState /\ after.pc = "asked"
    BY <1>1, Normalized DEF AskCode, TaskState, AskedTask, CodesInv, CodesTyped, CountsTyped
  <2> QED BY <1>1, <2>1, QuietStep DEF AskCode
<1>2. ASSUME NEW typed \in Spelling, NEW c \in Code, TryCode(t, typed, c)
      PROVE  CodesInv'
  <2> DEFINE after == [pc |-> "asked", kind |-> "verify",
                       email |-> NormalEmail[typed], code |-> c, now |-> now]
  <2>1. after \in TaskState /\ after.pc = "asked"
    BY <1>2, Normalized DEF TryCode, TaskState, AskedTask, CodesInv, CodesTyped, CountsTyped
  <2> QED BY <1>2, <2>1, QuietStep DEF TryCode
<1>3. CASE ReadOtp(t)
  <2> DEFINE k == tasks[t]
             after == [pc |-> "read", kind |-> k.kind, email |-> k.email,
                       code |-> k.code, now |-> k.now, row |-> otps[k.email],
                       fresh |-> TRUE]
  <2>1. k \in TaskState BY DEF CodesInv, CodesTyped, TasksTyped
  <2>2. k.kind \in {"request", "verify"} /\ k.email \in Email
        /\ k.code \in Code \cup {None} /\ k.now \in Nat
    BY <1>3, <2>1, TaskShape DEF ReadOtp
  <2>3. otps[k.email] \in Otp \cup {None} BY <2>2 DEF CodesInv, CodesTyped, RowsTyped
  <2>4. after \in ReadTask BY <2>2, <2>3 DEF ReadTask
  <2>5. after \in TaskState /\ after.pc = "read" /\ after.row = otps[after.email]
    BY <2>4 DEF TaskState
  <2>6. tasks' = [tasks EXCEPT ![t] = after]
    BY <1>3 DEF ReadOtp, CodesInv, CodesTyped, TasksTyped
  <2> QED BY <1>3, <2>5, <2>6, QuietStep DEF ReadOtp
<1>4. CASE RefuseCode(t) BY <1>4, IdleTask, QuietStep DEF RefuseCode
<1>5. CASE NoSuchCode(t) BY <1>5, IdleTask, QuietStep DEF NoSuchCode
<1>6. CASE Lose(t) BY <1>6, IdleTask, QuietStep DEF Lose
<1> QED BY <1>1, <1>2, <1>3, <1>4, <1>5, <1>6

\* A writer's row is the one in the table.
LEMMA WritersRow ==
  ASSUME CodesInv, NEW t \in Task, CanWrite(t)
  PROVE  /\ tasks[t].kind \in {"request", "verify"} /\ tasks[t].email \in Email
         /\ tasks[t].now \in Nat
         /\ tasks[t].row = otps[tasks[t].email] /\ otps[tasks[t].email] \in Otp \cup {None}
<1>1. tasks[t] \in TaskState BY DEF CodesInv, CodesTyped, TasksTyped
<1>2. tasks[t].kind \in {"request", "verify"} /\ tasks[t].email \in Email
      /\ tasks[t].now \in Nat
  BY <1>1, TaskShape DEF CanWrite
<1> QED BY <1>2 DEF CanWrite, CodesInv, CodesTyped, RowsTyped, ReadsAreCurrent

LEMMA StoreOtpStep ==
  ASSUME CodesInv, NEW t \in Task, StoreOtp(t)
  PROVE  CodesInv'
<1> DEFINE e == tasks[t].email
           n == issues + 1
<1>1. e \in Email /\ tasks[t].now \in Nat BY WritersRow DEF StoreOtp
<1>2. issues' = n /\ n \in 1..MaxIssues /\ n \in Nat
  <2>1. issues < MaxIssues /\ issues' = issues + 1 BY DEF StoreOtp
  <2>2. issues \in Nat BY DEF CodesInv, CodesTyped, CountsTyped
  <2> QED BY <2>1, <2>2, Bounds
<1>3. PICK c \in Code : otps' = [otps EXCEPT ![e] =
        [code |-> c, expires |-> tasks[t].now + Ttl,
         requested |-> tasks[t].now, attempts |-> 0, issue |-> n]]
  BY DEF StoreOtp
<1> DEFINE row == [code |-> c, expires |-> tasks[t].now + Ttl,
                   requested |-> tasks[t].now, attempts |-> 0, issue |-> n]
<1>4. row \in Otp /\ row.issue = n /\ row.attempts = 0
  <2>1. tasks[t].now + Ttl \in Nat BY <1>1, Bounds
  <2> QED BY <1>1, <1>2, <2>1 DEF Otp
<1>5. otps' \in [Email -> Otp \cup {None}] /\ otps'[e] = row
      /\ \A f \in Email \ {e} : otps'[f] = otps[f]
  BY <1>1, <1>3, <1>4 DEF CodesInv, CodesTyped, RowsTyped
<1>6. /\ tasks' \in [Task -> TaskState] /\ tasks'[t].pc = "idle"
      /\ \A u \in Task \ {t} :
           /\ tasks'[u].pc = tasks[u].pc
           /\ tasks[u].pc # "read" => tasks'[u] = tasks[u]
           /\ tasks[u].pc = "read" => ~tasks'[u].fresh
  BY IdleTask, CommittedTasks DEF StoreOtp, CodesInv, CodesTyped, TasksTyped
<1>7. UNCHANGED <<now, wrong, granted>> BY DEF StoreOtp
<1> HIDE DEF e, n, row
<1>8. CodesTyped'
  BY <1>2, <1>5, <1>6, <1>7
     DEF CodesInv, CodesTyped, RowsTyped, TasksTyped, CountsTyped, GrantsTyped
<1>9. ReadsAreCurrent' BY <1>6 DEF ReadsAreCurrent
<1>10. issues \in Nat /\ n = issues + 1 /\ \A i \in 1..issues : i # n
  BY DEF n, CodesInv, CodesTyped, CountsTyped
<1>11. \A f \in Email \ {e} : OtpRow(f) => otps[f].issue \in 1..n /\ otps[f].issue # n
  BY <1>10 DEF OtpRow, CodesInv, RowsOwnIssues
<1>12. RowsOwnIssues'
  BY <1>2, <1>4, <1>5, <1>11 DEF RowsOwnIssues, OtpRow, CodesInv
<1>13. NewIssuesAreUntried'
  BY <1>2, <1>7, <1>10 DEF NewIssuesAreUntried, CodesInv
<1>14. wrong[n] = 0
  BY <1>2, <1>10 DEF CodesInv, NewIssuesAreUntried
<1>15. AttemptsAreExact'
  BY <1>4, <1>5, <1>7, <1>14, Bounds DEF AttemptsAreExact, OtpRow, CodesInv
<1>16. UsedOnce' BY <1>6, <1>7 DEF UsedOnce, CodesInv
<1>17. /\ \A g \in granted : g.issue \in Nat /\ g.issue <= n /\ g.issue # n
       /\ \A u \in Task : tasks[u].pc = "valid" =>
            tasks[u].issue \in 1..n /\ tasks[u].issue # n
  BY <1>10 DEF CodesInv, CodesTyped, GrantsTyped, UsedIsGone
<1>18. UsedIsGone'
  <2>1. ASSUME NEW g \in granted, NEW f \in Email, otps'[f] # None
        PROVE  otps'[f].issue # g.issue
    BY <2>1, <1>4, <1>5, <1>17 DEF UsedIsGone, OtpRow, CodesInv
  <2>2. ASSUME NEW u \in Task, tasks'[u].pc = "valid", NEW f \in Email, otps'[f] # None
        PROVE  otps'[f].issue # tasks'[u].issue
    BY <2>2, <1>4, <1>5, <1>6, <1>17 DEF UsedIsGone, OtpRow, CodesInv
  <2> QED BY <1>2, <1>6, <1>7, <1>17, <2>1, <2>2 DEF UsedIsGone, OtpRow
<1> QED BY <1>8, <1>9, <1>12, <1>13, <1>15, <1>16, <1>18 DEF CodesInv

LEMMA VerifyOtpStep ==
  ASSUME CodesInv, NEW t \in Task, VerifyOtp(t)
  PROVE  CodesInv'
<1> DEFINE e == tasks[t].email
           i == tasks[t].row.issue
           after == [pc |-> "valid", email |-> e, now |-> tasks[t].now, issue |-> i]
<1>1. e \in Email /\ tasks[t].now \in Nat /\ tasks[t].row = otps[e]
      /\ otps[e] \in Otp /\ OtpRow(e)
  BY WritersRow DEF VerifyOtp, OtpRow
<1>2. i = otps[e].issue /\ i \in 1..issues /\ i \in Nat
  BY <1>1 DEF CodesInv, RowsOwnIssues, CodesTyped, CountsTyped, OtpRow
<1>3. after \in TaskState /\ after.pc = "valid" /\ after.issue = i
  BY <1>1, <1>2 DEF TaskState, ValidTask
<1>4. otps'[e] = None /\ otps' \in [Email -> Otp \cup {None}]
      /\ \A f \in Email \ {e} : otps'[f] = otps[f]
  BY <1>1 DEF VerifyOtp, CodesInv, CodesTyped, RowsTyped
<1>5. /\ tasks' \in [Task -> TaskState] /\ tasks'[t] = after
      /\ \A u \in Task \ {t} :
           /\ tasks'[u].pc = tasks[u].pc
           /\ tasks[u].pc # "read" => tasks'[u] = tasks[u]
           /\ tasks[u].pc = "read" => ~tasks'[u].fresh
  BY <1>3, CommittedTasks DEF VerifyOtp, CodesInv, CodesTyped, TasksTyped
<1>6. UNCHANGED <<now, issues, wrong, granted>> BY DEF VerifyOtp, history
<1> HIDE DEF e, i, after
<1>7. CodesTyped'
  BY <1>4, <1>5, <1>6
     DEF CodesInv, CodesTyped, RowsTyped, TasksTyped, CountsTyped, GrantsTyped
<1>8. ReadsAreCurrent' BY <1>3, <1>5 DEF ReadsAreCurrent
<1>9. RowsOwnIssues' BY <1>4, <1>6 DEF RowsOwnIssues, OtpRow, CodesInv
<1>10. NewIssuesAreUntried' BY <1>6 DEF NewIssuesAreUntried, CodesInv
<1>11. AttemptsAreExact' BY <1>4, <1>6 DEF AttemptsAreExact, OtpRow, CodesInv
<1>12. /\ \A g \in granted : g.issue # i
       /\ \A u \in Task : tasks[u].pc = "valid" => tasks[u].issue # i
  BY <1>1, <1>2 DEF CodesInv, UsedIsGone, OtpRow
<1>13. UsedOnce'
  <2>1. \A g \in granted, u \in Task : tasks'[u].pc = "valid" => g.issue # tasks'[u].issue
    BY <1>3, <1>5, <1>12 DEF UsedOnce, CodesInv
  <2>2. ASSUME NEW u \in Task, NEW v \in Task, tasks'[u].pc = "valid",
               tasks'[v].pc = "valid", tasks'[u].issue = tasks'[v].issue
        PROVE  u = v
    BY <2>2, <1>3, <1>5, <1>12 DEF UsedOnce, CodesInv
  <2> QED BY <2>1, <2>2, <1>6 DEF UsedOnce, CodesInv
<1>14. \A f \in Email : otps'[f] # None => otps'[f] = otps[f] /\ otps[f].issue # i
  BY <1>1, <1>2, <1>4 DEF CodesInv, RowsOwnIssues, OtpRow
<1>15. UsedIsGone'
  <2>1. ASSUME NEW g \in granted, NEW f \in Email, otps'[f] # None
        PROVE  otps'[f].issue # g.issue
    BY <2>1, <1>14 DEF UsedIsGone, OtpRow, CodesInv
  <2>2. ASSUME NEW u \in Task, tasks'[u].pc = "valid"
        PROVE  /\ tasks'[u].issue \in 1..issues
               /\ \A f \in Email : otps'[f] # None => otps'[f].issue # tasks'[u].issue
    BY <2>2, <1>2, <1>3, <1>5, <1>14 DEF UsedIsGone, OtpRow, CodesInv
  <2>3. \A g \in granted : g.issue <= issues BY DEF UsedIsGone, CodesInv
  <2> QED BY <1>6, <2>1, <2>2, <2>3 DEF UsedIsGone, OtpRow
<1> QED BY <1>7, <1>8, <1>9, <1>10, <1>11, <1>13, <1>15 DEF CodesInv

LEMMA RejectOtpStep ==
  ASSUME CodesInv, NEW t \in Task, RejectOtp(t)
  PROVE  CodesInv'
<1> DEFINE e == tasks[t].email
           row == otps[e]
           i == row.issue
<1>1. e \in Email /\ tasks[t].row = row /\ row \in Otp /\ OtpRow(e)
  BY WritersRow DEF RejectOtp, OtpRow
<1>2. row.attempts \in Nat /\ i \in Nat /\ row # None
  BY <1>1 DEF Otp, OtpRow
<1>3. i \in 1..issues /\ i \in 1..MaxIssues
  <2>1. i \in 1..issues BY <1>1 DEF CodesInv, RowsOwnIssues
  <2>2. issues \in Nat /\ issues <= MaxIssues
    BY DEF CodesInv, CodesTyped, CountsTyped
  <2> QED BY <1>2, <2>1, <2>2, Bounds
<1>4. wrong[i] = row.attempts /\ row.attempts < Attempts
  BY <1>1 DEF CodesInv, AttemptsAreExact
<1>5. wrong' = [wrong EXCEPT ![i] = @ + 1]
  BY <1>1 DEF RejectOtp
<1>6. /\ wrong' \in [1..MaxIssues -> 0..Attempts]
      /\ wrong'[i] = row.attempts + 1
      /\ \A j \in 1..MaxIssues : j # i => wrong'[j] = wrong[j]
  <2>1. wrong[i] + 1 \in 0..Attempts BY <1>2, <1>4, Bounds
  <2> QED BY <1>3, <1>4, <1>5, <2>1 DEF CodesInv, CodesTyped, CountsTyped
<1>7. /\ \A f \in Email \ {e} : otps'[f] = otps[f]
      /\ \/ otps'[e] = None
         \/ /\ row.attempts + 1 < Attempts
            /\ otps'[e] = [row EXCEPT !.attempts = @ + 1]
  <2>1. otps' = [otps EXCEPT ![e] =
          IF row.attempts + 1 >= Attempts \/ row = None THEN None
          ELSE [row EXCEPT !.attempts = @ + 1]]
    BY <1>1 DEF RejectOtp
  <2>2. DOMAIN otps = Email BY DEF CodesInv, CodesTyped, RowsTyped
  <2> QED BY <1>1, <1>2, <2>1, <2>2, Bounds
<1>8. [row EXCEPT !.attempts = @ + 1] \in Otp
      /\ [row EXCEPT !.attempts = @ + 1].attempts = row.attempts + 1
      /\ [row EXCEPT !.attempts = @ + 1].issue = i
  BY <1>1, <1>2 DEF Otp
<1>9. otps' \in [Email -> Otp \cup {None}]
  <2>1. DOMAIN otps' = Email /\ otps' = [f \in Email |-> otps'[f]]
    BY DEF RejectOtp, CodesInv, CodesTyped, RowsTyped
  <2>2. \A f \in Email : otps'[f] \in Otp \cup {None}
    BY <1>7, <1>8 DEF CodesInv, CodesTyped, RowsTyped
  <2> QED BY <2>1, <2>2
<1>10. /\ tasks' \in [Task -> TaskState] /\ tasks'[t].pc = "idle"
       /\ \A u \in Task \ {t} :
            /\ tasks'[u].pc = tasks[u].pc
            /\ tasks[u].pc # "read" => tasks'[u] = tasks[u]
            /\ tasks[u].pc = "read" => ~tasks'[u].fresh
  BY IdleTask, CommittedTasks DEF RejectOtp, CodesInv, CodesTyped, TasksTyped
<1>11. UNCHANGED <<now, issues, granted>> BY DEF RejectOtp
<1>12. \A f \in Email : otps'[f] # None => otps[f] # None /\ otps'[f].issue = otps[f].issue
  BY <1>2, <1>7, <1>8
<1> HIDE DEF e, row, i
<1>13. CodesTyped'
  BY <1>6, <1>9, <1>10, <1>11
     DEF CodesInv, CodesTyped, RowsTyped, TasksTyped, CountsTyped, GrantsTyped
<1>14. ReadsAreCurrent' BY <1>10 DEF ReadsAreCurrent
<1>15. RowsOwnIssues' BY <1>11, <1>12 DEF RowsOwnIssues, OtpRow, CodesInv
<1>16. NewIssuesAreUntried'
  <2>1. ASSUME NEW j \in 1..MaxIssues, j > issues PROVE wrong'[j] = 0
    <3>1. j # i BY <1>3, <2>1, Bounds DEF CodesInv, CodesTyped, CountsTyped
    <3> QED BY <1>6, <2>1, <3>1 DEF CodesInv, NewIssuesAreUntried
  <2> QED BY <1>11, <2>1 DEF NewIssuesAreUntried
<1>17. AttemptsAreExact'
  <2>1. ASSUME NEW f \in Email, otps'[f] # None
        PROVE  otps'[f].attempts = wrong'[otps'[f].issue] /\ otps'[f].attempts < Attempts
    <3>1. CASE f = e
      BY <2>1, <3>1, <1>6, <1>7, <1>8
    <3>2. CASE f # e
      <4>1. otps'[f] = otps[f] /\ OtpRow(f) /\ otps[f].issue # i
        BY <2>1, <3>2, <1>1, <1>7 DEF OtpRow, CodesInv, RowsOwnIssues, row, i
      <4>2. otps[f].issue \in 1..MaxIssues
        <5>1. otps[f].issue \in 1..issues /\ issues \in Nat /\ issues <= MaxIssues
          BY <4>1 DEF CodesInv, RowsOwnIssues, CodesTyped, CountsTyped
        <5> QED BY <5>1, Bounds
      <4> QED BY <4>1, <4>2, <1>6 DEF CodesInv, AttemptsAreExact
    <3> QED BY <3>1, <3>2
  <2> QED BY <2>1 DEF AttemptsAreExact, OtpRow
<1>18. UsedOnce' BY <1>10, <1>11 DEF UsedOnce, CodesInv
<1>19. UsedIsGone' BY <1>10, <1>11, <1>12 DEF UsedIsGone, OtpRow, CodesInv
<1> QED BY <1>13, <1>14, <1>15, <1>16, <1>17, <1>18, <1>19 DEF CodesInv

\* A session is made from a task that was valid, or without a code.
LEMMA SessionStep ==
  ASSUME CodesInv, NEW t \in Task, NEW e \in Email, NEW expires \in Nat, NEW i \in Nat,
         tokens \in Nat, CreateSession(e, expires, i), Commit(t, Idle),
         \/ i = 0
         \/ tasks[t].pc = "valid" /\ tasks[t].issue = i,
         UNCHANGED <<now, otps, issues, wrong>>
  PROVE  CodesInv'
<1> DEFINE g == [token |-> tokens + 1, email |-> e, expires |-> expires, issue |-> i]
<1>1. granted' = granted \cup {g} BY DEF CreateSession
<1>2. g \in [token : Nat, email : Email, expires : Nat, issue : Nat] /\ g.issue = i
  OBVIOUS
<1>3. /\ tasks' \in [Task -> TaskState] /\ tasks'[t].pc = "idle"
      /\ \A u \in Task \ {t} :
           /\ tasks'[u].pc = tasks[u].pc
           /\ tasks[u].pc # "read" => tasks'[u] = tasks[u]
           /\ tasks[u].pc = "read" => ~tasks'[u].fresh
  BY IdleTask, CommittedTasks DEF CodesInv, CodesTyped, TasksTyped
<1> HIDE DEF g
<1>4. CodesTyped'
  BY <1>1, <1>2, <1>3
     DEF CodesInv, CodesTyped, RowsTyped, TasksTyped, CountsTyped, GrantsTyped
<1>5. ReadsAreCurrent' BY <1>3 DEF ReadsAreCurrent
<1>6. RowsOwnIssues' /\ NewIssuesAreUntried' /\ AttemptsAreExact'
  BY DEF CodesInv, RowsOwnIssues, NewIssuesAreUntried, AttemptsAreExact, OtpRow
<1>7. UsedOnce'
  <2>1. \A h \in granted : i # 0 => h.issue # i BY DEF UsedOnce, CodesInv
  <2>2. \A u \in Task : tasks'[u].pc = "valid" =>
          /\ tasks[u].pc = "valid" /\ tasks'[u] = tasks[u] /\ tasks[u].issue # i
    BY <1>3 DEF UsedOnce, UsedIsGone, CodesInv
  <2>3. \A h, k \in granted' : h.issue = k.issue /\ h.issue # 0 => h = k
    BY <1>1, <1>2, <2>1 DEF UsedOnce, CodesInv
  <2>4. \A u, v \in Task : tasks'[u].pc = "valid" /\ tasks'[v].pc = "valid"
                           /\ tasks'[u].issue = tasks'[v].issue => u = v
    BY <2>2 DEF UsedOnce, CodesInv
  <2>5. \A h \in granted', u \in Task : tasks'[u].pc = "valid" => h.issue # tasks'[u].issue
    BY <1>1, <1>2, <2>2 DEF UsedOnce, CodesInv
  <2> QED BY <2>3, <2>4, <2>5 DEF UsedOnce
<1>8. UsedIsGone'
  <2>1. i <= issues /\ \A f \in Email : OtpRow(f) => otps[f].issue # i
    <3>1. CASE i = 0
      BY <3>1 DEF UsedIsGone, CodesInv, RowsOwnIssues, CodesTyped, CountsTyped
    <3>2. CASE tasks[t].pc = "valid" /\ tasks[t].issue = i
      BY <3>2 DEF UsedIsGone, CodesInv, CodesTyped, CountsTyped
    <3> QED BY <3>1, <3>2
  <2> QED BY <1>1, <1>2, <1>3, <2>1 DEF UsedIsGone, OtpRow, CodesInv
<1> QED BY <1>4, <1>5, <1>6, <1>7, <1>8 DEF CodesInv

\* Rows go, and what had been read before is overtaken or gone.
LEMMA PruneStep ==
  ASSUME CodesInv, otps' = LiveOtps(now),
         tasks' \in [Task -> TaskState],
         \A t \in Task :
           \/ tasks'[t] = tasks[t] /\ (tasks[t].pc = "read" => otps' = otps)
           \/ tasks'[t].pc = "idle"
           \/ tasks'[t].pc = "read" /\ ~tasks'[t].fresh,
         UNCHANGED <<now, issues, wrong, granted>>
  PROVE  CodesInv'
<1>1. /\ otps' \in [Email -> Otp \cup {None}]
      /\ \A e \in Email : otps'[e] # None => otps'[e] = otps[e]
  BY DEF LiveOtps, CodesInv, CodesTyped, RowsTyped
<1>2. CodesTyped'
  BY <1>1 DEF CodesInv, CodesTyped, RowsTyped, TasksTyped, CountsTyped, GrantsTyped
<1>3. ReadsAreCurrent' BY DEF CodesInv, ReadsAreCurrent
<1>4. RowsOwnIssues' /\ NewIssuesAreUntried' /\ AttemptsAreExact'
  BY <1>1 DEF CodesInv, RowsOwnIssues, NewIssuesAreUntried, AttemptsAreExact, OtpRow
<1>5. \A t \in Task : tasks'[t].pc = "valid" => tasks'[t] = tasks[t]
  OBVIOUS
<1>6. UsedOnce' BY <1>5 DEF CodesInv, UsedOnce
<1>7. UsedIsGone' BY <1>1, <1>5 DEF CodesInv, UsedIsGone, OtpRow
<1> QED BY <1>2, <1>3, <1>4, <1>6, <1>7 DEF CodesInv

-----------------------------------------------------------------------------
(* The upgrade: a ladder of what each step has put right. A start that is  *)
(* cut off goes back to the first step, and loses nothing of it.           *)

Table == {"cards", "settings", "sessions", "otps", "deletions", "reviews", "users",
          "sync_meta"}

Shape ==
  {"absent", "stale", "plaintext", "by_email", "old_columns", "no_rev", "empty", "current"}

LayoutTyped ==
  /\ layout \in [Table -> Shape]
  /\ \A t \in Table :
       /\ layout[t] = "stale" => t \in {"cards", "settings", "reviews"}
       /\ layout[t] \in {"plaintext", "by_email"} => t = "sessions"
       /\ layout[t] = "old_columns" => t \in {"cards", "otps", "deletions", "reviews"}
       /\ layout[t] = "no_rev" => t = "cards"
       /\ layout[t] = "empty" => t = "sync_meta"

LEMMA LayoutsTyped ==
  ASSUME NEW l \in Layouts
  PROVE  /\ l \in [Table -> Shape]
         /\ \A t \in Table :
              /\ l[t] = "stale" => t \in {"cards", "settings", "reviews"}
              /\ l[t] \in {"plaintext", "by_email"} => t = "sessions"
              /\ l[t] = "old_columns" => t \in {"cards", "otps", "deletions", "reviews"}
              /\ l[t] = "no_rev" => t = "cards"
              /\ l[t] # "empty"
<1>1. /\ DOMAIN l = Table /\ l = [t \in DOMAIN l |-> l[t]]
      /\ l["cards"] \in {"absent", "stale", "old_columns", "no_rev", "current"}
      /\ l["settings"] \in {"absent", "stale", "current"}
      /\ l["sessions"] \in {"absent", "plaintext", "by_email", "current"}
      /\ l["otps"] \in {"absent", "old_columns", "current"}
      /\ l["deletions"] \in {"absent", "old_columns", "current"}
      /\ l["reviews"] \in {"absent", "stale", "old_columns", "current"}
      /\ l["users"] \in {"absent", "current"}
      /\ l["sync_meta"] \in {"absent", "current"}
  BY DEF Layouts, Table
<1>2. \A t \in Table :
        /\ l[t] \in Shape
        /\ l[t] = "stale" => t \in {"cards", "settings", "reviews"}
        /\ l[t] \in {"plaintext", "by_email"} => t = "sessions"
        /\ l[t] = "old_columns" => t \in {"cards", "otps", "deletions", "reviews"}
        /\ l[t] = "no_rev" => t = "cards"
        /\ l[t] # "empty"
  BY <1>1 DEF Table, Shape
<1>3. l \in [Table -> Shape] BY <1>1, <1>2
<1> QED BY <1>2, <1>3

LEMMA StepNames ==
  ASSUME step \in 1..14
  PROVE  /\ Len(Steps) = 13
         /\ At("drop_stale_cards") => step = 1
         /\ At("drop_stale_settings") => step = 2
         /\ At("drop_plaintext_sessions") => step = 3
         /\ At("drop_email_keyed_reviews") => step = 4
         /\ At("create_users") => step = 5
         /\ At("backfill_cards") => step = 6
         /\ At("backfill_settings") => step = 7
         /\ At("backfill_sessions") => step = 8
         /\ At("move_sessions") => step = 9
         /\ At("create_tables") => step = 10
         /\ At("add_columns") => step = 11
         /\ At("seed") => step = 12
         /\ At("prune") => step = 13
         /\ Serving <=> step = 14
BY DEF At, Steps, Serving

LEMMA Lists ==
  /\ DOMAIN Created = 1..7 /\ Len(Created) = 7 /\ \A i \in 1..7 : Created[i] \in Table \ {"users"}
  /\ \A t \in Table \ {"users"} : \E i \in 1..7 : Created[i] = t
BY DEF Created, Table

\* Each column is added to a table that exists by then; and each layout that lacks one is
\* in the list.
LEMMA Alters ==
  /\ Len(Extended) = 5
  /\ \A i \in 1..5 : /\ Extended[i].table \in {"cards", "otps", "deletions", "reviews"}
                     /\ Extended[i].to \in {"no_rev", "current"}
                     /\ Extended[i].to = "no_rev" => Extended[i].table = "cards"
  /\ \A t \in {"cards", "otps", "deletions", "reviews"} :
       \E i \in 1..5 : Extended[i].table = t /\ Extended[i].from = "old_columns"
  /\ \E i \in 1..5 : Extended[i].table = "cards" /\ Extended[i].from = "no_rev"
BY DEF Extended, Alter

\* What has been put right by the time a step is reached.
Ladder ==
  /\ step > 1 => layout["cards"] # "stale"
  /\ step > 2 => layout["settings"] # "stale"
  /\ step > 3 => layout["sessions"] # "plaintext"
  /\ step > 4 => layout["reviews"] # "stale"
  /\ step > 5 => layout["users"] = "current"
  /\ step > 9 => layout["sessions"] # "by_email"
  /\ step > 10 => \A t \in Table : layout[t] # "absent"
  /\ step > 11 => \A t \in Table : layout[t] \notin {"old_columns", "no_rev"}
  /\ step > 12 => layout["sync_meta"] # "empty"

UpgradeInv == step \in 1..14 /\ LayoutTyped /\ Ladder

LEMMA Reshaped ==
  ASSUME LayoutTyped, NEW t \in Table, NEW l \in {"absent", "no_rev", "empty", "current"},
         l = "empty" => t = "sync_meta", l = "no_rev" => t = "cards", Shaped(t, l)
  PROVE  /\ LayoutTyped' /\ layout'[t] = l
         /\ \A u \in Table \ {t} : layout'[u] = layout[u]
<1>1. layout' \in [Table -> Shape] /\ layout'[t] = l
      /\ \A u \in Table \ {t} : layout'[u] = layout[u]
  BY DEF LayoutTyped, Shaped, Shape
<1>2. \A u \in Table :
        /\ layout'[u] = "stale" => u \in {"cards", "settings", "reviews"}
        /\ layout'[u] \in {"plaintext", "by_email"} => u = "sessions"
        /\ layout'[u] = "old_columns" => u \in {"cards", "otps", "deletions", "reviews"}
        /\ layout'[u] = "no_rev" => u = "cards"
        /\ layout'[u] = "empty" => u = "sync_meta"
  BY <1>1 DEF LayoutTyped
<1>3. LayoutTyped' BY <1>1, <1>2 DEF LayoutTyped
<1> QED BY <1>1, <1>3

LEMMA SameLayout ==
  ASSUME UpgradeInv, layout' = layout, step' \in 1..14, Ladder'
  PROVE  UpgradeInv'
<1>1. LayoutTyped' BY DEF UpgradeInv, LayoutTyped
<1> QED BY <1>1 DEF UpgradeInv

LEMMA UpgradeIsDone == UpgradeInv => UpgradeCompletes
<1> SUFFICES ASSUME UpgradeInv, Serving, NEW t \in DOMAIN layout PROVE layout[t] = "current"
  BY DEF UpgradeCompletes
<1>1. step \in 1..14 /\ LayoutTyped /\ Ladder BY DEF UpgradeInv
<1>2. step = 14 BY <1>1, StepNames
<1>3. t \in Table /\ layout[t] \in Shape BY <1>1 DEF LayoutTyped
<1>4. layout[t] # "absent" /\ layout[t] \notin {"old_columns", "no_rev"}
  BY <1>1, <1>2, <1>3 DEF Ladder
<1>5. layout[t] # "stale" BY <1>1, <1>2, <1>3 DEF Ladder, LayoutTyped
<1>6. layout[t] # "plaintext" /\ layout[t] # "by_email"
  BY <1>1, <1>2, <1>3 DEF Ladder, LayoutTyped
<1>7. layout[t] # "empty" BY <1>1, <1>2, <1>3 DEF Ladder, LayoutTyped
<1> QED BY <1>3, <1>4, <1>5, <1>6, <1>7 DEF Shape

LEMMA DropsSound ==
  ASSUME UpgradeInv,
         DropStaleCards \/ DropStaleSettings \/ DropPlaintextSessions \/ DropEmailKeyedReviews
  PROVE  UpgradeInv'
<1>0. step \in 1..14 /\ LayoutTyped /\ Ladder BY DEF UpgradeInv
<1>1. CASE DropStaleCards
  <2>1. At("drop_stale_cards") /\ Go BY <1>1 DEF DropStaleCards
  <2>2. step = 1 /\ step' = 2 BY <1>0, <2>1, StepNames DEF Go
  <2>3. CASE layout["cards"] = "stale"
    <3>1. Shaped("cards", "absent") BY <1>1, <2>3 DEF DropStaleCards
    <3>2. LayoutTyped' /\ layout'["cards"] = "absent"
          /\ \A u \in Table \ {"cards"} : layout'[u] = layout[u]
      BY <1>0, <3>1, Reshaped DEF Table
    <3>3. Ladder' BY <1>0, <2>2, <3>2 DEF Ladder, Table
    <3> QED BY <2>2, <3>2, <3>3 DEF UpgradeInv
  <2>4. CASE layout["cards"] # "stale"
    <3>1. layout' = layout BY <1>1, <2>4 DEF DropStaleCards
    <3>2. Ladder' BY <1>0, <2>2, <2>4, <3>1 DEF Ladder
    <3> QED BY <2>2, <3>1, <3>2, SameLayout
  <2> QED BY <2>3, <2>4
<1>2. CASE DropStaleSettings
  <2>1. At("drop_stale_settings") /\ Go BY <1>2 DEF DropStaleSettings
  <2>2. step = 2 /\ step' = 3 BY <1>0, <2>1, StepNames DEF Go
  <2>3. CASE layout["settings"] = "stale"
    <3>1. Shaped("settings", "absent") BY <1>2, <2>3 DEF DropStaleSettings
    <3>2. LayoutTyped' /\ layout'["settings"] = "absent"
          /\ \A u \in Table \ {"settings"} : layout'[u] = layout[u]
      BY <1>0, <3>1, Reshaped DEF Table
    <3>3. Ladder' BY <1>0, <2>2, <3>2 DEF Ladder, Table
    <3> QED BY <2>2, <3>2, <3>3 DEF UpgradeInv
  <2>4. CASE layout["settings"] # "stale"
    <3>1. layout' = layout BY <1>2, <2>4 DEF DropStaleSettings
    <3>2. Ladder' BY <1>0, <2>2, <2>4, <3>1 DEF Ladder
    <3> QED BY <2>2, <3>1, <3>2, SameLayout
  <2> QED BY <2>3, <2>4
<1>3. CASE DropPlaintextSessions
  <2>1. At("drop_plaintext_sessions") /\ Go BY <1>3 DEF DropPlaintextSessions
  <2>2. step = 3 /\ step' = 4 BY <1>0, <2>1, StepNames DEF Go
  <2>3. CASE layout["sessions"] = "plaintext"
    <3>1. Shaped("sessions", "absent") BY <1>3, <2>3 DEF DropPlaintextSessions
    <3>2. LayoutTyped' /\ layout'["sessions"] = "absent"
          /\ \A u \in Table \ {"sessions"} : layout'[u] = layout[u]
      BY <1>0, <3>1, Reshaped DEF Table
    <3>3. Ladder' BY <1>0, <2>2, <3>2 DEF Ladder, Table
    <3> QED BY <2>2, <3>2, <3>3 DEF UpgradeInv
  <2>4. CASE layout["sessions"] # "plaintext"
    <3>1. layout' = layout BY <1>3, <2>4 DEF DropPlaintextSessions
    <3>2. Ladder' BY <1>0, <2>2, <2>4, <3>1 DEF Ladder
    <3> QED BY <2>2, <3>1, <3>2, SameLayout
  <2> QED BY <2>3, <2>4
<1>4. CASE DropEmailKeyedReviews
  <2>1. At("drop_email_keyed_reviews") /\ Go BY <1>4 DEF DropEmailKeyedReviews
  <2>2. step = 4 /\ step' = 5 BY <1>0, <2>1, StepNames DEF Go
  <2>3. CASE layout["reviews"] = "stale"
    <3>1. Shaped("reviews", "absent") BY <1>4, <2>3 DEF DropEmailKeyedReviews
    <3>2. LayoutTyped' /\ layout'["reviews"] = "absent"
          /\ \A u \in Table \ {"reviews"} : layout'[u] = layout[u]
      BY <1>0, <3>1, Reshaped DEF Table
    <3>3. Ladder' BY <1>0, <2>2, <3>2 DEF Ladder, Table
    <3> QED BY <2>2, <3>2, <3>3 DEF UpgradeInv
  <2>4. CASE layout["reviews"] # "stale"
    <3>1. layout' = layout BY <1>4, <2>4 DEF DropEmailKeyedReviews
    <3>2. Ladder' BY <1>0, <2>2, <2>4, <3>1 DEF Ladder
    <3> QED BY <2>2, <3>1, <3>2, SameLayout
  <2> QED BY <2>3, <2>4
<1> QED BY <1>1, <1>2, <1>3, <1>4

LEMMA UsersSound ==
  ASSUME UpgradeInv, CreateUsers \/ BackfillUsers \/ MoveSessionsToUserId
  PROVE  UpgradeInv'
<1>0. step \in 1..14 /\ LayoutTyped /\ Ladder BY DEF UpgradeInv
<1>1. CASE CreateUsers
  <2>1. At("create_users") /\ Go /\ Shaped("users", "current") BY <1>1 DEF CreateUsers
  <2>2. step = 5 /\ step' = 6 BY <1>0, <2>1, StepNames DEF Go
  <2>3. LayoutTyped' /\ layout'["users"] = "current"
        /\ \A u \in Table \ {"users"} : layout'[u] = layout[u]
    BY <1>0, <2>1, Reshaped DEF Table
  <2>4. Ladder' BY <1>0, <2>2, <2>3 DEF Ladder, Table
  <2> QED BY <2>2, <2>3, <2>4 DEF UpgradeInv
<1>2. CASE BackfillUsers
  <2>1. At("backfill_cards") \/ At("backfill_settings") \/ At("backfill_sessions")
    BY <1>2 DEF BackfillUsers
  <2>2. Go /\ layout' = layout BY <1>2 DEF BackfillUsers
  <2>3. step \in {6, 7, 8} /\ step' = step + 1 BY <1>0, <2>1, <2>2, StepNames DEF Go
  <2>4. Ladder' BY <1>0, <2>2, <2>3 DEF Ladder
  <2> QED BY <2>2, <2>3, <2>4, SameLayout
<1>3. CASE MoveSessionsToUserId
  <2>1. At("move_sessions") /\ Go BY <1>3 DEF MoveSessionsToUserId
  <2>2. step = 9 /\ step' = 10 BY <1>0, <2>1, StepNames DEF Go
  <2>3. CASE layout["sessions"] = "by_email"
    <3>1. Shaped("sessions", "current") BY <1>3, <2>3 DEF MoveSessionsToUserId
    <3>2. LayoutTyped' /\ layout'["sessions"] = "current"
          /\ \A u \in Table \ {"sessions"} : layout'[u] = layout[u]
      BY <1>0, <3>1, Reshaped DEF Table
    <3>3. Ladder' BY <1>0, <2>2, <3>2 DEF Ladder, Table
    <3> QED BY <2>2, <3>2, <3>3 DEF UpgradeInv
  <2>4. CASE layout["sessions"] # "by_email"
    <3>1. layout' = layout BY <1>3, <2>4 DEF MoveSessionsToUserId
    <3>2. Ladder' BY <1>0, <2>2, <2>4, <3>1 DEF Ladder
    <3> QED BY <2>2, <3>1, <3>2, SameLayout
  <2> QED BY <2>3, <2>4
<1> QED BY <1>1, <1>2, <1>3

LEMMA TablesSound ==
  ASSUME UpgradeInv, CreateTable \/ TablesExist \/ AddColumns \/ ColumnsExist \/ Seed
  PROVE  UpgradeInv'
<1>0. step \in 1..14 /\ LayoutTyped /\ Ladder BY DEF UpgradeInv
<1>1. CASE CreateTable
  <2>1. At("create_tables") /\ step' = step BY <1>1 DEF CreateTable
  <2>2. step = 10 BY <1>0, <2>1, StepNames
  <2>3. PICK i \in 1..7 :
          Shaped(Created[i], IF Created[i] = "sync_meta" THEN "empty" ELSE "current")
    BY <1>1, Lists DEF CreateTable
  <2> DEFINE t == Created[i]
             l == IF t = "sync_meta" THEN "empty" ELSE "current"
  <2>4. t \in Table /\ l \in {"absent", "empty", "current"} /\ (l = "empty" => t = "sync_meta")
    BY <2>3, Lists
  <2>5. Shaped(t, l) BY <2>3
  <2> HIDE DEF t, l
  <2>6. LayoutTyped' /\ layout'[t] = l /\ \A u \in Table \ {t} : layout'[u] = layout[u]
    BY <1>0, <2>4, <2>5, Reshaped
  <2>7. \A u \in Table : layout'[u] = layout[u] \/ layout'[u] \in {"absent", "empty", "current"}
    BY <2>4, <2>6
  <2>8. layout'["users"] = "current"
    <3>1. "users" \in Table BY DEF Table
    <3>2. layout["users"] = "current" BY <1>0, <2>2, <3>1 DEF Ladder
    <3>3. t # "users" BY Lists DEF t
    <3> QED BY <2>6, <3>1, <3>2, <3>3
  <2>9. Ladder' BY <1>0, <2>1, <2>2, <2>7, <2>8 DEF Ladder, Table
  <2> QED BY <2>1, <2>2, <2>6, <2>9 DEF UpgradeInv
<1>2. CASE TablesExist
  <2>1. At("create_tables") /\ Go /\ layout' = layout BY <1>2 DEF TablesExist
  <2>2. step = 10 /\ step' = 11 BY <1>0, <2>1, StepNames DEF Go
  <2>3. \A i \in 1..7 : layout[Created[i]] # "absent" BY <1>2, Lists DEF TablesExist
  <2>4. \A t \in Table \ {"users"} : layout[t] # "absent" BY <2>3, Lists
  <2>5. \A t \in Table : layout[t] # "absent" BY <1>0, <2>2, <2>4 DEF Ladder
  <2>6. Ladder' BY <1>0, <2>1, <2>2, <2>5 DEF Ladder
  <2> QED BY <2>1, <2>2, <2>6, SameLayout
<1>3. CASE AddColumns
  <2>1. At("add_columns") /\ step' = step BY <1>3 DEF AddColumns
  <2>2. step = 11 BY <1>0, <2>1, StepNames
  <2>3. PICK i \in 1..5 : Shaped(Extended[i].table, Extended[i].to)
    BY <1>3, Alters DEF AddColumns
  <2> DEFINE t == Extended[i].table
             l == Extended[i].to
  <2>4. t \in Table /\ l \in {"no_rev", "current"} /\ (l = "no_rev" => t = "cards")
    BY <2>3, Alters DEF Table
  <2>5. Shaped(t, l) BY <2>3
  <2> HIDE DEF t, l
  <2>6. LayoutTyped' /\ layout'[t] = l
        /\ \A u \in Table \ {t} : layout'[u] = layout[u]
    BY <1>0, <2>4, <2>5, Reshaped
  <2>7. \A u \in Table :
          layout'[u] \in {layout[u], "current"} \/ (u = "cards" /\ layout'[u] = "no_rev")
    BY <2>4, <2>6
  <2>8. Ladder' BY <1>0, <2>1, <2>2, <2>7 DEF Ladder, Table
  <2> QED BY <2>1, <2>2, <2>6, <2>8 DEF UpgradeInv
<1>4. CASE ColumnsExist
  <2>1. At("add_columns") /\ Go /\ layout' = layout BY <1>4 DEF ColumnsExist
  <2>2. step = 11 /\ step' = 12 BY <1>0, <2>1, StepNames DEF Go
  <2>3. \A i \in 1..5 : layout[Extended[i].table] # Extended[i].from
    BY <1>4, Alters DEF ColumnsExist, Lacks
  <2>4. \A t \in Table : layout[t] \notin {"old_columns", "no_rev"}
    BY <1>0, <2>3, Alters DEF LayoutTyped
  <2>5. Ladder' BY <1>0, <2>1, <2>2, <2>4 DEF Ladder
  <2> QED BY <2>1, <2>2, <2>5, SameLayout
<1>5. CASE Seed
  <2>1. At("seed") /\ Go /\ Shaped("sync_meta", "current") BY <1>5 DEF Seed
  <2>2. step = 12 /\ step' = 13 BY <1>0, <2>1, StepNames DEF Go
  <2>3. LayoutTyped' /\ layout'["sync_meta"] = "current"
        /\ \A u \in Table \ {"sync_meta"} : layout'[u] = layout[u]
    BY <1>0, <2>1, Reshaped DEF Table
  <2>4. Ladder' BY <1>0, <2>2, <2>3 DEF Ladder, Table
  <2> QED BY <2>2, <2>3, <2>4 DEF UpgradeInv
<1> QED BY <1>1, <1>2, <1>3, <1>4, <1>5

LEMMA RestSound ==
  ASSUME UpgradeInv, PruneAtStart \/ Stop \/ UNCHANGED <<step, layout>>
  PROVE  UpgradeInv'
<1>0. step \in 1..14 /\ LayoutTyped /\ Ladder BY DEF UpgradeInv
<1>1. CASE PruneAtStart
  <2>1. At("prune") /\ Go /\ layout' = layout BY <1>1 DEF PruneAtStart
  <2>2. step = 13 /\ step' = 14 BY <1>0, <2>1, StepNames DEF Go
  <2>3. Ladder' BY <1>0, <2>1, <2>2 DEF Ladder
  <2> QED BY <2>1, <2>2, <2>3, SameLayout
<1>2. CASE Stop
  <2>1. step' = 1 /\ layout' = layout BY <1>2 DEF Stop
  <2>2. Ladder' BY <2>1 DEF Ladder
  <2> QED BY <2>1, <2>2, SameLayout
<1>3. CASE UNCHANGED <<step, layout>>
  <2>1. Ladder' BY <1>0, <1>3 DEF Ladder
  <2> QED BY <1>0, <1>3, <2>1, SameLayout
<1> QED BY <1>1, <1>2, <1>3

LEMMA UpgradeStep == UpgradeInv /\ [StartNext]_allVars => UpgradeInv'
<1> SUFFICES ASSUME UpgradeInv, [StartNext]_allVars PROVE UpgradeInv'
  OBVIOUS
<1>1. CASE DropStaleCards \/ DropStaleSettings \/ DropPlaintextSessions
           \/ DropEmailKeyedReviews
  BY <1>1, DropsSound
<1>2. CASE CreateUsers \/ BackfillUsers \/ MoveSessionsToUserId
  BY <1>2, UsersSound
<1>3. CASE CreateTable \/ TablesExist \/ AddColumns \/ ColumnsExist \/ Seed
  BY <1>3, TablesSound
<1>4. CASE PruneAtStart \/ Stop BY <1>4, RestSound
<1>5. CASE UNCHANGED startVars BY <1>5, RestSound DEF startVars
<1>6. CASE UNCHANGED allVars BY <1>6, RestSound DEF allVars, startVars
<1> QED BY <1>1, <1>2, <1>3, <1>4, <1>5, <1>6 DEF StartNext

LEMMA UpgradeInit == StartInit => UpgradeInv
<1> SUFFICES ASSUME StartInit PROVE UpgradeInv
  OBVIOUS
<1>1. step = 1 /\ layout \in Layouts BY DEF StartInit
<1>2. LayoutTyped BY <1>1, LayoutsTyped DEF LayoutTyped
<1> QED BY <1>1, <1>2 DEF UpgradeInv, Ladder

-----------------------------------------------------------------------------
(* The accounts. A session belongs to a grant, and a grant that has not    *)
(* expired has its session, or its row in the table of an earlier build.   *)

AccountsTyped ==
  /\ devMode \in BOOLEAN
  /\ users \in [Email -> 0..accounts] /\ accounts \in Nat
  /\ sessions \subseteq Session
  /\ tokens \in Nat
  /\ owners \in [{"cards", "settings"} -> SUBSET Email]
  /\ oldRows \subseteq [token : Nat, email : Email, expires : Nat]

UsersDistinct == \A e, f \in Email : users[e] # 0 /\ users[e] = users[f] => e = f

TokensDistinct ==
  \A g \in granted : g.token <= tokens /\ \A h \in granted : g.token = h.token => g = h

SessionsGranted ==
  \A s \in sessions : \E g \in granted :
    /\ g.token = s.token /\ g.expires = s.expires
    /\ users[g.email] = s.user /\ s.user # 0

OldGranted ==
  layout["sessions"] = "by_email" => \A r \in oldRows : \E g \in granted :
    g.token = r.token /\ g.email = r.email /\ g.expires = r.expires

InTable(g) ==
  /\ users[g.email] # 0
  /\ [token |-> g.token, user |-> users[g.email], expires |-> g.expires] \in sessions

InOldTable(g) ==
  /\ layout["sessions"] = "by_email"
  /\ [token |-> g.token, email |-> g.email, expires |-> g.expires] \in oldRows

GrantsKept == \A g \in granted : g.expires > now => InTable(g) \/ InOldTable(g)

NoneGranted == layout["sessions"] \in {"absent", "plaintext"} => granted = {}

OldHaveUsers ==
  layout["sessions"] = "by_email" /\ step > 8 => \A r \in oldRows : users[r.email] # 0

OneTable == layout["sessions"] # "current" => sessions = {}

AccountsInv ==
  /\ AccountsTyped /\ UsersDistinct /\ TokensDistinct /\ SessionsGranted
  /\ OldGranted /\ GrantsKept /\ NoneGranted /\ OldHaveUsers /\ OneTable

StartInv == UpgradeInv /\ CodesInv /\ AccountsInv

LEMMA GrantShape ==
  ASSUME CodesInv, NEW g \in granted
  PROVE  g.token \in Nat /\ g.email \in Email /\ g.expires \in Nat /\ g.issue \in Nat
BY DEF CodesInv, CodesTyped, GrantsTyped

LEMMA SessionShape ==
  ASSUME AccountsTyped, NEW s \in sessions
  PROVE  s.token \in Nat /\ s.user \in Nat /\ s.expires \in Nat
BY DEF AccountsTyped, Session

LEMMA SignedInIsSound == StartInv => SignedInStaysSignedIn
<1> SUFFICES ASSUME StartInv, Serving, NEW g \in granted
             PROVE  Validate(g.token, now) = IF g.expires > now THEN {g.email} ELSE {}
  BY DEF SignedInStaysSignedIn, SessionsLast
<1>1. g.token \in Nat /\ g.email \in Email /\ g.expires \in Nat /\ now \in Nat
  BY GrantShape DEF StartInv, CodesInv, CodesTyped, CountsTyped
<1>2. layout["sessions"] # "by_email"
  <2>1. step \in 1..14 /\ Ladder BY DEF StartInv, UpgradeInv
  <2>2. step = 14 BY <2>1, StepNames
  <2> QED BY <2>1, <2>2 DEF Ladder
<1>3. \A s \in sessions : s.token = g.token =>
        s.expires = g.expires /\ s.user = users[g.email] /\ s.user # 0
  BY DEF StartInv, AccountsInv, SessionsGranted, TokensDistinct
<1>4. CASE g.expires > now
  <2>1. InTable(g) BY <1>2, <1>4 DEF StartInv, AccountsInv, GrantsKept, InOldTable
  <2> DEFINE s == [token |-> g.token, user |-> users[g.email], expires |-> g.expires]
  <2>2. s \in sessions /\ s.token = g.token /\ s.expires > now /\ users[g.email] = s.user
    BY <1>4, <2>1 DEF InTable
  <2>3. g.email \in Validate(g.token, now) BY <1>1, <2>2 DEF Validate
  <2>4. ASSUME NEW e \in Validate(g.token, now) PROVE e = g.email
    <3>1. e \in Email BY DEF Validate
    <3>2. PICK r \in sessions : r.token = g.token /\ users[e] = r.user BY DEF Validate
    <3>3. users[e] = users[g.email] /\ users[e] # 0 BY <1>3, <3>2
    <3> QED BY <1>1, <3>1, <3>3 DEF StartInv, AccountsInv, UsersDistinct
  <2> QED BY <1>4, <2>3, <2>4
<1>5. CASE ~(g.expires > now)
  <2>1. Validate(g.token, now) = {} BY <1>3, <1>5 DEF Validate
  <2> QED BY <1>5, <2>1
<1> QED BY <1>4, <1>5

\* Numbers for new accounts.
LEMMA NumberingType ==
  ASSUME NEW people, IsFiniteSet(people), NEW first \in Nat
  PROVE  /\ Cardinality(people) \in Nat
         /\ Numbering(people, first) \in [people -> first..(first + Cardinality(people) - 1)]
         /\ \A a, b \in people :
              a # b => Numbering(people, first)[a] # Numbering(people, first)[b]
<1> DEFINE n == Cardinality(people)
           Wanted(f) == /\ f \in [people -> first..(first + n - 1)]
                        /\ \A a, b \in people : a # b => f[a] # f[b]
<1>1. n \in Nat /\ ExistsBijection(1..n, people)
  BY FS_CardinalityType
<1>2. PICK g : g \in Bijection(people, 1..n)
  BY <1>1, Fun_ExistsBijSymmetric DEF ExistsBijection
<1>3. g \in [people -> 1..n] /\ \A a, b \in people : a # b => g[a] # g[b]
  BY <1>2, Fun_BijectionProperties DEF Bijection, Injection, IsInjective
<1> HIDE DEF n
<1> DEFINE f == [a \in people |-> g[a] + first - 1]
<1>4. \A a \in people : g[a] \in 1..n /\ f[a] \in first..(first + n - 1)
  BY <1>1, <1>3
<1>5. Wanted(f)
  <2>1. f \in [people -> first..(first + n - 1)] BY <1>4
  <2>2. ASSUME NEW a \in people, NEW b \in people, a # b PROVE f[a] # f[b]
    BY <1>3, <1>4, <2>2
  <2> QED BY <2>1, <2>2
<1>6. \E h : Wanted(h) BY <1>5
<1>7. Numbering(people, first) = CHOOSE h \in [people -> first..(first + n - 1)] :
                                   \A a, b \in people : a # b => h[a] # h[b]
  BY DEF Numbering, n
<1>8. Wanted(Numbering(people, first)) BY <1>5, <1>7
<1> QED BY <1>1, <1>8 DEF n

\* New people get numbers of their own, everyone else keeps theirs.
LEMMA UsersAdded ==
  ASSUME IsFiniteSet(Email), AccountsTyped, UsersDistinct,
         NEW people \in SUBSET Email, AddUsers(people)
  PROVE  /\ users' \in [Email -> 0..accounts'] /\ accounts' \in Nat
         /\ UsersDistinct'
         /\ \A e \in Email : users[e] # 0 => users'[e] = users[e]
         /\ \A e \in people : users'[e] # 0
<1> DEFINE new == {e \in people : users[e] = 0}
           n == Cardinality(new)
           number == Numbering(new, accounts + 1)
<1>1. IsFiniteSet(new) BY FS_Subset
<1>2. accounts \in Nat /\ accounts + 1 \in Nat /\ users \in [Email -> 0..accounts]
  BY DEF AccountsTyped
<1>3. /\ n \in Nat
      /\ number \in [new -> (accounts + 1)..(accounts + 1 + n - 1)]
      /\ \A a, b \in new : a # b => number[a] # number[b]
  BY <1>1, <1>2, NumberingType
<1>4. /\ users' = [e \in Email |-> IF e \in new THEN number[e] ELSE users[e]]
      /\ accounts' = accounts + n
  BY DEF AddUsers
<1>5. new \subseteq Email /\ \A e \in new : users[e] = 0 OBVIOUS
<1>6. \A e \in people : e \in new \/ users[e] # 0 OBVIOUS
<1> HIDE DEF new, n, number
<1>7. \A e \in new : number[e] \in Nat /\ number[e] > accounts /\ number[e] <= accounts + n
  BY <1>2, <1>3
<1>8. \A e \in Email : users[e] \in Nat /\ users[e] <= accounts
  BY <1>2
<1>9. users' \in [Email -> 0..accounts'] /\ accounts' \in Nat
  BY <1>2, <1>3, <1>4, <1>7, <1>8
<1>10. UsersDistinct'
  <2>1. ASSUME NEW e \in Email, NEW f \in Email, users'[e] # 0, users'[e] = users'[f]
        PROVE  e = f
    <3>1. CASE e \in new /\ f \in new
      BY <2>1, <3>1, <1>3, <1>4
    <3>2. CASE e \notin new /\ f \notin new
      BY <2>1, <3>2, <1>4 DEF UsersDistinct
    <3>3. CASE e \in new /\ f \notin new
      BY <2>1, <3>3, <1>2, <1>4, <1>7, <1>8
    <3>4. CASE e \notin new /\ f \in new
      BY <2>1, <3>4, <1>2, <1>4, <1>7, <1>8
    <3> QED BY <3>1, <3>2, <3>3, <3>4
  <2> QED BY <2>1 DEF UsersDistinct
<1>11. \A e \in Email : users[e] # 0 => users'[e] = users[e] BY <1>4, <1>5
<1>12. \A e \in people : users'[e] # 0
  <2>1. ASSUME NEW e \in people PROVE users'[e] # 0
    <3>1. CASE e \in new BY <3>1, <1>2, <1>4, <1>5, <1>7
    <3>2. CASE e \notin new BY <3>2, <1>4, <1>6
    <3> QED BY <3>1, <3>2
  <2> QED BY <2>1
<1> QED BY <1>9, <1>10, <1>11, <1>12

\* Grants and rows stay with their addresses when accounts are only added.
LEMMA UsersGrow ==
  ASSUME StartInv,
         users' \in [Email -> 0..accounts'], accounts' \in Nat, UsersDistinct',
         \A e \in Email : users[e] # 0 => users'[e] = users[e],
         owners' \in [{"cards", "settings"} -> SUBSET Email],
         layout' = layout,
         step > 7 => \A r \in oldRows : layout["sessions"] = "by_email" => users'[r.email] # 0,
         step' = step + 1,
         UNCHANGED <<now, devMode, sessions, tokens, granted, oldRows>>
  PROVE  AccountsInv'
<1>1. AccountsTyped' BY DEF StartInv, AccountsInv, AccountsTyped
<1>2. \A g \in granted : g.email \in Email BY GrantShape DEF StartInv
<1>3. TokensDistinct' BY DEF StartInv, AccountsInv, TokensDistinct
<1>4. SessionsGranted' BY <1>2 DEF StartInv, AccountsInv, SessionsGranted
<1>5. OldGranted' BY DEF StartInv, AccountsInv, OldGranted
<1>6. GrantsKept'
  <2>1. ASSUME NEW g \in granted, g.expires > now PROVE InTable(g)' \/ InOldTable(g)'
    <3>1. CASE InTable(g) BY <1>2, <3>1 DEF InTable
    <3>2. CASE InOldTable(g) BY <3>2 DEF InOldTable
    <3> QED BY <2>1, <3>1, <3>2 DEF StartInv, AccountsInv, GrantsKept
  <2> QED BY <2>1 DEF GrantsKept
<1>7. NoneGranted' /\ OneTable' BY DEF StartInv, AccountsInv, NoneGranted, OneTable
<1>8. OldHaveUsers'
  <2>1. step \in 1..14 BY DEF StartInv, UpgradeInv
  <2> QED BY <2>1 DEF OldHaveUsers
<1> QED BY <1>1, <1>3, <1>4, <1>5, <1>6, <1>7, <1>8 DEF AccountsInv

LEMMA BackfillAccounts ==
  ASSUME StartInv, IsFiniteSet(Email), BackfillUsers
  PROVE  AccountsInv'
<1>1. step \in 1..14 /\ AccountsTyped /\ UsersDistinct
  BY DEF StartInv, UpgradeInv, AccountsInv
<1>2. step' = step + 1 /\ layout' = layout /\ oldRows' = oldRows BY DEF BackfillUsers, Go
<1>3. \A r \in oldRows : r.email \in Email BY <1>1 DEF AccountsTyped
<1>4. ASSUME NEW table \in {"cards", "settings"},
             At("backfill_cards") \/ At("backfill_settings"), BackfillOwners(table)
      PROVE  AccountsInv'
  <2>1. step \in {6, 7} BY <1>1, <1>4, StepNames
  <2>2. owners[table] \in SUBSET Email BY <1>1 DEF AccountsTyped
  <2>3. AddUsers(owners[table]) /\ owners' = [owners EXCEPT ![table] = {}]
    BY <1>4 DEF BackfillOwners
  <2>4. owners' \in [{"cards", "settings"} -> SUBSET Email] BY <1>1, <2>3 DEF AccountsTyped
  <2>5. UNCHANGED <<now, devMode, sessions, tokens, granted>>
    BY <2>3 DEF AddUsers, history
  <2>6. /\ users' \in [Email -> 0..accounts'] /\ accounts' \in Nat /\ UsersDistinct'
        /\ \A e \in Email : users[e] # 0 => users'[e] = users[e]
    BY <1>1, <2>2, <2>3, UsersAdded
  <2>7. ~(step > 7) BY <2>1
  <2> QED BY <1>2, <2>4, <2>5, <2>6, <2>7, UsersGrow
<1>5. ASSUME At("backfill_sessions"), BackfillSessions, owners' = owners
      PROVE  AccountsInv'
  <2> DEFINE people == IF layout["sessions"] = "by_email" THEN {r.email : r \in oldRows} ELSE {}
  <2>1. people \in SUBSET Email BY <1>3
  <2>2. AddUsers(people) BY <1>5 DEF BackfillSessions
  <2>3. \A r \in oldRows : layout["sessions"] = "by_email" => r.email \in people
    OBVIOUS
  <2> HIDE DEF people
  <2>4. UNCHANGED <<now, devMode, sessions, tokens, granted>>
    BY <2>2 DEF AddUsers, history
  <2>5. /\ users' \in [Email -> 0..accounts'] /\ accounts' \in Nat /\ UsersDistinct'
        /\ \A e \in Email : users[e] # 0 => users'[e] = users[e]
        /\ \A e \in people : users'[e] # 0
    BY <1>1, <2>1, <2>2, UsersAdded
  <2>6. owners' \in [{"cards", "settings"} -> SUBSET Email] BY <1>1, <1>5 DEF AccountsTyped
  <2>7. \A r \in oldRows : layout["sessions"] = "by_email" => users'[r.email] # 0
    BY <2>3, <2>5
  <2> QED BY <1>2, <2>4, <2>5, <2>6, <2>7, UsersGrow
<1> QED BY <1>4, <1>5 DEF BackfillUsers

LEMMA MoveAccounts ==
  ASSUME StartInv, MoveSessionsToUserId
  PROVE  AccountsInv'
<1>1. At("move_sessions") /\ Go BY DEF MoveSessionsToUserId
<1>2. step = 9 /\ step' = 10 BY <1>1, StepNames DEF Go, StartInv, UpgradeInv
<1>3. UNCHANGED <<now, devMode, users, accounts, tokens, granted, owners>>
  BY DEF MoveSessionsToUserId, history
<1>4. AccountsTyped /\ OldHaveUsers BY DEF StartInv, AccountsInv
<1>5. \A r \in oldRows : r.token \in Nat /\ r.email \in Email /\ r.expires \in Nat
  BY <1>4 DEF AccountsTyped
<1>6. CASE layout["sessions"] = "by_email"
  <2>1. /\ Shaped("sessions", "current") /\ oldRows' = {}
        /\ sessions' = {[token |-> r.token, user |-> users[r.email], expires |-> r.expires] :
                          r \in {r \in oldRows : users[r.email] # 0}}
    BY <1>6 DEF MoveSessionsToUserId
  <2>2. layout'["sessions"] = "current"
    BY <2>1, Reshaped DEF Table, StartInv, UpgradeInv
  <2>3. \A e \in Email : users[e] \in Nat BY <1>4 DEF AccountsTyped
  <2>4. sessions' \subseteq Session BY <1>5, <2>1, <2>3 DEF Session
  <2>5. AccountsTyped' BY <1>3, <1>4, <2>1, <2>4 DEF AccountsTyped
  <2>6. UsersDistinct' /\ TokensDistinct'
    BY <1>3 DEF StartInv, AccountsInv, UsersDistinct, TokensDistinct
  <2>7. SessionsGranted'
    <3>1. ASSUME NEW s \in sessions'
          PROVE  \E g \in granted : /\ g.token = s.token /\ g.expires = s.expires
                                    /\ users[g.email] = s.user /\ s.user # 0
      <4>1. PICK r \in oldRows :
              /\ users[r.email] # 0
              /\ s = [token |-> r.token, user |-> users[r.email], expires |-> r.expires]
        BY <2>1, <3>1
      <4>2. PICK g \in granted :
              g.token = r.token /\ g.email = r.email /\ g.expires = r.expires
        BY <1>6, <4>1 DEF StartInv, AccountsInv, OldGranted
      <4> QED BY <4>1, <4>2
    <3> QED BY <1>3, <3>1 DEF SessionsGranted
  <2>8. OldGranted' /\ NoneGranted' /\ OldHaveUsers' /\ OneTable'
    BY <2>2 DEF OldGranted, NoneGranted, OldHaveUsers, OneTable
  <2>9. GrantsKept'
    <3>1. ASSUME NEW g \in granted, g.expires > now PROVE InTable(g)'
      <4>1. ~InTable(g)
        \* Nothing is in the new table while the old one is there.
        BY <1>6 DEF StartInv, AccountsInv, OneTable, InTable
      <4>2. InOldTable(g) BY <3>1, <4>1 DEF StartInv, AccountsInv, GrantsKept
      <4> DEFINE r == [token |-> g.token, email |-> g.email, expires |-> g.expires]
      <4>3. r \in oldRows BY <4>2 DEF InOldTable
      <4>4. users[r.email] # 0 BY <1>2, <1>4, <1>6, <4>3 DEF OldHaveUsers
      <4> QED BY <1>3, <2>1, <4>3, <4>4 DEF InTable
    <3> QED BY <1>3, <3>1 DEF GrantsKept
  <2> QED BY <2>5, <2>6, <2>7, <2>8, <2>9 DEF AccountsInv
<1>7. CASE layout["sessions"] # "by_email"
  <2>1. UNCHANGED <<layout, sessions, oldRows>> BY <1>7 DEF MoveSessionsToUserId
  <2>2. AccountsTyped' BY <1>3, <1>4, <2>1 DEF AccountsTyped
  <2>3. UsersDistinct' /\ TokensDistinct' /\ SessionsGranted'
    BY <1>3, <2>1 DEF StartInv, AccountsInv, UsersDistinct, TokensDistinct, SessionsGranted
  <2>4. OldGranted' /\ NoneGranted' /\ OldHaveUsers' /\ OneTable'
    BY <1>3, <1>7, <2>1
       DEF StartInv, AccountsInv, OldGranted, NoneGranted, OldHaveUsers, OneTable
  <2>5. GrantsKept'
    BY <1>3, <2>1 DEF StartInv, AccountsInv, GrantsKept, InTable, InOldTable
  <2> QED BY <2>2, <2>3, <2>4, <2>5 DEF AccountsInv
<1> QED BY <1>6, <1>7

\* Tables are dropped and created, and no row of a session is lost with them.
LEMMA RelaidAccounts ==
  ASSUME StartInv,
         owners' \in [{"cards", "settings"} -> SUBSET Email],
         UNCHANGED <<now, devMode, users, accounts, sessions, tokens, granted>>,
         \/ oldRows' = oldRows
         \/ oldRows' = {} /\ layout["sessions"] = "plaintext",
         \/ layout'["sessions"] = layout["sessions"]
         \/ layout["sessions"] = "plaintext" /\ layout'["sessions"] = "absent"
         \/ layout["sessions"] = "absent" /\ layout'["sessions"] = "current",
         step' > 8 => step > 8 \/ layout["sessions"] # "by_email"
  PROVE  AccountsInv'
<1>1. AccountsTyped' BY DEF StartInv, AccountsInv, AccountsTyped
<1>2. UsersDistinct' /\ TokensDistinct' /\ SessionsGranted'
  BY DEF StartInv, AccountsInv, UsersDistinct, TokensDistinct, SessionsGranted
<1>3. OldGranted' /\ OldHaveUsers'
  BY DEF StartInv, AccountsInv, OldGranted, OldHaveUsers
<1>4. NoneGranted' /\ OneTable' BY DEF StartInv, AccountsInv, NoneGranted, OneTable
<1>5. GrantsKept'
  BY DEF StartInv, AccountsInv, NoneGranted, GrantsKept, InTable, InOldTable
<1> QED BY <1>1, <1>2, <1>3, <1>4, <1>5 DEF AccountsInv

\* What expires goes, and nothing else.
LEMMA PrunedAccounts ==
  ASSUME StartInv, sessions' = LiveSessions(now),
         UNCHANGED <<now, devMode, users, accounts, tokens, granted, layout, owners,
                     oldRows>>,
         step' > 8 => step > 8
  PROVE  AccountsInv'
<1>1. sessions' \subseteq sessions BY DEF LiveSessions
<1>2. AccountsTyped' BY <1>1 DEF StartInv, AccountsInv, AccountsTyped
<1>3. UsersDistinct' /\ TokensDistinct'
  BY DEF StartInv, AccountsInv, UsersDistinct, TokensDistinct
<1>4. SessionsGranted' BY <1>1 DEF StartInv, AccountsInv, SessionsGranted
<1>5. OldGranted' /\ OldHaveUsers' /\ NoneGranted' /\ OneTable'
  BY <1>1 DEF StartInv, AccountsInv, OldGranted, OldHaveUsers, NoneGranted, OneTable
<1>6. GrantsKept'
  <2>1. ASSUME NEW g \in granted, g.expires > now, InTable(g) PROVE InTable(g)'
    <3> DEFINE s == [token |-> g.token, user |-> users[g.email], expires |-> g.expires]
    <3>1. s \in sessions /\ s.expires > now /\ users[g.email] # 0 BY <2>1 DEF InTable
    <3>2. g.expires \in Nat /\ now \in Nat
      BY GrantShape DEF StartInv, CodesInv, CodesTyped, CountsTyped
    <3>3. s \in LiveSessions(now) BY <3>1, <3>2 DEF LiveSessions
    <3> QED BY <3>1, <3>3 DEF InTable
  <2> QED BY <2>1 DEF StartInv, AccountsInv, GrantsKept, InOldTable
<1> QED BY <1>2, <1>3, <1>4, <1>5, <1>6 DEF AccountsInv

\* A sign-in adds an account at most, a session and its grant.
LEMMA SignedInAccounts ==
  ASSUME StartInv, NEW e \in Email, NEW expires \in Nat, NEW i \in Nat,
         CreateSession(e, expires, i), layout["sessions"] = "current",
         UNCHANGED <<now, devMode, startVars>>
  PROVE  AccountsInv'
<1>1. AccountsTyped /\ tokens \in Nat /\ tokens' = tokens + 1 /\ accounts \in Nat
      /\ users \in [Email -> 0..accounts]
  BY DEF CreateSession, StartInv, AccountsInv, AccountsTyped
<1>2. /\ users' \in [Email -> 0..accounts'] /\ accounts' \in Nat /\ users'[e] # 0
      /\ UsersDistinct' /\ \A f \in Email : users[f] # 0 => users'[f] = users[f]
  <2>1. CASE users[e] = 0
    <3>1. accounts' = accounts + 1 /\ users' = [users EXCEPT ![e] = accounts + 1]
      BY <2>1 DEF CreateSession
    <3>2. \A f \in Email : users[f] \in Nat /\ users[f] <= accounts BY <1>1
    <3>3. users'[e] = accounts + 1 /\ \A f \in Email \ {e} : users'[f] = users[f]
      BY <1>1, <3>1
    <3>4. UsersDistinct'
      BY <1>1, <3>2, <3>3 DEF StartInv, AccountsInv, UsersDistinct
    <3> QED BY <1>1, <2>1, <3>1, <3>2, <3>3, <3>4
  <2>2. CASE users[e] # 0
    <3>1. accounts' = accounts /\ users' = users BY <2>2 DEF CreateSession
    <3> QED BY <1>1, <2>2, <3>1 DEF StartInv, AccountsInv, UsersDistinct
  <2> QED BY <2>1, <2>2
<1> PICK s : s = [token |-> tokens + 1, user |-> users'[e], expires |-> expires]
  OBVIOUS
<1> PICK g : g = [token |-> tokens + 1, email |-> e, expires |-> expires, issue |-> i]
  OBVIOUS
<1>3. sessions' = sessions \cup {s} /\ granted' = granted \cup {g}
  BY DEF CreateSession
<1>4. s \in Session BY <1>1, <1>2 DEF Session
<1>5. g.token = tokens + 1 /\ g.email = e /\ g.expires = expires /\ s.token = tokens + 1
      /\ s.user = users'[e] /\ s.expires = expires
      /\ s = [token |-> g.token, user |-> users'[g.email], expires |-> g.expires]
  OBVIOUS
<1>6. UNCHANGED <<layout, owners, oldRows, step>> BY DEF startVars
<1>7. \A h \in granted : h.email \in Email /\ h.token \in Nat /\ h.token <= tokens
  BY GrantShape DEF StartInv, AccountsInv, TokensDistinct
<1>8. AccountsTyped'
  BY <1>1, <1>2, <1>3, <1>4, <1>6 DEF AccountsTyped
<1>9. TokensDistinct'
  <2>1. ASSUME NEW h \in granted', NEW k \in granted', h.token = k.token PROVE h = k
    BY <2>1, <1>1, <1>3, <1>5, <1>7 DEF StartInv, AccountsInv, TokensDistinct
  <2> QED BY <2>1, <1>1, <1>3, <1>5, <1>7 DEF TokensDistinct
<1>10. SessionsGranted'
  BY <1>2, <1>3, <1>5, <1>7 DEF StartInv, AccountsInv, SessionsGranted
<1>11. OldGranted' /\ OldHaveUsers' /\ NoneGranted' /\ OneTable'
  BY <1>6 DEF OldGranted, OldHaveUsers, NoneGranted, OneTable
<1>12. GrantsKept'
  <2>1. InTable(g)' BY <1>2, <1>3, <1>5 DEF InTable
  <2>2. ASSUME NEW h \in granted, h.expires > now PROVE InTable(h)'
    <3>1. InTable(h) BY <2>2 DEF StartInv, AccountsInv, GrantsKept, InOldTable
    <3> QED BY <3>1, <1>2, <1>3, <1>7 DEF InTable
  <2> QED BY <1>3, <2>1, <2>2 DEF GrantsKept
<1> QED BY <1>2, <1>8, <1>9, <1>10, <1>11, <1>12 DEF AccountsInv

-----------------------------------------------------------------------------
(* A whole step.                                                           *)

\* Nothing the codes are about changes, or every request is dropped.
LEMMA CodesUntouched ==
  ASSUME CodesInv, UNCHANGED <<now, otps, issues, wrong, granted>>,
         tasks' = tasks \/ tasks' = [t \in Task |-> Idle]
  PROVE  CodesInv'
<1>1. tasks' \in [Task -> TaskState] BY IdleTask DEF CodesInv, CodesTyped, TasksTyped
<1>2. CodesTyped'
  BY <1>1 DEF CodesInv, CodesTyped, RowsTyped, TasksTyped, CountsTyped, GrantsTyped
<1>3. \A t \in Task : tasks'[t] = tasks[t] \/ tasks'[t].pc = "idle" BY IdleTask
<1>4. ReadsAreCurrent' BY <1>3 DEF CodesInv, ReadsAreCurrent
<1>5. RowsOwnIssues' /\ NewIssuesAreUntried' /\ AttemptsAreExact'
  BY DEF CodesInv, RowsOwnIssues, NewIssuesAreUntried, AttemptsAreExact, OtpRow
<1>6. UsedOnce' BY <1>3 DEF CodesInv, UsedOnce
<1>7. UsedIsGone' BY <1>3 DEF CodesInv, UsedIsGone, OtpRow
<1> QED BY <1>2, <1>4, <1>5, <1>6, <1>7 DEF CodesInv

LEMMA SignInShape ==
  ASSUME CodesInv, NEW t \in Task, SignIn(t)
  PROVE  /\ tasks[t].email \in Email /\ tasks[t].now + Life \in Nat
         /\ tasks[t].issue \in Nat
<1>1. tasks[t] \in TaskState /\ tasks[t].pc = "valid"
  BY DEF CodesInv, CodesTyped, TasksTyped, SignIn
<1> QED BY <1>1, TaskShape, Bounds

LEMMA SignInDevShape ==
  ASSUME CodesInv, NEW t \in Task, NEW typed \in Spelling, SignInDev(t, typed)
  PROVE  NormalEmail[typed] \in Email /\ now + Life \in Nat
<1>1. NormalEmail[typed] # "" BY DEF SignInDev
<1>2. NormalEmail[typed] \in Email BY <1>1, Normalized
<1>3. now \in Nat BY DEF CodesInv, CodesTyped, CountsTyped
<1>4. now + Life \in Nat BY <1>3, Bounds
<1> QED BY <1>2, <1>4

LEMMA ServeCodes ==
  ASSUME CodesInv, tokens \in Nat, Serve
  PROVE  CodesInv'
<1>1. ASSUME NEW t \in Task, NEW typed \in Spelling, SignInDev(t, typed) PROVE CodesInv'
  <2>1. CreateSession(NormalEmail[typed], now + Life, 0) /\ Commit(t, Idle)
        /\ UNCHANGED <<now, otps, issues, wrong>>
    BY <1>1 DEF SignInDev
  <2> QED BY <1>1, <2>1, SignInDevShape, SessionStep
<1>2. ASSUME NEW t \in Task, SignIn(t) PROVE CodesInv'
  <2>1. CreateSession(tasks[t].email, tasks[t].now + Life, tasks[t].issue)
        /\ Commit(t, Idle) /\ tasks[t].pc = "valid"
        /\ UNCHANGED <<now, otps, issues, wrong>>
    BY <1>2 DEF SignIn
  <2> QED BY <1>2, <2>1, SignInShape, SessionStep
<1>3. CASE PruneExpiredAuth
  <2>1. otps' = LiveOtps(now) /\ UNCHANGED <<now, issues, wrong, granted>>
        /\ tasks' = IF sessions' = sessions /\ otps' = otps THEN tasks ELSE Overtaken
    BY <1>3 DEF PruneExpiredAuth, history
  <2>2. tasks \in [Task -> TaskState] BY DEF CodesInv, CodesTyped, TasksTyped
  <2>3. tasks' \in [Task -> TaskState] BY <2>1, <2>2, OvertakenTasks
  <2>4. \A t \in Task :
          \/ tasks'[t] = tasks[t] /\ (tasks[t].pc = "read" => otps' = otps)
          \/ tasks'[t].pc = "read" /\ ~tasks'[t].fresh
    BY <2>1, <2>2, OvertakenTasks
  <2> QED BY <2>1, <2>3, <2>4, PruneStep
<1>4. CASE Tick
  <2>1. now' = now + 1 /\ UNCHANGED <<otps, issues, wrong, granted, tasks>>
    BY <1>4 DEF Tick, dbVars, history
  <2>2. CodesTyped'
    BY <2>1 DEF CodesInv, CodesTyped, RowsTyped, TasksTyped, CountsTyped, GrantsTyped
  <2>3. ReadsAreCurrent' /\ RowsOwnIssues' /\ NewIssuesAreUntried' /\ AttemptsAreExact'
    BY <2>1 DEF CodesInv, ReadsAreCurrent, RowsOwnIssues, NewIssuesAreUntried,
                AttemptsAreExact, OtpRow
  <2>4. UsedOnce' /\ UsedIsGone' BY <2>1 DEF CodesInv, UsedOnce, UsedIsGone, OtpRow
  <2> QED BY <2>2, <2>3, <2>4 DEF CodesInv
<1>5. ASSUME NEW t \in Task, NEW typed \in Spelling,
             AskCode(t, typed) \/ \E c \in Code : TryCode(t, typed, c)
      PROVE  CodesInv'
  BY <1>5, QuietActions
<1>6. ASSUME NEW t \in Task,
             ReadOtp(t) \/ RefuseCode(t) \/ NoSuchCode(t) \/ Lose(t)
      PROVE  CodesInv'
  BY <1>6, QuietActions
<1>7. ASSUME NEW t \in Task, StoreOtp(t) \/ VerifyOtp(t) \/ RejectOtp(t) PROVE CodesInv'
  BY <1>7, StoreOtpStep, VerifyOtpStep, RejectOtpStep
<1> QED BY <1>1, <1>2, <1>3, <1>4, <1>5, <1>6, <1>7 DEF Serve

LEMMA CodesStep ==
  ASSUME StartInv, [StartNext]_allVars
  PROVE  CodesInv'
<1>0. CodesInv /\ tokens \in Nat BY DEF StartInv, AccountsInv, AccountsTyped
<1>1. CASE UNCHANGED vars
  BY <1>0, <1>1, CodesUntouched DEF vars, dbVars, history
<1>2. CASE BackfillUsers
  <2>1. PICK people : AddUsers(people)
    BY <1>2 DEF BackfillUsers, BackfillOwners, BackfillSessions
  <2> QED BY <1>0, <2>1, CodesUntouched DEF AddUsers, history
<1>3. CASE MoveSessionsToUserId
  BY <1>0, <1>3, CodesUntouched DEF MoveSessionsToUserId, history
<1>4. CASE PruneAtStart
  <2>1. otps' = LiveOtps(now) /\ UNCHANGED <<now, issues, wrong, granted>>
        /\ tasks' = [t \in Task |-> Idle]
    BY <1>4 DEF PruneAtStart, Restart, history
  <2>2. tasks' \in [Task -> TaskState] /\ \A t \in Task : tasks'[t].pc = "idle"
    BY <2>1, IdleTask
  <2> QED BY <1>0, <2>1, <2>2, PruneStep
<1>5. CASE Stop BY <1>0, <1>5, CodesUntouched DEF Stop, dbVars, history
<1>6. CASE Serve BY <1>0, <1>6, ServeCodes
<1> QED
  BY <1>1, <1>2, <1>3, <1>4, <1>5, <1>6
     DEF StartNext, DropStaleCards, DropStaleSettings, DropPlaintextSessions,
         DropEmailKeyedReviews, CreateUsers, CreateTable, TablesExist, AddColumns,
         ColumnsExist, Seed, allVars

LEMMA ServeAccounts ==
  ASSUME StartInv, Serving, Serve, UNCHANGED startVars
  PROVE  AccountsInv'
<1>0. layout["sessions"] = "current"
  <2>1. UpgradeCompletes BY UpgradeIsDone DEF StartInv
  <2>2. "sessions" \in DOMAIN layout BY DEF StartInv, UpgradeInv, LayoutTyped, Table
  <2> QED BY <2>1, <2>2 DEF UpgradeCompletes
<1>1. CodesInv /\ owners' \in [{"cards", "settings"} -> SUBSET Email]
      /\ UNCHANGED <<layout, oldRows, owners, step>>
  BY DEF StartInv, AccountsInv, AccountsTyped, startVars
<1>2. ASSUME NEW t \in Task, NEW typed \in Spelling, SignInDev(t, typed)
      PROVE  AccountsInv'
  <2>1. CreateSession(NormalEmail[typed], now + Life, 0) /\ UNCHANGED <<now, devMode>>
    BY <1>2 DEF SignInDev
  <2> QED BY <1>0, <1>1, <1>2, <2>1, SignInDevShape, SignedInAccounts
<1>3. ASSUME NEW t \in Task, SignIn(t) PROVE AccountsInv'
  <2>1. CreateSession(tasks[t].email, tasks[t].now + Life, tasks[t].issue)
        /\ UNCHANGED <<now, devMode>>
    BY <1>3 DEF SignIn
  <2> QED BY <1>0, <1>1, <1>3, <2>1, SignInShape, SignedInAccounts
<1>4. CASE PruneExpiredAuth
  <2>1. sessions' = LiveSessions(now)
        /\ UNCHANGED <<now, devMode, users, accounts, tokens, granted>>
    BY <1>4 DEF PruneExpiredAuth, history
  <2> QED BY <1>1, <2>1, PrunedAccounts
<1>5. CASE Tick
  <2>1. now' = now + 1 /\ now \in Nat
        /\ UNCHANGED <<devMode, users, accounts, sessions, tokens, granted>>
    BY <1>1, <1>5 DEF Tick, dbVars, history, CodesInv, CodesTyped, CountsTyped
  <2>2. AccountsTyped' BY <1>1, <2>1 DEF StartInv, AccountsInv, AccountsTyped
  <2>3. UsersDistinct' /\ TokensDistinct' /\ SessionsGranted'
    BY <2>1 DEF StartInv, AccountsInv, UsersDistinct, TokensDistinct, SessionsGranted
  <2>4. OldGranted' /\ NoneGranted' /\ OldHaveUsers' /\ OneTable'
    BY <1>0, <1>1 DEF OldGranted, NoneGranted, OldHaveUsers, OneTable
  <2>5. GrantsKept'
    <3>1. ASSUME NEW g \in granted, g.expires > now' PROVE g.expires > now
      BY <2>1, <3>1, GrantShape, <1>1
    <3> QED BY <1>1, <2>1, <3>1 DEF StartInv, AccountsInv, GrantsKept, InTable, InOldTable
  <2> QED BY <2>2, <2>3, <2>4, <2>5 DEF AccountsInv
<1>6. CASE UNCHANGED <<now, devMode, users, accounts, sessions, tokens, granted>>
  BY <1>1, <1>6, RelaidAccounts
<1>7. ASSUME NEW t \in Task, NEW typed \in Spelling,
             AskCode(t, typed) \/ \E c \in Code : TryCode(t, typed, c)
      PROVE  AccountsInv'
  BY <1>6, <1>7 DEF AskCode, TryCode, dbVars, history
<1>8. ASSUME NEW t \in Task,
             \/ ReadOtp(t) \/ RefuseCode(t) \/ StoreOtp(t) \/ NoSuchCode(t)
             \/ VerifyOtp(t) \/ RejectOtp(t) \/ Lose(t)
      PROVE  AccountsInv'
  BY <1>6, <1>8 DEF ReadOtp, RefuseCode, StoreOtp, NoSuchCode, VerifyOtp, RejectOtp,
                    Lose, dbVars, history
<1> QED BY <1>2, <1>3, <1>4, <1>5, <1>7, <1>8 DEF Serve

LEMMA AccountsStep ==
  ASSUME StartInv, IsFiniteSet(Email), [StartNext]_allVars
  PROVE  AccountsInv'
<1>0. /\ step \in 1..14 /\ LayoutTyped
      /\ owners \in [{"cards", "settings"} -> SUBSET Email]
  BY DEF StartInv, UpgradeInv, AccountsInv, AccountsTyped
<1> DEFINE Same == UNCHANGED <<now, devMode, users, accounts, sessions, tokens, granted>>
<1>1. UNCHANGED vars => Same BY DEF vars, dbVars, history
<1>2. CASE DropStaleCards
  <2>1. step' = 2 /\ Same /\ oldRows' = oldRows
    BY <1>0, <1>1, <1>2, StepNames DEF DropStaleCards, Go
  <2>2. layout'["sessions"] = layout["sessions"]
    BY <1>0, <1>2, Reshaped DEF DropStaleCards, Table
  <2>3. owners' \in [{"cards", "settings"} -> SUBSET Email] BY <1>0, <1>2 DEF DropStaleCards
  <2> QED BY <2>1, <2>2, <2>3, RelaidAccounts
<1>3. CASE DropStaleSettings
  <2>1. step' = 3 /\ Same /\ oldRows' = oldRows
    BY <1>0, <1>1, <1>3, StepNames DEF DropStaleSettings, Go
  <2>2. layout'["sessions"] = layout["sessions"]
    BY <1>0, <1>3, Reshaped DEF DropStaleSettings, Table
  <2>3. owners' \in [{"cards", "settings"} -> SUBSET Email]
    BY <1>0, <1>3 DEF DropStaleSettings
  <2> QED BY <2>1, <2>2, <2>3, RelaidAccounts
<1>4. CASE DropPlaintextSessions
  <2>1. step' = 4 /\ Same /\ owners' = owners
    BY <1>0, <1>1, <1>4, StepNames DEF DropPlaintextSessions, Go
  <2>2. \/ layout["sessions"] = "plaintext" /\ layout'["sessions"] = "absent"
           /\ oldRows' = {}
        \/ layout'["sessions"] = layout["sessions"] /\ oldRows' = oldRows
    BY <1>0, <1>4, Reshaped DEF DropPlaintextSessions, Table
  <2> QED BY <1>0, <2>1, <2>2, RelaidAccounts
<1>5. CASE DropEmailKeyedReviews
  <2>1. step' = 5 /\ Same /\ owners' = owners /\ oldRows' = oldRows
    BY <1>0, <1>1, <1>5, StepNames DEF DropEmailKeyedReviews, Go
  <2>2. layout'["sessions"] = layout["sessions"]
    BY <1>0, <1>5, Reshaped DEF DropEmailKeyedReviews, Table
  <2> QED BY <1>0, <2>1, <2>2, RelaidAccounts
<1>6. CASE CreateUsers
  <2>1. step' = 6 /\ Same /\ owners' = owners /\ oldRows' = oldRows
    BY <1>0, <1>1, <1>6, StepNames DEF CreateUsers, Go
  <2>2. layout'["sessions"] = layout["sessions"]
    BY <1>0, <1>6, Reshaped DEF CreateUsers, Table
  <2> QED BY <1>0, <2>1, <2>2, RelaidAccounts
<1>7. CASE BackfillUsers BY <1>7, BackfillAccounts
<1>8. CASE MoveSessionsToUserId BY <1>8, MoveAccounts
<1>9. CASE CreateTable
  <2>1. step' = step /\ Same /\ owners' = owners /\ oldRows' = oldRows
    BY <1>1, <1>9 DEF CreateTable
  <2>2. PICK i \in 1..7 :
          /\ layout[Created[i]] = "absent"
          /\ Shaped(Created[i], IF Created[i] = "sync_meta" THEN "empty" ELSE "current")
    BY <1>9, Lists DEF CreateTable
  <2>3. \/ layout'["sessions"] = layout["sessions"]
        \/ layout["sessions"] = "absent" /\ layout'["sessions"] = "current"
    <3>1. CASE Created[i] = "sessions"
      BY <1>0, <2>2, <3>1 DEF Shaped, LayoutTyped, Table
    <3>2. CASE Created[i] # "sessions"
      BY <1>0, <2>2, <3>2 DEF Shaped, LayoutTyped, Table
    <3> QED BY <3>1, <3>2
  <2> QED BY <1>0, <2>1, <2>3, RelaidAccounts
<1>10. CASE AddColumns
  <2>1. step' = step /\ Same /\ owners' = owners /\ oldRows' = oldRows
    BY <1>1, <1>10 DEF AddColumns
  <2>2. PICK i \in 1..5 : Shaped(Extended[i].table, Extended[i].to)
    BY <1>10, Alters DEF AddColumns
  <2>3. Extended[i].table # "sessions" BY Alters
  <2>4. layout'["sessions"] = layout["sessions"]
    BY <1>0, <2>2, <2>3 DEF Shaped, LayoutTyped, Table
  <2> QED BY <1>0, <2>1, <2>4, RelaidAccounts
<1>11. CASE TablesExist \/ ColumnsExist
  <2>1. step > 8 /\ Same /\ layout' = layout /\ owners' = owners /\ oldRows' = oldRows
    BY <1>0, <1>1, <1>11, StepNames DEF TablesExist, ColumnsExist
  <2> QED BY <1>0, <2>1, RelaidAccounts
<1>12. CASE Seed
  <2>1. step > 8 /\ Same /\ owners' = owners /\ oldRows' = oldRows
    BY <1>0, <1>1, <1>12, StepNames DEF Seed
  <2>2. layout'["sessions"] = layout["sessions"]
    BY <1>0, <1>12, Reshaped DEF Seed, Table
  <2> QED BY <1>0, <2>1, <2>2, RelaidAccounts
<1>13. CASE PruneAtStart
  <2>1. step > 8 BY <1>0, <1>13, StepNames DEF PruneAtStart
  <2>2. sessions' = LiveSessions(now)
        /\ UNCHANGED <<now, devMode, users, accounts, tokens, granted, layout, owners,
                       oldRows>>
    BY <1>13 DEF PruneAtStart, Restart, history
  <2> QED BY <2>1, <2>2, PrunedAccounts
<1>14. CASE Stop
  <2>1. step' = 1 /\ Same /\ UNCHANGED <<layout, owners, oldRows>>
    BY <1>14 DEF Stop, dbVars, history
  <2> QED BY <1>0, <2>1, RelaidAccounts
<1>15. CASE Serving /\ Serve /\ UNCHANGED startVars BY <1>15, ServeAccounts
<1>16. CASE UNCHANGED allVars
  <2>1. Same /\ UNCHANGED <<step, layout, owners, oldRows>>
    BY <1>1, <1>16 DEF allVars, startVars
  <2> QED BY <1>0, <2>1, RelaidAccounts
<1> QED
  BY <1>2, <1>3, <1>4, <1>5, <1>6, <1>7, <1>8, <1>9, <1>10, <1>11, <1>12, <1>13, <1>14,
     <1>15, <1>16
     DEF StartNext

-----------------------------------------------------------------------------
(* What an earlier build leaves is sound.                                  *)

LEMMA FirstCodes == StartInit => CodesInv
<1> SUFFICES ASSUME StartInit PROVE CodesInv
  OBVIOUS
<1>1. /\ now = 0 /\ otps = [e \in Email |-> None] /\ tasks = [t \in Task |-> Idle]
      /\ issues = 0 /\ wrong = [i \in 1..MaxIssues |-> 0]
  BY DEF StartInit
<1> DEFINE number == Numbering(LegacyUser, 1)
<1>2. number \in [LegacyUser -> Nat]
  <2>1. IsFiniteSet(LegacyUser) BY LegacyAssumption, FS_Subset
  <2>2. 1 \in Nat OBVIOUS
  <2>3. /\ Cardinality(LegacyUser) \in Nat
        /\ number \in [LegacyUser -> 1..(1 + Cardinality(LegacyUser) - 1)]
    BY <2>1, <2>2, NumberingType
  <2> HIDE DEF number
  <2> QED BY <2>3
<1>3. granted \subseteq {[token |-> number[e], email |-> e, expires |-> Life, issue |-> 0] :
                           e \in LegacyUser}
  BY DEF StartInit
<1> HIDE DEF number
<1>4. \A g \in granted :
        g.issue = 0 /\ g \in [token : Nat, email : Email, expires : Nat, issue : Nat]
  BY <1>2, <1>3, LegacyAssumption, Bounds
<1>5. \A t \in Task : tasks[t].pc = "idle" BY <1>1, IdleTask
<1>6. \A e \in Email : ~OtpRow(e) BY <1>1 DEF OtpRow
<1>7. CodesTyped
  <2>1. RowsTyped BY <1>1 DEF RowsTyped
  <2>2. TasksTyped BY <1>1, IdleTask DEF TasksTyped
  <2>3. CountsTyped BY <1>1, Bounds DEF CountsTyped
  <2>4. GrantsTyped BY <1>4 DEF GrantsTyped
  <2> QED BY <2>1, <2>2, <2>3, <2>4 DEF CodesTyped
<1>8. ReadsAreCurrent BY <1>5 DEF ReadsAreCurrent
<1>9. RowsOwnIssues /\ AttemptsAreExact BY <1>6 DEF RowsOwnIssues, AttemptsAreExact
<1>10. NewIssuesAreUntried BY <1>1 DEF NewIssuesAreUntried
<1>11. UsedOnce BY <1>4, <1>5 DEF UsedOnce
<1>12. UsedIsGone BY <1>1, <1>4, <1>5, <1>6 DEF UsedIsGone
<1> QED BY <1>7, <1>8, <1>9, <1>10, <1>11, <1>12 DEF CodesInv

LEMMA FirstAccounts == StartInit => AccountsInv
<1> SUFFICES ASSUME StartInit PROVE AccountsInv
  OBVIOUS
<1> DEFINE n == Cardinality(LegacyUser)
           number == Numbering(LegacyUser, 1)
           Rows == {[token |-> number[e], email |-> e, expires |-> Life] : e \in LegacyUser}
           Kept == layout["sessions"] \in {"by_email", "current"}
           Grants == {[token |-> number[e], email |-> e, expires |-> Life, issue |-> 0] :
                        e \in LegacyUser}
           Known == layout["users"] = "current"
           Sessions == {[token |-> number[e], user |-> users[e], expires |-> Life] :
                          e \in LegacyUser}
<1>1. n \in Nat /\ number \in [LegacyUser -> 1..n]
      /\ \A a, b \in LegacyUser : a # b => number[a] # number[b]
  <2>1. IsFiniteSet(LegacyUser) BY LegacyAssumption, FS_Subset
  <2>2. 1 \in Nat OBVIOUS
  <2>3. /\ n \in Nat /\ number \in [LegacyUser -> 1..(1 + n - 1)]
        /\ \A a, b \in LegacyUser : a # b => number[a] # number[b]
    BY <2>1, <2>2, NumberingType
  <2> HIDE DEF n, number
  <2>4. 1 + n - 1 = n BY <2>3
  <2> QED BY <2>3, <2>4
<1>2. LegacyUser \subseteq Email BY LegacyAssumption
<1>3. /\ Known => /\ users = [e \in Email |-> IF e \in LegacyUser THEN number[e] ELSE 0]
                  /\ accounts = n
      /\ ~Known => users = [e \in Email |-> 0] /\ accounts = 0
  BY DEF StartInit
<1>4. oldRows = IF layout["sessions"] \in {"plaintext", "by_email"} THEN Rows ELSE {}
  BY DEF StartInit
<1>5. sessions = IF layout["sessions"] = "current" THEN Sessions ELSE {}
  BY DEF StartInit
<1>6. tokens = n /\ granted = IF Kept THEN Grants ELSE {}
  BY DEF StartInit
<1>7. now = 0 /\ devMode \in BOOLEAN /\ step = 1 /\ Coherent(layout)
      /\ owners = [table \in {"cards", "settings"} |->
                     IF layout[table] = "absent" \/ layout["users"] = "current" THEN {}
                     ELSE LegacyUser]
  BY DEF StartInit
<1>8. layout["sessions"] = "current" => Known
  <2>1. layout \in [Table -> Shape] /\ layout["users"] \in {"absent", "current"}
    BY LayoutsTyped DEF StartInit, Layouts, Table
  <2> QED BY <1>7, <2>1 DEF Coherent
<1> HIDE DEF n, number
<1>9. \A e \in LegacyUser : number[e] \in Nat /\ number[e] # 0 /\ number[e] <= n
  BY <1>1
<1>10. AccountsTyped
  <2>1. users \in [Email -> 0..accounts] /\ accounts \in Nat
    BY <1>1, <1>3, <1>9
  <2>2. oldRows \subseteq [token : Nat, email : Email, expires : Nat]
    BY <1>2, <1>4, <1>9, Bounds
  <2>3. sessions \subseteq Session
    <3>1. \A e \in LegacyUser : users[e] \in Nat BY <1>2, <2>1
    <3> QED BY <1>5, <1>9, <3>1, Bounds DEF Session
  <2>4. owners \in [{"cards", "settings"} -> SUBSET Email] BY <1>2, <1>7
  <2> QED BY <1>1, <1>6, <1>7, <2>1, <2>2, <2>3, <2>4 DEF AccountsTyped
<1>11. UsersDistinct BY <1>1, <1>3 DEF UsersDistinct
<1>12. TokensDistinct BY <1>1, <1>6, <1>9 DEF TokensDistinct
<1>13. \A e \in LegacyUser : Known => users[e] = number[e] /\ users[e] # 0
  BY <1>2, <1>3, <1>9
<1>14. SessionsGranted
  <2>1. ASSUME NEW s \in sessions
        PROVE  \E g \in granted : /\ g.token = s.token /\ g.expires = s.expires
                                  /\ users[g.email] = s.user /\ s.user # 0
    <3>1. layout["sessions"] = "current" /\ s \in Sessions BY <1>5, <2>1
    <3>2. PICK e \in LegacyUser :
            s = [token |-> number[e], user |-> users[e], expires |-> Life]
      BY <3>1
    <3>3. [token |-> number[e], email |-> e, expires |-> Life, issue |-> 0] \in granted
      BY <1>6, <3>1
    <3> QED BY <1>8, <1>13, <3>1, <3>2, <3>3
  <2> QED BY <2>1 DEF SessionsGranted
<1>15. OldGranted
  <2>1. ASSUME layout["sessions"] = "by_email", NEW r \in oldRows
        PROVE  \E g \in granted :
                 g.token = r.token /\ g.email = r.email /\ g.expires = r.expires
    <3>1. PICK e \in LegacyUser : r = [token |-> number[e], email |-> e, expires |-> Life]
      BY <1>4, <2>1
    <3>2. [token |-> number[e], email |-> e, expires |-> Life, issue |-> 0] \in granted
      BY <1>6, <2>1
    <3> QED BY <3>1, <3>2
  <2> QED BY <2>1 DEF OldGranted
<1>16. GrantsKept
  <2>1. ASSUME NEW g \in granted PROVE InTable(g) \/ InOldTable(g)
    <3>1. Kept BY <1>6, <2>1
    <3>2. PICK e \in LegacyUser :
            g = [token |-> number[e], email |-> e, expires |-> Life, issue |-> 0]
      BY <1>6, <2>1
    <3>3. CASE layout["sessions"] = "current"
      <4>1. [token |-> number[e], user |-> users[e], expires |-> Life] \in sessions
        BY <1>5, <3>3
      <4> QED BY <1>8, <1>13, <3>2, <3>3, <4>1 DEF InTable
    <3>4. CASE layout["sessions"] = "by_email"
      <4>1. [token |-> number[e], email |-> e, expires |-> Life] \in oldRows
        BY <1>4, <3>4
      <4> QED BY <3>2, <3>4, <4>1 DEF InOldTable
    <3> QED BY <3>1, <3>3, <3>4
  <2> QED BY <2>1 DEF GrantsKept
<1>17. NoneGranted BY <1>6 DEF NoneGranted
<1>18. OldHaveUsers BY <1>7 DEF OldHaveUsers
<1>19. OneTable BY <1>5 DEF OneTable
<1> QED BY <1>10, <1>11, <1>12, <1>14, <1>15, <1>16, <1>17, <1>18, <1>19 DEF AccountsInv

\* The invariant of the server, from the first statement of its start on and
\* through every cut-off start, restart, lost request and sign-in.
THEOREM StartIsSound == StartSpec => []StartInv
<1>1. StartInit => StartInv BY UpgradeInit, FirstCodes, FirstAccounts DEF StartInv
<1>2. StartInv /\ [StartNext]_allVars => StartInv'
  <2> SUFFICES ASSUME StartInv, [StartNext]_allVars PROVE StartInv'
    OBVIOUS
  <2>1. IsFiniteSet(Email) BY LegacyAssumption
  <2>2. UpgradeInv' BY UpgradeStep DEF StartInv
  <2>3. CodesInv' BY CodesStep
  <2>4. AccountsInv' BY <2>1, AccountsStep
  <2> QED BY <2>2, <2>3, <2>4 DEF StartInv
<1> QED BY <1>1, <1>2, PTL DEF StartSpec

\* Every table keeps its type (the tables of db/schema.rs).
THEOREM AuthIsTyped == StartSpec => []AuthTypeOK
<1>1. StartInv => AuthTypeOK
  BY DEF StartInv, CodesInv, CodesTyped, RowsTyped, TasksTyped, CountsTyped, GrantsTyped,
         AccountsInv, AccountsTyped, AuthTypeOK
<1> QED BY <1>1, StartIsSound, PTL

\* No code is tried more often than its row says, whatever runs at once
\* (the transactions of db/auth.rs).
THEOREM AttemptsStayExact == StartSpec => []AttemptsAreExact
<1>1. StartInv => AttemptsAreExact BY DEF StartInv, CodesInv
<1> QED BY <1>1, StartIsSound, PTL

\* A code is good for one sign-in and gone by then (verify_otp).
THEOREM CodesSignInOnce == StartSpec => []OneSignInPerCode
<1>1. StartInv => OneSignInPerCode BY CodesAreSingle DEF StartInv
<1> QED BY <1>1, StartIsSound, PTL

\* A server that listens has every table in its current layout (init_schema).
THEOREM UpgradesComplete == StartSpec => []UpgradeCompletes
<1>1. StartInv => UpgradeCompletes BY UpgradeIsDone DEF StartInv
<1> QED BY <1>1, StartIsSound, PTL

\* No upgrade, restart, prune or later sign-in signs anybody out
\* (move_sessions_to_user_id, create_session, prune_expired_auth).
THEOREM NobodyIsSignedOut == StartSpec => []SignedInStaysSignedIn
<1>1. StartInv => SignedInStaysSignedIn BY SignedInIsSound
<1> QED BY <1>1, StartIsSound, PTL

-----------------------------------------------------------------------------
(* How codes follow each other.                                            *)

Spaced(e) ==
  otps[e] # None /\ otps'[e] # None /\ otps[e].issue # otps'[e].issue =>
    \/ otps'[e].requested >= otps[e].expires
    \/ otps'[e].requested >= otps[e].requested + Floor

LEMMA StoreIsSpaced ==
  ASSUME CodesInv, NEW t \in Task, StoreOtp(t), NEW e \in Email
  PROVE  Spaced(e)
<1>1. tasks[t].email \in Email /\ tasks[t].now \in Nat
      /\ tasks[t].row = otps[tasks[t].email] /\ otps[tasks[t].email] \in Otp \cup {None}
  BY WritersRow DEF StoreOtp
<1>2. DOMAIN otps = Email BY DEF CodesInv, CodesTyped, RowsTyped
<1>3. CASE e # tasks[t].email
  <2>1. otps'[e] = otps[e] BY <1>2, <1>3 DEF StoreOtp
  <2> QED BY <2>1 DEF Spaced
<1>4. CASE e = tasks[t].email /\ otps[e] # None
  <2>1. otps'[e].requested = tasks[t].now BY <1>2, <1>4 DEF StoreOtp
  <2>2. otps[e].expires \in Nat /\ otps[e].requested \in Nat BY <1>1, <1>4 DEF Otp
  <2>3. ~Blocked(t) BY DEF StoreOtp
  <2>4. tasks[t].now >= otps[e].expires \/ tasks[t].now >= otps[e].requested + Floor
    BY <1>1, <1>4, <2>2, <2>3, Bounds DEF Blocked
  <2> QED BY <2>1, <2>4 DEF Spaced
<1>5. CASE otps[e] = None BY <1>5 DEF Spaced
<1> QED BY <1>3, <1>4, <1>5

\* Rows that stay keep their issue.
LEMMA RestIsSpaced ==
  ASSUME NEW e \in Email,
         otps'[e] = None \/ otps'[e] = otps[e] \/ otps'[e].issue = otps[e].issue
  PROVE  Spaced(e)
BY DEF Spaced

LEMMA StepIsSpaced ==
  ASSUME StartInv, [StartNext]_allVars, NEW e \in Email
  PROVE  Spaced(e)
<1>0. CodesInv /\ DOMAIN otps = Email BY DEF StartInv, CodesInv, CodesTyped, RowsTyped
<1>1. CASE otps' = otps BY <1>1, RestIsSpaced
<1>2. CASE otps' = LiveOtps(now)
  <2>1. otps'[e] = None \/ otps'[e] = otps[e] BY <1>2 DEF LiveOtps
  <2> QED BY <2>1, RestIsSpaced
<1>3. ASSUME NEW t \in Task, StoreOtp(t) PROVE Spaced(e) BY <1>0, <1>3, StoreIsSpaced
<1>4. ASSUME NEW t \in Task, VerifyOtp(t) PROVE Spaced(e)
  <2>1. otps'[e] = None \/ otps'[e] = otps[e] BY <1>0, <1>4 DEF VerifyOtp
  <2> QED BY <2>1, RestIsSpaced
<1>5. ASSUME NEW t \in Task, RejectOtp(t) PROVE Spaced(e)
  <2>1. CASE e # tasks[t].email
    <3>1. otps'[e] = otps[e] BY <1>0, <1>5, <2>1 DEF RejectOtp
    <3> QED BY <3>1, RestIsSpaced
  <2>2. CASE e = tasks[t].email
    <3>1. otps'[e] = None \/ otps'[e] = [otps[e] EXCEPT !.attempts = @ + 1]
      BY <1>0, <1>5, <2>2 DEF RejectOtp
    <3>2. otps[e] # None => [otps[e] EXCEPT !.attempts = @ + 1].issue = otps[e].issue
      BY <1>0 DEF CodesInv, CodesTyped, RowsTyped, Otp
    <3> QED BY <3>1, <3>2 DEF Spaced
  <2> QED BY <2>1, <2>2
<1>6. CASE Serve
  <2>1. CASE PruneExpiredAuth BY <1>2, <2>1 DEF PruneExpiredAuth
  <2>2. CASE Tick BY <1>1, <2>2 DEF Tick, dbVars
  <2>3. ASSUME NEW t \in Task, NEW typed \in Spelling,
               \/ AskCode(t, typed) \/ SignInDev(t, typed)
               \/ \E c \in Code : TryCode(t, typed, c)
        PROVE  Spaced(e)
    BY <1>1, <2>3 DEF AskCode, SignInDev, TryCode, dbVars
  <2>4. ASSUME NEW t \in Task,
               ReadOtp(t) \/ RefuseCode(t) \/ NoSuchCode(t) \/ SignIn(t) \/ Lose(t)
        PROVE  Spaced(e)
    BY <1>1, <2>4 DEF ReadOtp, RefuseCode, NoSuchCode, SignIn, Lose, dbVars
  <2> QED BY <1>3, <1>4, <1>5, <1>6, <2>1, <2>2, <2>3, <2>4 DEF Serve
<1>7. CASE PruneAtStart BY <1>2, <1>7 DEF PruneAtStart, Restart
<1>8. CASE BackfillUsers
  BY <1>1, <1>8 DEF BackfillUsers, BackfillOwners, BackfillSessions, AddUsers
<1>9. CASE MoveSessionsToUserId BY <1>1, <1>9 DEF MoveSessionsToUserId
<1>10. CASE Stop BY <1>1, <1>10 DEF Stop, dbVars
<1>11. CASE UNCHANGED vars BY <1>1, <1>11 DEF vars, dbVars
<1> QED
  BY <1>6, <1>7, <1>8, <1>9, <1>10, <1>11
     DEF StartNext, DropStaleCards, DropStaleSettings, DropPlaintextSessions,
         DropEmailKeyedReviews, CreateUsers, CreateTable, TablesExist, AddColumns,
         ColumnsExist, Seed, allVars

\* A new code waits for the floor while the old one could still be used,
\* even when both are asked for at once (auth_request_handler).
THEOREM CodesStaySpaced == StartSpec => CodesAreSpaced
<1>1. StartInv /\ [StartNext]_allVars =>
        [\A e \in Email :
           LET first == otps[e]
               next == otps'[e] IN
           first # None /\ next # None /\ first.issue # next.issue =>
             next.requested >= first.expires
             \/ next.requested >= first.requested + Floor]_vars
  BY StepIsSpaced DEF Spaced
<1> QED BY <1>1, StartIsSound, PTL DEF StartSpec, CodesAreSpaced
=============================================================================
