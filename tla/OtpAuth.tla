------------------------------ MODULE OtpAuth ------------------------------
(***************************************************************************)
(* Signing in: one-time codes and sessions (server/src/db/auth.rs and the  *)
(* two handlers of server/src/api/auth.rs), with the pruning of main.rs.   *)
(*                                                                         *)
(* Each request is a task. A transaction reads a snapshot and its later    *)
(* write goes through only if nothing was committed in between: SQLite     *)
(* refuses the other writes as busy and the handler answers 500. Losing    *)
(* the task at a step stands for that answer, for a failed statement, a    *)
(* closed connection or a failed e-mail.                                   *)
(*                                                                         *)
(* The number of the issue a code came from, the wrong tries of each issue *)
(* and the sessions handed out are history: no guard of the code reads     *)
(* them.                                                                   *)
(***************************************************************************)
EXTENDS Naturals

CONSTANTS Email,         \* addresses, trimmed and in lower case
          Spelling,      \* what people type into the address field
          Code,          \* the values a code can take
          Task,          \* requests the server handles at once
          None,          \* no row, no value
          Floor,         \* OTP_RESEND_FLOOR_MS
          Ttl,           \* OTP_TTL_MS
          Attempts,      \* OTP_MAX_ATTEMPTS
          Life,          \* how long a session lasts
          MaxNow,        \* bound on the clock
          MaxIssues,     \* bound on the codes sent out
          MaxTokens      \* bound on the sessions handed out

CONSTANT NormalEmail     \* trim and to_lowercase, "" for a blank field

ASSUME AuthAssumption ==
  /\ {Floor, Ttl, Life, MaxNow, MaxIssues, MaxTokens} \subseteq Nat
  /\ Attempts \in Nat \ {0}
  /\ NormalEmail \in [Spelling -> Email \cup {""}]
  /\ "" \notin Email /\ None \notin Code

VARIABLES
  now,         \* the server's clock
  devMode,     \* Config.dev_mode, read at start
  otps,        \* the otps table, by address
  users,       \* the users table: account number by address, 0 for none
  accounts,    \* the last account number used
  sessions,    \* the sessions table
  tasks,       \* the requests under way
  issues,      \* history: codes stored so far
  wrong,       \* history: wrong tries answered, by issue
  tokens,      \* history: tokens made so far
  granted      \* history: sessions handed out

dbVars == <<otps, users, accounts, sessions>>
history == <<issues, wrong, tokens, granted>>
vars == <<now, devMode, dbVars, tasks, history>>

Otp == [code : Code, expires : Nat, requested : Nat, attempts : Nat, issue : Nat]
Session == [token : Nat, user : Nat, expires : Nat]
Idle == [pc |-> "idle"]

OtpRow(e) == otps[e] # None
Live(row, n, tried) == n < row.expires /\ tried < Attempts

\* validate_session: the accounts behind a token at time n.
Validate(token, n) ==
  {e \in Email : \E s \in sessions :
     s.token = token /\ s.expires > n /\ users[e] = s.user}

Init ==
  /\ now = 0 /\ devMode \in BOOLEAN
  /\ otps = [e \in Email |-> None]
  /\ users = [e \in Email |-> 0] /\ accounts = 0
  /\ sessions = {}
  /\ tasks = [t \in Task |-> Idle]
  /\ issues = 0 /\ wrong = [i \in 1..MaxIssues |-> 0]
  /\ tokens = 0 /\ granted = {}

-----------------------------------------------------------------------------
\* A commit makes every snapshot taken before it too old to write from.
Overtaken ==
  [t \in Task |-> IF tasks[t].pc = "read"
                  THEN [tasks[t] EXCEPT !.fresh = FALSE] ELSE tasks[t]]
Commit(t, after) == tasks' = [Overtaken EXCEPT ![t] = after]

\* Mutant: a write goes through on a snapshot that others have overtaken.
CanWriteStale(t) == tasks[t].pc = "read"

CanWrite(t) == tasks[t].pc = "read" /\ tasks[t].fresh

\* auth_request_handler up to the transaction: the clock is read here.
AskCode(t, typed) ==
  /\ ~devMode /\ tasks[t] = Idle
  /\ NormalEmail[typed] # ""
  /\ tasks' = [tasks EXCEPT ![t] =
       [pc |-> "asked", kind |-> "request", email |-> NormalEmail[typed],
        code |-> None, now |-> now]]
  /\ UNCHANGED <<now, devMode, dbVars, history>>

\* auth_verify_handler up to the transaction. (A blank address has no row and is
\* refused: that request changes nothing.)
TryCode(t, typed, c) ==
  /\ tasks[t] = Idle
  /\ NormalEmail[typed] # ""
  /\ tasks' = [tasks EXCEPT ![t] =
       [pc |-> "asked", kind |-> "verify", email |-> NormalEmail[typed],
        code |-> c, now |-> now]]
  /\ UNCHANGED <<now, devMode, dbVars, history>>

\* The SELECT both transactions begin with.
ReadOtp(t) ==
  /\ tasks[t].pc = "asked"
  /\ tasks' = [tasks EXCEPT ![t] =
       [pc |-> "read", kind |-> @.kind, email |-> @.email, code |-> @.code,
        now |-> @.now, row |-> otps[@.email], fresh |-> TRUE]]
  /\ UNCHANGED <<now, devMode, dbVars, history>>

\* A code that can still be used holds the next one back for a while.
Blocked(t) ==
  LET row == tasks[t].row IN
  /\ row # None
  /\ tasks[t].now < row.expires
  /\ tasks[t].now < row.requested + Floor

RefuseCode(t) ==
  /\ tasks[t].pc = "read" /\ tasks[t].kind = "request" /\ Blocked(t)
  /\ tasks' = [tasks EXCEPT ![t] = Idle]
  /\ UNCHANGED <<now, devMode, dbVars, history>>

\* Mutant: a new code goes on with the attempts of the one it replaces.
StoreOtpKeepsAttempts(t) ==
  /\ CanWrite(t) /\ tasks[t].kind = "request" /\ ~Blocked(t)
  /\ issues < MaxIssues /\ issues' = issues + 1
  /\ \E c \in Code : otps' = [otps EXCEPT ![tasks[t].email] =
       [code |-> c, expires |-> tasks[t].now + Ttl,
        requested |-> tasks[t].now, issue |-> issues + 1,
        attempts |-> IF tasks[t].row = None THEN 0 ELSE tasks[t].row.attempts]]
  /\ Commit(t, Idle)
  /\ UNCHANGED <<now, devMode, users, accounts, sessions, wrong, tokens, granted>>

\* The code is stored, then e-mailed; a failed e-mail takes nothing back.
StoreOtp(t) ==
  /\ CanWrite(t) /\ tasks[t].kind = "request" /\ ~Blocked(t)
  /\ issues < MaxIssues /\ issues' = issues + 1
  /\ \E c \in Code : otps' = [otps EXCEPT ![tasks[t].email] =
       [code |-> c, expires |-> tasks[t].now + Ttl,
        requested |-> tasks[t].now, attempts |-> 0, issue |-> issues + 1]]
  /\ Commit(t, Idle)
  /\ UNCHANGED <<now, devMode, users, accounts, sessions, wrong, tokens, granted>>

-----------------------------------------------------------------------------
Accepted(t) ==
  /\ Live(tasks[t].row, tasks[t].now, tasks[t].row.attempts)
  /\ tasks[t].row.code = tasks[t].code

NoSuchCode(t) ==
  /\ tasks[t].pc = "read" /\ tasks[t].kind = "verify" /\ tasks[t].row = None
  /\ tasks' = [tasks EXCEPT ![t] = Idle]
  /\ UNCHANGED <<now, devMode, dbVars, history>>

VerifyOtp(t) ==
  LET e == tasks[t].email IN
  /\ CanWrite(t) /\ tasks[t].kind = "verify" /\ tasks[t].row # None
  /\ Accepted(t)
  /\ otps' = [otps EXCEPT ![e] = None]
  /\ Commit(t, [pc |-> "valid", email |-> e, now |-> tasks[t].now,
                issue |-> tasks[t].row.issue])
  /\ UNCHANGED <<now, devMode, users, accounts, sessions, history>>

\* Mutant: a code is never burnt, only counted up.
RejectOtpNeverBurns(t) ==
  LET e == tasks[t].email
      row == tasks[t].row IN
  /\ CanWrite(t) /\ tasks[t].kind = "verify" /\ row # None
  /\ ~Accepted(t)
  /\ otps' = [otps EXCEPT ![e] =
       IF otps[e] = None THEN None ELSE [otps[e] EXCEPT !.attempts = @ + 1]]
  /\ wrong' = [wrong EXCEPT ![row.issue] = @ + 1]
  /\ Commit(t, Idle)
  /\ UNCHANGED <<now, devMode, users, accounts, sessions, issues, tokens, granted>>

\* The attempts the row holds are read from the table again by the UPDATE.
RejectOtp(t) ==
  LET e == tasks[t].email
      row == tasks[t].row IN
  /\ CanWrite(t) /\ tasks[t].kind = "verify" /\ row # None
  /\ ~Accepted(t)
  /\ otps' = [otps EXCEPT ![e] =
       IF row.attempts + 1 >= Attempts \/ otps[e] = None THEN None
       ELSE [otps[e] EXCEPT !.attempts = @ + 1]]
  /\ wrong' = [wrong EXCEPT ![row.issue] = @ + 1]
  /\ Commit(t, Idle)
  /\ UNCHANGED <<now, devMode, users, accounts, sessions, issues, tokens, granted>>

-----------------------------------------------------------------------------
\* create_session: the account is made on the first sign-in. A token is 32
\* random bytes: here, the next number.
CreateSession(e, expires, issue) ==
  /\ tokens < MaxTokens /\ tokens' = tokens + 1
  /\ IF users[e] = 0
     THEN accounts' = accounts + 1 /\ users' = [users EXCEPT ![e] = accounts + 1]
     ELSE UNCHANGED <<accounts, users>>
  /\ sessions' = sessions \cup
       {[token |-> tokens + 1, user |-> users'[e], expires |-> expires]}
  /\ granted' = granted \cup
       {[token |-> tokens + 1, email |-> e, expires |-> expires, issue |-> issue]}

\* The session is a transaction of its own, after the code has been used up.
SignIn(t) ==
  /\ tasks[t].pc = "valid"
  /\ CreateSession(tasks[t].email, tasks[t].now + Life, tasks[t].issue)
  /\ Commit(t, Idle)
  /\ UNCHANGED <<now, devMode, otps, issues, wrong>>

\* In dev mode a request for a code is answered with a session.
SignInDev(t, typed) ==
  /\ devMode /\ tasks[t] = Idle /\ NormalEmail[typed] # ""
  /\ CreateSession(NormalEmail[typed], now + Life, 0)
  /\ Commit(t, Idle)
  /\ UNCHANGED <<now, devMode, otps, issues, wrong>>

\* A busy or failed statement, a closed connection: what was committed stays.
Lose(t) ==
  /\ tasks[t] # Idle
  /\ tasks' = [tasks EXCEPT ![t] = Idle]
  /\ UNCHANGED <<now, devMode, dbVars, history>>

-----------------------------------------------------------------------------
LiveSessions(n) == {s \in sessions : ~(s.expires <= n)}
LiveOtps(n) ==
  [e \in Email |-> IF otps[e] = None THEN None
                   ELSE IF otps[e].expires <= n THEN None ELSE otps[e]]

\* prune_expired_auth, every six hours.
PruneExpiredAuth ==
  /\ sessions' = LiveSessions(now) /\ otps' = LiveOtps(now)
  /\ tasks' = IF sessions' = sessions /\ otps' = otps THEN tasks ELSE Overtaken
  /\ UNCHANGED <<now, devMode, users, accounts, history>>

\* A new process prunes before it listens.
Restart ==
  /\ tasks' = [t \in Task |-> Idle]
  /\ sessions' = LiveSessions(now) /\ otps' = LiveOtps(now)
  /\ UNCHANGED <<now, devMode, users, accounts, history>>

Tick ==
  /\ now < MaxNow /\ now' = now + 1
  /\ UNCHANGED <<devMode, dbVars, tasks, history>>

\* What a running server does.
Serve ==
  \/ \E t \in Task, typed \in Spelling :
       \/ AskCode(t, typed)
       \/ SignInDev(t, typed)
       \/ \E c \in Code : TryCode(t, typed, c)
  \/ \E t \in Task :
       \/ ReadOtp(t)
       \/ RefuseCode(t) \/ StoreOtp(t)
       \/ NoSuchCode(t) \/ VerifyOtp(t) \/ RejectOtp(t)
       \/ SignIn(t) \/ Lose(t)
  \/ PruneExpiredAuth \/ Tick

Next == Serve \/ Restart

Spec == Init /\ [][Next]_vars

-----------------------------------------------------------------------------
AskedTask == [pc : {"asked"}, kind : {"request", "verify"}, email : Email,
              code : Code \cup {None}, now : Nat]
ReadTask == [pc : {"read"}, kind : {"request", "verify"}, email : Email,
             code : Code \cup {None}, now : Nat, row : Otp \cup {None},
             fresh : BOOLEAN]
ValidTask == [pc : {"valid"}, email : Email, now : Nat, issue : Nat]
TaskState == {Idle} \cup AskedTask \cup ReadTask \cup ValidTask

\* Every table keeps its type.
AuthTypeOK ==
  /\ now \in Nat /\ devMode \in BOOLEAN
  /\ otps \in [Email -> Otp \cup {None}]
  /\ users \in [Email -> 0..accounts] /\ accounts \in Nat
  /\ sessions \subseteq Session
  /\ tasks \in [Task -> TaskState]
  /\ issues \in Nat /\ wrong \in [1..MaxIssues -> 0..Attempts]
  /\ tokens \in Nat
  /\ granted \subseteq [token : Nat, email : Email, expires : Nat, issue : Nat]

\* A stored code has been tried as often as its row says and fewer times
\* than the limit, whatever requests ran at once: no code is tried more
\* often than that, and a new one starts with all of its attempts.
AttemptsAreExact ==
  \A e \in Email : OtpRow(e) =>
    otps[e].attempts = wrong[otps[e].issue] /\ otps[e].attempts < Attempts

\* The sign-ins a code has been good for, finished or not.
SignIns(i) ==
  {g \in granted : g.issue = i}
  \cup {t \in Task : tasks[t].pc = "valid" /\ tasks[t].issue = i}

\* A code signs one person in once, even when two requests bring it at the
\* same time, and it is gone by then: when the session is lost on the way,
\* nothing is left that would hold the next code back.
OneSignInPerCode ==
  \A i \in 1..issues :
    \/ SignIns(i) = {}
    \/ /\ \E only \in SignIns(i) : SignIns(i) = {only}
       /\ \A e \in Email : OtpRow(e) => otps[e].issue # i

\* Whoever has been given a session is signed in, to that address and to no
\* other, until it expires: through pruning, restarts and later sign-ins.
SessionsLast ==
  \A g \in granted :
    Validate(g.token, now) = IF g.expires > now THEN {g.email} ELSE {}

\* Two codes for one address are a floor apart as long as the first could
\* still be used, even when they are asked for at the same time.
CodesAreSpaced ==
  [][\A e \in Email :
       LET first == otps[e]
           next == otps'[e] IN
       first # None /\ next # None /\ first.issue # next.issue =>
         next.requested >= first.expires
         \/ next.requested >= first.requested + Floor]_vars
=============================================================================
