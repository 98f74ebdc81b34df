--------------------------- MODULE SchemaUpgrade ---------------------------
(***************************************************************************)
(* Starting the server on the database an earlier build left behind:       *)
(* init_schema of server/src/db/schema.rs, statement by statement, with a  *)
(* crash possible between any two, and then the server of OtpAuth.         *)
(*                                                                         *)
(* Every statement commits by itself, except the move of the sessions,     *)
(* which is one transaction; the epoch drawn after a stale cards table is  *)
(* dropped, and the indexes, are left out. A table is its layout and the   *)
(* addresses that have rows in it.                                         *)
(***************************************************************************)
EXTENDS OtpAuth, FiniteSets, Sequences

CONSTANT LegacyUser    \* the addresses an earlier build knew

ASSUME LegacyAssumption == LegacyUser \subseteq Email /\ IsFiniteSet(Email)

VARIABLES
  step,      \* where in init_schema the start is; past its end: serving
  layout,    \* the shape of each table
  owners,    \* the addresses whose cards, or settings, predate users
  oldRows    \* the rows of sessions while the table is keyed on the address

startVars == <<step, layout, owners, oldRows>>
allVars == <<vars, startVars>>

Steps ==
  <<"drop_stale_cards", "drop_stale_settings",
    "drop_plaintext_sessions", "drop_email_keyed_reviews", "create_users",
    "backfill_cards", "backfill_settings", "backfill_sessions",
    "move_sessions", "create_tables", "add_columns", "seed", "prune">>

At(name) == step <= Len(Steps) /\ Steps[step] = name
Serving == step > Len(Steps)
Go == step' = step + 1

\* The layouts that builds before this one have left, table by table.
Layouts ==
  [cards : {"absent", "stale", "old_columns", "no_rev", "current"},
   settings : {"absent", "stale", "current"},
   sessions : {"absent", "plaintext", "by_email", "current"},
   otps : {"absent", "old_columns", "current"},
   deletions : {"absent", "old_columns", "current"},
   reviews : {"absent", "stale", "old_columns", "current"},
   users : {"absent", "current"},
   sync_meta : {"absent", "current"}]

\* A build that had users had moved its sessions; one with a sync clock had
\* every table.
Coherent(l) ==
  /\ l.sessions = "by_email" => l.reviews \in {"absent", "stale"}
  /\ l.users = "absent" => l.sessions # "current"
  /\ l.users = "current" => l.sessions = "current"
  /\ l.sync_meta = "current" => /\ l.users = "current"
                                /\ "absent" \notin {l.cards, l.settings}

Numbering(people, first) ==
  CHOOSE f \in [people -> first..(first + Cardinality(people) - 1)] :
    \A a, b \in people : a # b => f[a] # f[b]

\* A running server's users, sessions and tokens, as an earlier build left
\* them: everyone it knew is signed in.
StartInit ==
  /\ now = 0 /\ devMode \in BOOLEAN
  /\ otps = [e \in Email |-> None]
  /\ tasks = [t \in Task |-> Idle]
  /\ issues = 0 /\ wrong = [i \in 1..MaxIssues |-> 0]
  /\ step = 1
  /\ layout \in {l \in Layouts : Coherent(l)}
  /\ owners = [table \in {"cards", "settings"} |->
                 IF layout[table] = "absent" \/ layout.users = "current" THEN {}
                 ELSE LegacyUser]
  /\ LET number == Numbering(LegacyUser, 1)
         row(e) == [token |-> number[e], email |-> e, expires |-> Life]
         kept == layout.sessions \in {"by_email", "current"} IN
     /\ IF layout.users = "current"
        THEN /\ users = [e \in Email |-> IF e \in LegacyUser THEN number[e] ELSE 0]
             /\ accounts = Cardinality(LegacyUser)
        ELSE users = [e \in Email |-> 0] /\ accounts = 0
     /\ oldRows = IF layout.sessions \in {"plaintext", "by_email"}
                  THEN {row(e) : e \in LegacyUser} ELSE {}
     /\ sessions = IF layout.sessions = "current"
                   THEN {[token |-> number[e], user |-> users[e], expires |-> Life] :
                           e \in LegacyUser}
                   ELSE {}
     /\ tokens = Cardinality(LegacyUser)
     /\ granted = IF kept THEN {[token |-> number[e], email |-> e,
                                 expires |-> Life, issue |-> 0] : e \in LegacyUser}
                  ELSE {}

-----------------------------------------------------------------------------
\* Shaped(t, l): table t gets layout l.
Shaped(t, l) == layout' = [layout EXCEPT ![t] = l]

\* A stale table is dropped; the next start finds none and does nothing here.
\* (The epoch drawn after it is the rotation of SyncServer's Restore.)
DropStaleCards ==
  /\ At("drop_stale_cards") /\ Go
  /\ IF layout.cards = "stale"
     THEN Shaped("cards", "absent") /\ owners' = [owners EXCEPT !.cards = {}]
     ELSE UNCHANGED <<layout, owners>>
  /\ UNCHANGED <<vars, oldRows>>

DropStaleSettings ==
  /\ At("drop_stale_settings") /\ Go
  /\ IF layout.settings = "stale"
     THEN Shaped("settings", "absent") /\ owners' = [owners EXCEPT !.settings = {}]
     ELSE UNCHANGED <<layout, owners>>
  /\ UNCHANGED <<vars, oldRows>>

\* Sessions that store raw tokens go, deliberately.
DropPlaintextSessions ==
  /\ At("drop_plaintext_sessions") /\ Go
  /\ IF layout.sessions = "plaintext"
     THEN Shaped("sessions", "absent") /\ oldRows' = {}
     ELSE UNCHANGED <<layout, oldRows>>
  /\ UNCHANGED <<vars, owners>>

DropEmailKeyedReviews ==
  /\ At("drop_email_keyed_reviews") /\ Go
  /\ IF layout.reviews = "stale" THEN Shaped("reviews", "absent") ELSE UNCHANGED layout
  /\ UNCHANGED <<vars, owners, oldRows>>

CreateUsers ==
  /\ At("create_users") /\ Go
  /\ Shaped("users", "current")
  /\ UNCHANGED <<vars, owners, oldRows>>

-----------------------------------------------------------------------------
\* INSERT OR IGNORE: those who have an account keep its number.
AddUsers(people) ==
  LET new == {e \in people : users[e] = 0}
      number == Numbering(new, accounts + 1) IN
  /\ users' = [e \in Email |-> IF e \in new THEN number[e] ELSE users[e]]
  /\ accounts' = accounts + Cardinality(new)
  /\ UNCHANGED <<now, devMode, otps, sessions, tasks, history>>

\* Mutant: only people with cards or settings are given accounts.
BackfillSessionsSkipped == AddUsers({})

BackfillSessions ==
  AddUsers(IF layout.sessions = "by_email" THEN {r.email : r \in oldRows} ELSE {})

\* Those with cards, or with settings, from before there were users.
BackfillOwners(table) ==
  AddUsers(owners[table]) /\ owners' = [owners EXCEPT ![table] = {}]

BackfillUsers ==
  /\ \/ At("backfill_cards") /\ BackfillOwners("cards")
     \/ At("backfill_settings") /\ BackfillOwners("settings")
     \/ At("backfill_sessions") /\ BackfillSessions /\ UNCHANGED owners
  /\ Go
  /\ UNCHANGED <<layout, oldRows>>

\* One transaction: rename, create, copy with a join on users, drop.
MoveSessionsToUserId ==
  /\ At("move_sessions") /\ Go
  /\ IF layout.sessions = "by_email"
     THEN /\ Shaped("sessions", "current")
          /\ sessions' = {[token |-> r.token, user |-> users[r.email],
                           expires |-> r.expires] :
                            r \in {r \in oldRows : users[r.email] # 0}}
          /\ oldRows' = {}
     ELSE UNCHANGED <<layout, sessions, oldRows>>
  /\ UNCHANGED <<now, devMode, otps, users, accounts, tasks, history, owners>>

-----------------------------------------------------------------------------
Created == <<"cards", "settings", "otps", "sessions", "deletions", "reviews",
             "sync_meta">>

\* The first table that is missing is created, in its current layout.
CreateTable ==
  /\ At("create_tables")
  /\ \E i \in 1..Len(Created) :
       /\ layout[Created[i]] = "absent"
       /\ \A j \in 1..(i - 1) : layout[Created[j]] # "absent"
       /\ Shaped(Created[i], IF Created[i] = "sync_meta" THEN "empty" ELSE "current")
  /\ UNCHANGED <<vars, step, owners, oldRows>>

TablesExist ==
  /\ At("create_tables") /\ Go
  /\ \A i \in 1..Len(Created) : layout[Created[i]] # "absent"
  /\ UNCHANGED <<vars, layout, owners, oldRows>>

\* An ALTER TABLE: a table of layout `from` gets layout `to`.
Alter(table, from, to) == [table |-> table, from |-> from, to |-> to]

\* Mutant: the column of reviews is forgotten.
ExtendedButReviews ==
  <<Alter("otps", "old_columns", "current"),
    Alter("cards", "old_columns", "no_rev"), Alter("cards", "no_rev", "current"),
    Alter("deletions", "old_columns", "current")>>

\* otps.attempts, cards.again_count, then the rev of cards, deletions and reviews.
Extended ==
  <<Alter("otps", "old_columns", "current"),
    Alter("cards", "old_columns", "no_rev"), Alter("cards", "no_rev", "current"),
    Alter("deletions", "old_columns", "current"),
    Alter("reviews", "old_columns", "current")>>

\* The column of Extended[i] is missing.
Lacks(i) == layout[Extended[i].table] = Extended[i].from

\* The first column that is missing is added.
AddColumns ==
  /\ At("add_columns")
  /\ \E i \in 1..Len(Extended) :
       /\ Lacks(i) /\ \A j \in 1..(i - 1) : ~Lacks(j)
       /\ Shaped(Extended[i].table, Extended[i].to)
  /\ UNCHANGED <<vars, step, owners, oldRows>>

ColumnsExist ==
  /\ At("add_columns") /\ Go
  /\ \A i \in 1..Len(Extended) : ~Lacks(i)
  /\ UNCHANGED <<vars, layout, owners, oldRows>>

\* seed of sync_meta.rs: the clock's one row, unless it is there.
Seed ==
  /\ At("seed") /\ Go
  /\ Shaped("sync_meta", "current")
  /\ UNCHANGED <<vars, owners, oldRows>>

\* What main does before it listens.
PruneAtStart ==
  /\ At("prune") /\ Go
  /\ Restart
  /\ UNCHANGED <<layout, owners, oldRows>>

\* The process ends, during the start or while serving; the next one begins.
Stop ==
  /\ step > 1 /\ step' = 1
  /\ tasks' = [t \in Task |-> Idle]
  /\ UNCHANGED <<now, devMode, dbVars, history, layout, owners, oldRows>>

StartNext ==
  \/ DropStaleCards \/ DropStaleSettings
  \/ DropPlaintextSessions \/ DropEmailKeyedReviews
  \/ CreateUsers \/ BackfillUsers \/ MoveSessionsToUserId
  \/ CreateTable \/ TablesExist \/ AddColumns \/ ColumnsExist \/ Seed
  \/ PruneAtStart \/ Stop
  \/ Serving /\ Serve /\ UNCHANGED startVars

StartSpec == StartInit /\ [][StartNext]_allVars

-----------------------------------------------------------------------------
\* Once the server listens every table has the layout its statements expect,
\* wherever earlier starts were cut off.
UpgradeCompletes ==
  Serving => \A t \in DOMAIN layout : layout[t] = "current"

\* Nobody is signed out by an upgrade, except those whose sessions were kept
\* as raw tokens: while the server serves, every session handed out by this
\* build or an earlier one is good until it expires, for its own address.
SignedInStaysSignedIn == Serving => SessionsLast
=============================================================================
