----------------------------- MODULE DatabaseInit -----------------------------
(***************************************************************************)
(* The commands of services/database-migration on one database: setup,     *)
(* drop, migrations, seeds and the grants of the runtime users, each a     *)
(* process started by hand. Any statement may fail and any command may be  *)
(* killed; two may run at once, and a failed one may be started again.     *)
(*                                                                         *)
(* A migration runs in a transaction. PostgreSQL undoes all of it; MySQL   *)
(* commits at every DDL statement, and what follows is outside of it. A    *)
(* drop ends what PostgreSQL has under way in the database; on MySQL it    *)
(* waits for open transactions and ends nothing. A command that outlives   *)
(* it fails at its next statement, unless the database is there again by   *)
(* then.                                                                   *)
(***************************************************************************)
EXTENDS Naturals, Sequences, FiniteSets

CONSTANTS
  Jobs,         \* commands at a time
  Migrations    \* for each, its statements: [ddl, again: runs twice]

ASSUME DbAssumption == Migrations \in Seq(Seq([ddl : BOOLEAN, again : BOOLEAN]))

VARIABLES
  dialect,   \* "mysql" or "postgres"
  exists,    \* the database
  users,     \* database users: "service", "runtime"
  may,       \* those with privileges on the database
  effect,    \* statements <<m, i>> whose effect is committed
  listed,    \* the table database_migrations is there
  recorded,  \* its rows
  mock,      \* the mock data is there
  super,     \* the holders of the role: "seeded" or "other"
  job,       \* job[j]: a command in progress
  torn,      \* history: migrations that failed with a part committed
  strayed,   \* history: those that a command wrote in after it outlived a drop
  reseeded   \* history: the seed ran after somebody else held the role

dbVars == <<dialect, exists, users, may, effect, listed, recorded, mock, super, job, torn,
            strayed, reseeded>>

data == <<effect, listed, recorded, mock, super, torn, strayed, reseeded>>

(* steps: what is left of the command; pending: migrations to apply, at:   *)
(* the next statement of the first; tx: statements not yet committed; old: *)
(* the database has been dropped since pending was read.                   *)
Steps ==
  {"drop", "user", "database", "revoke", "grant", "read", "apply", "seed", "mock",
   "runtimeUser", "runtimeRevoke", "runtimeGrant"}

Commands ==
  [steps : Seq(Steps), pending : SUBSET DOMAIN Migrations, at : Nat, open : BOOLEAN,
   tx : SUBSET ((DOMAIN Migrations) \X Nat), old : BOOLEAN]

Idle == [steps |-> <<>>, pending |-> {}, at |-> 1, open |-> TRUE, tx |-> {},
         old |-> FALSE]

Setup == <<"user", "database", "revoke", "grant">>
Migrate == <<"read", "apply">>
Grants == <<"runtimeUser", "runtimeRevoke", "runtimeGrant">>
Seeds == <<"seed", "mock">>

Program ==
  [drop |-> <<"drop">>, setup |-> Setup, migrate |-> Migrate, seed |-> Seeds,
   grants |-> Grants,
   initialize |-> <<"drop">> \o Setup \o Migrate \o Seeds \o Grants]

All(m) == {<<m, i>> : i \in DOMAIN Migrations[m]}

DbInit ==
  /\ dialect \in {"mysql", "postgres"}
  /\ exists = FALSE
  /\ users = {}
  /\ may = {}
  /\ effect = {}
  /\ listed = FALSE
  /\ recorded = {}
  /\ mock = FALSE
  /\ super = {}
  /\ job = [j \in Jobs |-> Idle]
  /\ torn = {}
  /\ strayed = {}
  /\ reseeded = FALSE

Step(j, name) == job[j].steps # <<>> /\ Head(job[j].steps) = name

Done(j) == [job EXCEPT ![j] = [Idle EXCEPT !.steps = Tail(job[j].steps)]]

-----------------------------------------------------------------------------

StartCommand(j, kind) ==
  /\ job[j] = Idle
  /\ job' = [job EXCEPT ![j].steps = Program[kind]]
  /\ UNCHANGED <<dialect, exists, users, may, data>>

(* Migrations are applied in the order of their names.                     *)
First(j, m) == m \in job[j].pending /\ \A n \in job[j].pending : m <= n

Applying(j, m) == Step(j, "apply") /\ First(j, m)

(* A statement fails or the process is killed: its transaction is undone,  *)
(* unless it failed at a DDL statement of MySQL, which commits it first.   *)
JobFails(j) ==
  /\ job[j] # Idle
  /\ job' = [job EXCEPT ![j] = Idle]
  /\ \/ UNCHANGED <<effect, strayed>>
     \/ \E m \in DOMAIN Migrations :
          /\ Applying(j, m) /\ dialect = "mysql"
          /\ <<m, job[j].at>> \in All(m) /\ Migrations[m][job[j].at].ddl
          /\ effect' = effect \cup job[j].tx
          /\ strayed' = IF job[j].old THEN strayed \cup {m} ELSE strayed
  /\ torn' = torn \cup {m \in DOMAIN Migrations \ recorded :
                         Applying(j, m) /\ effect' \cap All(m) # {}}
  /\ UNCHANGED <<dialect, exists, users, may, listed, recorded, mock, super, reseeded>>

(* dropDatabase. PostgreSQL ends the connections to the database first: a  *)
(* transaction under way is undone and its command fails, the others       *)
(* connect anew. MySQL waits for the transactions that have used a table.  *)
AfterDrop(k) ==
  IF dialect = "postgres" /\ job[k].at > 1
    THEN Idle
    ELSE [job[k] EXCEPT !.old = job[k].pending # {}]

Drop(j) ==
  /\ Step(j, "drop")
  /\ dialect = "mysql" => \A k \in Jobs : job[k].tx = {}
  /\ exists' = FALSE
  /\ may' = IF dialect = "postgres" THEN {} ELSE may
  /\ effect' = {}
  /\ listed' = FALSE
  /\ recorded' = {}
  /\ mock' = FALSE
  /\ super' = {}
  /\ torn' = {}
  /\ strayed' = {}
  /\ reseeded' = FALSE
  /\ job' = [k \in Jobs |-> IF k = j THEN Done(j)[j] ELSE AfterDrop(k)]
  /\ UNCHANGED <<dialect, users>>

User(j) == IF Step(j, "user") \/ Step(j, "revoke") \/ Step(j, "grant")
             THEN "service" ELSE "runtime"

CreateUser(j) ==
  /\ Step(j, "user") \/ Step(j, "runtimeUser")
  /\ users' = users \cup {User(j)}
  /\ job' = Done(j)
  /\ UNCHANGED <<dialect, exists, may, data>>

CreateDatabase(j) ==
  /\ Step(j, "database")
  /\ exists' = TRUE
  /\ job' = Done(j)
  /\ UNCHANGED <<dialect, users, may, data>>

(* Not a transaction: until the grant, and for good if it fails, the user  *)
(* has no privileges.                                                      *)
Revoke(j) ==
  /\ Step(j, "revoke") \/ Step(j, "runtimeRevoke")
  /\ User(j) \in users
  /\ may' = may \ {User(j)}
  /\ job' = Done(j)
  /\ UNCHANGED <<dialect, exists, users, data>>

(* The tables that the migrations create are there.                        *)
HasTables == exists /\ \A m \in DOMAIN Migrations : All(m) \subseteq effect

(* MySQL grants privileges on a database that is not there, but not on a   *)
(* table, as the runtime users are given them.                             *)
Grant(j) ==
  /\ \/ Step(j, "grant") /\ (exists \/ dialect = "mysql")
     \/ Step(j, "runtimeGrant") /\ HasTables
  /\ User(j) \in users
  /\ may' = may \cup {User(j)}
  /\ job' = Done(j)
  /\ UNCHANGED <<dialect, exists, users, data>>

-----------------------------------------------------------------------------
(* DatabaseMigrationService                                                *)

CanUse == exists /\ "service" \in may

(* ensureMigrationsTable and getPendingMigrations, in the order of names.  *)
ReadMigrations(j) ==
  /\ Step(j, "read")
  /\ CanUse
  /\ listed' = TRUE
  /\ job' = [Done(j) EXCEPT ![j].pending = DOMAIN Migrations \ recorded]
  /\ UNCHANGED <<dialect, exists, users, may, effect, recorded, mock, super, torn, strayed,
                 reseeded>>

(* Defect: the statements are not passed the transaction.                  *)
RunStatementAlone(j, m) ==
  LET s == <<m, job[j].at>> IN
  /\ Applying(j, m)
  /\ CanUse
  /\ s \in All(m)
  /\ Migrations[m][job[j].at].again \/ s \notin effect
  /\ effect' = effect \cup {s}
  /\ job' = [job EXCEPT ![j].at = @ + 1]
  /\ UNCHANGED <<dialect, exists, users, may, listed, recorded, mock, super, torn, strayed,
                 reseeded>>

(* A statement waits for the transaction of another that has run the same, *)
(* and fails if it does not bear to be run again.                          *)
RunStatement(j, m) ==
  LET s == <<m, job[j].at>>
      commits == dialect = "mysql" /\ (Migrations[m][job[j].at].ddl \/ ~job[j].open) IN
  /\ Applying(j, m)
  /\ CanUse
  /\ s \in All(m)
  /\ \A k \in Jobs \ {j} : s \notin job[k].tx
  /\ Migrations[m][job[j].at].again \/ s \notin effect
  /\ effect' = IF commits THEN effect \cup job[j].tx \cup {s} ELSE effect
  /\ job' = [job EXCEPT ![j] = [job[j] EXCEPT !.at = @ + 1,
                                              !.open = @ /\ ~commits,
                                              !.tx = IF commits THEN {} ELSE @ \cup {s}]]
  /\ strayed' = IF commits /\ job[j].old THEN strayed \cup {m} ELSE strayed
  /\ UNCHANGED <<dialect, exists, users, may, listed, recorded, mock, super, torn, reseeded>>

(* INSERT of the name, which is a primary key, and the commit.             *)
RecordMigration(j, m) ==
  /\ Applying(j, m)
  /\ CanUse
  /\ <<m, job[j].at>> \notin All(m)
  /\ listed /\ m \notin recorded
  /\ effect' = effect \cup job[j].tx
  /\ recorded' = recorded \cup {m}
  /\ job' = [job EXCEPT ![j] = [job[j] EXCEPT !.pending = @ \ {m}, !.at = 1,
                                              !.open = TRUE, !.tx = {}]]
  /\ torn' = torn \ {m}
  /\ strayed' = IF job[j].old THEN strayed \cup {m} ELSE strayed
  /\ UNCHANGED <<dialect, exists, users, may, listed, mock, super, reseeded>>

Migrated(j) ==
  /\ Step(j, "apply")
  /\ job[j].pending = {}
  /\ job' = Done(j)
  /\ UNCHANGED <<dialect, exists, users, may, data>>

-----------------------------------------------------------------------------
(* Seeds, one transaction each                                             *)

(* DevelopmentSeedService gives the role (back) to its user.               *)
Seed(j) ==
  /\ Step(j, "seed")
  /\ CanUse /\ HasTables
  /\ super' = super \cup {"seeded"}
  /\ reseeded' = (reseeded \/ "other" \in super)
  /\ job' = Done(j)
  /\ UNCHANGED <<dialect, exists, users, may, effect, listed, recorded, mock, torn, strayed>>

(* MockDataSeedService inserts rows of fixed uids: not twice. Or it is not *)
(* enabled.                                                                *)
SeedMock(j) ==
  /\ Step(j, "mock")
  /\ \/ CanUse /\ HasTables /\ ~mock /\ mock' = TRUE
     \/ UNCHANGED mock
  /\ job' = Done(j)
  /\ UNCHANGED <<dialect, exists, users, may, effect, listed, recorded, super, torn, strayed,
                 reseeded>>

(* The service of users hands the role on (module UserRoles).              *)
Transfer ==
  /\ Cardinality(super) = 1
  /\ super' = {"seeded", "other"} \ super
  /\ UNCHANGED <<dialect, exists, users, may, effect, listed, recorded, mock, job, torn,
                 strayed, reseeded>>

-----------------------------------------------------------------------------

DbNext ==
  \/ Transfer
  \/ \E j \in Jobs :
       \/ \E kind \in DOMAIN Program : StartCommand(j, kind)
       \/ JobFails(j) \/ Drop(j) \/ CreateUser(j) \/ CreateDatabase(j) \/ Revoke(j)
       \/ Grant(j) \/ ReadMigrations(j)
       \/ \E m \in DOMAIN Migrations : RunStatement(j, m) \/ RecordMigration(j, m)
       \/ Migrated(j) \/ Seed(j) \/ SeedMock(j)

DbSpec == DbInit /\ [][DbNext]_dbVars

-----------------------------------------------------------------------------
(* Properties                                                              *)

DbTypeOK ==
  /\ dialect \in {"mysql", "postgres"}
  /\ {exists, listed, mock, reseeded} \subseteq BOOLEAN
  /\ users \subseteq {"service", "runtime"} /\ may \subseteq {"service", "runtime"}
  /\ effect \subseteq (DOMAIN Migrations) \X Nat
  /\ recorded \subseteq DOMAIN Migrations /\ torn \subseteq DOMAIN Migrations
  /\ strayed \subseteq DOMAIN Migrations
  /\ super \subseteq {"seeded", "other"}
  /\ job \in [Jobs -> Commands]

(* Whatever fails, and however commands overlap or are repeated: a         *)
(* recorded migration has all its effects, the recorded ones come first in *)
(* the order of names, and one that is neither recorded nor being applied  *)
(* has none, except on MySQL after a failure between its statements. A     *)
(* migration that a command wrote in after it outlived a drop may come out *)
(* of order, and on MySQL in part. The role of superadministrator has one  *)
(* holder until the seed is run again after a transfer.                    *)
MigrationsWhole ==
  /\ \A m \in recorded :
       /\ m \in strayed \/ 1..m \subseteq recorded
       /\ (m \in strayed /\ dialect = "mysql") \/ All(m) \subseteq effect
  /\ \A m \in DOMAIN Migrations \ recorded :
       effect \cap All(m) # {} =>
         /\ dialect = "mysql"
         /\ m \in torn \cup strayed \/ \E j \in Jobs : Applying(j, m)
  /\ Cardinality(super) > 1 => reseeded

=============================================================================
