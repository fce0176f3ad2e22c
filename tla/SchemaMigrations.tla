-------------------------- MODULE SchemaMigrations --------------------------
(***************************************************************************)
(* base_db/src/migration.rs: run_sqlite_migrations, run_mysql_migrations.  *)
(* Several processes may migrate one database at a time, each of them may  *)
(* die anywhere, and one may be of a version that names its migrations     *)
(* differently.                                                            *)
(*                                                                         *)
(* The databases are external.  A SQLite transaction that has read may     *)
(* only begin to write while no other writes and nobody has committed      *)
(* since.  In MySQL both may write; the second insert of a key waits for   *)
(* the first and fails; a DDL statement takes effect at once and ends the  *)
(* transaction, so that the insert after it commits by itself.             *)
(***************************************************************************)
EXTENDS Integers, FiniteSets

CONSTANTS Runners,
          Versions,   \* how many migrations there are: 1, 2, ... in list order
          NameOf,     \* the name a runner's list gives a migration
          Ddl,        \* the migrations whose sql is DDL
          NoName      \* the name of a version that is not recorded

MigrationsAssumption ==
    /\ Versions \in Nat
    /\ Ddl \subseteq 1..Versions
    /\ \A r \in Runners, v \in 1..Versions : NameOf[r][v] # NoName

VARIABLES
    database,   \* "sqlite" or "mysql"
    recorded,   \* _base_db_migrations: version -> name
    applied,    \* how often the sql of a version has taken effect
    outdated,   \* per runner: someone has committed since its transaction read
    run,        \* per runner: where it stands
    at          \* per runner: the migration it is at

migrationVars == <<database, recorded, applied, outdated, run, at>>

List == 1..Versions

MigrationsInit ==
    /\ database \in {"sqlite", "mysql"}
    /\ recorded = [v \in List |-> NoName]
    /\ applied = [v \in List |-> 0]
    /\ outdated = [r \in Runners |-> FALSE]
    /\ run = [r \in Runners |-> "idle"]
    /\ at = [r \in Runners |-> 1]

GoTo(r, where) == run' = [run EXCEPT ![r] = where]

\* DDL in MySQL is outside of the transaction.
Transactional(v) == database = "sqlite" \/ v \notin Ddl

\* Who has changes of a migration that are not committed.
Writing == {r \in Runners : run[r] \in {"applied", "recorded"} /\ Transactional(at[r])}

Advance(r) ==
    /\ at' = [at EXCEPT ![r] = @ + 1]
    /\ GoTo(r, "loop")

\* The call: CREATE TABLE IF NOT EXISTS, and the first migration.
StartRun(r) ==
    /\ run[r] \in {"idle", "failed"}
    /\ GoTo(r, "loop")
    /\ at' = [at EXCEPT ![r] = 1]
    /\ UNCHANGED <<database, recorded, applied, outdated>>

Finish(r) ==
    /\ run[r] = "loop" /\ at[r] > Versions
    /\ GoTo(r, "done")
    /\ UNCHANGED <<database, recorded, applied, outdated, at>>

\* ensure_migration_matches
Matches(r, existing) == existing = NameOf[r][at[r]]

\* begin and SELECT: the version is there under its name, under another, or not.
Select(r) ==
    /\ run[r] = "loop" /\ at[r] \in List
    /\ LET existing == recorded[at[r]]
       IN  \/ existing # NoName /\ Matches(r, existing) /\ Advance(r) /\ UNCHANGED outdated
           \/ existing # NoName /\ ~Matches(r, existing) /\ GoTo(r, "failed")
              /\ UNCHANGED <<at, outdated>>
           \/ existing = NoName /\ GoTo(r, "selected")
              /\ outdated' = [outdated EXCEPT ![r] = FALSE] /\ UNCHANGED at
    /\ UNCHANGED <<database, recorded, applied>>

\* Mutant of ApplySql: it is executed on the pool instead of the transaction.
ApplySqlAtOnce(r) ==
    /\ run[r] = "selected"
    /\ database = "sqlite" => Writing = {} /\ ~outdated[r]
    /\ applied[at[r]] < 2
    /\ applied' = [applied EXCEPT ![at[r]] = @ + 1]
    /\ GoTo(r, "applied")
    /\ UNCHANGED <<database, recorded, outdated, at>>

\* raw_sql(..).execute(transaction)
ApplySql(r) ==
    /\ run[r] = "selected"
    /\ database = "sqlite" => Writing = {} /\ ~outdated[r]
    /\ \/ Transactional(at[r]) /\ UNCHANGED applied
       \/ /\ ~Transactional(at[r]) /\ applied[at[r]] < 2
          /\ applied' = [applied EXCEPT ![at[r]] = @ + 1]
    /\ GoTo(r, "applied")
    /\ UNCHANGED <<database, recorded, outdated, at>>

\* The insert: the key must be free, and nobody's uncommitted one in the way.
InsertRecord(r) ==
    /\ run[r] = "applied" /\ recorded[at[r]] = NoName
    /\ ~\E o \in Writing \ {r} : run[o] = "recorded" /\ at[o] = at[r]
    /\ GoTo(r, "recorded")
    /\ recorded' = IF Transactional(at[r]) THEN recorded
                   ELSE [recorded EXCEPT ![at[r]] = NameOf[r][at[r]]]
    /\ UNCHANGED <<database, applied, outdated, at>>

Commit(r) ==
    /\ run[r] = "recorded"
    /\ IF Transactional(at[r])
       THEN /\ recorded' = [recorded EXCEPT ![at[r]] = NameOf[r][at[r]]]
            /\ applied' = [applied EXCEPT ![at[r]] = @ + 1]
            /\ outdated' = [o \in Runners |-> TRUE]
       ELSE UNCHANGED <<recorded, applied, outdated>>
    /\ Advance(r)
    /\ UNCHANGED database

\* A statement fails (busy, a duplicate key, a table that exists, a lost
\* connection) or the process dies: what is not committed is rolled back.
FailOrDie(r) ==
    /\ run[r] \in {"loop", "selected", "applied", "recorded"}
    /\ GoTo(r, "failed")
    /\ UNCHANGED <<database, recorded, applied, outdated, at>>

MigrationsNext ==
    \E r \in Runners :
        \/ StartRun(r) \/ Select(r) \/ ApplySql(r) \/ InsertRecord(r) \/ Commit(r)
        \/ Finish(r) \/ FailOrDie(r)

MigrationsSpec == MigrationsInit /\ [][MigrationsNext]_migrationVars

----------------------------------------------------------------------------
AppliedAsRecorded ==
    \A v \in List :
        /\ recorded[v] # NoName => applied[v] > 0
        /\ Transactional(v) => applied[v] = (IF recorded[v] = NoName THEN 0 ELSE 1)

RecordedInOrder ==
    \A u, v \in List : u < v /\ recorded[v] # NoName => recorded[u] # NoName

DoneIsRecorded ==
    \A r \in Runners : run[r] = "done" => \A v \in List : recorded[v] = NameOf[r][v]

\* Whoever migrates and wherever they die, a recorded migration has taken
\* effect, and one whose sql is transactional has done so exactly once if it
\* is recorded and not at all if it is not; migrations are recorded in the
\* order of the list; and a run that returns Ok leaves all of its migrations
\* recorded under the names it knows.
SchemaMatchesRecords == AppliedAsRecorded /\ RecordedInOrder /\ DoneIsRecorded
=============================================================================
