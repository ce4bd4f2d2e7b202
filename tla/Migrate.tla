------------------------------ MODULE Migrate ------------------------------
(***************************************************************************)
(* The start of the server up to the migrated database (db/migrate.go,     *)
(* main.go), with a process that may die at any point, is started again    *)
(* and is now and then replaced by a newer release with more migration     *)
(* files.  A database may predate the tracking of migrations: it then has  *)
(* the tables of some files and no schema_versions.  An action is one SQL  *)
(* statement or one transaction.                                           *)
(***************************************************************************)
EXTENDS Integers

CONSTANTS N,           \* migration files of the newest release
          Repeatable,  \* files that can be executed a second time
          MaxCrashes   \* bound: deaths of the process

ASSUME NAssumption == N \in Nat \ {0} /\ Repeatable \subseteq 1..N /\ MaxCrashes \in Nat

VARIABLES pc,          \* where MigrateFS is; "down": no process, "up": serving
          files,       \* the installed release has the files 1..files
          svExists,    \* MigrateFS's local variable
          i,           \* the file its loop is at
          table,       \* schema_versions exists
          recorded,    \* the files in schema_versions
          runs,        \* how often each file's SQL has been executed
          legacy,      \* files executed before tracking, 0: a new database
          interrupted, \* history: the process died before it had seeded
          crashes

db == <<table, recorded, runs, legacy>>
migrateVars == <<pc, files, svExists, i, db, interrupted, crashes>>

MigrateInit ==
  /\ pc = "down" /\ svExists = FALSE /\ i = 1
  /\ files \in 1..N
  /\ legacy \in 0..files
  /\ table = FALSE /\ recorded = {}
  /\ runs = [m \in 1..N |-> IF m <= legacy THEN 1 ELSE 0]
  /\ interrupted = FALSE /\ crashes = 0

GoOn(from, to) == pc = from /\ pc' = to

(* The first file creates the table users. *)
isExistingDatabase == runs[1] > 0
-----------------------------------------------------------------------------
StartProcess ==
  /\ GoOn("down", "versions")
  /\ UNCHANGED <<files, svExists, i, db, interrupted, crashes>>

schemaVersionsExists ==
  /\ GoOn("versions", "ensure")
  /\ svExists' = table
  /\ UNCHANGED <<files, i, db, interrupted, crashes>>

(* Mutant: without IF NOT EXISTS, which is an error the second time. *)
ensureSchemaVersionsOnce ==
  /\ GoOn("ensure", IF table THEN "down" ELSE "decide")
  /\ table' = TRUE
  /\ UNCHANGED <<files, svExists, i, recorded, runs, legacy, interrupted, crashes>>

ensureSchemaVersions ==
  /\ GoOn("ensure", "decide")
  /\ table' = TRUE
  /\ UNCHANGED <<files, svExists, i, recorded, runs, legacy, interrupted, crashes>>

Seeding == ~svExists /\ isExistingDatabase

DecideSeeding ==
  /\ GoOn("decide", IF Seeding THEN "seed" ELSE "apply")
  /\ i' = 1
  /\ UNCHANGED <<files, svExists, db, interrupted, crashes>>

(* recordApplied, one INSERT per file. *)
seedExistingDatabase ==
  /\ IF i <= files THEN GoOn("seed", "seed") /\ recorded' = recorded \cup {i} /\ i' = i + 1
                   ELSE GoOn("seed", "up") /\ UNCHANGED <<recorded, i>>
  /\ UNCHANGED <<files, svExists, table, runs, legacy, interrupted, crashes>>

(* Mutant: the loop ends at the first file that is already applied. *)
SkipAppliedStops ==
  /\ IF i <= files /\ i \notin recorded THEN FALSE ELSE GoOn("apply", "up")
  /\ UNCHANGED <<i, files, svExists, db, interrupted, crashes>>

(* isApplied: continue with the next file, or the loop is over. *)
SkipApplied ==
  /\ \/ i <= files /\ i \in recorded /\ GoOn("apply", "apply") /\ i' = i + 1
     \/ i > files /\ GoOn("apply", "up") /\ UNCHANGED i
  /\ UNCHANGED <<files, svExists, db, interrupted, crashes>>

(* Mutant: the record is left to a later statement. *)
ApplyMigrationUnrecorded ==
  /\ i <= files /\ i \notin recorded
  /\ GoOn("apply", "apply")
  /\ runs' = [runs EXCEPT ![i] = @ + 1]
  /\ i' = i + 1
  /\ UNCHANGED <<files, svExists, recorded, table, legacy, interrupted, crashes>>

(* Mutant: the loop goes on beyond the last file. *)
ApplyMigrationOneMore ==
  /\ i <= files + 1 /\ i \notin recorded
  /\ GoOn("apply", "apply")
  /\ recorded' = recorded \cup {i}
  /\ i' = i + 1
  /\ UNCHANGED <<files, svExists, runs, table, legacy, interrupted, crashes>>

(* The SQL and its record in one transaction; SQL that cannot be repeated  *)
(* fails, is rolled back and ends the process.                             *)
ApplyMigration ==
  /\ i <= files /\ i \notin recorded
  /\ IF runs[i] = 0 \/ i \in Repeatable
       THEN /\ GoOn("apply", "apply")
            /\ runs' = [runs EXCEPT ![i] = @ + 1]
            /\ recorded' = recorded \cup {i}
            /\ i' = i + 1
       ELSE GoOn("apply", "down") /\ UNCHANGED <<runs, recorded, i>>
  /\ UNCHANGED <<files, svExists, table, legacy, interrupted, crashes>>

(* The process dies, by a crash, an error or a signal, with or without an  *)
(* open transaction, which is rolled back.                                 *)
Crash ==
  /\ pc # "down" /\ crashes < MaxCrashes
  /\ pc' = "down"
  /\ crashes' = crashes + 1
  /\ interrupted' = (interrupted \/ (pc \in {"decide", "seed"} /\ Seeding))
  /\ UNCHANGED <<files, svExists, i, db>>

(* A newer release is installed while the server is down. *)
Install ==
  /\ pc = "down" /\ files < N
  /\ files' \in (files + 1)..N
  /\ UNCHANGED <<pc, svExists, i, db, interrupted, crashes>>

MigrateStep ==
  \/ StartProcess \/ schemaVersionsExists \/ ensureSchemaVersions \/ DecideSeeding
  \/ seedExistingDatabase \/ SkipApplied \/ ApplyMigration

(* A server that is up stays up until it dies. *)
Serve == pc = "up" /\ UNCHANGED migrateVars

MigrateNext == MigrateStep \/ Crash \/ Install \/ Serve

MigrateSpec == MigrateInit /\ [][MigrateNext]_migrateVars

(* A process that runs goes on; one that died is started again. *)
MigrateFairSpec == MigrateSpec /\ WF_migrateVars(MigrateStep)
-----------------------------------------------------------------------------
(* Type correctness. *)
MigrateTypeOK ==
  /\ pc \in {"down", "versions", "ensure", "decide", "seed", "apply", "up"}
  /\ files \in 1..N /\ i \in 1..(N + 1) /\ legacy \in 0..N
  /\ svExists \in BOOLEAN /\ table \in BOOLEAN /\ interrupted \in BOOLEAN
  /\ recorded \subseteq 1..N
  /\ runs \in [1..N -> Nat]
  /\ crashes \in Nat

(* migrate.go:5: "Each .sql file in the provided FS is applied exactly     *)
(* once", wherever a start is cut short; the one exception is a process    *)
(* that dies while it seeds an older database.                             *)
AppliedOnce == interrupted \/ \A m \in 1..N : runs[m] <= 1

(* A server only serves on a database in which every file of its release   *)
(* has been executed, after all files before it, or is recorded because    *)
(* the database predates tracking ("we assume all migrations in the        *)
(* current FS have already been applied").                                 *)
ServesMigrated ==
  pc = "up" => \A m \in 1..files :
    /\ m \in recorded
    /\ runs[m] > 0 \/ (0 < legacy /\ legacy < m)

(* However often it dies, the server ends up serving once it is left       *)
(* alone, unless it died while it seeded an older database.                *)
ServesEventually == []<>(pc = "up" \/ interrupted)
=============================================================================
