---------------------------- MODULE Migrations ----------------------------
(***************************************************************************)
(* `fider migrate`, which every container runs before its server starts    *)
(* (Dockerfile, cmd/migrate.go, pkg/dbx/migrate.go).  During a deployment  *)
(* several of them run at once, of older and newer images; the transaction *)
(* around a file and its row in migrations_history, and that table's       *)
(* primary key, are all there is between them.                             *)
(***************************************************************************)
EXTENDS Naturals

CONSTANTS
  Migrators,   \* the containers
  Versions,    \* versions of the migration files
  Images       \* the files an image may come with, as sets of versions

ASSUME VersionsAssumption == Versions \subseteq Nat \ {0}
ASSUME ImagesAssumption == Images \subseteq SUBSET Versions

VARIABLES
  legacy,      \* the version in schema_migrations, of the tool used before; 0 without it
  history,     \* the versions in migrations_history
  applied,     \* applied[v]: how often the file of v took effect
  migrator     \* migrator[m]: its files, and the last version it knows to be applied

migrationVars == <<legacy, history, applied, migrator>>

MigrationsTypeOK ==
  /\ legacy \in Versions \cup {0}
  /\ history \subseteq Versions
  /\ applied \in [Versions -> Nat]
  /\ migrator \in [Migrators -> [at : {"down", "migrating", "serving"}, files : SUBSET Versions,
                                 last : Versions \cup {0}]]

Down == [at |-> "down", files |-> {}, last |-> 0]

MigrationsInit ==
  /\ legacy \in Versions \cup {0}
  /\ history = {}
  /\ applied = [v \in Versions |-> IF v <= legacy THEN 1 ELSE 0]
  /\ migrator = [m \in Migrators |-> Down]

-----------------------------------------------------------------------------
\* getLastMigration: v is what it returns.
LastMigration(v) ==
  IF history = {} THEN v = legacy ELSE v \in history /\ \A w \in history : w <= v

\* Migrate: the directory is listed and the last version is read, once.
StartMigrate(m, files, v) ==
  /\ migrator[m].at = "down"
  /\ LastMigration(v)
  /\ migrator' = [migrator EXCEPT ![m] = [at |-> "migrating", files |-> files, last |-> v]]
  /\ UNCHANGED <<legacy, history, applied>>

ToRun(m) == {v \in migrator[m].files : migrator[m].last < v}

\* runMigration: the file and its row, in one transaction.
RunMigration(m, v) ==
  /\ migrator[m].at = "migrating"
  /\ v \in ToRun(m) /\ \A w \in ToRun(m) : v <= w
  /\ v \notin history
  /\ history' = history \cup {v}
  /\ applied' = [applied EXCEPT ![v] = @ + 1]
  /\ migrator' = [migrator EXCEPT ![m].last = v]
  /\ UNCHANGED legacy

\* RunMigrate's exit code decides whether the server starts.
StartServer(m) ==
  /\ migrator[m].at = "migrating"
  /\ ToRun(m) = {}
  /\ migrator' = [migrator EXCEPT ![m].at = "serving"]
  /\ UNCHANGED <<legacy, history, applied>>

\* A migration failed, its row was there already, or the container died; it
\* starts again, with the same image or another one.
Goes(m) ==
  /\ migrator[m].at # "down"
  /\ migrator' = [migrator EXCEPT ![m] = Down]
  /\ UNCHANGED <<legacy, history, applied>>

MigrationsNext ==
  \E m \in Migrators :
    \/ \E v \in Versions : RunMigration(m, v)
    \/ \E files \in Images, v \in Versions \cup {0} : StartMigrate(m, files, v)
    \/ StartServer(m) \/ Goes(m)

MigrationsSpec == MigrationsInit /\ [][MigrationsNext]_migrationVars

-----------------------------------------------------------------------------
\* However many containers migrate at once, and whichever of them fails on the
\* way, no file takes effect twice, and one has exactly if the history, or the
\* table of the former tool, says so.
HistoryIsExact ==
  \A v \in Versions : applied[v] = IF v \in history \/ v <= legacy THEN 1 ELSE 0

\* Images extend each other: a file that is added has a later version than
\* all that are there, which is what Migrate relies on when it compares
\* versions with the last one only.
ImagesExtend == \A files \in Images, v, w \in Versions : v < w /\ w \in files => v \in files

\* A server that starts has found, or applied, every file of its image,
\* unless a file with an earlier version was added to those of another image.
ServersAreMigrated ==
  ImagesExtend =>
    \A m \in Migrators : migrator[m].at = "serving" => \A v \in migrator[m].files : applied[v] >= 1
=============================================================================
