----------------------------- MODULE Migrations -----------------------------
(***************************************************************************)
(* Opening a database of an older schema (storage/migrations.py): the      *)
(* version is read, the file is copied aside under a name that says it is  *)
(* partial, the copy is renamed, and the missing migrations run in one     *)
(* transaction that reads the version again under the write lock.          *)
(*                                                                         *)
(* Several processes, of one build or of different ones, open the file at  *)
(* once, and any of them may be interrupted or killed between two steps.   *)
(* What a copy holds is the schema version of the data in it.  A name      *)
(* names a file, a process writes to the file it opened: the two part when *)
(* somebody else unlinks or renames the name.                              *)
(***************************************************************************)
EXTENDS Integers, FiniteSets, Functions

CONSTANTS Openers,    \* processes that open the database
          Build,      \* CURRENT_VERSION of the build a process runs
          MaxOpenings \* bound: on opens of the database, over all processes

ASSUME BuildAssumption ==
  /\ IsFiniteSet(Openers) /\ Openers # {}
  /\ Build \in [Openers -> Nat \ {0}] /\ MaxOpenings \in Nat

Targets == {Build[p] : p \in Openers}
LatestBuild  == CHOOSE v \in Targets : \A w \in Targets : w <= v
Torn    == LatestBuild + 1     \* what an unfinished copy holds
NoFile  == 0
Files   == 0..MaxOpenings

VARIABLES
  held,       \* whether the file held user data from the start
  schema,     \* schema_version, 0 also when there is no stamp to read
  applied,    \* history: how often the steps to each version were applied
  reached,    \* history: the targets a process migrated the file to
  partial, backup, \* target -> the file its two names name
  holds,      \* file -> what it holds
  opener,     \* process -> where it stands, and the file it is writing to
  openings,   \* opens so far, which also number the files
  raced       \* history: two processes made one backup at the same time

migrationVars == <<held, schema, applied, reached, partial, backup, holds,
                   opener, openings, raced>>

Out == [at |-> "out", file |-> NoFile]

MigrationTypeOK ==
  /\ held \in BOOLEAN /\ raced \in BOOLEAN
  /\ schema \in 0..LatestBuild
  /\ applied \in [1..LatestBuild -> 0..Cardinality(Openers)]
  /\ reached \subseteq Targets
  /\ {partial, backup} \subseteq [Targets -> Files]
  /\ holds \in [Files -> 0..Torn]
  /\ opener \in [Openers -> [at : {"out", "checked", "copying", "copied", "safe"},
                             file : Files]]
  /\ openings \in Files

MigrationInit ==
  /\ held \in BOOLEAN /\ schema \in {v \in 0..LatestBuild : v > 0 => held}
  /\ applied = [v \in 1..LatestBuild |-> 0] /\ reached = {}
  /\ partial = [t \in Targets |-> NoFile] /\ backup = partial
  /\ holds = [f \in Files |-> Torn]
  /\ opener = [p \in Openers |-> Out] /\ openings = 0
  /\ raced = FALSE

\* p goes on, with the number of its opening for the file it may create
MoveTo(p, at, f) == opener' = [opener EXCEPT ![p] = [at |-> at, file |-> f]]

GoTo(p, at) == MoveTo(p, at, opener[p].file)

Leave(p) == MoveTo(p, "out", NoFile)

-----------------------------------------------------------------------------
\* migrate up to _create_backup: a schema up to date, or of a later build,
\* is left alone
get_version(p) ==
  /\ opener[p].at = "out" /\ openings < MaxOpenings
  /\ openings' = openings + 1
  /\ IF schema < Build[p] THEN MoveTo(p, "checked", openings + 1)
     ELSE UNCHANGED opener
  /\ UNCHANGED <<held, schema, applied, reached, partial, backup, holds, raced>>

\* what sqlite_master shows, whatever the stamp
_holds_user_data == held \/ schema > 0

\* _usable_backup: a finished copy passes the probe, a torn one may
Usable(t)   == backup[t] # NoFile /\ holds[backup[t]] # Torn
MayPass(t)  == backup[t] # NoFile

\* there is nothing to save, or it is saved already
no_backup_needed(p) ==
  /\ opener[p].at = "checked"
  /\ _holds_user_data => MayPass(Build[p])
  /\ GoTo(p, "safe")
  /\ UNCHANGED <<held, schema, applied, reached, partial, backup, holds,
                 openings, raced>>

BeginCopy(p) ==
  /\ opener[p].at = "checked" /\ _holds_user_data /\ ~Usable(Build[p])
  /\ GoTo(p, "copying")
  /\ raced' = (raced \/ \E q \in Openers \ {p} :
                 Build[q] = Build[p] /\ opener[q].at \in {"copying", "copied"})
  /\ UNCHANGED <<held, schema, applied, reached, holds, openings>>

\* mutant: the copy is written under the name of the recovery point
start_backup_in_place(p) ==
  /\ BeginCopy(p)
  /\ backup' = [backup EXCEPT ![Build[p]] = opener[p].file]
  /\ UNCHANGED partial

\* an unusable recovery point goes, and the partial name names a new file
start_backup(p) ==
  /\ BeginCopy(p)
  /\ backup'  = [backup EXCEPT ![Build[p]] = NoFile]
  /\ partial' = [partial EXCEPT ![Build[p]] = opener[p].file]

\* conn.backup ends: a copy of a file that changed meanwhile has started again
finish_copy(p) ==
  /\ opener[p].at = "copying"
  /\ holds' = [holds EXCEPT ![opener[p].file] = schema]
  /\ GoTo(p, "copied")
  /\ UNCHANGED <<held, schema, applied, reached, partial, backup, openings, raced>>

\* os.replace: it renames whatever has the name, and fails when nothing has
replace(p) ==
  LET t == Build[p] IN
  /\ opener[p].at = "copied"
  /\ IF partial[t] = NoFile
     THEN Leave(p) /\ UNCHANGED <<partial, backup>>
     ELSE /\ backup' = [backup EXCEPT ![t] = partial[t]]
          /\ partial' = [partial EXCEPT ![t] = NoFile]
          /\ GoTo(p, "safe")
  /\ UNCHANGED <<held, schema, applied, reached, holds, openings, raced>>

\* BEGIN IMMEDIATE to commit; the version is read again under the lock
migrate(p) ==
  /\ opener[p].at = "safe"
  /\ IF schema < Build[p]
     THEN /\ applied' = [v \in 1..LatestBuild |->
                           applied[v] + (IF v \in schema + 1 .. Build[p] THEN 1 ELSE 0)]
          /\ reached' = reached \cup {Build[p]}
          /\ schema' = Build[p]
     ELSE UNCHANGED <<schema, applied, reached>>
  /\ Leave(p)
  /\ UNCHANGED <<held, partial, backup, holds, openings, raced>>

\* Ctrl-C while copying: the partial name is unlinked, whatever it names
interrupt_backup(p) ==
  /\ opener[p].at = "copying"
  /\ partial' = [partial EXCEPT ![Build[p]] = NoFile]
  /\ Leave(p)
  /\ UNCHANGED <<held, schema, applied, reached, backup, holds, openings, raced>>

\* p is killed, or a migration raises and is rolled back
die(p) ==
  /\ opener[p].at # "out"
  /\ Leave(p)
  /\ UNCHANGED <<held, schema, applied, reached, partial, backup, holds,
                 openings, raced>>

MigrationNext ==
  \E p \in Openers :
    \/ get_version(p) \/ no_backup_needed(p) \/ start_backup(p)
    \/ finish_copy(p) \/ replace(p) \/ migrate(p)
    \/ interrupt_backup(p) \/ die(p)

-----------------------------------------------------------------------------
(* Properties.                                                             *)

(* No migration is applied twice, and once one has run on a file that held *)
(* user data, the recovery point of its target is a complete copy of data  *)
(* of an older schema - unless two processes of one build copied the file  *)
(* at the same time, when one may rename or unlink the copy of the other.  *)
MigrationIsSafe ==
  /\ \A v \in 1..LatestBuild : applied[v] <= 1
  /\ held /\ ~raced =>
       \A t \in reached : backup[t] # NoFile /\ holds[backup[t]] < t
=============================================================================
