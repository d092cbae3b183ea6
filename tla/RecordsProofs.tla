--------------------------- MODULE RecordsProofs ---------------------------
(***************************************************************************)
(* What is proved of the parts that keep records: the migration of a       *)
(* database, the thinning of a history, the undo of a cleanup, the bound   *)
(* of its quarantine, how a plan is made of overlapping targets, what is   *)
(* laid over a snapshot, and who is charged for shared blocks.             *)
(***************************************************************************)
EXTENDS Migrations, Retention, Cleanup, CleanupPlans, Provisional,
        Accounting, FiniteSetTheorems, WellFoundedInduction, TLAPS

-----------------------------------------------------------------------------
(* Finite sets of numbers.                                                 *)

HasGreatest(S) == \E x \in S : \A y \in S : y <= x

(* A finite set of numbers has a greatest: of the sets that had none, one  *)
(* would be least.                                                         *)
LEMMA Greatest ==
  ASSUME NEW S, IsFiniteSet(S), S # {}, S \subseteq Nat
  PROVE  HasGreatest(S)
<1> DEFINE Bad == {U \in SUBSET S : U # {} /\ ~HasGreatest(U)}
<1> SUFFICES ASSUME ~HasGreatest(S) PROVE FALSE
  OBVIOUS
<1>1. S \in Bad /\ Bad \subseteq SUBSET S /\ Bad # {}
  OBVIOUS
<1>2. IsWellFoundedOn(StrictSubsetOrdering(S), SUBSET S)
  BY FS_StrictSubsetOrderingWellFounded, FS_FiniteSubsetsOfFinite
<1>3. PICK U \in Bad : \A V \in Bad : ~ (<<V, U>> \in StrictSubsetOrdering(S))
  <2> HIDE DEF Bad
  <2> QED BY <1>1, <1>2, WFMin
<1>4. PICK x \in U : TRUE
  OBVIOUS
<1>5. CASE U = {x}
  BY <1>5 DEF HasGreatest
<1>6. CASE U # {x}
  <2> DEFINE V == U \ {x}
  <2>1. V # {} /\ V \subseteq U /\ V # U /\ V \in SUBSET S
    BY <1>4, <1>6
  <2>2. <<V, U>> \in StrictSubsetOrdering(S)
    BY <2>1 DEF StrictSubsetOrdering
  <2>3. HasGreatest(V)
    BY <1>3, <2>1, <2>2
  <2>4. PICK m \in V : \A y \in V : y <= m
    BY <2>3 DEF HasGreatest
  <2>5. HasGreatest(U)
    <3>1. x \in Nat /\ m \in Nat /\ m \in U /\ U \subseteq Nat
      BY <2>1
    <3>2. CASE m <= x
      BY <2>4, <3>1, <3>2 DEF HasGreatest
    <3>3. CASE ~ (m <= x)
      BY <2>4, <3>1, <3>3 DEF HasGreatest
    <3> QED BY <3>2, <3>3
  <2> QED BY <2>5
<1> QED BY <1>5, <1>6

-----------------------------------------------------------------------------
(* Migrations.                                                             *)

MigrationSpec == MigrationInit /\ [][MigrationNext]_migrationVars

Places == {"out", "checked", "copying", "copied", "safe"}
Copying == {"copying", "copied"}

\* a copy of data older than the schema of t; or one that came too late, and
\* then no process will take the file to t any more
Spare_(f, t) == holds[f] < t \/ (schema >= t /\ t \notin reached)

MigrationTypes ==
  /\ schema \in Nat /\ applied \in [1..LatestBuild -> Nat] /\ reached \subseteq Targets
  /\ partial \in [Targets -> Files] /\ backup \in [Targets -> Files]
  /\ holds \in [Files -> Nat] /\ openings \in Files
  /\ held \in BOOLEAN /\ raced \in BOOLEAN
  /\ opener \in [Openers -> [at : Places, file : Files]]

AppliedOnce ==
  \A v \in 1..LatestBuild : applied[v] <= 1 /\ (v > schema => applied[v] = 0)

\* every process writes to a file of its own
OwnFiles ==
  /\ \A t \in Targets : partial[t] <= openings /\ backup[t] <= openings
  /\ \A p \in Openers : opener[p].at # "out" =>
       /\ opener[p].file \in 1..openings
       /\ \A t \in Targets : backup[t] # opener[p].file \/ opener[p].at = "safe"
       /\ \A t \in Targets : opener[p].at = "checked" => partial[t] # opener[p].file
       /\ \A q \in Openers : opener[q].at # "out" /\ opener[q].file = opener[p].file => q = p

\* of the processes of a build one copies at a time, under the name it gave
OneCopy ==
  \A p \in Openers : opener[p].at \in Copying =>
    /\ partial[Build[p]] = opener[p].file /\ backup[Build[p]] = NoFile
    /\ \A q \in Openers : opener[q].at \in Copying /\ Build[q] = Build[p] => q = p
    /\ opener[p].at = "copied" => Spare_(opener[p].file, Build[p])

\* what lets a process migrate is there until it does
BackedUp ==
  /\ \A t \in Targets : backup[t] # NoFile => Spare_(backup[t], t)
  /\ \A t \in reached : backup[t] # NoFile /\ holds[backup[t]] < t
  /\ \A p \in Openers : opener[p].at = "safe" =>
       \/ schema >= Build[p]
       \/ backup[Build[p]] # NoFile /\ holds[backup[Build[p]]] < Build[p]

Undisturbed == held /\ ~raced

MigrationInv ==
  /\ MigrationTypes /\ AppliedOnce
  /\ Undisturbed => OwnFiles /\ OneCopy /\ BackedUp

LEMMA LatestIsGreatest ==
  /\ LatestBuild \in Targets /\ Targets \subseteq Nat \ {0}
  /\ \A t \in Targets : t <= LatestBuild
<1>1. IsFiniteSet(Targets) /\ Targets # {} /\ Targets \subseteq Nat \ {0}
  <2>1. IsFiniteSet(Targets)
    <3>1. Build \in Surjection(Openers, Targets)
      BY BuildAssumption DEF Surjection, Targets
    <3> QED BY <3>1, BuildAssumption, FS_Surjection
  <2> QED BY <2>1, BuildAssumption DEF Targets
<1>2. HasGreatest(Targets)
  BY <1>1, Greatest
<1>3. \E v \in Targets : \A w \in Targets : w <= v
  BY <1>2 DEF HasGreatest
<1> QED BY <1>1, <1>3 DEF LatestBuild

LEMMA Numbers ==
  /\ LatestBuild \in Nat \ {0} /\ Torn \in Nat /\ MaxOpenings \in Nat
  /\ \A t \in Targets : t \in Nat /\ t > 0 /\ t < Torn /\ t \in 1..LatestBuild
  /\ Files \subseteq Nat /\ NoFile \in Files /\ Torn > 0 /\ Torn # NoFile
  /\ \A p \in Openers : Build[p] \in Targets
<1>1. MaxOpenings \in Nat /\ \A p \in Openers : Build[p] \in Targets
  BY BuildAssumption DEF Targets
<1>2. LatestBuild \in Nat \ {0} /\ Torn = LatestBuild + 1
  BY LatestIsGreatest DEF Torn
<1> QED BY <1>1, <1>2, LatestIsGreatest DEF Files, NoFile

LEMMA Moved ==
  ASSUME MigrationTypes, NEW p \in Openers, NEW at \in Places, NEW f \in Files,
         MoveTo(p, at, f)
  PROVE  /\ opener' \in [Openers -> [at : Places, file : Files]]
         /\ opener'[p].at = at /\ opener'[p].file = f
         /\ \A q \in Openers : q # p => opener'[q] = opener[q]
<1>1. opener' = [opener EXCEPT ![p] = [at |-> at, file |-> f]]
  BY DEF MoveTo
<1>2. opener \in [Openers -> [at : Places, file : Files]]
  BY DEF MigrationTypes
<1>3. [at |-> at, file |-> f] \in [at : Places, file : Files]
  OBVIOUS
<1>4. opener'[p] = [at |-> at, file |-> f] /\ \A q \in Openers : q # p => opener'[q] = opener[q]
  BY <1>1, <1>2
<1> QED BY <1>1, <1>2, <1>3, <1>4

\* the file a process is writing to, and what it is doing
LEMMA MovedOn ==
  ASSUME MigrationTypes, NEW p \in Openers
  PROVE  opener[p].at \in Places /\ opener[p].file \in Files
BY DEF MigrationTypes

LEMMA MigrationStarts == MigrationInit => MigrationInv
<1> SUFFICES ASSUME MigrationInit PROVE MigrationInv
  OBVIOUS
<1> USE Numbers
<1>1. MigrationTypes
  <2>1. holds \in [Files -> Nat] /\ openings \in Files
    BY DEF MigrationInit, Files, NoFile
  <2>2. Out \in [at : Places, file : Files]
    BY DEF Out, Places
  <2>3. opener \in [Openers -> [at : Places, file : Files]]
    BY <2>2 DEF MigrationInit
  <2>4. schema \in Nat /\ applied \in [1..LatestBuild -> Nat] /\ reached \subseteq Targets
    BY DEF MigrationInit
  <2>5. partial \in [Targets -> Files] /\ backup \in [Targets -> Files]
    BY DEF MigrationInit
  <2>6. held \in BOOLEAN /\ raced \in BOOLEAN
    BY DEF MigrationInit
  <2> QED BY <2>1, <2>3, <2>4, <2>5, <2>6 DEF MigrationTypes
<1>2. AppliedOnce
  BY DEF MigrationInit, AppliedOnce
<1>3. \A p \in Openers : opener[p].at = "out"
  BY DEF MigrationInit, Out
<1>4. OneCopy
  BY <1>3 DEF OneCopy, Copying
<1>5. OwnFiles
  BY <1>3 DEF OwnFiles, MigrationInit, NoFile
<1>6. BackedUp
  BY <1>3 DEF BackedUp, MigrationInit
<1> QED BY <1>1, <1>2, <1>4, <1>5, <1>6 DEF MigrationInv

\* an opening is numbered, and its file is new
LEMMA GetVersionKeepsTheInvariant ==
  ASSUME MigrationInv, NEW p \in Openers, get_version(p)
  PROVE  MigrationInv'
<1> USE Numbers
<1>1. MigrationTypes /\ AppliedOnce
  BY DEF MigrationInv
<1>2. openings' = openings + 1 /\ openings' \in Files /\ openings \in Nat /\ openings' \in 1..openings'
  BY <1>1 DEF get_version, MigrationTypes, Files
<1>3. UNCHANGED <<held, schema, applied, reached, partial, backup, holds, raced>>
  BY DEF get_version
<1>4. CASE UNCHANGED opener
  <2>1. MigrationTypes'
    BY <1>1, <1>2, <1>3, <1>4 DEF MigrationTypes
  <2>2. AppliedOnce'
    BY <1>1, <1>3 DEF AppliedOnce
  <2>3. Undisturbed' => Undisturbed
    BY <1>3 DEF Undisturbed
  <2>4. OwnFiles => OwnFiles'
    <3>1. SUFFICES ASSUME OwnFiles PROVE OwnFiles'
      OBVIOUS
    <3>2. \A t \in Targets : partial'[t] <= openings' /\ backup'[t] <= openings'
      <4> SUFFICES ASSUME NEW t \in Targets PROVE partial'[t] <= openings' /\ backup'[t] <= openings'
        OBVIOUS
      <4>1. partial[t] <= openings /\ backup[t] <= openings
        BY <3>1 DEF OwnFiles
      <4>2. partial[t] \in Nat /\ backup[t] \in Nat
        BY <1>1 DEF MigrationTypes
      <4> QED BY <4>1, <4>2, <1>2, <1>3
    <3>3. \A q \in Openers : opener'[q].at # "out" => opener'[q].file \in 1..openings'
      BY <3>1, <1>2, <1>4 DEF OwnFiles
    <3> QED BY <3>1, <3>2, <3>3, <1>3, <1>4 DEF OwnFiles
  <2>5. (OneCopy => OneCopy') /\ (BackedUp => BackedUp')
    BY <1>3, <1>4 DEF OneCopy, BackedUp, Spare_
  <2> QED BY <2>1, <2>2, <2>3, <2>4, <2>5 DEF MigrationInv
<1>5. CASE MoveTo(p, "checked", openings + 1)
  <2> DEFINE f == openings + 1
  <2>1. /\ opener' \in [Openers -> [at : Places, file : Files]]
        /\ opener'[p].at = "checked" /\ opener'[p].file = f
        /\ \A q \in Openers : q # p => opener'[q] = opener[q]
    BY <1>1, <1>2, <1>5, Moved DEF Places
  <2>2. MigrationTypes'
    BY <1>1, <1>2, <1>3, <2>1 DEF MigrationTypes
  <2>3. AppliedOnce'
    BY <1>1, <1>3 DEF AppliedOnce
  <2>4. SUFFICES ASSUME Undisturbed' PROVE (OwnFiles /\ OneCopy /\ BackedUp)'
    BY <2>2, <2>3 DEF MigrationInv
  <2>5. OwnFiles /\ OneCopy /\ BackedUp
    BY <2>4, <1>3 DEF Undisturbed, MigrationInv
  <2>6. \A t \in Targets : partial[t] <= openings /\ backup[t] <= openings
                           /\ partial[t] \in Nat /\ backup[t] \in Nat
    BY <2>5, <1>1 DEF OwnFiles, MigrationTypes
  <2>7. \A q \in Openers : opener[q].at # "out" => opener[q].file \in 1..openings
    BY <2>5 DEF OwnFiles
  <2>8. OwnFiles'
    <3>1. ASSUME NEW q \in Openers, opener'[q].at # "out"
          PROVE  /\ opener'[q].file \in 1..openings'
                 /\ \A t \in Targets : backup'[t] # opener'[q].file \/ opener'[q].at = "safe"
                 /\ \A t \in Targets : opener'[q].at = "checked" => partial'[t] # opener'[q].file
      <4>1. CASE q = p
        BY <1>2, <1>3, <2>1, <2>6, <4>1
      <4>2. CASE q # p
        <5>1. opener'[q] = opener[q]
          BY <2>1, <4>2
        <5>2. opener'[q].file \in 1..openings'
          BY <5>1, <3>1, <2>7, <1>2
        <5> QED BY <5>1, <5>2, <3>1, <2>5, <1>3 DEF OwnFiles
      <4> QED BY <4>1, <4>2
    <3>2. ASSUME NEW q \in Openers, NEW r \in Openers, opener'[q].at # "out",
                 opener'[r].at # "out", opener'[r].file = opener'[q].file
          PROVE  r = q
      <4>1. CASE q # p /\ r # p
        BY <3>2, <4>1, <2>1, <2>5 DEF OwnFiles
      <4>2. CASE q = p /\ r # p
        BY <3>2, <4>2, <2>1, <2>7, <1>2
      <4>3. CASE q # p /\ r = p
        BY <3>2, <4>3, <2>1, <2>7, <1>2
      <4> QED BY <4>1, <4>2, <4>3
    <3>3. \A t \in Targets : partial'[t] <= openings' /\ backup'[t] <= openings'
      BY <2>6, <1>2, <1>3
    <3> QED BY <3>1, <3>2, <3>3 DEF OwnFiles
  <2>9. OneCopy'
    BY <2>1, <2>5, <1>3 DEF OneCopy, Copying, Spare_
  <2>10. BackedUp'
    BY <2>1, <2>5, <1>3 DEF BackedUp, Spare_
  <2> QED BY <2>8, <2>9, <2>10
<1> QED BY <1>4, <1>5 DEF get_version

\* leaving disturbs nothing that is said of those who stay
LEMMA LeavingKeepsTheInvariant ==
  ASSUME MigrationInv, NEW p \in Openers, Leave(p),
         UNCHANGED <<held, schema, applied, reached, partial, backup, holds, openings, raced>>
  PROVE  MigrationInv'
<1> USE Numbers
<1>1. MigrationTypes /\ AppliedOnce
  BY DEF MigrationInv
<1>2. /\ opener' \in [Openers -> [at : Places, file : Files]]
      /\ opener'[p].at = "out"
      /\ \A q \in Openers : q # p => opener'[q] = opener[q]
  BY <1>1, Moved DEF Leave, Places
<1>3. MigrationTypes' /\ AppliedOnce'
  BY <1>1, <1>2 DEF MigrationTypes, AppliedOnce
<1>4. OwnFiles => OwnFiles'
  BY <1>2 DEF OwnFiles
<1>5. OneCopy => OneCopy'
  BY <1>2 DEF OneCopy, Copying, Spare_
<1>6. BackedUp => BackedUp'
  BY <1>2 DEF BackedUp, Spare_
<1> QED BY <1>3, <1>4, <1>5, <1>6 DEF MigrationInv, Undisturbed

\* a copy interrupted takes its partial name with it: its own, if no other
\* process of the build copied at the time
LEMMA InterruptKeepsTheInvariant ==
  ASSUME MigrationInv, NEW p \in Openers, interrupt_backup(p)
  PROVE  MigrationInv'
<1> USE Numbers
<1>1. MigrationTypes /\ AppliedOnce
  BY DEF MigrationInv
<1>2. /\ opener' \in [Openers -> [at : Places, file : Files]]
      /\ opener'[p].at = "out"
      /\ \A q \in Openers : q # p => opener'[q] = opener[q]
  BY <1>1, Moved DEF Leave, Places, interrupt_backup
<1>3. /\ UNCHANGED <<held, schema, applied, reached, backup, holds, openings, raced>>
      /\ opener[p].at = "copying"
  BY DEF interrupt_backup
<1>4. /\ partial' \in [Targets -> Files] /\ partial'[Build[p]] = NoFile
      /\ \A t \in Targets : t # Build[p] => partial'[t] = partial[t]
  BY <1>1 DEF interrupt_backup, MigrationTypes
<1>5. MigrationTypes' /\ AppliedOnce'
  BY <1>1, <1>2, <1>3, <1>4 DEF MigrationTypes, AppliedOnce
<1>6. SUFFICES ASSUME Undisturbed' PROVE (OwnFiles /\ OneCopy /\ BackedUp)'
  BY <1>5 DEF MigrationInv
<1>7. OwnFiles /\ OneCopy /\ BackedUp
  BY <1>6, <1>3 DEF Undisturbed, MigrationInv
<1>8. OwnFiles'
  <2>1. \A t \in Targets : partial'[t] <= openings' /\ backup'[t] <= openings'
    BY <1>1, <1>3, <1>4, <1>7 DEF OwnFiles, MigrationTypes, NoFile
  <2>2. ASSUME NEW q \in Openers, opener'[q].at # "out", NEW t \in Targets, opener'[q].at = "checked"
        PROVE partial'[t] # opener'[q].file
    <3>1. opener'[q] = opener[q]
      BY <2>2, <1>2
    <3>2. opener[q].file \in 1..openings /\ partial[t] # opener[q].file
      BY <3>1, <2>2, <1>7 DEF OwnFiles
    <3> QED BY <3>1, <3>2, <1>4 DEF NoFile
  <2> QED BY <2>1, <2>2, <1>2, <1>3, <1>7 DEF OwnFiles
<1>9. OneCopy'
  <2>1. ASSUME NEW q \in Openers, opener'[q].at \in Copying
        PROVE  q # p /\ opener'[q] = opener[q] /\ Build[q] # Build[p]
    BY <2>1, <1>2, <1>3, <1>7 DEF OneCopy, Copying
  <2>2. ASSUME NEW q \in Openers, opener'[q].at \in Copying
        PROVE  partial'[Build[q]] = opener'[q].file
    BY <2>1, <2>2, <1>4, <1>7 DEF OneCopy
  <2> QED BY <2>1, <2>2, <1>2, <1>3, <1>7 DEF OneCopy, Spare_
<1>10. BackedUp'
  BY <1>2, <1>3, <1>7 DEF BackedUp, Spare_
<1> QED BY <1>8, <1>9, <1>10

\* what there is to save is saved already
LEMMA NoBackupNeededKeepsTheInvariant ==
  ASSUME MigrationInv, NEW p \in Openers, no_backup_needed(p)
  PROVE  MigrationInv'
<1> USE Numbers
<1>1. MigrationTypes /\ AppliedOnce
  BY DEF MigrationInv
<1>2. /\ opener' \in [Openers -> [at : Places, file : Files]]
      /\ opener'[p].at = "safe" /\ opener'[p].file = opener[p].file
      /\ \A q \in Openers : q # p => opener'[q] = opener[q]
  BY <1>1, Moved, MovedOn DEF GoTo, Places, no_backup_needed
<1>3. /\ UNCHANGED <<held, schema, applied, reached, partial, backup, holds, openings, raced>>
      /\ opener[p].at = "checked" /\ (held => backup[Build[p]] # NoFile)
  BY DEF no_backup_needed, _holds_user_data, MayPass
<1>4. MigrationTypes' /\ AppliedOnce'
  BY <1>1, <1>2, <1>3 DEF MigrationTypes, AppliedOnce
<1>5. SUFFICES ASSUME Undisturbed' PROVE (OwnFiles /\ OneCopy /\ BackedUp)'
  BY <1>4 DEF MigrationInv
<1>6. OwnFiles /\ OneCopy /\ BackedUp /\ held
  BY <1>5, <1>3 DEF Undisturbed, MigrationInv
<1>7. OwnFiles'
  BY <1>2, <1>3, <1>6 DEF OwnFiles
<1>8. OneCopy'
  BY <1>2, <1>3, <1>6 DEF OneCopy, Copying, Spare_
<1>9. BackedUp'
  <2>1. Spare_(backup[Build[p]], Build[p])
    BY <1>3, <1>6 DEF BackedUp
  <2> QED BY <2>1, <1>2, <1>3, <1>6 DEF BackedUp, Spare_
<1> QED BY <1>7, <1>8, <1>9

\* a target reached has a usable recovery point, so no copy for it begins; a
\* copy of the same build in progress would be a race
LEMMA StartBackupKeepsTheInvariant ==
  ASSUME MigrationInv, NEW p \in Openers, start_backup(p)
  PROVE  MigrationInv'
<1> USE Numbers
<1> DEFINE t == Build[p]
           f == opener[p].file
<1>1. MigrationTypes /\ AppliedOnce
  BY DEF MigrationInv
<1>2. /\ opener' \in [Openers -> [at : Places, file : Files]]
      /\ opener'[p].at = "copying" /\ opener'[p].file = f
      /\ \A q \in Openers : q # p => opener'[q] = opener[q]
  BY <1>1, Moved, MovedOn DEF GoTo, Places, start_backup, BeginCopy
<1>3. /\ UNCHANGED <<held, schema, applied, reached, holds, openings>>
      /\ opener[p].at = "checked" /\ ~Usable(t)
      /\ raced' = (raced \/ \E q \in Openers \ {p} :
                      Build[q] = t /\ opener[q].at \in {"copying", "copied"})
  BY DEF start_backup, BeginCopy
<1>4. /\ backup' \in [Targets -> Files] /\ backup'[t] = NoFile
      /\ \A u \in Targets : u # t => backup'[u] = backup[u]
      /\ partial' \in [Targets -> Files] /\ partial'[t] = f
      /\ \A u \in Targets : u # t => partial'[u] = partial[u]
  BY <1>1, MovedOn DEF start_backup, MigrationTypes
<1>5. MigrationTypes'
  <2>1. raced' \in BOOLEAN
    BY <1>3
  <2> QED BY <1>1, <1>2, <1>3, <1>4, <2>1 DEF MigrationTypes
<1>6. AppliedOnce'
  BY <1>1, <1>3 DEF AppliedOnce
<1>7. SUFFICES ASSUME Undisturbed' PROVE (OwnFiles /\ OneCopy /\ BackedUp)'
  BY <1>5, <1>6 DEF MigrationInv
<1>8. OwnFiles /\ OneCopy /\ BackedUp
  BY <1>7, <1>3 DEF Undisturbed, MigrationInv
<1>9. \A q \in Openers : q # p /\ Build[q] = t => opener[q].at \notin Copying
  BY <1>7, <1>3 DEF Undisturbed, Copying
<1>10. ~ (backup[t] # NoFile /\ holds[backup[t]] < t)
  <2>1. holds[backup[t]] \in Nat /\ t < Torn
    BY <1>1 DEF MigrationTypes
  <2> QED BY <2>1, <1>3 DEF Usable
<1>11. t \notin reached
  BY <1>8, <1>10 DEF BackedUp
<1>12. f \in 1..openings /\ \A q \in Openers : q # p /\ opener[q].at # "out" => opener[q].file # f
  BY <1>3, <1>8 DEF OwnFiles
<1>13. OwnFiles'
  <2>1. \A u \in Targets : partial'[u] <= openings' /\ backup'[u] <= openings'
    <3>1. openings \in Nat
      BY <1>1 DEF MigrationTypes, Files
    <3> QED BY <3>1, <1>1, <1>3, <1>4, <1>8, <1>12 DEF OwnFiles, NoFile
  <2>2. ASSUME NEW q \in Openers, opener'[q].at # "out"
        PROVE  /\ opener'[q].file \in 1..openings'
               /\ \A u \in Targets : backup'[u] # opener'[q].file \/ opener'[q].at = "safe"
               /\ \A u \in Targets : opener'[q].at = "checked" => partial'[u] # opener'[q].file
    <3>1. opener[q].at # "out" /\ opener'[q].file = opener[q].file
      BY <2>2, <1>2, <1>3
    <3>2. opener'[q].file \in 1..openings'
      BY <3>1, <1>3, <1>8 DEF OwnFiles
    <3>3. \A u \in Targets : backup'[u] # opener'[q].file \/ opener'[q].at = "safe"
      <4>1. CASE q = p
        BY <4>1, <3>1, <3>2, <1>3, <1>4, <1>8 DEF OwnFiles, NoFile
      <4>2. CASE q # p
        BY <4>2, <2>2, <3>1, <3>2, <1>2, <1>4, <1>8 DEF OwnFiles, NoFile
      <4> QED BY <4>1, <4>2
    <3>4. \A u \in Targets : opener'[q].at = "checked" => partial'[u] # opener'[q].file
      <4>1. CASE q = p
        BY <4>1, <1>2
      <4>2. CASE q # p
        BY <4>2, <2>2, <1>2, <1>4, <1>8, <1>12 DEF OwnFiles
      <4> QED BY <4>1, <4>2
    <3> QED BY <3>2, <3>3, <3>4
  <2>3. ASSUME NEW q \in Openers, NEW r \in Openers, opener'[q].at # "out",
               opener'[r].at # "out", opener'[r].file = opener'[q].file
        PROVE  r = q
    <3>1. /\ opener[q].at # "out" /\ opener'[q].file = opener[q].file
          /\ opener[r].at # "out" /\ opener'[r].file = opener[r].file
      BY <2>3, <1>2, <1>3
    <3> QED BY <2>3, <3>1, <1>8 DEF OwnFiles
  <2> QED BY <2>1, <2>2, <2>3 DEF OwnFiles
<1>14. OneCopy'
  <2>1. ASSUME NEW q \in Openers, opener'[q].at \in Copying, q # p
        PROVE  Build[q] # t /\ opener'[q] = opener[q] /\ opener[q].at \in Copying
    BY <2>1, <1>2, <1>9
  <2>2. ASSUME NEW q \in Openers, opener'[q].at \in Copying
        PROVE  partial'[Build[q]] = opener'[q].file /\ backup'[Build[q]] = NoFile
    <3>1. CASE q = p
      BY <3>1, <1>2, <1>4
    <3>2. CASE q # p
      BY <3>2, <2>1, <2>2, <1>4, <1>8 DEF OneCopy
    <3> QED BY <3>1, <3>2
  <2>3. ASSUME NEW q \in Openers, NEW r \in Openers, opener'[q].at \in Copying,
               opener'[r].at \in Copying, Build[r] = Build[q]
        PROVE  r = q
    BY <2>1, <2>3, <1>8 DEF OneCopy
  <2>4. ASSUME NEW q \in Openers, opener'[q].at = "copied"
        PROVE  Spare_(opener[q].file, Build[q])'
    BY <2>4, <1>2, <1>3, <1>8 DEF OneCopy, Copying, Spare_
  <2> QED BY <2>2, <2>3, <2>4 DEF OneCopy, Spare_
<1>15. BackedUp'
  <2>1. \A u \in Targets : backup'[u] # NoFile => Spare_(backup[u], u) /\ backup'[u] = backup[u]
    BY <1>4, <1>8 DEF BackedUp
  <2>2. \A u \in reached : backup'[u] # NoFile /\ holds[backup'[u]] < u
    BY <1>1, <1>4, <1>8, <1>11 DEF BackedUp, MigrationTypes
  <2>3. ASSUME NEW q \in Openers, opener'[q].at = "safe"
        PROVE  \/ schema >= Build[q]
               \/ backup'[Build[q]] # NoFile /\ holds[backup'[Build[q]]] < Build[q]
    <3>1. q # p /\ opener[q].at = "safe"
      BY <2>3, <1>2
    <3>2. \/ schema >= Build[q]
          \/ backup[Build[q]] # NoFile /\ holds[backup[Build[q]]] < Build[q]
      BY <3>1, <1>8 DEF BackedUp
    <3> QED BY <3>2, <1>4, <1>10
  <2> QED BY <2>1, <2>2, <2>3, <1>3 DEF BackedUp, Spare_
<1> QED BY <1>13, <1>14, <1>15

\* a copy ends: its file is its own, and nobody has reached its target
LEMMA FinishCopyKeepsTheInvariant ==
  ASSUME MigrationInv, NEW p \in Openers, finish_copy(p)
  PROVE  MigrationInv'
<1> USE Numbers
<1> DEFINE t == Build[p]
           f == opener[p].file
<1>1. MigrationTypes /\ AppliedOnce
  BY DEF MigrationInv
<1>2. /\ opener' \in [Openers -> [at : Places, file : Files]]
      /\ opener'[p].at = "copied" /\ opener'[p].file = f
      /\ \A q \in Openers : q # p => opener'[q] = opener[q]
  BY <1>1, Moved, MovedOn DEF GoTo, Places, finish_copy
<1>3. /\ UNCHANGED <<held, schema, applied, reached, partial, backup, openings, raced>>
      /\ opener[p].at = "copying" /\ f \in Files
  BY <1>1, MovedOn DEF finish_copy
<1>4. /\ holds' \in [Files -> Nat] /\ holds'[f] = schema
      /\ \A g \in Files : g # f => holds'[g] = holds[g]
  BY <1>1, <1>3 DEF finish_copy, MigrationTypes
<1>5. MigrationTypes' /\ AppliedOnce'
  BY <1>1, <1>2, <1>3, <1>4 DEF MigrationTypes, AppliedOnce
<1>6. SUFFICES ASSUME Undisturbed' PROVE (OwnFiles /\ OneCopy /\ BackedUp)'
  BY <1>5 DEF MigrationInv
<1>7. OwnFiles /\ OneCopy /\ BackedUp
  BY <1>6, <1>3 DEF Undisturbed, MigrationInv
<1>8. /\ \A u \in Targets : backup[u] # f /\ backup[u] \in Files
      /\ \A q \in Openers : q # p /\ opener[q].at # "out" => opener[q].file # f /\ opener[q].file \in Files
  BY <1>1, <1>3, <1>7 DEF OwnFiles, MigrationTypes
<1>9. t \notin reached
  BY <1>3, <1>7 DEF OneCopy, BackedUp, Copying
<1>10. OwnFiles'
  BY <1>2, <1>3, <1>7 DEF OwnFiles
<1>11. OneCopy'
  <2>1. schema < t \/ schema >= t
    BY <1>1 DEF MigrationTypes
  <2>2. Spare_(opener[p].file, Build[p])'
    BY <2>1, <1>2, <1>3, <1>4, <1>9 DEF Spare_
  <2>3. ASSUME NEW q \in Openers, q # p, opener'[q].at = "copied"
        PROVE  Spare_(opener[q].file, Build[q])'
    <3>1. opener[q].at = "copied" /\ opener'[q] = opener[q]
      BY <2>3, <1>2
    <3>2. Spare_(opener[q].file, Build[q])
      BY <3>1, <1>7 DEF OneCopy, Copying
    <3> QED BY <3>1, <3>2, <2>3, <1>3, <1>4, <1>8 DEF Spare_
  <2>4. \A q \in Openers : opener'[q].at = "copied" => Spare_(opener[q].file, Build[q])'
    BY <2>2, <2>3
  <2>5. \A q \in Openers : opener'[q].at \in Copying => opener[q].at \in Copying /\ opener'[q].file = opener[q].file
    BY <1>2, <1>3 DEF Copying
  <2> QED BY <2>4, <2>5, <1>3, <1>7 DEF OneCopy
<1>12. BackedUp'
  <2>1. \A u \in Targets : holds'[backup[u]] = holds[backup[u]]
    BY <1>4, <1>8
  <2>2. \A q \in Openers : opener'[q].at = "safe" => opener[q].at = "safe"
    BY <1>2
  <2> QED BY <2>1, <2>2, <1>1, <1>3, <1>7 DEF BackedUp, Spare_, MigrationTypes
<1> QED BY <1>10, <1>11, <1>12

\* a finished copy becomes the recovery point: what it renames is its own file
LEMMA ReplaceKeepsTheInvariant ==
  ASSUME MigrationInv, NEW p \in Openers, replace(p)
  PROVE  MigrationInv'
<1> USE Numbers
<1> DEFINE t == Build[p]
           f == opener[p].file
<1>1. MigrationTypes /\ AppliedOnce
  BY DEF MigrationInv
<1>2. CASE partial[t] = NoFile
  BY <1>2, LeavingKeepsTheInvariant DEF replace
<1>3. CASE partial[t] # NoFile
  <2>1. /\ opener' \in [Openers -> [at : Places, file : Files]]
        /\ opener'[p].at = "safe" /\ opener'[p].file = f
        /\ \A q \in Openers : q # p => opener'[q] = opener[q]
    BY <1>1, <1>3, Moved, MovedOn DEF GoTo, Places, replace
  <2>2. /\ UNCHANGED <<held, schema, applied, reached, holds, openings, raced>>
        /\ opener[p].at = "copied"
    BY DEF replace
  <2>3. /\ backup' \in [Targets -> Files] /\ backup'[t] = partial[t]
        /\ \A u \in Targets : u # t => backup'[u] = backup[u]
        /\ partial' \in [Targets -> Files] /\ partial'[t] = NoFile
        /\ \A u \in Targets : u # t => partial'[u] = partial[u]
    BY <1>1, <1>3 DEF replace, MigrationTypes
  <2>4. MigrationTypes' /\ AppliedOnce'
    BY <1>1, <2>1, <2>2, <2>3 DEF MigrationTypes, AppliedOnce
  <2>5. SUFFICES ASSUME Undisturbed' PROVE (OwnFiles /\ OneCopy /\ BackedUp)'
    BY <2>4 DEF MigrationInv
  <2>6. OwnFiles /\ OneCopy /\ BackedUp
    BY <2>5, <2>2 DEF Undisturbed, MigrationInv
  <2>7. partial[t] = f /\ backup[t] = NoFile /\ Spare_(f, t) /\ f \in 1..openings
    BY <2>2, <2>6 DEF OneCopy, OwnFiles, Copying
  <2>8. t \notin reached
    BY <2>6, <2>7 DEF BackedUp
  <2>9. \A q \in Openers : q # p /\ opener[q].at # "out" => opener[q].file # f /\ opener[q].file \in 1..openings
    BY <2>2, <2>6 DEF OwnFiles
  <2>10. openings \in Nat
    BY <1>1 DEF MigrationTypes, Files
  <2>11. OwnFiles'
    <3>1. \A u \in Targets : partial'[u] <= openings' /\ backup'[u] <= openings'
      BY <2>2, <2>3, <2>6, <2>7, <2>10 DEF OwnFiles, NoFile
    <3>2. ASSUME NEW q \in Openers, opener'[q].at # "out"
          PROVE  /\ opener'[q].file \in 1..openings'
                 /\ \A u \in Targets : backup'[u] # opener'[q].file \/ opener'[q].at = "safe"
                 /\ \A u \in Targets : opener'[q].at = "checked" => partial'[u] # opener'[q].file
      <4>1. CASE q = p
        BY <4>1, <2>1, <2>2, <2>7
      <4>2. CASE q # p
        <5>1. opener'[q] = opener[q] /\ opener[q].file # f /\ opener[q].file \in 1..openings
          BY <4>2, <3>2, <2>1, <2>9
        <5>2. \A u \in Targets : backup'[u] # opener'[q].file \/ opener'[q].at = "safe"
          BY <5>1, <3>2, <2>3, <2>6, <2>7 DEF OwnFiles
        <5>3. \A u \in Targets : opener'[q].at = "checked" => partial'[u] # opener'[q].file
          BY <5>1, <3>2, <2>3, <2>6 DEF OwnFiles, NoFile
        <5> QED BY <5>1, <5>2, <5>3, <2>2
      <4> QED BY <4>1, <4>2
    <3>3. ASSUME NEW q \in Openers, NEW r \in Openers, opener'[q].at # "out",
                 opener'[r].at # "out", opener'[r].file = opener'[q].file
          PROVE  r = q
      <4>1. /\ opener[q].at # "out" /\ opener'[q].file = opener[q].file
            /\ opener[r].at # "out" /\ opener'[r].file = opener[r].file
        BY <3>3, <2>1, <2>2
      <4> QED BY <3>3, <4>1, <2>6 DEF OwnFiles
    <3> QED BY <3>1, <3>2, <3>3 DEF OwnFiles
  <2>12. OneCopy'
    <3>1. ASSUME NEW q \in Openers, opener'[q].at \in Copying
          PROVE  q # p /\ opener'[q] = opener[q] /\ opener[q].at \in Copying /\ Build[q] # t
      BY <3>1, <2>1, <2>2, <2>6 DEF OneCopy, Copying
    <3>2. ASSUME NEW q \in Openers, opener'[q].at \in Copying
          PROVE  partial'[Build[q]] = opener'[q].file /\ backup'[Build[q]] = NoFile
      BY <3>1, <3>2, <2>3, <2>6 DEF OneCopy
    <3> QED BY <3>1, <3>2, <2>2, <2>6 DEF OneCopy, Spare_
  <2>13. BackedUp'
    <3>1. \A u \in Targets : backup'[u] # NoFile => Spare_(backup'[u], u)
      BY <2>3, <2>6, <2>7 DEF BackedUp
    <3>2. \A u \in reached : backup'[u] # NoFile /\ holds[backup'[u]] < u
      BY <1>1, <2>3, <2>6, <2>8 DEF BackedUp, MigrationTypes
    <3>3. schema >= t \/ (f # NoFile /\ holds[f] < t)
      BY <2>7 DEF Spare_, NoFile
    <3>4. ASSUME NEW q \in Openers, opener'[q].at = "safe"
          PROVE  \/ schema >= Build[q]
                 \/ backup'[Build[q]] # NoFile /\ holds[backup'[Build[q]]] < Build[q]
      <4>1. CASE Build[q] = t
        BY <4>1, <3>3, <2>3, <2>7
      <4>2. CASE Build[q] # t
        BY <4>2, <3>4, <2>1, <2>3, <2>6 DEF BackedUp
      <4> QED BY <4>1, <4>2
    <3> QED BY <3>1, <3>2, <3>4, <2>2 DEF BackedUp, Spare_
  <2> QED BY <2>11, <2>12, <2>13
<1> QED BY <1>2, <1>3

\* the schema only rises, and to a target that is backed up
LEMMA MigrateKeepsTheInvariant ==
  ASSUME MigrationInv, NEW p \in Openers, migrate(p)
  PROVE  MigrationInv'
<1> USE Numbers
<1> DEFINE t == Build[p]
<1>1. MigrationTypes /\ AppliedOnce
  BY DEF MigrationInv
<1>2. CASE ~ (schema < t)
  BY <1>2, LeavingKeepsTheInvariant DEF migrate
<1>3. CASE schema < t
  <2>1. /\ opener' \in [Openers -> [at : Places, file : Files]]
        /\ opener'[p].at = "out"
        /\ \A q \in Openers : q # p => opener'[q] = opener[q]
    BY <1>1, Moved DEF Leave, Places, migrate
  <2>2. /\ UNCHANGED <<held, partial, backup, holds, openings, raced>>
        /\ opener[p].at = "safe" /\ schema' = t /\ reached' = reached \cup {t}
    BY <1>3 DEF migrate
  <2>3. applied' = [v \in 1..LatestBuild |->
                      applied[v] + (IF v \in schema + 1 .. t THEN 1 ELSE 0)]
    BY <1>3 DEF migrate
  <2>4. \A v \in 1..LatestBuild : applied'[v] = applied[v] + (IF v \in schema + 1 .. t THEN 1 ELSE 0)
    BY <2>3
  <2>5. schema \in Nat /\ t \in Nat
    BY <1>1 DEF MigrationTypes
  <2>6. applied' \in [1..LatestBuild -> Nat]
    BY <1>1, <2>3 DEF MigrationTypes
  <2>7. MigrationTypes'
    BY <1>1, <2>1, <2>2, <2>6 DEF MigrationTypes
  <2>8. AppliedOnce'
    <3> SUFFICES ASSUME NEW v \in 1..LatestBuild
                 PROVE  applied'[v] <= 1 /\ (v > schema' => applied'[v] = 0)
      BY DEF AppliedOnce
    <3>1. applied[v] \in Nat /\ applied[v] <= 1 /\ (v > schema => applied[v] = 0) /\ v \in Nat
      BY <1>1 DEF AppliedOnce, MigrationTypes
    <3>2. CASE v \in schema + 1 .. t
      BY <3>1, <3>2, <2>2, <2>4, <2>5
    <3>3. CASE v \notin schema + 1 .. t
      <4>1. applied'[v] = applied[v]
        BY <3>1, <3>3, <2>4
      <4>2. v > t => v > schema
        BY <3>1, <1>3, <2>5
      <4> QED BY <4>1, <4>2, <3>1, <2>2
    <3> QED BY <3>2, <3>3
  <2>9. SUFFICES ASSUME Undisturbed' PROVE (OwnFiles /\ OneCopy /\ BackedUp)'
    BY <2>7, <2>8 DEF MigrationInv
  <2>10. OwnFiles /\ OneCopy /\ BackedUp
    BY <2>9, <2>2 DEF Undisturbed, MigrationInv
  <2>11. backup[t] # NoFile /\ holds[backup[t]] < t
    BY <2>2, <2>5, <2>10, <1>3 DEF BackedUp
  <2>12. \A g \in Files, u \in Targets : Spare_(g, u) /\ (u = t => holds[g] < u) => Spare_(g, u)'
    BY <1>3, <2>2, <2>5 DEF Spare_
  <2>13. OwnFiles'
    BY <2>1, <2>2, <2>10 DEF OwnFiles
  <2>14. OneCopy'
    <3>1. ASSUME NEW q \in Openers, opener'[q].at \in Copying
          PROVE  opener'[q] = opener[q] /\ opener[q].at \in Copying /\ Build[q] # t
      BY <3>1, <2>1, <2>10, <2>11 DEF OneCopy, Copying
    <3>2. ASSUME NEW q \in Openers, opener'[q].at = "copied"
          PROVE  Spare_(opener[q].file, Build[q])'
      <4>1. Spare_(opener[q].file, Build[q]) /\ Build[q] # t /\ opener'[q] = opener[q]
        BY <3>1, <3>2, <2>10 DEF OneCopy, Copying
      <4>2. opener[q].file \in Files /\ Build[q] \in Targets
        BY <1>1, MovedOn
      <4>3. schema >= Build[q] => t >= Build[q]
        BY <4>2, <1>3, <2>5
      <4> QED BY <4>1, <4>3, <2>2 DEF Spare_
    <3> QED BY <3>1, <3>2, <2>2, <2>10 DEF OneCopy
  <2>15. BackedUp'
    <3>1. \A u \in Targets : backup[u] # NoFile => Spare_(backup[u], u)'
      BY <2>2, <2>10, <2>11, <2>12, <1>1 DEF BackedUp, MigrationTypes
    <3>2. \A u \in reached' : backup[u] # NoFile /\ holds[backup[u]] < u
      BY <2>2, <2>10, <2>11 DEF BackedUp
    <3>3. ASSUME NEW q \in Openers, opener'[q].at = "safe"
          PROVE  \/ t >= Build[q]
                 \/ backup[Build[q]] # NoFile /\ holds[backup[Build[q]]] < Build[q]
      <4>1. opener[q].at = "safe" /\ Build[q] \in Nat
        BY <3>3, <2>1
      <4>2. schema >= Build[q] => t >= Build[q]
        BY <4>1, <1>3, <2>5
      <4> QED BY <4>1, <4>2, <2>10 DEF BackedUp
    <3> QED BY <3>1, <3>2, <3>3, <2>2 DEF BackedUp
  <2> QED BY <2>13, <2>14, <2>15
<1> QED BY <1>2, <1>3

LEMMA MigrationInvariant == MigrationSpec => []MigrationInv
<1>1. MigrationInit => MigrationInv
  BY MigrationStarts
<1>2. MigrationInv /\ [MigrationNext]_migrationVars => MigrationInv'
  <2> SUFFICES ASSUME MigrationInv, [MigrationNext]_migrationVars PROVE MigrationInv'
    OBVIOUS
  <2>1. ASSUME NEW p \in Openers, get_version(p) PROVE MigrationInv'
    BY <2>1, GetVersionKeepsTheInvariant
  <2>2. ASSUME NEW p \in Openers, no_backup_needed(p) PROVE MigrationInv'
    BY <2>2, NoBackupNeededKeepsTheInvariant
  <2>3. ASSUME NEW p \in Openers, start_backup(p) PROVE MigrationInv'
    BY <2>3, StartBackupKeepsTheInvariant
  <2>4. ASSUME NEW p \in Openers, finish_copy(p) PROVE MigrationInv'
    BY <2>4, FinishCopyKeepsTheInvariant
  <2>5. ASSUME NEW p \in Openers, replace(p) PROVE MigrationInv'
    BY <2>5, ReplaceKeepsTheInvariant
  <2>6. ASSUME NEW p \in Openers, migrate(p) PROVE MigrationInv'
    BY <2>6, MigrateKeepsTheInvariant
  <2>7. ASSUME NEW p \in Openers, interrupt_backup(p) PROVE MigrationInv'
    BY <2>7, InterruptKeepsTheInvariant
  <2>8. ASSUME NEW p \in Openers, die(p) PROVE MigrationInv'
    BY <2>8, LeavingKeepsTheInvariant DEF die
  <2>9. CASE UNCHANGED migrationVars
    <3>1. MigrationTypes' /\ AppliedOnce'
      BY <2>9 DEF MigrationInv, MigrationTypes, AppliedOnce, migrationVars
    <3>2. (OwnFiles => OwnFiles') /\ (OneCopy => OneCopy') /\ (BackedUp => BackedUp')
      BY <2>9 DEF OwnFiles, OneCopy, BackedUp, Spare_, migrationVars
    <3> QED BY <3>1, <3>2, <2>9 DEF MigrationInv, Undisturbed, migrationVars
  <2> QED BY <2>1, <2>2, <2>3, <2>4, <2>5, <2>6, <2>7, <2>8, <2>9 DEF MigrationNext
<1> QED BY <1>1, <1>2, PTL DEF MigrationSpec

(* However many processes of however many builds open a database, and      *)
(* whichever of them die: no migration is applied twice, and the recovery  *)
(* point of every target reached is a complete copy of older data, unless  *)
(* two processes of one build copied it at the same time.                  *)
THEOREM MigrationSafe == MigrationSpec => []MigrationIsSafe
<1>1. MigrationInv => MigrationIsSafe
  BY DEF MigrationInv, MigrationIsSafe, AppliedOnce, BackedUp, Undisturbed
<1> QED BY <1>1, MigrationInvariant, PTL

-----------------------------------------------------------------------------
(* Retention.                                                              *)

RetentionSpec == RetentionInit /\ [][RetentionNext]_retentionVars

LEMMA DivBounds ==
  ASSUME NEW a \in Nat, NEW n \in Nat \ {0}
  PROVE  a \div n \in Nat /\ n * (a \div n) <= a /\ a < n * (a \div n) + n
OBVIOUS

LEMMA DivUnique ==
  ASSUME NEW a \in Nat, NEW n \in Nat \ {0}, NEW q \in Nat, n * q <= a, a < n * q + n
  PROVE  a \div n = q
<1> DEFINE p == a \div n
<1>1. p \in Nat /\ n * p <= a /\ a < n * p + n
  BY DivBounds
<1> HIDE DEF p
<1>2. CASE p < q
  <2>1. n * (p + 1) <= n * q /\ n * (p + 1) = n * p + n
    BY <1>1, <1>2
  <2> QED BY <2>1, <1>1
<1>3. CASE q < p
  <2>1. n * (q + 1) <= n * p /\ n * (q + 1) = n * q + n
    BY <1>1, <1>3
  <2> QED BY <2>1, <1>1
<1> QED BY <1>1, <1>2, <1>3 DEF p

LEMMA Multiple ==
  ASSUME NEW m \in Nat \ {0}, NEW n \in Nat \ {0}, n % m = 0
  PROVE  \E k \in Nat \ {0} : n = k * m
<1>1. n = m * (n \div m) + (n % m) /\ n \div m \in Nat
  OBVIOUS
<1>2. n = (n \div m) * m /\ n \div m # 0
  BY <1>1
<1> QED BY <1>1, <1>2

\* instants in one small bucket are in one large bucket
LEMMA BucketsNest ==
  ASSUME NEW a \in Nat, NEW b \in Nat, NEW m \in Nat \ {0}, NEW n \in Nat \ {0},
         n % m = 0, a \div m = b \div m
  PROVE  a \div n = b \div n
<1>1. PICK k \in Nat \ {0} : n = k * m
  BY Multiple
<1> DEFINE x == a \div m
           q == a \div n
<1>2. x \in Nat /\ m * x <= a /\ a < m * x + m /\ m * x <= b /\ b < m * x + m
  BY DivBounds
<1>3. q \in Nat /\ n * q <= a /\ a < n * q + n
  BY DivBounds
<1> HIDE DEF x, q
<1>4. n * q = m * (k * q) /\ n * q + n = m * (k * q + k) /\ m * x + m = m * (x + 1)
      /\ k * q \in Nat
  BY <1>1, <1>2, <1>3
<1> DEFINE y == k * q
<1>5. y \in Nat /\ m * y <= a /\ a < m * (y + k) /\ n * q = m * y /\ n * q + n = m * (y + k)
  BY <1>3, <1>4
<1> HIDE DEF y
<1>6. y <= x
  <2> SUFFICES ASSUME x + 1 <= y PROVE FALSE
    BY <1>2, <1>5
  <2>1. m * (x + 1) <= m * y
    BY <1>2, <1>5
  <2> QED BY <2>1, <1>2, <1>4, <1>5
<1>7. x + 1 <= y + k
  <2> SUFFICES ASSUME y + k <= x PROVE FALSE
    BY <1>2, <1>5
  <2>1. m * (y + k) <= m * x
    BY <1>2, <1>5
  <2> QED BY <2>1, <1>2, <1>5
<1>8. m * y <= m * x /\ m * (x + 1) <= m * (y + k)
  BY <1>2, <1>5, <1>6, <1>7
<1>9. n * q <= b /\ b < n * q + n
  <2>1. m * x \in Nat /\ m * y \in Nat /\ m * (x + 1) \in Nat /\ m * (y + k) \in Nat
    BY <1>2, <1>5
  <2> QED BY <2>1, <1>2, <1>4, <1>5, <1>8
<1>10. b \div n = q
  BY <1>3, <1>9, DivUnique
<1> QED BY <1>10 DEF q

\* two instants that share a bucket at an age share one at every later age
LEMMA SharedForGood ==
  ASSUME NEW s \in Nat, NEW t \in Nat, NEW age \in Nat, NEW later \in Nat, age <= later,
         Bucket(s, age) = Bucket(t, age)
  PROVE  Bucket(s, later) = Bucket(t, later)
<1> DEFINE hour(x) == x \div Hour
           day(x)  == x \div Day
           week(x) == x \div Week
<1>1. /\ {Hour, Day, Week} \subseteq Nat \ {0} /\ Day % Hour = 0 /\ Week % Day = 0
      /\ KeepAll \in Nat /\ KeepHourly \in Nat /\ KeepDaily \in Nat
      /\ KeepAll <= KeepHourly /\ KeepHourly <= KeepDaily
  BY RetentionAssumption
<1>2. hour(s) = hour(t) => day(s) = day(t)
  BY <1>1, BucketsNest
<1>3. day(s) = day(t) => week(s) = week(t)
  BY <1>1, BucketsNest
<1>4. \A x \in Nat, a \in Nat : Bucket(x, a) =
        IF a <= KeepAll THEN <<"all", x>>
        ELSE IF a <= KeepHourly THEN <<"hourly", hour(x)>>
        ELSE IF a <= KeepDaily THEN <<"daily", day(x)>>
        ELSE <<"weekly", week(x)>>
  BY DEF Bucket
<1> HIDE DEF hour, day, week
<1>5. CASE later <= KeepAll
  BY <1>1, <1>4, <1>5
<1>6. CASE age <= KeepAll
  BY <1>4, <1>6
<1>7. CASE ~ (age <= KeepAll) /\ ~ (later <= KeepAll)
  <2>1. \/ age <= KeepHourly /\ hour(s) = hour(t)
        \/ ~ (age <= KeepHourly) /\ age <= KeepDaily /\ day(s) = day(t)
        \/ ~ (age <= KeepHourly) /\ ~ (age <= KeepDaily) /\ week(s) = week(t)
    BY <1>4, <1>7
  <2>2. week(s) = week(t) /\ (later <= KeepDaily => day(s) = day(t))
        /\ (later <= KeepHourly => hour(s) = hour(t))
    BY <2>1, <1>1, <1>2, <1>3
  <2>3. \A x \in {s, t} : Bucket(x, later) =
          IF later <= KeepHourly THEN <<"hourly", hour(x)>>
          ELSE IF later <= KeepDaily THEN <<"daily", day(x)>>
          ELSE <<"weekly", week(x)>>
    BY <1>4, <1>7
  <2> QED BY <2>2, <2>3
<1> QED BY <1>5, <1>6, <1>7

\* instants in one bucket, each at its age: at the age of the earlier too
LEMMA SharedAtBothAges ==
  ASSUME NEW s \in Nat, NEW t \in Nat, NEW now \in Nat, s <= t, t <= now,
         Bucket(t, now - t) = Bucket(s, now - s)
  PROVE  Bucket(t, now - s) = Bucket(s, now - s)
<1>1. now - t \in Nat /\ now - s \in Nat /\ now - t <= now - s
  OBVIOUS
<1>2. KeepAll \in Nat /\ KeepHourly \in Nat /\ KeepDaily \in Nat
      /\ KeepAll <= KeepHourly /\ KeepHourly <= KeepDaily
  BY RetentionAssumption
<1> DEFINE a == now - t
           b == now - s
<1>3. a \in Nat /\ b \in Nat /\ a <= b /\ Bucket(t, a) = Bucket(s, b)
  BY <1>1
<1> HIDE DEF a, b
<1>4. Bucket(t, b) = Bucket(s, b)
  BY <1>2, <1>3 DEF Bucket
<1> QED BY <1>4 DEF b

\* t is of the revision r and shares the bucket that s has now
Stands(t, s, r) ==
  t >= s /\ shots[t] = r /\ Bucket(t, clock - s) = Bucket(s, clock - s)

RetentionInv ==
  /\ clock \in Nat
  /\ DOMAIN taken \subseteq 0..clock - 1 /\ DOMAIN shots \subseteq DOMAIN taken
  /\ \A s \in DOMAIN shots : shots[s] = taken[s]
  /\ doomed \subseteq DOMAIN shots
  /\ \A s \in DOMAIN taken : \E t \in DOMAIN shots : Stands(t, s, taken[s])
  /\ \A d \in doomed : \E t \in DOMAIN shots \ doomed : Stands(t, d, shots[d])

\* who stands for one that stands for s stands for s
LEMMA StandsForBoth ==
  ASSUME clock \in Nat, NEW s \in 0..clock - 1, NEW t \in 0..clock - 1, NEW u \in 0..clock - 1,
         NEW r, Stands(t, s, r), Stands(u, t, r)
  PROVE  Stands(u, s, r)
<1>1. s \in Nat /\ t \in Nat /\ u \in Nat /\ clock - s \in Nat /\ clock - t \in Nat
  OBVIOUS
<1>2. t >= s /\ u >= t /\ shots[u] = r
      /\ Bucket(t, clock - s) = Bucket(s, clock - s)
      /\ Bucket(u, clock - t) = Bucket(t, clock - t)
  BY DEF Stands
<1>3. clock - t <= clock - s /\ u >= s
  BY <1>1, <1>2
<1>4. Bucket(u, clock - s) = Bucket(t, clock - s)
  BY <1>1, <1>2, <1>3, SharedForGood
<1> QED BY <1>2, <1>3, <1>4 DEF Stands

\* what a plan dooms leaves the last of its bucket to stand for it
LEMMA PlanKeepsTheInvariant ==
  ASSUME RetentionInv, plan
  PROVE  RetentionInv'
<1>1. doomed' = DOMAIN shots \ Kept /\ UNCHANGED <<clock, revision, shots, pins, taken>>
  BY DEF plan
<1>2. clock \in Nat /\ DOMAIN shots \subseteq 0..clock - 1
  BY DEF RetentionInv
<1>3. ASSUME NEW d \in DOMAIN shots, d \notin Kept
      PROVE  \E t \in Kept : Stands(t, d, shots[d])
  <2>1. Peers(d) \subseteq DOMAIN shots /\ d \in Peers(d)
    BY DEF Peers
  <2>2. IsFiniteSet(Peers(d)) /\ Peers(d) \subseteq Nat
    <3>1. IsFiniteSet(0..clock - 1)
      BY <1>2, FS_Interval
    <3> QED BY <3>1, <2>1, <1>2, FS_Subset
  <2>3. PICK t \in Peers(d) : \A u \in Peers(d) : u <= t
    BY <2>1, <2>2, Greatest DEF HasGreatest
  <2>4. t \in DOMAIN shots /\ shots[t] = shots[d] /\ Bucket(t, clock - t) = Bucket(d, clock - d)
    BY <2>3 DEF Peers
  <2>5. Peers(t) = Peers(d)
    BY <2>4 DEF Peers
  <2>6. t \in Kept
    BY <2>3, <2>4, <2>5 DEF Kept, IsRepresentative
  <2>7. d <= t /\ t <= clock /\ d \in Nat /\ t \in Nat
    BY <1>2, <2>1, <2>3, <2>4
  <2>8. Bucket(t, clock - d) = Bucket(d, clock - d)
    BY <1>2, <2>4, <2>7, SharedAtBothAges
  <2> QED BY <2>4, <2>6, <2>7, <2>8 DEF Stands
<1>4. Kept \subseteq DOMAIN shots
  BY DEF Kept
<1>5. \A d \in doomed' : \E t \in DOMAIN shots \ doomed' : Stands(t, d, shots[d])
  BY <1>1, <1>3, <1>4
<1>6. doomed' \subseteq DOMAIN shots
  BY <1>1
<1> QED BY <1>1, <1>5, <1>6 DEF RetentionInv, Stands

\* whatever part of the doomed goes, one that stays stands for those that go
LEMMA DeletingKeepsTheInvariant ==
  ASSUME RetentionInv, delete_retention_snapshots
  PROVE  RetentionInv'
<1>1. PICK gone \in SUBSET doomed : shots' = [s \in DOMAIN shots \ gone |-> shots[s]]
  BY DEF delete_retention_snapshots
<1>2. doomed' = {} /\ UNCHANGED <<clock, revision, pins, taken>>
  BY DEF delete_retention_snapshots
<1>3. DOMAIN shots' = DOMAIN shots \ gone /\ \A t \in DOMAIN shots \ gone : shots'[t] = shots[t]
  BY <1>1
<1>4. /\ clock \in Nat /\ DOMAIN taken \subseteq 0..clock - 1 /\ DOMAIN shots \subseteq DOMAIN taken
      /\ \A s \in DOMAIN shots : shots[s] = taken[s]
  BY DEF RetentionInv
<1>5. ASSUME NEW s \in DOMAIN taken
      PROVE  \E t \in DOMAIN shots \ gone : Stands(t, s, taken[s])
  <2>1. PICK t \in DOMAIN shots : Stands(t, s, taken[s])
    BY DEF RetentionInv
  <2>2. CASE t \in gone
    <3>1. t \in doomed /\ shots[t] = taken[s]
      BY <1>1, <2>1, <2>2 DEF Stands
    <3>2. PICK u \in DOMAIN shots \ doomed : Stands(u, t, taken[s])
      BY <3>1 DEF RetentionInv
    <3>3. Stands(u, s, taken[s])
      BY <1>4, <2>1, <3>2, StandsForBoth
    <3> QED BY <1>1, <3>2, <3>3
  <2> QED BY <2>1, <2>2
<1>6. \A s \in DOMAIN taken' : \E t \in DOMAIN shots' : Stands(t, s, taken[s])'
  BY <1>2, <1>3, <1>5 DEF Stands
<1> QED BY <1>2, <1>3, <1>4, <1>6 DEF RetentionInv

\* time may move a snapshot to a larger bucket, and its stand-in with it
LEMMA TakingKeepsTheInvariant ==
  ASSUME RetentionInv, take_snapshot
  PROVE  RetentionInv'
<1>1. /\ clock \in Nat /\ DOMAIN taken \subseteq 0..clock - 1 /\ DOMAIN shots \subseteq DOMAIN taken
      /\ \A s \in DOMAIN shots : shots[s] = taken[s]
      /\ doomed \subseteq DOMAIN shots
  BY DEF RetentionInv
<1>2. PICK new \in {{}, {clock}} :
        /\ shots' = [s \in DOMAIN shots \cup new |-> IF s \in new THEN revision ELSE shots[s]]
        /\ taken' = [s \in DOMAIN taken \cup new |-> IF s \in new THEN revision ELSE taken[s]]
  BY DEF take_snapshot
<1>3. clock' = clock + 1 /\ doomed' = doomed
  BY DEF take_snapshot
<1>4. new \subseteq {clock} /\ clock \notin DOMAIN taken /\ clock \notin DOMAIN shots
  BY <1>1, <1>2
<1>5. /\ DOMAIN shots' = DOMAIN shots \cup new /\ DOMAIN taken' = DOMAIN taken \cup new
      /\ \A s \in DOMAIN shots : shots'[s] = shots[s]
      /\ \A s \in DOMAIN taken : taken'[s] = taken[s]
      /\ \A s \in new : shots'[s] = revision /\ taken'[s] = revision
  BY <1>1, <1>2, <1>4
<1>6. DOMAIN taken' \subseteq 0..clock' - 1
  <2>1. 0..clock - 1 \subseteq 0..clock' - 1 /\ clock \in 0..clock' - 1
    BY <1>1, <1>3
  <2> QED BY <2>1, <1>1, <1>4, <1>5
<1>7. ASSUME NEW s \in 0..clock - 1, NEW t \in DOMAIN shots, NEW r, Stands(t, s, r)
      PROVE  Stands(t, s, r)'
  <2>1. s \in Nat /\ t \in Nat /\ clock - s \in Nat /\ clock' - s \in Nat /\ clock - s <= clock' - s
    BY <1>1, <1>3
  <2>2. Bucket(t, clock' - s) = Bucket(s, clock' - s)
    BY <2>1, <1>7, SharedForGood DEF Stands
  <2> QED BY <2>2, <1>5, <1>7 DEF Stands
<1>8. ASSUME NEW s \in DOMAIN taken'
      PROVE  \E t \in DOMAIN shots' : Stands(t, s, taken[s])'
  <2>1. CASE s \in DOMAIN taken
    <3>1. PICK t \in DOMAIN shots : Stands(t, s, taken[s])
      BY <2>1 DEF RetentionInv
    <3>2. s \in 0..clock - 1
      BY <2>1, <1>1
    <3>3. t >= s /\ shots'[t] = taken[s] /\ Bucket(t, clock' - s) = Bucket(s, clock' - s)
      BY <3>1, <3>2, <1>7 DEF Stands
    <3> QED BY <3>3, <2>1, <1>5 DEF Stands
  <2>2. CASE s \in new
    <3>1. s \in DOMAIN shots' /\ shots'[s] = taken'[s] /\ s >= s
      BY <2>2, <1>1, <1>4, <1>5
    <3> QED BY <3>1 DEF Stands
  <2> QED BY <2>1, <2>2, <1>5
<1>9. ASSUME NEW d \in doomed'
      PROVE  \E t \in DOMAIN shots' \ doomed' : Stands(t, d, shots[d])'
  <2>1. PICK t \in DOMAIN shots \ doomed : Stands(t, d, shots[d])
    BY <1>3 DEF RetentionInv
  <2>2. d \in 0..clock - 1 /\ d \in DOMAIN shots
    BY <1>1, <1>3
  <2>3. t >= d /\ shots'[t] = shots[d] /\ Bucket(t, clock' - d) = Bucket(d, clock' - d)
    BY <2>1, <2>2, <1>7 DEF Stands
  <2> QED BY <2>1, <2>2, <2>3, <1>3, <1>5 DEF Stands
<1>10. \A s \in DOMAIN shots' : shots'[s] = taken'[s]
  BY <1>1, <1>5
<1>11. clock' \in Nat /\ DOMAIN shots' \subseteq DOMAIN taken' /\ doomed' \subseteq DOMAIN shots'
  BY <1>1, <1>3, <1>5
<1> QED BY <1>6, <1>8, <1>9, <1>10, <1>11 DEF RetentionInv

LEMMA RetentionInvariant == RetentionSpec => []RetentionInv
<1>1. RetentionInit => RetentionInv
  BY DEF RetentionInit, RetentionInv
<1>2. RetentionInv /\ [RetentionNext]_retentionVars => RetentionInv'
  <2> SUFFICES ASSUME RetentionInv, [RetentionNext]_retentionVars PROVE RetentionInv'
    OBVIOUS
  <2>1. CASE plan
    BY <2>1, PlanKeepsTheInvariant
  <2>2. CASE delete_retention_snapshots
    BY <2>2, DeletingKeepsTheInvariant
  <2>3. CASE take_snapshot
    BY <2>3, TakingKeepsTheInvariant
  <2>4. ASSUME UNCHANGED <<clock, shots, doomed, taken>> PROVE RetentionInv'
    BY <2>4 DEF RetentionInv, Stands
  <2>5. CASE edit_definition
    BY <2>4, <2>5 DEF edit_definition
  <2>6. ASSUME NEW s, pin_snapshot(s) PROVE RetentionInv'
    BY <2>4, <2>6 DEF pin_snapshot
  <2>7. ASSUME NEW s, unpin_snapshot(s) PROVE RetentionInv'
    BY <2>4, <2>7 DEF unpin_snapshot
  <2>8. CASE UNCHANGED retentionVars
    BY <2>4, <2>8 DEF retentionVars
  <2> QED BY <2>1, <2>2, <2>3, <2>5, <2>6, <2>7, <2>8 DEF RetentionNext
<1> QED BY <1>1, <1>2, PTL DEF RetentionSpec

(* Whatever the lengths of the buckets (each a multiple of the one before  *)
(* it), however often a history is thinned and however time, pins and      *)
(* definitions change between a plan and its deletions: every snapshot     *)
(* ever taken is there or has a later one of its revision in its bucket,   *)
(* and the newest of every revision is there.                              *)
THEOREM HistoryRepresented == RetentionSpec => []HistoryIsRepresented
<1>1. RetentionInv => HistoryIsRepresented
  <2> SUFFICES ASSUME RetentionInv, NEW s \in DOMAIN taken
               PROVE  /\ \E t \in DOMAIN shots :
                           t >= s /\ shots[t] = taken[s] /\ Bucket(t, clock - s) = Bucket(s, clock - s)
                      /\ (\A t \in DOMAIN taken : t > s => taken[t] # taken[s]) => s \in DOMAIN shots
    BY DEF HistoryIsRepresented
  <2>1. PICK t \in DOMAIN shots : Stands(t, s, taken[s])
    BY DEF RetentionInv
  <2>2. t >= s /\ shots[t] = taken[s] /\ Bucket(t, clock - s) = Bucket(s, clock - s)
    BY <2>1 DEF Stands
  <2>3. t \in DOMAIN taken /\ taken[t] = taken[s] /\ t \in Nat /\ s \in Nat
    BY <2>2 DEF RetentionInv
  <2>4. ASSUME \A u \in DOMAIN taken : u > s => taken[u] # taken[s]
        PROVE  s \in DOMAIN shots
    <3>1. t = s
      BY <2>2, <2>3, <2>4
    <3> QED BY <3>1
  <2> QED BY <2>2, <2>4
<1> QED BY <1>1, RetentionInvariant, PTL

-----------------------------------------------------------------------------
(* Cleanup.                                                                *)

CleanupSpec == CleanupInit /\ [][CleanupNext]_cleanupVars

States == {"bare", "prepared", "aborted", "isolated", "restoring", "restored",
           "purging", "purged"}
Manifests == [action : Actions, by : {"trash", "quarantine"}, state : States]
Row == [status : Statuses, undo : Nat]
Targeted == [at : Nat, is : {"same", "changed", "gone"}, taken : BOOLEAN]
Moving == {"info", "rename", "isolate", "commit"}
Back == {"held", "return", "delete", "settle", "debit"}
InHand == {"trash", "unlink", "lock", "prepare", "record"} \cup Moving \cup Back
Ats == {"", "asked", "items", "unaudited"} \cup InHand
Hows == {"", "trash", "quarantine", "permanent"}
ClientRecord == [op : {"none", "apply", "undo", "purge"}, how : Hows, at : Ats,
                 action : Actions \cup {""}, todo : SUBSET Actions, move : Nat,
                 copy : [Actions -> Row] \cup {<<>>}, result : Row \cup {<<>>}]

ClientsTyped == client \in [Clients -> ClientRecord]
RestTyped ==
  /\ target \in [Actions -> Targeted] /\ moves \in Seq(Manifests)
  /\ rows \in [Actions -> Row] /\ lost \subseteq Actions

\* an apply does not touch what its copy says is done, an undo or a purge only
\* what the copy says was moved
Fits(k) ==
  /\ k.op # "none" => k.copy \in [Actions -> Row]
  /\ k.at = "unaudited" => k.op # "none"
  /\ k.op = "apply" /\ k.at # "unaudited" => \A a \in k.todo : k.copy[a].status # "succeeded"
  /\ k.op \in {"undo", "purge"} => \A a \in k.todo : k.copy[a].undo # Home
  /\ k.at \in InHand =>
       /\ k.op # "none" /\ k.action \in Actions /\ k.action \notin k.todo
       /\ k.op = "apply" => k.copy[k.action].status # "succeeded" /\ k.at \notin Back
       /\ k.op # "apply" => k.copy[k.action].undo # Home /\ k.at \in Back \cup {"record"}
  /\ k.at = "record" => k.result \in Row

\* who says that a target has gone from where it was moved is right
Gone(k, a) == target[a].at # k.copy[a].undo \/ target[a].is # "same"
SaysGone(k) ==
  \/ k.at \in {"settle", "debit"}
  \/ k.at = "record" /\ k.op # "apply" /\ k.result # k.copy[k.action]
Rightly(k) == SaysGone(k) => Gone(k, k.action)

\* the moves a client may put into a row
Mentions(k, n) ==
  \/ k.op # "none" /\ \E a \in Actions : k.copy[a].undo = n
  \/ k.at = "record" /\ k.result.undo = n
  \/ k.at \in Moving /\ k.move = n

RowsMention(n) == \E a \in Actions : rows[a].undo = n

\* nobody knows of a move that is yet to be made
Numbered ==
  /\ \A n \in Nat : RowsMention(n) => n <= Len(moves)
  /\ \A c \in Clients, n \in Nat : Mentions(client[c], n) => n <= Len(moves)
  /\ \A c \in Clients : client[c].at = "rename" =>
       /\ client[c].move > 0 /\ ~RowsMention(client[c].move)
       /\ \A d \in Clients \ {c} : ~Mentions(client[d], client[c].move)

Displaced(a) == target[a].at # Home /\ target[a].is = "same"
RowTells(a) == rows[a].status = "succeeded" /\ rows[a].undo = target[a].at

\* a client that has moved a target and is about to write so in its row
Answers(k, a) ==
  /\ k.op = "apply" /\ k.action = a
  /\ \/ k.at \in {"info", "isolate", "commit"} /\ k.move = target[a].at
     \/ k.at = "record" /\ k.result.status = "succeeded" /\ k.result.undo = target[a].at

UndoHeld ==
  \A a \in Actions \ lost : Displaced(a) =>
    RowTells(a) \/ \E c \in Clients : Answers(client[c], a)

UndoInv ==
  /\ ClientsTyped /\ RestTyped /\ Numbered /\ UndoHeld
  /\ \A c \in Clients : Fits(client[c]) /\ Rightly(client[c])

\* what every step of a client does
ClientGoesOn(c) ==
  /\ ClientsTyped' /\ \A d \in Clients \ {c} : client'[d] = client[d]
  /\ Fits(client[c])' /\ Rightly(client[c])'
  /\ \A n \in Nat : Mentions(client[c], n)' =>
       \/ n = 0 \/ Mentions(client[c], n) \/ RowsMention(n)
       \/ n = Len(moves) + 1 /\ n = Len(moves')
  /\ client'[c].at = "rename" =>
       client'[c].move = Len(moves) + 1 /\ Len(moves') = Len(moves) + 1
StaysOrAnswers(c, a) ==
  \/ target'[a].at = target[a].at /\ (target[a].is # "same" => target'[a].is # "same")
  \/ target'[a].at = Home
  \/ target'[a].is # "same"
  \/ /\ Answers(client[c], a)'
     /\ \A d \in Clients \ {c} : ~Mentions(client[d], target'[a].at)
TargetsGoOn(c) == \A a \in Actions : StaysOrAnswers(c, a)
RowsGoOn(c) ==
  /\ \A a \in Actions : rows'[a].undo # rows[a].undo => Mentions(client[c], rows'[a].undo)
  /\ \A a \in Actions \ lost' :
       Displaced(a) /\ Displaced(a)' /\ target'[a].at = target[a].at =>
         /\ RowTells(a) => RowTells(a)'
         /\ Answers(client[c], a) => Answers(client[c], a)' \/ RowTells(a)'
CleanupStep(c) ==
  /\ RestTyped' /\ lost \subseteq lost' /\ Len(moves') \in {Len(moves), Len(moves) + 1}
  /\ ClientGoesOn(c) /\ TargetsGoOn(c) /\ RowsGoOn(c)

LEMMA StepKeepsTheInvariant ==
  ASSUME UndoInv, NEW c \in Clients, CleanupStep(c)
  PROVE  UndoInv'
<1>1. /\ ClientsTyped /\ RestTyped /\ Numbered /\ UndoHeld
      /\ \A d \in Clients : Fits(client[d]) /\ Rightly(client[d])
  BY DEF UndoInv
<1>2. /\ RestTyped' /\ lost \subseteq lost' /\ Len(moves') \in {Len(moves), Len(moves) + 1}
      /\ ClientGoesOn(c) /\ TargetsGoOn(c) /\ RowsGoOn(c)
  BY DEF CleanupStep
<1>3. ClientsTyped' /\ \A d \in Clients \ {c} : client'[d] = client[d]
  BY <1>2 DEF ClientGoesOn
<1>4. Len(moves) \in Nat /\ Len(moves') \in Nat /\ Len(moves) <= Len(moves')
  <2>1. Len(moves) \in Nat
    BY <1>1 DEF RestTyped
  <2> QED BY <2>1, <1>2
<1>5. ASSUME NEW a \in Actions PROVE /\ rows[a].undo \in Nat /\ rows'[a].undo \in Nat
                                     /\ target[a] \in Targeted /\ target'[a] \in Targeted
  <2>1. rows[a] \in Row /\ rows'[a] \in Row
    BY <1>1, <1>2 DEF RestTyped
  <2>2. target[a] \in Targeted /\ target'[a] \in Targeted
    BY <1>1, <1>2 DEF RestTyped
  <2> QED BY <2>1, <2>2 DEF Row
<1>6. ASSUME NEW n \in Nat, RowsMention(n)' PROVE RowsMention(n) \/ Mentions(client[c], n)
  <2>1. PICK a \in Actions : rows'[a].undo = n
    BY <1>6 DEF RowsMention
  <2> QED BY <2>1, <1>2 DEF RowsMention, RowsGoOn
<1>7. \A n \in Nat : (RowsMention(n) => n <= Len(moves)) /\ (Mentions(client[c], n) => n <= Len(moves))
  BY <1>1 DEF Numbered
<1>8. ASSUME NEW d \in Clients \ {c}, NEW n \in Nat
      PROVE  Mentions(client[d], n)' <=> Mentions(client[d], n)
  BY <1>3 DEF Mentions
<1>9. Numbered'
  <2>1. ASSUME NEW n \in Nat, RowsMention(n)' PROVE n <= Len(moves')
    <3>1. n <= Len(moves)
      BY <2>1, <1>6, <1>7
    <3> QED BY <3>1, <1>4
  <2>2. ASSUME NEW d \in Clients, NEW n \in Nat, Mentions(client[d], n)' PROVE n <= Len(moves')
    <3>1. CASE d = c
      <4>1. \/ n = 0 \/ Mentions(client[c], n) \/ RowsMention(n)
            \/ n = Len(moves) + 1 /\ n = Len(moves')
        BY <2>2, <3>1, <1>2 DEF ClientGoesOn
      <4>2. n = 0 \/ n <= Len(moves) \/ n = Len(moves')
        BY <4>1, <1>7
      <4> QED BY <4>2, <1>4
    <3>2. CASE d # c
      <4>1. Mentions(client[d], n)
        BY <2>2, <3>2, <1>8
      <4>2. n <= Len(moves)
        BY <4>1, <1>1 DEF Numbered
      <4> QED BY <4>2, <1>4
    <3> QED BY <3>1, <3>2
  <2>3. ASSUME NEW d \in Clients, client'[d].at = "rename"
        PROVE  /\ client'[d].move > 0 /\ ~RowsMention(client[d].move)'
               /\ \A e \in Clients \ {d} : ~Mentions(client[e], client[d].move)'
    <3>1. CASE d = c
      <4>1. PICK n \in Nat : n = Len(moves) + 1
        BY <1>4
      <4>2. client'[c].move = n /\ n > 0 /\ ~ (n <= Len(moves))
        BY <2>3, <3>1, <4>1, <1>2, <1>4 DEF ClientGoesOn
      <4>3. \A a \in Actions : rows'[a].undo # n
        <5>1. ~RowsMention(n) /\ ~Mentions(client[c], n)
          BY <4>2, <1>7
        <5> QED BY <5>1, <1>2 DEF RowsMention, RowsGoOn
      <4>4. \A e \in Clients \ {c} : ~Mentions(client'[e], n)
        <5>1. \A e \in Clients \ {c} : ~Mentions(client[e], n)
          BY <4>2, <1>1 DEF Numbered
        <5> QED BY <5>1, <1>3
      <4> QED BY <3>1, <4>2, <4>3, <4>4 DEF RowsMention, Mentions
    <3>2. CASE d # c
      <4>1. client'[d] = client[d] /\ client[d].at = "rename"
        BY <2>3, <3>2, <1>3
      <4> DEFINE n == client[d].move
      <4>2. n > 0 /\ ~RowsMention(n) /\ \A e \in Clients \ {d} : ~Mentions(client[e], n)
        BY <4>1, <1>1 DEF Numbered
      <4>3. n \in Nat /\ n <= Len(moves) /\ Mentions(client[d], n)
        <5>1. client[d] \in ClientRecord
          BY <1>1 DEF ClientsTyped
        <5>2. n \in Nat
          BY <5>1 DEF ClientRecord
        <5>3. Mentions(client[d], n)
          BY <4>1 DEF Mentions, Moving
        <5> QED BY <5>2, <5>3, <1>1 DEF Numbered
      <4> HIDE DEF n
      <4>4. ~RowsMention(n) /\ ~Mentions(client[c], n) /\ n # 0 /\ n # Len(moves) + 1
        BY <4>2, <4>3, <1>4, <3>2
      <4>5. ~Mentions(client'[c], n)
        <5>1. Mentions(client'[c], n) =>
                \/ n = 0 \/ Mentions(client[c], n) \/ RowsMention(n)
                \/ n = Len(moves) + 1 /\ n = Len(moves')
          BY <1>2, <4>3 DEF ClientGoesOn, Mentions
        <5> QED BY <5>1, <4>4
      <4>6. \A e \in Clients \ {d} : ~Mentions(client'[e], n)
        BY <4>2, <4>5, <1>3
      <4>7. \A a \in Actions : rows'[a].undo # n
        BY <4>4, <1>2 DEF RowsGoOn, RowsMention
      <4> QED BY <4>1, <4>2, <4>6, <4>7 DEF n, RowsMention, Mentions
    <3> QED BY <3>1, <3>2
  <2> QED BY <2>1, <2>2, <2>3 DEF Numbered
<1>10. ASSUME NEW d \in Clients \ {c} PROVE Fits(client[d])' /\ Rightly(client[d])'
  <2>1. client'[d] = client[d] /\ Fits(client[d]) /\ Rightly(client[d])
    BY <1>1, <1>3
  <2>2. Fits(client[d])'
    BY <2>1 DEF Fits
  <2>3. SUFFICES ASSUME SaysGone(client[d]) PROVE Gone(client[d], client[d].action)'
    BY <2>1, <2>2 DEF Rightly, SaysGone
  <2> DEFINE a == client[d].action
             u == client[d].copy[a].undo
  <2>4. Gone(client[d], a)
    BY <2>1, <2>3 DEF Rightly
  <2>5. a \in Actions /\ u # Home /\ client[d].op # "none"
    <3>1. client[d].at \in InHand /\ (client[d].op = "apply" => client[d].at \notin Back)
      BY <2>1, <2>3 DEF SaysGone, Fits, InHand, Back
    <3> QED BY <3>1, <2>1, <2>3 DEF SaysGone, Fits, Back
  <2>6. Mentions(client[d], u)
    BY <2>5 DEF Mentions
  <2>7. StaysOrAnswers(c, a)
    BY <2>5, <1>2 DEF TargetsGoOn
  <2>8. target'[a].at # u \/ target'[a].is # "same"
    <3>1. target[a].at # u \/ target[a].is # "same"
      BY <2>4 DEF Gone
    <3> QED BY <3>1, <2>5, <2>6, <2>7 DEF StaysOrAnswers
  <2> QED BY <2>1, <2>8 DEF Gone
<1>11. Fits(client[c])' /\ Rightly(client[c])'
  BY <1>2 DEF ClientGoesOn
<1>12. UndoHeld'
  <2> SUFFICES ASSUME NEW a \in Actions \ lost', Displaced(a)'
               PROVE  RowTells(a)' \/ \E d \in Clients : Answers(client[d], a)'
    BY DEF UndoHeld
  <2>1. StaysOrAnswers(c, a)
    BY <1>2 DEF TargetsGoOn
  <2>2. CASE Answers(client[c], a)'
    BY <2>2
  <2>3. CASE target'[a].at = target[a].at /\ (target[a].is # "same" => target'[a].is # "same")
    <3>1. Displaced(a) /\ a \in Actions \ lost
      BY <2>3, <1>2 DEF Displaced
    <3>2. CASE RowTells(a)
      BY <3>1, <3>2, <2>3, <1>2 DEF RowsGoOn
    <3>3. CASE Answers(client[c], a)
      BY <3>1, <3>3, <2>3, <1>2 DEF RowsGoOn
    <3>4. ASSUME NEW d \in Clients \ {c}, Answers(client[d], a)
          PROVE  Answers(client[d], a)'
      BY <3>4, <2>3, <1>3 DEF Answers
    <3> QED BY <3>1, <3>2, <3>3, <3>4, <1>1 DEF UndoHeld
  <2> QED BY <2>1, <2>2, <2>3 DEF StaysOrAnswers, Displaced
<1>13. \A d \in Clients : Fits(client[d])' /\ Rightly(client[d])'
  BY <1>10, <1>11
<1> QED BY <1>2, <1>3, <1>9, <1>12, <1>13 DEF UndoInv

\* the manifests stay manifests, and are as many
LEMMA StateWritten ==
  ASSUME NEW m \in Seq(Manifests), NEW n, NEW st \in States
  PROVE  [m EXCEPT ![n].state = st] \in Seq(Manifests) /\ Len([m EXCEPT ![n].state = st]) = Len(m)
<1> DEFINE w == [m EXCEPT ![n].state = st]
<1>1. Len(m) \in Nat /\ DOMAIN m = 1..Len(m) /\ m \in [1..Len(m) -> Manifests]
  OBVIOUS
<1>2. ASSUME NEW i \in 1..Len(m) PROVE w[i] \in Manifests
  <2>1. m[i] \in Manifests
    BY <1>1
  <2>2. w[i] = IF i = n THEN [m[i] EXCEPT !.state = st] ELSE m[i]
    BY <1>1
  <2> QED BY <2>1, <2>2 DEF Manifests
<1>3. w \in [1..Len(m) -> Manifests]
  BY <1>1, <1>2
<1> QED BY <1>1, <1>3

LEMMA Audited ==
  ASSUME RestTyped
  PROVE  AuditedMoves \in Seq(Manifests) /\ Len(AuditedMoves) = Len(moves)
<1>1. Len(moves) \in Nat /\ DOMAIN moves = 1..Len(moves) /\ \A n \in DOMAIN moves : moves[n] \in Manifests
  BY DEF RestTyped
<1>2. ASSUME NEW n \in DOMAIN moves PROVE Settled(n) \in States \cup {""}
  BY <1>1 DEF Settled, States, Manifests
<1>3. ASSUME NEW n \in DOMAIN moves
      PROVE  (IF n \in Quarantined /\ Settled(n) # "" THEN [moves[n] EXCEPT !.state = Settled(n)]
              ELSE moves[n]) \in Manifests
  BY <1>1, <1>2 DEF Manifests
<1>4. AuditedMoves \in [1..Len(moves) -> Manifests]
  BY <1>1, <1>3 DEF AuditedMoves
<1> QED BY <1>1, <1>4

LEMMA Loaded ==
  ASSUME RestTyped
  PROVE  LoadedMoves \in Seq(Manifests) /\ Len(LoadedMoves) = Len(moves)
BY Audited DEF LoadedMoves, RestTyped

\* how a client may go on
LEMMA GoesThere ==
  ASSUME ClientsTyped, NEW c \in Clients, NEW there \in Ats, Goes(c, there)
  PROVE  /\ ClientsTyped' /\ \A d \in Clients \ {c} : client'[d] = client[d]
         /\ client'[c].at = there
         /\ client'[c].op = client[c].op /\ client'[c].action = client[c].action
         /\ client'[c].todo = client[c].todo /\ client'[c].move = client[c].move
         /\ client'[c].copy = client[c].copy /\ client'[c].result = client[c].result
<1>1. client[c] \in ClientRecord
  BY DEF ClientsTyped
<1>2. client' = [client EXCEPT ![c] = [client[c] EXCEPT !.at = there]]
  BY DEF Goes, ClientsTyped
<1>3. [client[c] EXCEPT !.at = there] \in ClientRecord
  BY <1>1 DEF ClientRecord
<1>4. client'[c] = [client[c] EXCEPT !.at = there] /\ \A d \in Clients \ {c} : client'[d] = client[d]
  BY <1>2 DEF ClientsTyped
<1>5. ClientsTyped'
  BY <1>2, <1>3 DEF ClientsTyped
<1> QED BY <1>1, <1>4, <1>5 DEF ClientRecord

LEMMA GoesThereWith ==
  ASSUME ClientsTyped, NEW c \in Clients, NEW there \in Ats, NEW n \in Nat, GoesWith(c, there, n)
  PROVE  /\ ClientsTyped' /\ \A d \in Clients \ {c} : client'[d] = client[d]
         /\ client'[c].at = there /\ client'[c].move = n
         /\ client'[c].op = client[c].op /\ client'[c].action = client[c].action
         /\ client'[c].todo = client[c].todo
         /\ client'[c].copy = client[c].copy /\ client'[c].result = client[c].result
<1>1. client[c] \in ClientRecord
  BY DEF ClientsTyped
<1> DEFINE k == [client[c] EXCEPT !.at = there, !.move = n]
<1>2. client' = [client EXCEPT ![c] = k]
  BY DEF GoesWith, ClientsTyped
<1>3. k \in ClientRecord
  BY <1>1 DEF ClientRecord
<1>4. client'[c] = k /\ \A d \in Clients \ {c} : client'[d] = client[d]
  BY <1>2 DEF ClientsTyped
<1>5. ClientsTyped'
  <2> HIDE DEF k
  <2> QED BY <1>2, <1>3 DEF ClientsTyped
<1> QED BY <1>1, <1>4, <1>5 DEF ClientRecord

LEMMA EndsWith ==
  ASSUME ClientsTyped, NEW c \in Clients, NEW result \in Row, Ends(c, result)
  PROVE  /\ ClientsTyped' /\ \A d \in Clients \ {c} : client'[d] = client[d]
         /\ client'[c].at = "record" /\ client'[c].result = result
         /\ client'[c].op = client[c].op /\ client'[c].action = client[c].action
         /\ client'[c].todo = client[c].todo /\ client'[c].move = client[c].move
         /\ client'[c].copy = client[c].copy
<1>1. client[c] \in ClientRecord
  BY DEF ClientsTyped
<1> DEFINE k == [client[c] EXCEPT !.at = "record", !.result = result]
<1>2. client' = [client EXCEPT ![c] = k]
  BY DEF Ends, ClientsTyped
<1>3. k \in ClientRecord
  BY <1>1 DEF ClientRecord, Ats, InHand
<1>4. client'[c] = k /\ \A d \in Clients \ {c} : client'[d] = client[d]
  BY <1>2 DEF ClientsTyped
<1>5. ClientsTyped'
  <2> HIDE DEF k
  <2> QED BY <1>2, <1>3 DEF ClientsTyped
<1> QED BY <1>1, <1>4, <1>5 DEF ClientRecord

LEMMA ReturnsIdle ==
  ASSUME ClientsTyped, NEW c \in Clients, Returns(c)
  PROVE  /\ ClientsTyped' /\ \A d \in Clients \ {c} : client'[d] = client[d]
         /\ client'[c].at = "" /\ client'[c].op = "none"
         /\ Fits(client[c])' /\ Rightly(client[c])' /\ \A n \in Nat : ~Mentions(client[c], n)'
         /\ client'[c].at # "rename"
<1>1. Idle \in ClientRecord /\ Idle.at = "" /\ Idle.op = "none"
  BY DEF Idle, ClientRecord, Ats, Hows
<1>2. client' = [client EXCEPT ![c] = Idle]
  BY DEF Returns
<1>3. client'[c] = Idle /\ \A d \in Clients \ {c} : client'[d] = client[d]
  BY <1>2 DEF ClientsTyped
<1>4. ClientsTyped'
  BY <1>1, <1>2 DEF ClientsTyped
<1>5. client'[c].at = "" /\ client'[c].op = "none"
  BY <1>1, <1>3
<1> QED BY <1>3, <1>4, <1>5 DEF Fits, Rightly, SaysGone, Mentions, InHand, Moving, Back

LEMMA ItsRecord ==
  ASSUME UndoInv, NEW c \in Clients
  PROVE  /\ client[c].op \in {"none", "apply", "undo", "purge"} /\ client[c].at \in Ats
         /\ client[c].move \in Nat /\ client[c].todo \subseteq Actions
         /\ client[c].result \in Row \cup {<<>>}
         /\ Fits(client[c]) /\ Rightly(client[c])
         /\ ClientsTyped /\ RestTyped /\ Len(moves) \in Nat
<1>1. client[c] \in ClientRecord
  BY DEF UndoInv, ClientsTyped
<1>2. RestTyped /\ ClientsTyped /\ Fits(client[c]) /\ Rightly(client[c])
  BY DEF UndoInv
<1>3. Len(moves) \in Nat
  BY <1>2 DEF RestTyped
<1>4. /\ client[c].op \in {"none", "apply", "undo", "purge"} /\ client[c].at \in Ats
      /\ client[c].move \in Nat /\ client[c].todo \subseteq Actions
      /\ client[c].result \in Row \cup {<<>>}
  BY <1>1 DEF ClientRecord
<1> QED BY <1>2, <1>3, <1>4

\* what is in hand, in particular
LEMMA ItsAction ==
  ASSUME UndoInv, NEW c \in Clients, client[c].at \in InHand
  PROVE  /\ client[c].op # "none" /\ client[c].action \in Actions
         /\ client[c].action \notin client[c].todo
         /\ client[c].copy \in [Actions -> Row] /\ client[c].copy[client[c].action] \in Row
         /\ Action(c) = client[c].action /\ Move(c) = client[c].copy[client[c].action].undo
         /\ Move(c) \in Nat /\ Mentions(client[c], Move(c))
<1>1. Fits(client[c])
  BY ItsRecord
<1>2. /\ client[c].op # "none" /\ client[c].action \in Actions /\ client[c].action \notin client[c].todo
      /\ client[c].copy \in [Actions -> Row]
  BY <1>1 DEF Fits
<1>3. client[c].copy[client[c].action] \in Row
  BY <1>2
<1>4. Action(c) = client[c].action /\ Move(c) = client[c].copy[client[c].action].undo
  BY DEF Action, Move
<1> QED BY <1>2, <1>3, <1>4 DEF Mentions, Row

\* a step that leaves the targets and the rows alone
LEMMA Quietly ==
  ASSUME UndoInv, NEW c \in Clients, UNCHANGED <<target, rows>>,
         lost \subseteq lost', lost' \subseteq Actions,
         moves' \in Seq(Manifests), Len(moves') \in {Len(moves), Len(moves) + 1},
         ClientGoesOn(c),
         \A a \in Actions \ lost' : Answers(client[c], a) => Answers(client[c], a)'
  PROVE  CleanupStep(c)
<1>1. RestTyped
  BY ItsRecord
<1>2. RestTyped'
  BY <1>1 DEF RestTyped
<1>3. TargetsGoOn(c)
  BY DEF TargetsGoOn, StaysOrAnswers
<1>4. RowsGoOn(c)
  BY DEF RowsGoOn, RowTells
<1> QED BY <1>2, <1>3, <1>4 DEF CleanupStep

\* from one thing in hand to the next
LEMMA Onward ==
  ASSUME UndoInv, NEW c \in Clients, client[c].at \in InHand,
         NEW there \in InHand \ {"record", "rename"}, Goes(c, there),
         there \in Moving => client[c].at \in Moving,
         client[c].op = "apply" <=> there \notin Back,
         there \in {"settle", "debit"} => Gone(client[c], client[c].action)'
  PROVE  ClientGoesOn(c)
<1>1. /\ ClientsTyped' /\ \A d \in Clients \ {c} : client'[d] = client[d]
      /\ client'[c].at = there
      /\ client'[c].op = client[c].op /\ client'[c].action = client[c].action
      /\ client'[c].todo = client[c].todo /\ client'[c].move = client[c].move
      /\ client'[c].copy = client[c].copy /\ client'[c].result = client[c].result
  BY ItsRecord, GoesThere DEF Ats
<1>2. Fits(client[c])
  BY ItsRecord
<1>3. Fits(client[c])'
  BY <1>1, <1>2 DEF Fits, InHand, Moving, Back
<1>4. Gone(client[c], client[c].action)' => (target[client[c].action].at # client[c].copy[client[c].action].undo
                                              \/ target[client[c].action].is # "same")'
  BY DEF Gone
<1>5. Rightly(client[c])'
  BY <1>1 DEF Rightly, SaysGone, Gone
<1>6. \A n \in Nat : Mentions(client[c], n)' => Mentions(client[c], n)
  BY <1>1 DEF Mentions
<1> QED BY <1>1, <1>3, <1>5, <1>6 DEF ClientGoesOn

\* a result is to be recorded
LEMMA Concludes ==
  ASSUME UndoInv, NEW c \in Clients, client[c].at \in InHand,
         NEW result \in Row, Ends(c, result),
         \/ client[c].op = "apply" \/ result = client[c].copy[client[c].action]
         \/ Gone(client[c], client[c].action)',
         result.undo = 0 \/ Mentions(client[c], result.undo)
  PROVE  ClientGoesOn(c)
<1>1. /\ ClientsTyped' /\ \A d \in Clients \ {c} : client'[d] = client[d]
      /\ client'[c].at = "record" /\ client'[c].result = result
      /\ client'[c].op = client[c].op /\ client'[c].action = client[c].action
      /\ client'[c].todo = client[c].todo /\ client'[c].move = client[c].move
      /\ client'[c].copy = client[c].copy
  BY ItsRecord, EndsWith
<1>2. Fits(client[c])
  BY ItsRecord
<1>3. Fits(client[c])'
  BY <1>1, <1>2 DEF Fits, InHand, Moving, Back
<1>4. Rightly(client[c])'
  BY <1>1 DEF Rightly, SaysGone, Gone
<1>5. \A n \in Nat : Mentions(client[c], n)' => n = 0 \/ Mentions(client[c], n)
  BY <1>1 DEF Mentions, Moving
<1> QED BY <1>1, <1>3, <1>4, <1>5 DEF ClientGoesOn

LEMMA FailingConcludes ==
  ASSUME UndoInv, NEW c \in Clients, client[c].at \in InHand, client[c].op = "apply", Fails(c)
  PROVE  /\ ClientGoesOn(c) /\ client'[c].at = "record" /\ client'[c].result.status = "failed"
<1> DEFINE r == [client[c].copy[client[c].action] EXCEPT !.status = "failed"]
<1>1. client[c].copy[client[c].action] \in Row /\ Mentions(client[c], client[c].copy[client[c].action].undo)
  BY ItsAction
<1>2. r \in Row /\ r.status = "failed" /\ r.undo = client[c].copy[client[c].action].undo
  BY <1>1 DEF Row, Statuses
<1>3. Ends(c, r)
  BY DEF Fails
<1> HIDE DEF r
<1> QED BY <1>1, <1>2, <1>3, Concludes, EndsWith, ItsRecord

LEMMA ErrorConcludes ==
  ASSUME UndoInv, NEW c \in Clients, client[c].at \in InHand, client[c].op # "apply", Errs(c)
  PROVE  ClientGoesOn(c)
<1> DEFINE r == client[c].copy[client[c].action]
<1>1. r \in Row /\ Mentions(client[c], r.undo) /\ Ends(c, r)
  BY ItsAction DEF Errs
<1> QED BY <1>1, Concludes

\* a client at another place than these answers for nothing
LEMMA AnswersNothing ==
  ASSUME NEW c \in Clients, client[c].op # "apply" \/ client[c].at \notin {"info", "isolate", "commit", "record"}
  PROVE  \A a \in Actions : ~Answers(client[c], a)
BY DEF Answers

LEMMA GetPlanSteps ==
  ASSUME UndoInv, NEW c \in Clients, NEW op \in {"apply", "undo", "purge"}, get_plan(c, op)
  PROVE  CleanupStep(c)
<1> DEFINE todo == CASE op = "undo" -> {a \in Actions : rows[a].status = "succeeded"
                                                        /\ rows[a].undo # Home}
                     [] op = "purge" -> {a \in Actions :
                          /\ rows[a].status = "succeeded" /\ rows[a].undo # Home
                          /\ moves[rows[a].undo].by = "quarantine"}
                     [] OTHER -> {}
           at == IF op = "apply" THEN "asked" ELSE "items"
           k == [Idle EXCEPT !.op = op, !.copy = rows, !.at = at, !.todo = todo]
<1>1. UNCHANGED <<target, moves, ledger, rows, lost>> /\ client[c].op = "none"
      /\ client' = [client EXCEPT ![c] = k]
  BY DEF get_plan
<1>2. todo \subseteq Actions /\ (op = "apply" => todo = {}) /\ \A a \in todo : rows[a].undo # Home
  BY DEF Home
<1>3. at \in {"asked", "items"}
  OBVIOUS
<1> HIDE DEF todo, at
<1>4. ClientsTyped /\ rows \in [Actions -> Row] /\ RestTyped
  BY ItsRecord DEF RestTyped
<1>5. k \in ClientRecord /\ k.op = op /\ k.copy = rows /\ k.at = at /\ k.todo = todo
  BY <1>2, <1>3, <1>4 DEF Idle, ClientRecord, Ats, Hows
<1> HIDE DEF k
<1>6. ClientsTyped' /\ client'[c] = k /\ \A d \in Clients \ {c} : client'[d] = client[d]
  BY <1>1, <1>4, <1>5 DEF ClientsTyped
<1>7. Fits(client[c])'
  BY <1>2, <1>3, <1>4, <1>5, <1>6 DEF Fits, InHand, Moving, Back
<1>8. Rightly(client[c])'
  BY <1>3, <1>5, <1>6 DEF Rightly, SaysGone
<1>9. \A n \in Nat : Mentions(client[c], n)' => RowsMention(n)
  BY <1>3, <1>5, <1>6 DEF Mentions, RowsMention, Moving
<1>10. ClientGoesOn(c)
  BY <1>3, <1>5, <1>6, <1>7, <1>8, <1>9 DEF ClientGoesOn
<1>11. \A a \in Actions : ~Answers(client[c], a)
  BY <1>1 DEF Answers
<1> QED BY <1>1, <1>4, <1>10, <1>11, Quietly DEF RestTyped

LEMMA IdentifySteps ==
  ASSUME UndoInv, NEW c \in Clients, NEW a \in Actions, Identify(c, a)
  PROVE  CleanupStep(c)
<1>1. UNCHANGED <<target, moves, ledger, rows, lost>>
      /\ client[c].op \in {"undo", "purge"} /\ client[c].at = "items" /\ a \in client[c].todo
  BY DEF Identify
<1>2. ClientsTyped /\ RestTyped /\ Fits(client[c]) /\ client[c] \in ClientRecord
  BY ItsRecord DEF ClientsTyped
<1>3. \A b \in Actions : ~Answers(client[c], b)
  BY <1>1 DEF Answers
<1>4. SUFFICES ClientGoesOn(c)
  BY <1>1, <1>2, <1>3, Quietly DEF RestTyped
<1>5. CASE Returns(c)
  BY <1>2, <1>5, ReturnsIdle DEF ClientGoesOn
<1>6. CASE ~Returns(c)
  <2> DEFINE there == IF target[a].at = client[c].copy[a].undo /\ target[a].is = "same"
                      THEN "held" ELSE "record"
             k == [client[c] EXCEPT !.action = a, !.todo = @ \ {a},
                                    !.result = client[c].copy[a], !.at = there]
  <2>1. client' = [client EXCEPT ![c] = k]
    BY <1>2, <1>6 DEF Identify, ClientsTyped
  <2>2. there \in {"held", "record"} /\ client[c].copy[a] \in Row /\ client[c].copy[a].undo # Home
        /\ client[c].copy \in [Actions -> Row]
    BY <1>1, <1>2 DEF Fits
  <2> HIDE DEF there
  <2>3. /\ k \in ClientRecord /\ k.op = client[c].op /\ k.action = a /\ k.todo = client[c].todo \ {a}
        /\ k.result = client[c].copy[a] /\ k.at = there /\ k.copy = client[c].copy
    BY <1>2, <2>2 DEF ClientRecord, Ats, InHand, Back
  <2> HIDE DEF k
  <2>4. ClientsTyped' /\ client'[c] = k /\ \A d \in Clients \ {c} : client'[d] = client[d]
    BY <1>2, <2>1, <2>3 DEF ClientsTyped
  <2>5. Fits(client[c])'
    BY <1>1, <1>2, <2>2, <2>3, <2>4 DEF Fits, Back, InHand
  <2>6. Rightly(client[c])'
    BY <2>2, <2>3, <2>4 DEF Rightly, SaysGone
  <2>7. \A n \in Nat : Mentions(client[c], n)' => Mentions(client[c], n)
    BY <1>1, <2>2, <2>3, <2>4 DEF Mentions, Moving
  <2> QED BY <2>2, <2>3, <2>4, <2>5, <2>6, <2>7 DEF ClientGoesOn
<1> QED BY <1>5, <1>6

\* a step that leaves the rows alone
LEMMA WithoutWriting ==
  ASSUME UndoInv, NEW c \in Clients, UNCHANGED rows, target' \in [Actions -> Targeted],
         lost \subseteq lost', lost' \subseteq Actions,
         moves' \in Seq(Manifests), Len(moves') \in {Len(moves), Len(moves) + 1},
         ClientGoesOn(c), TargetsGoOn(c),
         \A a \in Actions \ lost' :
           Answers(client[c], a) /\ Displaced(a)' /\ target'[a].at = target[a].at =>
             Answers(client[c], a)'
  PROVE  CleanupStep(c)
<1>1. RestTyped
  BY ItsRecord
<1>2. RestTyped'
  BY <1>1 DEF RestTyped
<1>3. RowsGoOn(c)
  BY DEF RowsGoOn, RowTells
<1> QED BY <1>2, <1>3 DEF CleanupStep

LEMMA MovedThere ==
  ASSUME RestTyped, NEW a \in Actions, NEW n \in Nat, target' = [target EXCEPT ![a].at = n]
  PROVE  /\ target' \in [Actions -> Targeted]
         /\ target'[a].at = n /\ target'[a].is = target[a].is
         /\ \A b \in Actions : b # a => target'[b] = target[b]
<1>1. target \in [Actions -> Targeted] /\ target[a] \in Targeted
  BY DEF RestTyped
<1>2. target' = [target EXCEPT ![a] = [target[a] EXCEPT !.at = n]]
  BY <1>1
<1>3. [target[a] EXCEPT !.at = n] \in Targeted
  BY <1>1 DEF Targeted
<1>4. target'[a] = [target[a] EXCEPT !.at = n]
  BY <1>1, <1>2
<1> QED BY <1>1, <1>2, <1>3, <1>4 DEF Targeted

LEMMA MadeTo ==
  ASSUME RestTyped, NEW a \in Actions, NEW is \in {"same", "changed", "gone"},
         target' = [target EXCEPT ![a].is = is]
  PROVE  /\ target' \in [Actions -> Targeted]
         /\ target'[a].at = target[a].at /\ target'[a].is = is
         /\ \A b \in Actions : b # a => target'[b] = target[b]
<1>1. target \in [Actions -> Targeted] /\ target[a] \in Targeted
  BY DEF RestTyped
<1>2. target' = [target EXCEPT ![a] = [target[a] EXCEPT !.is = is]]
  BY <1>1
<1>3. [target[a] EXCEPT !.is = is] \in Targeted
  BY <1>1 DEF Targeted
<1>4. target'[a] = [target[a] EXCEPT !.is = is]
  BY <1>1, <1>2
<1> QED BY <1>1, <1>2, <1>3, <1>4 DEF Targeted

LEMMA AddedManifest ==
  ASSUME RestTyped, NEW m \in Manifests, moves' = Append(moves, m)
  PROVE  moves' \in Seq(Manifests) /\ Len(moves') = Len(moves) + 1
BY DEF RestTyped

LEMMA SameMoves ==
  ASSUME RestTyped, \/ UNCHANGED moves
                    \/ moves' = LoadedMoves
                    \/ \E n \in Nat, st \in States : moves' = [moves EXCEPT ![n].state = st]
                    \/ \E n \in Nat, st \in States : moves' = [LoadedMoves EXCEPT ![n].state = st]
  PROVE  moves' \in Seq(Manifests) /\ Len(moves') = Len(moves) /\ Len(moves) \in Nat
<1>1. moves \in Seq(Manifests) /\ Len(moves) \in Nat
  BY DEF RestTyped
<1>2. LoadedMoves \in Seq(Manifests) /\ Len(LoadedMoves) = Len(moves)
  BY Loaded
<1>3. CASE UNCHANGED moves
  BY <1>1, <1>3
<1>4. CASE moves' = LoadedMoves
  BY <1>1, <1>2, <1>4
<1>5. CASE \E n \in Nat, st \in States : moves' = [moves EXCEPT ![n].state = st]
  <2>1. PICK n \in Nat, st \in States : moves' = [moves EXCEPT ![n].state = st]
    BY <1>5
  <2> QED BY <1>1, <2>1, StateWritten
<1>6. CASE \E n \in Nat, st \in States : moves' = [LoadedMoves EXCEPT ![n].state = st]
  <2>1. PICK n \in Nat, st \in States : moves' = [LoadedMoves EXCEPT ![n].state = st]
    BY <1>6
  <2> QED BY <1>1, <1>2, <2>1, StateWritten
<1> QED BY <1>3, <1>4, <1>5, <1>6

LEMMA FinishSteps ==
  ASSUME UndoInv, NEW c \in Clients, Finish(c)
  PROVE  CleanupStep(c)
<1>1. UNCHANGED <<target, moves, ledger, rows, lost>> /\ client[c].at = "items" /\ Returns(c)
  BY DEF Finish
<1>2. ClientGoesOn(c)
  BY <1>1, ItsRecord, ReturnsIdle DEF ClientGoesOn
<1> QED BY <1>1, <1>2, AnswersNothing, Quietly, ItsRecord DEF RestTyped

\* the Trash: the rename gives the target a number nobody knows
LEMMA TrashSteps ==
  ASSUME UndoInv, NEW c \in Clients, Trash(c)
  PROVE  CleanupStep(c)
<1> DEFINE a == client[c].action
           m == [action |-> a, by |-> "trash", state |-> "bare"]
<1>1. client[c].op = "apply" /\ client[c].at = "trash" /\ UNCHANGED <<ledger, rows, lost>>
  BY DEF Trash, At
<1>2. /\ RestTyped /\ ClientsTyped /\ Fits(client[c]) /\ Len(moves) \in Nat
      /\ a \in Actions /\ Action(c) = a /\ client[c].at \in InHand
      /\ lost \subseteq Actions /\ moves \in Seq(Manifests) /\ target \in [Actions -> Targeted]
  BY <1>1, ItsRecord, ItsAction DEF InHand, RestTyped
<1>3. \A b \in Actions : ~Answers(client[c], b)
  BY <1>1 DEF Answers
<1>4. CASE UNCHANGED <<target, moves>> /\ Goes(c, "lock")
  <2>1. ClientGoesOn(c)
    BY <1>1, <1>2, <1>4, Onward DEF InHand, Moving, Back
  <2> QED BY <1>1, <1>2, <1>3, <1>4, <2>1, Quietly
<1>5. CASE UNCHANGED <<target, moves>> /\ Fails(c)
  BY <1>1, <1>2, <1>3, <1>5, FailingConcludes, Quietly
<1>6. CASE /\ moves' = Append(moves, m) /\ MovedTo(a, Len(moves) + 1)
           /\ GoesWith(c, "info", Len(moves) + 1)
  <2>1. PICK n \in Nat : n = Len(moves) + 1
    BY <1>2
  <2>2. /\ ClientsTyped' /\ \A d \in Clients \ {c} : client'[d] = client[d]
        /\ client'[c].at = "info" /\ client'[c].move = n
        /\ client'[c].op = client[c].op /\ client'[c].action = client[c].action
        /\ client'[c].todo = client[c].todo
        /\ client'[c].copy = client[c].copy /\ client'[c].result = client[c].result
    BY <1>2, <1>6, <2>1, GoesThereWith DEF Ats, InHand, Moving
  <2>3. /\ target' \in [Actions -> Targeted] /\ target'[a].at = n
        /\ \A b \in Actions : b # a => target'[b] = target[b]
    BY <1>2, <1>6, <2>1, MovedThere DEF MovedTo
  <2>4. moves' \in Seq(Manifests) /\ Len(moves') = Len(moves) + 1
    <3>1. m \in Manifests
      BY <1>2 DEF Manifests, States
    <3> QED BY <1>2, <1>6, <3>1, AddedManifest
  <2>5. Fits(client[c])'
    BY <1>1, <1>2, <2>2 DEF Fits, InHand, Moving, Back
  <2>6. Rightly(client[c])'
    BY <2>2 DEF Rightly, SaysGone
  <2>7. \A i \in Nat : Mentions(client[c], i)' => Mentions(client[c], i) \/ i = n
    BY <2>2 DEF Mentions, Moving
  <2>8. ClientGoesOn(c)
    BY <2>1, <2>2, <2>4, <2>5, <2>6, <2>7 DEF ClientGoesOn
  <2>9. \A d \in Clients : ~Mentions(client[d], n)
    <3>1. ~ (n <= Len(moves))
      BY <1>2, <2>1
    <3> QED BY <3>1 DEF UndoInv, Numbered
  <2>10. Answers(client[c], a)'
    BY <1>1, <2>2, <2>3 DEF Answers
  <2>11. TargetsGoOn(c)
    <3>1. \A d \in Clients \ {c} : ~Mentions(client[d], target'[a].at)
      BY <2>3, <2>9
    <3>2. StaysOrAnswers(c, a)
      BY <2>10, <3>1 DEF StaysOrAnswers
    <3>3. \A b \in Actions : b # a => StaysOrAnswers(c, b)
      BY <2>3 DEF StaysOrAnswers
    <3> QED BY <3>2, <3>3 DEF TargetsGoOn
  <2> QED BY <1>1, <1>2, <1>3, <2>3, <2>4, <2>8, <2>11, WithoutWriting
<1> QED BY <1>2, <1>4, <1>5, <1>6 DEF Trash

LEMMA TrashInfoSteps ==
  ASSUME UndoInv, NEW c \in Clients, TrashInfo(c)
  PROVE  CleanupStep(c)
<1> DEFINE a == client[c].action
           n == client[c].move
           back == target[a].is = "same" /\ ~target[a].taken
<1>1. client[c].op = "apply" /\ client[c].at = "info" /\ UNCHANGED <<ledger, rows>>
  BY DEF TrashInfo, At
<1>2. /\ RestTyped /\ ClientsTyped /\ Fits(client[c]) /\ Len(moves) \in Nat
      /\ a \in Actions /\ Action(c) = a /\ client[c].at \in InHand /\ n \in Nat
      /\ lost \subseteq Actions /\ moves \in Seq(Manifests) /\ target \in [Actions -> Targeted]
  BY <1>1, ItsRecord, ItsAction DEF InHand, Moving, RestTyped
<1>3. CASE /\ moves' = [moves EXCEPT ![n].state = "isolated"] /\ Succeeds(c, n)
           /\ UNCHANGED <<target, lost>>
  <2>1. moves' \in Seq(Manifests) /\ Len(moves') = Len(moves)
    BY <1>2, <1>3, SameMoves DEF States
  <2> DEFINE r == [status |-> "succeeded", undo |-> n]
  <2>2. r \in Row /\ Ends(c, r) /\ Mentions(client[c], r.undo)
    BY <1>1, <1>2, <1>3 DEF Row, Statuses, Succeeds, Mentions, Moving
  <2>3. ClientGoesOn(c)
    BY <1>1, <1>2, <2>2, Concludes
  <2>4. /\ client'[c].at = "record" /\ client'[c].result = r
        /\ client'[c].op = client[c].op /\ client'[c].action = client[c].action
    BY <1>2, <2>2, EndsWith
  <2>5. \A b \in Actions : Answers(client[c], b) => Answers(client[c], b)'
    BY <1>1, <1>3, <2>4 DEF Answers
  <2> QED BY <1>1, <1>2, <1>3, <2>1, <2>3, <2>5, Quietly
<1>4. CASE /\ moves' = [moves EXCEPT ![n].state = IF back THEN "aborted" ELSE @]
           /\ IF back THEN MovedTo(a, Home) ELSE UNCHANGED target
           /\ lost' = IF back THEN lost ELSE lost \cup {a}
           /\ Goes(c, "lock")
  <2>1. moves' \in Seq(Manifests) /\ Len(moves') = Len(moves)
    <3>1. CASE back
      BY <1>2, <1>4, <3>1, SameMoves DEF States
    <3>2. CASE ~back
      <4>1. moves' = moves
        <5>1. n \in 1..Len(moves)  => moves[n] \in Manifests
          BY <1>2
        <5>2. moves' = [moves EXCEPT ![n].state = moves[n].state]
          BY <1>4, <3>2
        <5> QED BY <1>2, <5>1, <5>2 DEF Manifests
      <4> QED BY <1>2, <4>1
    <3> QED BY <3>1, <3>2
  <2>2. ClientGoesOn(c)
    BY <1>1, <1>2, <1>4, Onward DEF InHand, Moving, Back
  <2>3. target' \in [Actions -> Targeted] /\ TargetsGoOn(c)
        /\ \A b \in Actions \ lost' : Answers(client[c], b) => target'[b].at = Home
    <3>1. CASE back
      <4>1. /\ target' \in [Actions -> Targeted] /\ target'[a].at = Home
            /\ \A b \in Actions : b # a => target'[b] = target[b]
        BY <1>2, <1>4, <3>1, MovedThere DEF MovedTo, Home
      <4> QED BY <4>1 DEF TargetsGoOn, StaysOrAnswers, Answers
    <3>2. CASE ~back
      BY <1>2, <1>4, <3>2 DEF TargetsGoOn, StaysOrAnswers, Answers
    <3> QED BY <3>1, <3>2
  <2>4. lost \subseteq lost' /\ lost' \subseteq Actions
    BY <1>2, <1>4
  <2> QED BY <1>1, <2>1, <2>2, <2>3, <2>4, WithoutWriting DEF Displaced
<1> QED BY <1>2, <1>3, <1>4 DEF TrashInfo

LEMMA UnlinkSteps ==
  ASSUME UndoInv, NEW c \in Clients, Unlink(c)
  PROVE  CleanupStep(c)
<1> DEFINE a == client[c].action
<1>1. client[c].op = "apply" /\ client[c].at = "unlink" /\ UNCHANGED <<moves, ledger, rows, lost>>
  BY DEF Unlink, At
<1>2. /\ RestTyped /\ ClientsTyped /\ Len(moves) \in Nat
      /\ a \in Actions /\ Action(c) = a /\ client[c].at \in InHand
      /\ Move(c) \in Nat /\ Mentions(client[c], Move(c))
      /\ lost \subseteq Actions /\ moves \in Seq(Manifests)
  BY <1>1, ItsRecord, ItsAction DEF InHand, RestTyped
<1>3. \A b \in Actions : ~Answers(client[c], b)
  BY <1>1 DEF Answers
<1>4. CASE Fails(c) /\ UNCHANGED target
  BY <1>1, <1>2, <1>3, <1>4, FailingConcludes, Quietly
<1>5. CASE target' = [target EXCEPT ![a].is = "gone"] /\ Succeeds(c, Move(c))
  <2> DEFINE r == [status |-> "succeeded", undo |-> Move(c)]
  <2>1. r \in Row /\ Ends(c, r) /\ Mentions(client[c], r.undo)
    BY <1>2, <1>5 DEF Row, Statuses, Succeeds
  <2>2. ClientGoesOn(c)
    BY <1>1, <1>2, <2>1, Concludes
  <2>3. target' \in [Actions -> Targeted] /\ target'[a].is = "gone"
        /\ \A b \in Actions : b # a => target'[b] = target[b]
    BY <1>2, <1>5, MadeTo
  <2>4. TargetsGoOn(c)
    BY <2>3 DEF TargetsGoOn, StaysOrAnswers
  <2> QED BY <1>1, <1>2, <1>3, <2>2, <2>3, <2>4, WithoutWriting
<1> QED BY <1>2, <1>4, <1>5 DEF Unlink

\* the quarantine: the number is given with the manifest, before the rename
LEMMA ReserveSteps ==
  ASSUME UndoInv, NEW c \in Clients, Reserve(c)
  PROVE  CleanupStep(c)
<1>1. /\ client[c].op = "apply" /\ client[c].at = "lock" /\ UNCHANGED <<target, rows, lost>>
      /\ moves' = LoadedMoves
  BY DEF Reserve, At
<1>2. ClientsTyped /\ client[c].at \in InHand /\ lost \subseteq Actions /\ RestTyped
  BY <1>1, ItsRecord DEF InHand, RestTyped
<1>3. moves' \in Seq(Manifests) /\ Len(moves') = Len(moves)
  BY <1>1, <1>2, SameMoves
<1>4. \A b \in Actions : ~Answers(client[c], b)
  BY <1>1 DEF Answers
<1>5. ClientGoesOn(c)
  <2>1. CASE Goes(c, "prepare")
    BY <1>1, <1>2, <2>1, Onward DEF InHand, Moving, Back
  <2>2. CASE Fails(c)
    BY <1>1, <1>2, <2>2, FailingConcludes
  <2> QED BY <2>1, <2>2 DEF Reserve
<1> QED BY <1>1, <1>2, <1>3, <1>4, <1>5, Quietly

LEMMA PrepareManifestSteps ==
  ASSUME UndoInv, NEW c \in Clients, PrepareManifest(c)
  PROVE  CleanupStep(c)
<1> DEFINE m == [action |-> client[c].action, by |-> "quarantine", state |-> "prepared"]
<1>1. /\ client[c].op = "apply" /\ client[c].at = "prepare" /\ UNCHANGED <<target, rows, lost>>
  BY DEF PrepareManifest, At
<1>2. /\ ClientsTyped /\ client[c].at \in InHand /\ lost \subseteq Actions /\ RestTyped
      /\ Fits(client[c]) /\ Len(moves) \in Nat /\ moves \in Seq(Manifests)
      /\ client[c].action \in Actions /\ Action(c) = client[c].action
  BY <1>1, ItsRecord, ItsAction DEF InHand, RestTyped
<1>3. \A b \in Actions : ~Answers(client[c], b)
  BY <1>1 DEF Answers
<1>4. CASE Fails(c) /\ UNCHANGED moves
  BY <1>1, <1>2, <1>3, <1>4, FailingConcludes, Quietly
<1>5. CASE moves' = Append(moves, m) /\ GoesWith(c, "rename", Len(moves) + 1)
  <2>1. PICK n \in Nat : n = Len(moves) + 1
    BY <1>2
  <2>2. /\ ClientsTyped' /\ \A d \in Clients \ {c} : client'[d] = client[d]
        /\ client'[c].at = "rename" /\ client'[c].move = n
        /\ client'[c].op = client[c].op /\ client'[c].action = client[c].action
        /\ client'[c].todo = client[c].todo
        /\ client'[c].copy = client[c].copy /\ client'[c].result = client[c].result
    BY <1>2, <1>5, <2>1, GoesThereWith DEF Ats, InHand, Moving
  <2>3. moves' \in Seq(Manifests) /\ Len(moves') = Len(moves) + 1
    <3>1. m \in Manifests
      BY <1>2 DEF Manifests, States
    <3> QED BY <1>2, <1>5, <3>1, AddedManifest
  <2>4. Fits(client[c])'
    BY <1>1, <1>2, <2>2 DEF Fits, InHand, Moving, Back
  <2>5. Rightly(client[c])'
    BY <2>2 DEF Rightly, SaysGone
  <2>6. \A i \in Nat : Mentions(client[c], i)' => Mentions(client[c], i) \/ i = n
    BY <2>2 DEF Mentions, Moving
  <2>7. ClientGoesOn(c)
    BY <2>1, <2>2, <2>3, <2>4, <2>5, <2>6 DEF ClientGoesOn
  <2> QED BY <1>1, <1>2, <1>3, <2>3, <2>7, Quietly
<1> QED BY <1>2, <1>4, <1>5 DEF PrepareManifest

LEMMA RenameSteps ==
  ASSUME UndoInv, NEW c \in Clients, Rename(c)
  PROVE  CleanupStep(c)
<1> DEFINE a == client[c].action
           n == client[c].move
<1>1. client[c].op = "apply" /\ client[c].at = "rename" /\ UNCHANGED <<rows, lost, spare>>
  BY DEF Rename, At
<1>2. /\ RestTyped /\ ClientsTyped /\ Len(moves) \in Nat
      /\ a \in Actions /\ Action(c) = a /\ client[c].at \in InHand /\ n \in Nat
      /\ lost \subseteq Actions /\ moves \in Seq(Manifests) /\ target \in [Actions -> Targeted]
  BY <1>1, ItsRecord, ItsAction DEF InHand, Moving, RestTyped
<1>3. \A b \in Actions : ~Answers(client[c], b)
  BY <1>1 DEF Answers
<1>4. CASE MovedTo(a, n) /\ Goes(c, "isolate") /\ UNCHANGED <<moves, ledger>>
  <2>1. ClientGoesOn(c)
    BY <1>1, <1>2, <1>4, Onward DEF InHand, Moving, Back
  <2>2. /\ client'[c].at = "isolate" /\ client'[c].move = n
        /\ client'[c].op = "apply" /\ client'[c].action = a
    BY <1>1, <1>2, <1>4, GoesThere DEF Ats, InHand, Moving
  <2>3. /\ target' \in [Actions -> Targeted] /\ target'[a].at = n
        /\ \A b \in Actions : b # a => target'[b] = target[b]
    BY <1>2, <1>4, MovedThere DEF MovedTo
  <2>4. \A d \in Clients \ {c} : ~Mentions(client[d], target'[a].at)
    BY <1>1, <2>3 DEF UndoInv, Numbered
  <2>5. Answers(client[c], a)'
    BY <2>2, <2>3 DEF Answers
  <2>6. StaysOrAnswers(c, a)
    BY <2>4, <2>5 DEF StaysOrAnswers
  <2>7. \A b \in Actions : b # a => StaysOrAnswers(c, b)
    BY <2>3 DEF StaysOrAnswers
  <2>8. TargetsGoOn(c)
    BY <2>6, <2>7 DEF TargetsGoOn
  <2> QED BY <1>1, <1>2, <1>3, <1>4, <2>1, <2>3, <2>8, WithoutWriting
<1>5. CASE moves' = [moves EXCEPT ![n].state = "aborted"] /\ Fails(c) /\ UNCHANGED target
  <2>1. moves' \in Seq(Manifests) /\ Len(moves') = Len(moves)
    BY <1>2, <1>5, SameMoves DEF States
  <2> QED BY <1>1, <1>2, <1>3, <1>5, <2>1, FailingConcludes, Quietly
<1> QED BY <1>2, <1>4, <1>5 DEF Rename

LEMMA IsolateSteps ==
  ASSUME UndoInv, NEW c \in Clients, Isolate(c)
  PROVE  CleanupStep(c)
<1> DEFINE a == client[c].action
           n == client[c].move
<1>1. client[c].op = "apply" /\ client[c].at = "isolate" /\ UNCHANGED <<target, ledger, rows>>
  BY DEF Isolate, At
<1>2. /\ RestTyped /\ ClientsTyped /\ Len(moves) \in Nat
      /\ a \in Actions /\ Action(c) = a /\ client[c].at \in InHand /\ n \in Nat
      /\ lost \subseteq Actions /\ moves \in Seq(Manifests)
  BY <1>1, ItsRecord, ItsAction DEF InHand, Moving, RestTyped
<1>3. CASE /\ moves' = [moves EXCEPT ![n].state = "isolated"] /\ Goes(c, "commit")
           /\ UNCHANGED lost
  <2>1. moves' \in Seq(Manifests) /\ Len(moves') = Len(moves)
    BY <1>2, <1>3, SameMoves DEF States
  <2>2. ClientGoesOn(c)
    BY <1>1, <1>2, <1>3, Onward DEF InHand, Moving, Back
  <2>3. /\ client'[c].at = "commit" /\ client'[c].move = n
        /\ client'[c].op = "apply" /\ client'[c].action = a
    BY <1>1, <1>2, <1>3, GoesThere DEF Ats, InHand, Moving
  <2>4. \A b \in Actions : Answers(client[c], b) => Answers(client[c], b)'
    BY <1>1, <2>3 DEF Answers
  <2> QED BY <1>1, <1>2, <1>3, <2>1, <2>2, <2>4, Quietly
<1>4. CASE lost' = lost \cup {a} /\ Fails(c) /\ UNCHANGED moves
  <2>1. \A b \in Actions \ lost' : ~Answers(client[c], b)
    BY <1>4 DEF Answers
  <2>2. ClientGoesOn(c)
    BY <1>1, <1>2, <1>4, FailingConcludes
  <2> QED BY <1>1, <1>2, <1>4, <2>1, <2>2, Quietly
<1> QED BY <1>2, <1>3, <1>4 DEF Isolate

LEMMA CommitSteps ==
  ASSUME UndoInv, NEW c \in Clients, Commit(c)
  PROVE  CleanupStep(c)
<1> DEFINE a == client[c].action
           n == client[c].move
<1>1. client[c].op = "apply" /\ client[c].at = "commit" /\ UNCHANGED <<target, moves, rows>>
  BY DEF Commit, At
<1>2. /\ RestTyped /\ ClientsTyped /\ Len(moves) \in Nat
      /\ a \in Actions /\ Action(c) = a /\ client[c].at \in InHand /\ n \in Nat
      /\ lost \subseteq Actions /\ moves \in Seq(Manifests)
  BY <1>1, ItsRecord, ItsAction DEF InHand, Moving, RestTyped
<1>3. CASE Succeeds(c, n) /\ UNCHANGED lost
  <2> DEFINE r == [status |-> "succeeded", undo |-> n]
  <2>1. r \in Row /\ Ends(c, r) /\ Mentions(client[c], r.undo)
    BY <1>1, <1>2, <1>3 DEF Row, Statuses, Succeeds, Mentions, Moving
  <2>2. ClientGoesOn(c)
    BY <1>1, <1>2, <2>1, Concludes
  <2>3. /\ client'[c].at = "record" /\ client'[c].result = r
        /\ client'[c].op = client[c].op /\ client'[c].action = client[c].action
    BY <1>2, <2>1, EndsWith
  <2>4. \A b \in Actions : Answers(client[c], b) => Answers(client[c], b)'
    BY <1>1, <2>3 DEF Answers
  <2> QED BY <1>1, <1>2, <1>3, <2>2, <2>4, Quietly
<1>4. CASE lost' = lost \cup {a} /\ Fails(c)
  <2>1. \A b \in Actions \ lost' : ~Answers(client[c], b)
    BY <1>4 DEF Answers
  <2>2. ClientGoesOn(c)
    BY <1>1, <1>2, <1>4, FailingConcludes
  <2> QED BY <1>1, <1>2, <1>4, <2>1, <2>2, Quietly
<1> QED BY <1>2, <1>3, <1>4 DEF Commit

\* back from the Trash, or an error
LEMMA UntrashSteps ==
  ASSUME UndoInv, NEW c \in Clients, Untrash(c)
  PROVE  CleanupStep(c)
<1> DEFINE a == client[c].action
           n == Move(c)
<1>1. client[c].at = "held" /\ UNCHANGED <<ledger, rows, lost>>
  BY DEF Untrash
<1>2. /\ RestTyped /\ ClientsTyped /\ Fits(client[c]) /\ Len(moves) \in Nat
      /\ a \in Actions /\ Action(c) = a /\ client[c].at \in InHand /\ n \in Nat
      /\ n = client[c].copy[a].undo /\ Mentions(client[c], n)
      /\ lost \subseteq Actions /\ moves \in Seq(Manifests) /\ target \in [Actions -> Targeted]
  BY <1>1, ItsRecord, ItsAction DEF InHand, Back, RestTyped
<1>3. client[c].op # "apply" /\ n # Home
  BY <1>1, <1>2 DEF Fits, Back
<1>4. \A b \in Actions : ~Answers(client[c], b)
  BY <1>3 DEF Answers
<1>5. CASE Errs(c) /\ UNCHANGED <<target, moves>>
  BY <1>1, <1>2, <1>3, <1>4, <1>5, ErrorConcludes, Quietly
<1>6. CASE /\ target' = [target EXCEPT ![a].at = Home]
           /\ moves' = [moves EXCEPT ![n].state = "restored"]
           /\ Ends(c, [status |-> "undone", undo |-> n])
  <2> DEFINE r == [status |-> "undone", undo |-> n]
  <2>1. /\ target' \in [Actions -> Targeted] /\ target'[a].at = Home
        /\ \A b \in Actions : b # a => target'[b] = target[b]
    BY <1>2, <1>6, MovedThere DEF Home
  <2>2. Gone(client[c], client[c].action)'
    <3>1. client'[c].copy = client[c].copy /\ client'[c].action = a
      <4>1. r \in Row
        BY <1>2 DEF Row, Statuses
      <4> QED BY <1>2, <1>6, <4>1, EndsWith
    <3> QED BY <1>2, <1>3, <2>1, <3>1 DEF Gone
  <2>3. ClientGoesOn(c)
    <3>1. r \in Row /\ Ends(c, r) /\ r.undo = n
      BY <1>2, <1>6 DEF Row, Statuses
    <3> HIDE DEF r
    <3> QED BY <1>2, <2>2, <3>1, Concludes
  <2>4. TargetsGoOn(c)
    BY <2>1 DEF TargetsGoOn, StaysOrAnswers
  <2>5. moves' \in Seq(Manifests) /\ Len(moves') = Len(moves)
    BY <1>2, <1>6, SameMoves DEF States
  <2> QED BY <1>1, <1>2, <1>4, <2>1, <2>3, <2>4, <2>5, WithoutWriting
<1> QED BY <1>2, <1>5, <1>6 DEF Untrash, MovesBack, Writes

LEMMA AnnounceSteps ==
  ASSUME UndoInv, NEW c \in Clients, Announce(c)
  PROVE  CleanupStep(c)
<1>1. client[c].at = "held" /\ UNCHANGED <<target, rows, lost>>
  BY DEF Announce
<1>2. /\ RestTyped /\ ClientsTyped /\ Fits(client[c]) /\ Len(moves) \in Nat
      /\ client[c].at \in InHand /\ Move(c) \in Nat
      /\ lost \subseteq Actions /\ moves \in Seq(Manifests)
  BY <1>1, ItsRecord, ItsAction DEF InHand, Back, RestTyped
<1>3. client[c].op # "apply"
  BY <1>1, <1>2 DEF Fits, Back
<1>4. \A b \in Actions : ~Answers(client[c], b)
  BY <1>3 DEF Answers
<1>5. moves' \in Seq(Manifests) /\ Len(moves') = Len(moves)
  <2>1. CASE moves' = LoadedMoves
    BY <1>2, <2>1, SameMoves
  <2>2. CASE moves' = [LoadedMoves EXCEPT ![Move(c)].state =
                         IF client[c].op = "undo" THEN "restoring" ELSE "purging"]
    <3> DEFINE st == IF client[c].op = "undo" THEN "restoring" ELSE "purging"
    <3>1. st \in States
      BY DEF States
    <3> HIDE DEF st
    <3>2. moves' = [LoadedMoves EXCEPT ![Move(c)].state = st]
      BY <2>2 DEF st
    <3> QED BY <1>2, <3>1, <3>2, SameMoves
  <2> QED BY <2>1, <2>2 DEF Announce
<1>6. ClientGoesOn(c)
  <2>1. CASE Errs(c)
    BY <1>2, <1>3, <2>1, ErrorConcludes
  <2>2. CASE Goes(c, "return")
    BY <1>2, <1>3, <2>2, Onward DEF InHand, Moving, Back
  <2>3. CASE Goes(c, "delete")
    BY <1>2, <1>3, <2>3, Onward DEF InHand, Moving, Back
  <2> QED BY <2>1, <2>2, <2>3 DEF Announce
<1> QED BY <1>1, <1>2, <1>4, <1>5, <1>6, Quietly

\* what an undo or a purge has in hand
LEMMA HeldBack ==
  ASSUME UndoInv, NEW c \in Clients, client[c].at \in Back
  PROVE  /\ RestTyped /\ ClientsTyped /\ Fits(client[c]) /\ Len(moves) \in Nat
         /\ client[c].action \in Actions /\ Action(c) = client[c].action
         /\ client[c].at \in InHand /\ Move(c) \in Nat
         /\ Move(c) = client[c].copy[client[c].action].undo /\ Mentions(client[c], Move(c))
         /\ lost \subseteq Actions /\ moves \in Seq(Manifests) /\ target \in [Actions -> Targeted]
         /\ client[c].op # "apply" /\ Move(c) # Home
         /\ \A a \in Actions : ~Answers(client[c], a)
<1>1. client[c].at \in InHand
  BY DEF InHand
<1>2. /\ RestTyped /\ ClientsTyped /\ Fits(client[c]) /\ Len(moves) \in Nat
      /\ client[c].action \in Actions /\ Action(c) = client[c].action /\ Move(c) \in Nat
      /\ Move(c) = client[c].copy[client[c].action].undo /\ Mentions(client[c], Move(c))
      /\ lost \subseteq Actions /\ moves \in Seq(Manifests) /\ target \in [Actions -> Targeted]
  BY <1>1, ItsRecord, ItsAction DEF RestTyped
<1>3. client[c].op # "apply" /\ Move(c) # Home
  BY <1>1, <1>2 DEF Fits
<1> QED BY <1>1, <1>2, <1>3 DEF Answers

LEMMA ReturnSteps ==
  ASSUME UndoInv, NEW c \in Clients, Return(c)
  PROVE  CleanupStep(c)
<1> DEFINE a == client[c].action
<1>1. client[c].at = "return" /\ client[c].at \in Back /\ UNCHANGED <<ledger, rows, lost>>
  BY DEF Return, Back
<1>2. /\ RestTyped /\ ClientsTyped /\ a \in Actions /\ Action(c) = a /\ client[c].at \in InHand
      /\ Move(c) \in Nat /\ Move(c) = client[c].copy[a].undo /\ Move(c) # Home
      /\ lost \subseteq Actions /\ moves \in Seq(Manifests) /\ client[c].op # "apply"
      /\ \A b \in Actions : ~Answers(client[c], b)
  BY <1>1, HeldBack
<1>3. CASE target' = [target EXCEPT ![a].at = Home] /\ Goes(c, "settle") /\ UNCHANGED moves
  <2>1. /\ target' \in [Actions -> Targeted] /\ target'[a].at = Home
        /\ \A b \in Actions : b # a => target'[b] = target[b]
    BY <1>2, <1>3, MovedThere DEF Home
  <2>2. client'[c].copy = client[c].copy /\ client'[c].action = a
    BY <1>2, <1>3, GoesThere DEF Ats, InHand, Back
  <2>3. Gone(client[c], client[c].action)'
    BY <1>2, <2>1, <2>2 DEF Gone
  <2>4. ClientGoesOn(c)
    BY <1>1, <1>2, <1>3, <2>3, Onward DEF InHand, Moving, Back
  <2>5. TargetsGoOn(c)
    BY <2>1 DEF TargetsGoOn, StaysOrAnswers
  <2> QED BY <1>1, <1>2, <1>3, <2>1, <2>4, <2>5, WithoutWriting
<1>4. CASE moves' = [moves EXCEPT ![Move(c)].state = "isolated"] /\ Errs(c) /\ UNCHANGED target
  <2>1. moves' \in Seq(Manifests) /\ Len(moves') = Len(moves)
    BY <1>2, <1>4, SameMoves DEF States
  <2> QED BY <1>1, <1>2, <1>4, <2>1, ErrorConcludes, Quietly
<1> QED BY <1>2, <1>3, <1>4 DEF Return, MovesBack, Writes

LEMMA DeleteSteps ==
  ASSUME UndoInv, NEW c \in Clients, Delete(c)
  PROVE  CleanupStep(c)
<1> DEFINE a == client[c].action
<1>1. client[c].at = "delete" /\ client[c].at \in Back /\ UNCHANGED <<ledger, rows, lost>>
  BY DEF Delete, Back
<1>2. /\ RestTyped /\ ClientsTyped /\ a \in Actions /\ Action(c) = a /\ client[c].at \in InHand
      /\ Move(c) \in Nat /\ Move(c) = client[c].copy[a].undo /\ Move(c) # Home
      /\ lost \subseteq Actions /\ moves \in Seq(Manifests) /\ client[c].op # "apply"
      /\ \A b \in Actions : ~Answers(client[c], b)
      /\ target \in [Actions -> Targeted] /\ target[a] \in Targeted
  BY <1>1, HeldBack
<1>3. CASE target' = [target EXCEPT ![a].is = "gone"] /\ Goes(c, "settle") /\ UNCHANGED moves
  <2>1. /\ target' \in [Actions -> Targeted] /\ target'[a].is = "gone"
        /\ \A b \in Actions : b # a => target'[b] = target[b]
    BY <1>2, <1>3, MadeTo
  <2>2. client'[c].copy = client[c].copy /\ client'[c].action = a
    BY <1>2, <1>3, GoesThere DEF Ats, InHand, Back
  <2>3. Gone(client[c], client[c].action)'
    BY <1>2, <2>1, <2>2 DEF Gone
  <2>4. ClientGoesOn(c)
    BY <1>1, <1>2, <1>3, <2>3, Onward DEF InHand, Moving, Back
  <2>5. TargetsGoOn(c)
    BY <2>1 DEF TargetsGoOn, StaysOrAnswers
  <2> QED BY <1>1, <1>2, <1>3, <2>1, <2>4, <2>5, WithoutWriting
<1>4. CASE /\ target' = [target EXCEPT ![a].is = IF @ = "same" THEN "changed" ELSE @]
           /\ moves' = [moves EXCEPT ![Move(c)].state = "isolated"] /\ Errs(c)
  <2>1. moves' \in Seq(Manifests) /\ Len(moves') = Len(moves)
    BY <1>2, <1>4, SameMoves DEF States
  <2>2. PICK is \in {"changed", "gone"} : target' = [target EXCEPT ![a].is = is]
    <3>1. target[a].is \in {"same", "changed", "gone"}
      BY <1>2 DEF Targeted
    <3>2. (IF target[a].is = "same" THEN "changed" ELSE target[a].is) \in {"changed", "gone"}
      BY <3>1
    <3>3. target' = [target EXCEPT ![a].is = IF target[a].is = "same" THEN "changed" ELSE target[a].is]
      BY <1>4
    <3> QED BY <3>2, <3>3
  <2>3. /\ target' \in [Actions -> Targeted] /\ target'[a].is = is
        /\ \A b \in Actions : b # a => target'[b] = target[b]
    BY <1>2, <2>2, MadeTo
  <2>4. TargetsGoOn(c)
    BY <2>3 DEF TargetsGoOn, StaysOrAnswers
  <2>5. ClientGoesOn(c)
    BY <1>2, <1>4, ErrorConcludes
  <2> QED BY <1>1, <1>2, <2>1, <2>3, <2>4, <2>5, WithoutWriting
<1> QED BY <1>2, <1>3, <1>4 DEF Delete, Writes

LEMMA SettleSteps ==
  ASSUME UndoInv, NEW c \in Clients, Settle(c)
  PROVE  CleanupStep(c)
<1> DEFINE a == client[c].action
<1>1. client[c].at = "settle" /\ client[c].at \in Back /\ UNCHANGED <<target, ledger, rows, lost>>
  BY DEF Settle, Back
<1>2. /\ RestTyped /\ ClientsTyped /\ a \in Actions /\ client[c].at \in InHand
      /\ Move(c) \in Nat /\ lost \subseteq Actions /\ moves \in Seq(Manifests)
      /\ client[c].op # "apply" /\ \A b \in Actions : ~Answers(client[c], b)
  BY <1>1, HeldBack
<1>3. Gone(client[c], a)
  BY <1>1, ItsRecord DEF Rightly, SaysGone
<1>4. CASE Errs(c) /\ UNCHANGED moves
  BY <1>1, <1>2, <1>4, ErrorConcludes, Quietly
<1>5. CASE /\ moves' = [moves EXCEPT ![Move(c)].state =
                          IF client[c].op = "undo" THEN "restored" ELSE "purged"]
           /\ Goes(c, "debit")
  <2>1. moves' \in Seq(Manifests) /\ Len(moves') = Len(moves)
    <3> DEFINE st == IF client[c].op = "undo" THEN "restored" ELSE "purged"
    <3>1. st \in States
      BY DEF States
    <3> HIDE DEF st
    <3>2. moves' = [moves EXCEPT ![Move(c)].state = st]
      BY <1>5 DEF st
    <3> QED BY <1>2, <3>1, <3>2, SameMoves
  <2>2. client'[c].copy = client[c].copy /\ client'[c].action = a
    BY <1>2, <1>5, GoesThere DEF Ats, InHand, Back
  <2>3. Gone(client[c], client[c].action)'
    BY <1>1, <1>3, <2>2 DEF Gone
  <2>4. ClientGoesOn(c)
    BY <1>1, <1>2, <1>5, <2>3, Onward DEF InHand, Moving, Back
  <2> QED BY <1>1, <1>2, <2>1, <2>4, Quietly
<1> QED BY <1>4, <1>5 DEF Settle, Writes

LEMMA DebitSteps ==
  ASSUME UndoInv, NEW c \in Clients, Debit(c)
  PROVE  CleanupStep(c)
<1> DEFINE a == client[c].action
<1>1. client[c].at = "debit" /\ client[c].at \in Back /\ UNCHANGED <<target, moves, rows, lost>>
  BY DEF Debit, Back
<1>2. /\ RestTyped /\ ClientsTyped /\ a \in Actions /\ client[c].at \in InHand
      /\ Move(c) \in Nat /\ lost \subseteq Actions /\ moves \in Seq(Manifests)
      /\ Mentions(client[c], Move(c)) /\ Len(moves) \in Nat
      /\ client[c].op # "apply" /\ \A b \in Actions : ~Answers(client[c], b)
  BY <1>1, HeldBack
<1>3. Gone(client[c], a)
  BY <1>1, ItsRecord DEF Rightly, SaysGone
<1>4. CASE Errs(c)
  BY <1>1, <1>2, <1>4, ErrorConcludes, Quietly
<1>5. ASSUME NEW r \in Row, Ends(c, r), r.undo = 0 \/ r.undo = Move(c)
      PROVE  CleanupStep(c)
  <2>1. client'[c].copy = client[c].copy /\ client'[c].action = a
    BY <1>2, <1>5, EndsWith
  <2>2. Gone(client[c], client[c].action)'
    BY <1>1, <1>3, <2>1 DEF Gone
  <2>3. ClientGoesOn(c)
    BY <1>2, <1>5, <2>2, Concludes
  <2> QED BY <1>1, <1>2, <2>3, Quietly
<1>6. CASE Ends(c, [status |-> "undone", undo |-> Move(c)])
  <2>1. [status |-> "undone", undo |-> Move(c)] \in Row
    BY <1>2 DEF Row, Statuses
  <2> QED BY <1>5, <1>6, <2>1
<1>7. CASE Ends(c, [status |-> "purged", undo |-> 0])
  <2>1. [status |-> "purged", undo |-> 0] \in Row
    BY DEF Row, Statuses
  <2> QED BY <1>5, <1>7, <2>1
<1> QED BY <1>4, <1>6, <1>7 DEF Debit

\* a process that dies with a target moved loses the undo of that target
LEMMA DiesSteps ==
  ASSUME UndoInv, NEW c \in Clients, Dies(c)
  PROVE  CleanupStep(c)
<1> DEFINE a == client[c].action
<1>1. client[c].op # "none" /\ Returns(c) /\ UNCHANGED <<moves, ledger, rows>>
      /\ lost' = lost \cup (IF client[c].op = "apply"
                               /\ client[c].at \in {"info", "isolate", "commit", "record"}
                            THEN {Action(c)} ELSE {})
  BY DEF Dies
<1>2. /\ RestTyped /\ ClientsTyped /\ Fits(client[c]) /\ Len(moves) \in Nat
      /\ lost \subseteq Actions /\ moves \in Seq(Manifests) /\ target \in [Actions -> Targeted]
  BY ItsRecord DEF RestTyped
<1>3. lost' \subseteq Actions /\ \A b \in Actions \ lost' : ~Answers(client[c], b)
  <2>1. CASE client[c].op = "apply" /\ client[c].at \in {"info", "isolate", "commit", "record"}
    <3>1. a \in Actions /\ Action(c) = a
      BY <2>1, ItsAction DEF InHand, Moving
    <3> QED BY <1>1, <1>2, <2>1, <3>1 DEF Answers
  <2>2. CASE ~ (client[c].op = "apply" /\ client[c].at \in {"info", "isolate", "commit", "record"})
    BY <1>1, <1>2, <2>2 DEF Answers
  <2> QED BY <2>1, <2>2
<1>4. ClientGoesOn(c)
  BY <1>1, <1>2, ReturnsIdle DEF ClientGoesOn
<1>5. CASE UNCHANGED target
  BY <1>1, <1>2, <1>3, <1>4, <1>5, Quietly
<1>6. CASE client[c].at = "delete" /\ target' = [target EXCEPT ![Action(c)].is = "changed"]
  <2>1. Action(c) = a /\ a \in Actions
    BY <1>6, HeldBack DEF Back
  <2>2. /\ target' \in [Actions -> Targeted] /\ target'[a].is = "changed"
        /\ \A b \in Actions : b # a => target'[b] = target[b]
    BY <1>2, <1>6, <2>1, MadeTo
  <2>3. TargetsGoOn(c)
    BY <2>2 DEF TargetsGoOn, StaysOrAnswers
  <2> QED BY <1>1, <1>2, <1>3, <1>4, <2>2, <2>3, WithoutWriting
<1> QED BY <1>5, <1>6 DEF Dies

\* a step that leaves the targets and the moves alone and writes rows: only
\* of the copies, and what it writes over unread is lost
LEMMA Writing ==
  ASSUME UndoInv, NEW c \in Clients, UNCHANGED <<target, moves>>,
         lost \subseteq lost', lost' \subseteq Actions, rows' \in [Actions -> Row],
         ClientGoesOn(c),
         \A a \in Actions : rows'[a].undo # rows[a].undo => Mentions(client[c], rows'[a].undo),
         \A a \in Actions \ lost' : Displaced(a) =>
           /\ RowTells(a) => RowTells(a)'
           /\ Answers(client[c], a) => Answers(client[c], a)' \/ RowTells(a)'
  PROVE  CleanupStep(c)
<1>1. RestTyped /\ Len(moves) \in Nat
  BY ItsRecord
<1>2. RestTyped'
  BY <1>1 DEF RestTyped
<1>3. TargetsGoOn(c)
  BY DEF TargetsGoOn, StaysOrAnswers
<1>4. RowsGoOn(c)
  BY DEF RowsGoOn
<1> QED BY <1>1, <1>2, <1>3, <1>4 DEF CleanupStep

\* a row that its reader may not overwrite unnoticed is as it was read
LEMMA NotOutdated ==
  ASSUME NEW c \in Clients, NEW as \in SUBSET Actions, lost' = lost \cup Outdated(c, as), lost \subseteq Actions
  PROVE  /\ lost \subseteq lost' /\ lost' \subseteq Actions
         /\ \A a \in as : a \notin lost' => rows[a] = client[c].copy[a]
BY DEF Outdated

LEMMA ExecuteSteps ==
  ASSUME UndoInv, NEW c \in Clients, NEW how \in {"trash", "quarantine", "permanent"},
         execute(c, how)
  PROVE  CleanupStep(c)
<1> DEFINE copy == client[c].copy
           todo == StillToDo(copy)
           k == [client[c] EXCEPT !.how = how, !.at = "items", !.todo = todo]
<1>1. /\ client[c].op = "apply" /\ client[c].at = "asked" /\ rows' = copy
      /\ lost' = lost \cup Outdated(c, Actions) /\ UNCHANGED <<target, moves, ledger, spare>>
  BY DEF execute, At
<1>2. /\ RestTyped /\ ClientsTyped /\ Fits(client[c]) /\ client[c] \in ClientRecord
      /\ lost \subseteq Actions /\ rows \in [Actions -> Row]
  BY ItsRecord DEF ClientsTyped, RestTyped
<1>3. copy \in [Actions -> Row]
  BY <1>1, <1>2 DEF Fits
<1>4. todo \subseteq Actions /\ \A a \in todo : copy[a].status # "succeeded"
  BY DEF StillToDo
<1>5. client' = [client EXCEPT ![c] = k]
  BY <1>2 DEF execute, ClientsTyped
<1> HIDE DEF todo
<1>6. /\ k \in ClientRecord /\ k.op = "apply" /\ k.at = "items" /\ k.todo = todo /\ k.copy = copy
  BY <1>1, <1>2, <1>4 DEF ClientRecord, Ats, Hows
<1> HIDE DEF k
<1>7. ClientsTyped' /\ client'[c] = k /\ \A d \in Clients \ {c} : client'[d] = client[d]
  BY <1>2, <1>5, <1>6 DEF ClientsTyped
<1>8. Fits(client[c])' /\ Rightly(client[c])'
  BY <1>3, <1>4, <1>6, <1>7 DEF Fits, Rightly, SaysGone, InHand, Moving, Back
<1>9. \A n \in Nat : Mentions(client[c], n)' => Mentions(client[c], n)
  BY <1>1, <1>6, <1>7 DEF Mentions, Moving
<1>10. ClientGoesOn(c)
  BY <1>6, <1>7, <1>8, <1>9 DEF ClientGoesOn
<1>11. /\ lost \subseteq lost' /\ lost' \subseteq Actions
       /\ \A a \in Actions : a \notin lost' => rows[a] = copy[a]
  BY <1>1, <1>2, NotOutdated
<1>12. \A a \in Actions : Mentions(client[c], rows'[a].undo)
  BY <1>1 DEF Mentions
<1>13. \A a \in Actions \ lost' : (RowTells(a) => RowTells(a)') /\ ~Answers(client[c], a)
  BY <1>1, <1>11 DEF RowTells, Answers
<1> QED BY <1>1, <1>3, <1>10, <1>11, <1>12, <1>13, Writing

LEMMA PrepareSteps ==
  ASSUME UndoInv, NEW c \in Clients, NEW a \in Actions, Prepare(c, a)
  PROVE  CleanupStep(c)
<1> DEFINE copy == client[c].copy
           valid == target[a].at = Home /\ target[a].is = "same"
           new == [copy[a] EXCEPT !.status = IF valid THEN @ ELSE "skipped"]
           blamed == [new EXCEPT !.status = "failed"]
<1>1. /\ client[c].op = "apply" /\ client[c].at = "items" /\ a \in client[c].todo
      /\ lost' = lost \cup Outdated(c, {a}) /\ UNCHANGED <<target, moves, ledger>>
  BY DEF Prepare, At
<1>2. /\ RestTyped /\ ClientsTyped /\ Fits(client[c]) /\ client[c] \in ClientRecord
      /\ lost \subseteq Actions /\ rows \in [Actions -> Row]
  BY ItsRecord DEF ClientsTyped, RestTyped
<1>3. copy \in [Actions -> Row] /\ copy[a] \in Row /\ copy[a].status # "succeeded"
  BY <1>1, <1>2 DEF Fits
<1>4. /\ new \in Row /\ new.undo = copy[a].undo /\ (valid => new.status = copy[a].status)
      /\ blamed \in Row /\ blamed.undo = copy[a].undo
  BY <1>3 DEF Row, Statuses
<1>5. /\ lost \subseteq lost' /\ lost' \subseteq Actions
      /\ a \notin lost' => rows[a] = copy[a]
  BY <1>1, <1>2, NotOutdated
<1>6. ASSUME NEW r \in Row, r.undo = copy[a].undo, rows' = [rows EXCEPT ![a] = r], ClientGoesOn(c)
      PROVE  CleanupStep(c)
  <2>1. rows' \in [Actions -> Row] /\ rows'[a] = r /\ \A b \in Actions : b # a => rows'[b] = rows[b]
    BY <1>2, <1>6
  <2>2. Mentions(client[c], copy[a].undo)
    BY <1>1 DEF Mentions
  <2>3. \A b \in Actions : rows'[b].undo # rows[b].undo => Mentions(client[c], rows'[b].undo)
    BY <1>6, <2>1, <2>2
  <2>4. \A b \in Actions \ lost' : RowTells(b) => RowTells(b)'
    BY <1>1, <1>3, <1>5, <2>1 DEF RowTells
  <2>5. \A b \in Actions : ~Answers(client[c], b)
    BY <1>1 DEF Answers
  <2> QED BY <1>1, <1>5, <1>6, <2>1, <2>3, <2>4, <2>5, Writing
<1>7. ASSUME NEW r \in Row, r.undo = copy[a].undo,
             NEW k \in ClientRecord, client' = [client EXCEPT ![c] = k], k.op = "apply",
             k.copy = [copy EXCEPT ![a] = r], k.todo \subseteq client[c].todo,
             \/ k.at = "unaudited"
             \/ a \notin k.todo /\ k.at = "items"
             \/ a \notin k.todo /\ k.at \in {"trash", "lock", "unlink"} /\ k.action = a
                /\ r.status = copy[a].status
      PROVE  ClientGoesOn(c)
  <2>1. ClientsTyped' /\ client'[c] = k /\ \A d \in Clients \ {c} : client'[d] = client[d]
    BY <1>2, <1>7 DEF ClientsTyped
  <2>2. /\ k.copy \in [Actions -> Row] /\ k.copy[a] = r
        /\ \A b \in Actions : b # a => k.copy[b] = copy[b]
    BY <1>3, <1>7
  <2>3. client[c].todo \subseteq Actions /\ \A b \in client[c].todo : copy[b].status # "succeeded"
    BY <1>1, <1>2 DEF Fits, ClientRecord
  <2>4. Fits(client[c])'
    BY <1>3, <1>7, <2>1, <2>2, <2>3 DEF Fits, InHand, Moving, Back
  <2>5. Rightly(client[c])'
    BY <1>7, <2>1 DEF Rightly, SaysGone
  <2>6. \A n \in Nat : Mentions(client[c], n)' => Mentions(client[c], n)
    BY <1>1, <1>7, <2>1, <2>2 DEF Mentions, Moving
  <2> QED BY <1>7, <2>1, <2>4, <2>5, <2>6 DEF ClientGoesOn
<1>8. CASE /\ rows' = [rows EXCEPT ![a] = new]
           /\ client' = [client EXCEPT ![c].copy[a] = new, ![c].action = a,
                ![c].todo = @ \ {a},
                ![c].at = IF valid THEN FirstStep(client[c].how) ELSE "items"]
  <2> DEFINE there == IF valid THEN FirstStep(client[c].how) ELSE "items"
             k == [client[c] EXCEPT !.copy = [copy EXCEPT ![a] = new], !.action = a,
                                    !.todo = @ \ {a}, !.at = there]
  <2>1. client' = [client EXCEPT ![c] = k]
    BY <1>2, <1>8 DEF ClientsTyped
  <2>2. there = "items" \/ (there \in {"trash", "lock", "unlink"} /\ valid)
    BY DEF FirstStep
  <2>3. [copy EXCEPT ![a] = new] \in [Actions -> Row]
    BY <1>3, <1>4
  <2> HIDE DEF there, new, valid
  <2>4. /\ k \in ClientRecord /\ k.op = "apply" /\ k.copy = [copy EXCEPT ![a] = new]
        /\ k.todo = client[c].todo \ {a} /\ k.at = there /\ k.action = a
    BY <1>1, <1>2, <2>2, <2>3 DEF ClientRecord, Ats, InHand
  <2> HIDE DEF k
  <2>5. ClientGoesOn(c)
    BY <1>4, <1>7, <2>1, <2>2, <2>4
  <2> QED BY <1>4, <1>6, <1>8, <2>5
<1>9. CASE /\ rows' = [rows EXCEPT ![a] = blamed]
           /\ client' = [client EXCEPT ![c].copy[a] = blamed, ![c].at = "unaudited"]
  <2> DEFINE k == [client[c] EXCEPT !.copy = [copy EXCEPT ![a] = blamed], !.at = "unaudited"]
  <2>1. client' = [client EXCEPT ![c] = k]
    BY <1>2, <1>9 DEF ClientsTyped
  <2>2. [copy EXCEPT ![a] = blamed] \in [Actions -> Row]
    BY <1>3, <1>4
  <2> HIDE DEF blamed
  <2>3. /\ k \in ClientRecord /\ k.op = "apply" /\ k.copy = [copy EXCEPT ![a] = blamed]
        /\ k.todo = client[c].todo /\ k.at = "unaudited"
    BY <1>1, <1>2, <2>2 DEF ClientRecord, Ats
  <2> HIDE DEF k
  <2>4. ClientGoesOn(c)
    BY <1>4, <1>7, <2>1, <2>3
  <2> QED BY <1>4, <1>6, <1>9, <2>4
<1> QED BY <1>8, <1>9 DEF Prepare

LEMMA RecordedSteps ==
  ASSUME UndoInv, NEW c \in Clients, Recorded(c)
  PROVE  CleanupStep(c)
<1> DEFINE a == client[c].action
           copy == client[c].copy
           result == client[c].result
<1>1. /\ client[c].at = "record" /\ rows' = [rows EXCEPT ![a] = result]
      /\ lost' = lost \cup Outdated(c, {a}) /\ UNCHANGED <<target, moves, ledger>>
  BY DEF Recorded
<1>2. /\ RestTyped /\ ClientsTyped /\ Fits(client[c]) /\ Rightly(client[c])
      /\ client[c] \in ClientRecord /\ client[c].op \in {"apply", "undo", "purge"}
      /\ lost \subseteq Actions /\ rows \in [Actions -> Row]
      /\ a \in Actions /\ a \notin client[c].todo
      /\ copy \in [Actions -> Row] /\ copy[a] \in Row /\ result \in Row
  BY <1>1, ItsRecord, ItsAction DEF ClientsTyped, RestTyped, InHand, Fits
<1>3. /\ lost \subseteq lost' /\ lost' \subseteq Actions
      /\ a \notin lost' => rows[a] = copy[a]
  BY <1>1, <1>2, NotOutdated
<1>4. rows' \in [Actions -> Row] /\ rows'[a] = result /\ \A b \in Actions : b # a => rows'[b] = rows[b]
  BY <1>1, <1>2
<1>5. Mentions(client[c], result.undo)
  BY <1>1 DEF Mentions
<1>6. \A b \in Actions : rows'[b].undo # rows[b].undo => Mentions(client[c], rows'[b].undo)
  BY <1>4, <1>5
<1>7. ASSUME NEW b \in Actions \ lost', Displaced(b), RowTells(b) PROVE RowTells(b)'
  <2>1. CASE b # a
    BY <1>1, <1>4, <1>7, <2>1 DEF RowTells
  <2>2. CASE b = a
    <3>1. rows[a] = copy[a] /\ copy[a].status = "succeeded" /\ copy[a].undo = target[a].at
          /\ target[a].is = "same"
      BY <1>3, <1>7, <2>2 DEF RowTells, Displaced
    <3>2. client[c].op # "apply"
      BY <1>1, <1>2, <3>1 DEF Fits, InHand
    <3>3. result = copy[a]
      BY <1>1, <1>2, <3>1, <3>2 DEF Rightly, SaysGone, Gone
    <3> QED BY <1>1, <1>4, <2>2, <3>1, <3>3 DEF RowTells
  <2> QED BY <2>1, <2>2
<1>8. ASSUME NEW b \in Actions, Answers(client[c], b) PROVE RowTells(b)'
  BY <1>1, <1>4, <1>8 DEF Answers, RowTells
<1>9. ClientGoesOn(c)
  <2>1. CASE Returns(c)
    BY <1>2, <2>1, ReturnsIdle DEF ClientGoesOn
  <2>2. ASSUME NEW k \in ClientRecord, client' = [client EXCEPT ![c] = k],
               k.op = client[c].op, k.copy = [copy EXCEPT ![a] = result],
               k.todo = client[c].todo, k.at \in {"items", "unaudited"}
        PROVE  ClientGoesOn(c)
    <3>1. ClientsTyped' /\ client'[c] = k /\ \A d \in Clients \ {c} : client'[d] = client[d]
      BY <1>2, <2>2 DEF ClientsTyped
    <3>2. /\ k.copy \in [Actions -> Row] /\ k.copy[a] = result
          /\ \A b \in Actions : b # a => k.copy[b] = copy[b]
      BY <1>2, <2>2
    <3>3. /\ client[c].todo \subseteq Actions
          /\ client[c].op = "apply" => \A b \in client[c].todo : copy[b].status # "succeeded"
          /\ client[c].op \in {"undo", "purge"} => \A b \in client[c].todo : copy[b].undo # Home
      BY <1>1, <1>2 DEF Fits, ClientRecord
    <3>4. Fits(client[c])'
      BY <1>2, <2>2, <3>1, <3>2, <3>3 DEF Fits, InHand, Moving, Back
    <3>5. Rightly(client[c])'
      BY <2>2, <3>1 DEF Rightly, SaysGone
    <3>6. \A n \in Nat : Mentions(client[c], n)' => Mentions(client[c], n)
      BY <1>1, <1>2, <2>2, <3>1, <3>2 DEF Mentions, Moving
    <3> QED BY <2>2, <3>1, <3>4, <3>5, <3>6 DEF ClientGoesOn
  <2>3. [copy EXCEPT ![a] = result] \in [Actions -> Row]
    BY <1>2
  <2>4. CASE client' = [client EXCEPT ![c] = [Idle EXCEPT
                 !.op = client[c].op, !.how = client[c].how, !.at = "items",
                 !.todo = client[c].todo, !.copy = [copy EXCEPT ![a] = result]]]
    <3> DEFINE new == [copy EXCEPT ![a] = result]
               k == [Idle EXCEPT !.op = client[c].op, !.how = client[c].how, !.at = "items",
                                 !.todo = client[c].todo, !.copy = new]
    <3>1. client' = [client EXCEPT ![c] = k] /\ new \in [Actions -> Row]
      BY <2>3, <2>4
    <3>2. new = [copy EXCEPT ![a] = result]
      OBVIOUS
    <3> HIDE DEF new
    <3>3. /\ k \in ClientRecord /\ k.op = client[c].op /\ k.copy = new
          /\ k.todo = client[c].todo /\ k.at = "items"
      BY <1>2, <3>1 DEF Idle, ClientRecord, Ats, Hows
    <3> HIDE DEF k
    <3> QED BY <2>2, <3>1, <3>2, <3>3
  <2>5. CASE client' = [client EXCEPT ![c].at = "unaudited", ![c].copy[a] = result]
    <3> DEFINE new == [copy EXCEPT ![a] = result]
               k == [client[c] EXCEPT !.at = "unaudited", !.copy = new]
    <3>1. client' = [client EXCEPT ![c] = k]
      BY <1>2, <2>5 DEF ClientsTyped
    <3>2. new = [copy EXCEPT ![a] = result] /\ new \in [Actions -> Row]
      BY <2>3
    <3> HIDE DEF new
    <3>3. /\ k \in ClientRecord /\ k.op = client[c].op /\ k.copy = new
          /\ k.todo = client[c].todo /\ k.at = "unaudited"
      BY <1>2, <3>2 DEF ClientRecord, Ats
    <3> HIDE DEF k
    <3> QED BY <2>2, <3>1, <3>2, <3>3
  <2> QED BY <2>1, <2>4, <2>5 DEF Recorded
<1> QED BY <1>1, <1>3, <1>4, <1>6, <1>7, <1>8, <1>9, Writing

LEMMA UnauditedSteps ==
  ASSUME UndoInv, NEW c \in Clients, Unaudited(c)
  PROVE  CleanupStep(c)
<1> DEFINE copy == client[c].copy
           new(a) == [copy[a] EXCEPT !.status = IF @ = "planned" THEN "skipped" ELSE @]
<1>1. /\ client[c].at = "unaudited" /\ rows' = [a \in Actions |-> new(a)]
      /\ lost' = lost \cup Outdated(c, Actions) /\ Returns(c)
      /\ UNCHANGED <<target, moves, ledger, spare>>
  BY DEF Unaudited
<1>2. /\ RestTyped /\ ClientsTyped /\ Fits(client[c])
      /\ lost \subseteq Actions /\ rows \in [Actions -> Row]
  BY ItsRecord DEF RestTyped
<1>3. copy \in [Actions -> Row] /\ client[c].op # "none"
  BY <1>1, <1>2 DEF Fits
<1>4. ASSUME NEW a \in Actions
      PROVE  new(a) \in Row /\ new(a).undo = copy[a].undo
             /\ (copy[a].status = "succeeded" => new(a) = copy[a])
  <2>1. copy[a] \in Row
    BY <1>3
  <2> QED BY <2>1 DEF Row, Statuses
<1> HIDE DEF new
<1>5. rows' \in [Actions -> Row] /\ \A a \in Actions : rows'[a] = new(a)
  BY <1>1, <1>4
<1>6. /\ lost \subseteq lost' /\ lost' \subseteq Actions
      /\ \A a \in Actions : a \notin lost' => rows[a] = copy[a]
  BY <1>1, <1>2, NotOutdated
<1>7. \A a \in Actions : Mentions(client[c], rows'[a].undo)
  BY <1>3, <1>4, <1>5 DEF Mentions
<1>8. \A a \in Actions \ lost' : (RowTells(a) => RowTells(a)') /\ ~Answers(client[c], a)
  BY <1>1, <1>4, <1>5, <1>6 DEF RowTells, Answers
<1>9. ClientGoesOn(c)
  BY <1>1, <1>2, ReturnsIdle DEF ClientGoesOn
<1> QED BY <1>1, <1>5, <1>6, <1>7, <1>8, <1>9, Writing

-----------------------------------------------------------------------------
\* an audit rewrites the states of manifests only
LEMMA AuditKeepsTheInvariant ==
  ASSUME UndoInv, audit
  PROVE  UndoInv'
<1>1. UNCHANGED <<target, rows, client, lost>>
  BY DEF audit
<1>2. RestTyped /\ moves \in Seq(Manifests) /\ DOMAIN moves = 1..Len(moves) /\ Len(moves) \in Nat
  BY DEF UndoInv, RestTyped
<1>3. AuditedMoves \in Seq(Manifests) /\ Len(AuditedMoves) = Len(moves)
  BY <1>2, Audited
<1>4. moves' \in Seq(Manifests) /\ Len(moves') = Len(moves)
  <2>1. CASE moves' = AuditedMoves
    BY <1>3, <2>1
  <2>2. CASE \E done \in SUBSET Quarantined :
               moves' = [n \in DOMAIN moves |-> IF n \in done THEN AuditedMoves[n] ELSE moves[n]]
    <3>1. PICK done : moves' = [n \in DOMAIN moves |-> IF n \in done THEN AuditedMoves[n] ELSE moves[n]]
      BY <2>2
    <3>2. \A n \in 1..Len(moves) : AuditedMoves[n] \in Manifests /\ moves[n] \in Manifests
      BY <1>2, <1>3
    <3>3. moves' \in [1..Len(moves) -> Manifests]
      BY <1>2, <3>1, <3>2
    <3> QED BY <1>2, <3>3
  <2> QED BY <2>1, <2>2 DEF audit
<1>5. RestTyped' /\ ClientsTyped'
  BY <1>1, <1>4 DEF UndoInv, RestTyped, ClientsTyped
<1>6. Numbered'
  BY <1>1, <1>4 DEF UndoInv, Numbered, RowsMention, Mentions
<1>7. UndoHeld' /\ \A c \in Clients : Fits(client[c])' /\ Rightly(client[c])'
  BY <1>1 DEF UndoInv, UndoHeld, Displaced, RowTells, Answers, Fits, Rightly, SaysGone, Gone
<1> QED BY <1>5, <1>6, <1>7 DEF UndoInv

\* what others change is no longer what was moved
LEMMA TouchKeepsTheInvariant ==
  ASSUME UndoInv, NEW a \in Actions, Touched(a)
  PROVE  UndoInv'
<1>1. UNCHANGED <<moves, ledger, rows, client, lost>>
  BY DEF Touched
<1>2. RestTyped /\ target \in [Actions -> Targeted] /\ target[a] \in Targeted
  BY DEF UndoInv, RestTyped
<1>3. /\ target' \in [Actions -> Targeted]
      /\ \A b \in Actions : target'[b].at = target[b].at /\ (target'[b].is = "same" => target[b].is = "same")
  <2>1. CASE target[a].is = "same" /\ target' = [target EXCEPT ![a].is = "changed"]
    <3>1. /\ target' \in [Actions -> Targeted]
          /\ target'[a].at = target[a].at /\ target'[a].is = "changed"
          /\ \A b \in Actions : b # a => target'[b] = target[b]
      BY <1>2, <2>1, MadeTo
    <3> QED BY <3>1
  <2>2. CASE target' = [target EXCEPT ![a].taken = TRUE]
    <3> DEFINE t == [target[a] EXCEPT !.taken = TRUE]
    <3>1. t \in Targeted /\ t.at = target[a].at /\ t.is = target[a].is
      BY <1>2 DEF Targeted
    <3>2. target' = [target EXCEPT ![a] = t]
      BY <1>2, <2>2
    <3> HIDE DEF t
    <3>3. target'[a] = t /\ \A b \in Actions : b # a => target'[b] = target[b]
      BY <1>2, <3>2
    <3> QED BY <1>2, <3>1, <3>2, <3>3
  <2> QED BY <2>1, <2>2 DEF Touched
<1>4. RestTyped' /\ ClientsTyped'
  BY <1>1, <1>3 DEF UndoInv, RestTyped, ClientsTyped
<1>5. Numbered'
  BY <1>1 DEF UndoInv, Numbered, RowsMention, Mentions
<1>6. UndoHeld'
  BY <1>1, <1>3 DEF UndoInv, UndoHeld, Displaced, RowTells, Answers
<1>7. ASSUME NEW c \in Clients PROVE Fits(client[c])' /\ Rightly(client[c])'
  <2>1. Fits(client[c]) /\ Rightly(client[c])
    BY DEF UndoInv
  <2>2. Fits(client[c])'
    BY <1>1, <2>1 DEF Fits
  <2>3. SUFFICES ASSUME SaysGone(client[c]) PROVE Gone(client[c], client[c].action)'
    BY <1>1, <2>2 DEF Rightly, SaysGone
  <2>4. client[c].at \in InHand
    BY <2>3 DEF SaysGone, InHand, Back
  <2>5. client[c].action \in Actions
    BY <2>1, <2>4 DEF Fits
  <2>6. Gone(client[c], client[c].action)
    BY <2>1, <2>3 DEF Rightly
  <2>7. target'[client[c].action].at # client[c].copy[client[c].action].undo
        \/ target'[client[c].action].is # "same"
    BY <1>3, <2>5, <2>6 DEF Gone
  <2> QED BY <1>1, <2>7 DEF Gone
<1> QED BY <1>4, <1>5, <1>6, <1>7 DEF UndoInv

\* what is in the quarantine already has a number and a row
LEMMA CleanupStarts == CleanupInit => UndoInv
<1> SUFFICES ASSUME CleanupInit PROVE UndoInv
  OBVIOUS
<1>1. PICK n \in 0..MaxMoves, out \in SUBSET Actions :
        \E order \in [1..n -> Actions \ out] : BeginsWith(n, out, order)
  BY DEF CleanupInit
<1>2. PICK order \in [1..n -> Actions \ out] : BeginsWith(n, out, order)
  BY <1>1
<1> DEFINE done == Range(order)
           place == [a \in done |-> CHOOSE i \in 1..n : order[i] = a]
<1>3. n \in Nat
  BY CleanupAssumption
<1>4. \A a \in done : place[a] \in 1..n
  BY DEF Range
<1> HIDE DEF place
<1>5. /\ target = [a \in Actions |-> [at |-> IF a \in done THEN place[a] ELSE Home,
                                      is |-> "same", taken |-> FALSE]]
      /\ rows = [a \in Actions |-> IF a \in done
                                   THEN [status |-> "succeeded", undo |-> place[a]]
                                   ELSE [status |-> IF a \in out THEN "skipped" ELSE "planned",
                                         undo |-> Home]]
      /\ client = [c \in Clients |-> Idle] /\ lost = {}
  BY <1>2 DEF place, BeginsWith
<1>6. moves \in Seq(Manifests) /\ Len(moves) = n
  <2>1. \A i \in 1..n : [action |-> order[i], by |-> "quarantine", state |-> "isolated"] \in Manifests
    BY DEF Manifests, States
  <2>2. moves \in [1..n -> Manifests]
    BY <1>2, <2>1 DEF BeginsWith
  <2> QED BY <1>3, <2>2
<1> HIDE DEF done
<1>7. ASSUME NEW a \in Actions
      PROVE  target[a] \in Targeted /\ rows[a] \in Row /\ rows[a].undo <= n
             /\ (Displaced(a) => RowTells(a))
  <2>1. CASE a \in done
    <3>1. target[a] = [at |-> place[a], is |-> "same", taken |-> FALSE]
          /\ rows[a] = [status |-> "succeeded", undo |-> place[a]] /\ place[a] \in 1..n
      BY <1>4, <1>5, <2>1
    <3> QED BY <1>3, <3>1 DEF Targeted, Row, Statuses, RowTells
  <2>2. CASE a \notin done
    <3>1. target[a] = [at |-> Home, is |-> "same", taken |-> FALSE]
          /\ rows[a].undo = Home /\ rows[a].status \in Statuses
          /\ rows[a] = [status |-> rows[a].status, undo |-> Home]
      BY <1>5, <2>2 DEF Statuses
    <3> QED BY <1>3, <3>1 DEF Targeted, Row, Displaced, Home
  <2> QED BY <2>1, <2>2
<1>8. RestTyped
  <2>1. target \in [Actions -> Targeted] /\ rows \in [Actions -> Row]
    BY <1>5, <1>7
  <2> QED BY <1>5, <1>6, <2>1 DEF RestTyped
<1>9. \A c \in Clients : client[c] = Idle /\ Idle \in ClientRecord /\ Idle.op = "none" /\ Idle.at = ""
  BY <1>5 DEF Idle, ClientRecord, Ats, Hows
<1>10. ClientsTyped
  BY <1>5, <1>9 DEF ClientsTyped
<1>11. \A c \in Clients : Fits(client[c]) /\ Rightly(client[c]) /\ \A i \in Nat : ~Mentions(client[c], i)
  BY <1>9 DEF Fits, Rightly, SaysGone, Mentions, InHand, Moving, Back
<1>12. Numbered
  BY <1>6, <1>7, <1>9, <1>11 DEF Numbered, RowsMention
<1>13. UndoHeld
  BY <1>7 DEF UndoHeld
<1> QED BY <1>8, <1>10, <1>11, <1>12, <1>13 DEF UndoInv

LEMMA UndoInvariant == CleanupSpec => []UndoInv
<1>1. UndoInv /\ [CleanupNext]_cleanupVars => UndoInv'
  <2> SUFFICES ASSUME UndoInv, [CleanupNext]_cleanupVars PROVE UndoInv'
    OBVIOUS
  <2>1. CASE audit
    BY <2>1, AuditKeepsTheInvariant
  <2>2. ASSUME NEW a \in Actions, Touched(a) PROVE UndoInv'
    BY <2>2, TouchKeepsTheInvariant
  <2>3. ASSUME NEW c \in Clients, CleanupStep(c) PROVE UndoInv'
    BY <2>3, StepKeepsTheInvariant
  <2>4. ASSUME NEW c \in Clients, NEW op \in {"apply", "undo", "purge"}, get_plan(c, op) PROVE UndoInv'
    BY <2>3, <2>4, GetPlanSteps
  <2>5. ASSUME NEW c \in Clients, NEW how \in {"trash", "quarantine", "permanent"}, execute(c, how)
        PROVE UndoInv'
    BY <2>3, <2>5, ExecuteSteps
  <2>6. ASSUME NEW c \in Clients, NEW a \in Actions, Prepare(c, a) PROVE UndoInv'
    BY <2>3, <2>6, PrepareSteps
  <2>7. ASSUME NEW c \in Clients, NEW a \in Actions, Identify(c, a) PROVE UndoInv'
    BY <2>3, <2>7, IdentifySteps
  <2>8. ASSUME NEW c \in Clients, Recorded(c) \/ Unaudited(c) \/ Finish(c) PROVE UndoInv'
    BY <2>3, <2>8, RecordedSteps, UnauditedSteps, FinishSteps
  <2>9. ASSUME NEW c \in Clients, Trash(c) \/ TrashInfo(c) \/ Unlink(c) PROVE UndoInv'
    BY <2>3, <2>9, TrashSteps, TrashInfoSteps, UnlinkSteps
  <2>10. ASSUME NEW c \in Clients, Reserve(c) \/ PrepareManifest(c) \/ Rename(c) PROVE UndoInv'
    BY <2>3, <2>10, ReserveSteps, PrepareManifestSteps, RenameSteps
  <2>11. ASSUME NEW c \in Clients, Isolate(c) \/ Commit(c) \/ Dies(c) PROVE UndoInv'
    BY <2>3, <2>11, IsolateSteps, CommitSteps, DiesSteps
  <2>12. ASSUME NEW c \in Clients, Untrash(c) \/ Announce(c) \/ Return(c) PROVE UndoInv'
    BY <2>3, <2>12, UntrashSteps, AnnounceSteps, ReturnSteps
  <2>13. ASSUME NEW c \in Clients, Delete(c) \/ Settle(c) \/ Debit(c) PROVE UndoInv'
    BY <2>3, <2>13, DeleteSteps, SettleSteps, DebitSteps
  <2>14. CASE UNCHANGED cleanupVars
    BY <2>14 DEF cleanupVars, UndoInv, ClientsTyped, RestTyped, Numbered, RowsMention, Mentions,
                 UndoHeld, Displaced, RowTells, Answers, Fits, Rightly, SaysGone, Gone
  <2> QED BY <2>1, <2>2, <2>4, <2>5, <2>6, <2>7, <2>8, <2>9, <2>10, <2>11, <2>12, <2>13, <2>14
             DEF CleanupNext
<1> QED BY <1>1, CleanupStarts, PTL DEF CleanupSpec

(* For any number of clients, actions, failures and changes by others:     *)
(* what a cleanup moved and is still there can be undone from its row,     *)
(* unless its undo was lost in one of the ways that are counted, or a      *)
(* client is at work on it.                                                *)
THEOREM UndoIsKept == CleanupSpec => []UndoKept
<1>1. UndoInv => UndoKept
  <2> SUFFICES ASSUME UndoInv, NEW a \in Actions, Displaced(a), a \notin lost, ~RowTells(a)
               PROVE  \E c \in Clients : client[c].action = a /\ client[c].at \notin {"", "asked", "items"}
    BY DEF UndoKept, Displaced, RowTells
  <2>1. PICK c \in Clients : Answers(client[c], a)
    BY DEF UndoInv, UndoHeld
  <2> QED BY <2>1 DEF Answers
<1> QED BY <1>1, UndoInvariant, PTL
-----------------------------------------------------------------------------
(* Sums over finite sets.                                                  *)

\* Of sets that are bad, in a finite one, there is one that is least.
LEMMA LeastBad ==
  ASSUME NEW S, IsFiniteSet(S), NEW Bad, Bad \subseteq SUBSET S, Bad # {}
  PROVE  \E U \in Bad : \A V \in SUBSET S : V \subseteq U /\ V # U => V \notin Bad
<1>1. IsWellFoundedOn(StrictSubsetOrdering(S), SUBSET S)
  BY FS_StrictSubsetOrderingWellFounded, FS_FiniteSubsetsOfFinite
<1>2. PICK U \in Bad : \A V \in Bad : ~ (<<V, U>> \in StrictSubsetOrdering(S))
  BY <1>1, WFMin
<1>3. ASSUME NEW V \in SUBSET S, V \subseteq U, V # U PROVE V \notin Bad
  BY <1>2, <1>3 DEF StrictSubsetOrdering
<1> QED BY <1>3

Pick(s) == CHOOSE x \in s : TRUE
Adds(W, S, g) ==
  g = [s \in SUBSET S |-> IF s = {} THEN 0 ELSE W[Pick(s)] + g[s \ {Pick(s)}]]
Adder(W, S) == CHOOSE g : Adds(W, S, g)
Sum(W, S) == Adder(W, S)[S]

LEMMA Picked == ASSUME NEW s, s # {} PROVE Pick(s) \in s /\ s \ {Pick(s)} # s
BY DEF Pick

LEMMA AddsAt ==
  ASSUME NEW W, NEW S, NEW g, Adds(W, S, g), NEW s \in SUBSET S
  PROVE  g[s] = IF s = {} THEN 0 ELSE W[Pick(s)] + g[s \ {Pick(s)}]
<1> DEFINE e(t) == IF t = {} THEN 0 ELSE W[Pick(t)] + g[t \ {Pick(t)}]
<1>1. g = [t \in SUBSET S |-> e(t)]
  BY DEF Adds
<1> HIDE DEF e
<1>2. g[s] = e(s)
  BY <1>1
<1> QED BY <1>2 DEF e

\* The sums over the parts of a set do not depend on the set.
LEMMA AddsAlike ==
  ASSUME NEW W, NEW S, IsFiniteSet(S), NEW U \in SUBSET S, NEW g, NEW h,
         Adds(W, S, g), Adds(W, U, h), NEW s \in SUBSET U
  PROVE  g[s] = h[s]
<1> DEFINE Bad == {t \in SUBSET U : g[t] # h[t]}
<1> SUFFICES ASSUME Bad # {} PROVE FALSE
  OBVIOUS
<1>1. Bad \subseteq SUBSET S
  OBVIOUS
<1>2. PICK t \in Bad : \A V \in SUBSET S : V \subseteq t /\ V # t => V \notin Bad
  <2> HIDE DEF Bad
  <2> QED BY <1>1, LeastBad
<1>3. t \in SUBSET U /\ t \in SUBSET S /\ g[t] # h[t]
  OBVIOUS
<1> HIDE DEF Bad
<1>4. g[t] = IF t = {} THEN 0 ELSE W[Pick(t)] + g[t \ {Pick(t)}]
  BY <1>3, AddsAt
<1>5. h[t] = IF t = {} THEN 0 ELSE W[Pick(t)] + h[t \ {Pick(t)}]
  BY <1>3, AddsAt
<1>6. t # {}
  BY <1>3, <1>4, <1>5
<1>7. t \ {Pick(t)} # t
  BY <1>6, Picked
<1>8. t \ {Pick(t)} \in SUBSET U /\ t \ {Pick(t)} \in SUBSET S
  BY <1>3
<1>9. t \ {Pick(t)} \notin Bad
  BY <1>2, <1>7, <1>8
<1>10. g[t \ {Pick(t)}] = h[t \ {Pick(t)}]
  BY <1>8, <1>9 DEF Bad
<1> QED BY <1>3, <1>4, <1>5, <1>6, <1>10

LEMMA AdderAdds ==
  ASSUME NEW W, NEW S, IsFiniteSet(S)
  PROVE  Adds(W, S, Adder(W, S))
<1> DEFINE Bad == {U \in SUBSET S : ~ (\E g : Adds(W, U, g))}
<1>1. SUFFICES \E g : Adds(W, S, g)
  BY DEF Adder
<1> SUFFICES ASSUME Bad # {} PROVE FALSE
  OBVIOUS
<1>2. PICK U \in Bad : \A V \in SUBSET S : V \subseteq U /\ V # U => V \notin Bad
  <2>1. Bad \subseteq SUBSET S
    OBVIOUS
  <2> HIDE DEF Bad
  <2> QED BY <2>1, LeastBad
<1>3. U \in SUBSET S /\ ~ (\E g : Adds(W, U, g))
  OBVIOUS
<1>4. ASSUME NEW V \in SUBSET U, V # U PROVE Adds(W, V, Adder(W, V))
  <2>1. V \in SUBSET S /\ V \notin Bad
    BY <1>2, <1>3, <1>4
  <2>2. \E g : Adds(W, V, g)
    BY <2>1
  <2> QED BY <2>2 DEF Adder
<1> HIDE DEF Bad
<1> DEFINE below(s) == s \ {Pick(s)}
           value(s) == IF s = {} THEN 0
                       ELSE IF s = U THEN W[Pick(s)] + Adder(W, below(s))[below(s)]
                       ELSE Adder(W, s)[s]
           h == [s \in SUBSET U |-> value(s)]
           step(s) == IF s = {} THEN 0 ELSE W[Pick(s)] + h[s \ {Pick(s)}]
<1>5. ASSUME NEW s \in SUBSET U PROVE value(s) = step(s)
  <2>1. CASE s = {}
    BY <2>1
  <2>2. CASE s # {}
    <3>1. below(s) \in SUBSET s /\ below(s) \in SUBSET U /\ below(s) # s /\ below(s) # U
      BY <2>2, Picked
    <3>2. h[below(s)] = value(below(s))
      BY <3>1
    <3>3. Adds(W, below(s), Adder(W, below(s)))
      BY <3>1, <1>4
    <3>4. h[below(s)] = Adder(W, below(s))[below(s)]
      <4>1. CASE below(s) = {}
        <5>1. Adder(W, below(s))[below(s)] = 0
          BY <4>1, <3>3, AddsAt
        <5> QED BY <5>1, <4>1, <3>2
      <4>2. CASE below(s) # {}
        BY <4>2, <3>1, <3>2
      <4> QED BY <4>1, <4>2
    <3>5. CASE s = U
      BY <2>2, <3>4, <3>5
    <3>6. CASE s # U
      <4>1. Adds(W, s, Adder(W, s))
        BY <3>6, <1>4
      <4>2. Adder(W, s)[s] = W[Pick(s)] + Adder(W, s)[below(s)]
        <5>1. s \in SUBSET s
          OBVIOUS
        <5> QED BY <5>1, <4>1, <2>2, AddsAt
      <4>3. IsFiniteSet(s)
        BY <1>3, FS_Subset
      <4>4. Adder(W, s)[below(s)] = Adder(W, below(s))[below(s)]
        <5>1. below(s) \in SUBSET below(s)
          OBVIOUS
        <5> HIDE DEF below
        <5> QED BY <5>1, <3>1, <3>3, <4>1, <4>3, AddsAlike
      <4> QED BY <2>2, <3>4, <3>6, <4>2, <4>4
    <3> QED BY <3>5, <3>6
  <2> QED BY <2>1, <2>2
<1>6. h = [s \in SUBSET U |-> step(s)]
  <2> HIDE DEF value, step
  <2> QED BY <1>5
<1>7. Adds(W, U, h)
  <2> HIDE DEF h
  <2> QED BY <1>6 DEF Adds
<1> QED BY <1>3, <1>7

LEMMA SumOfNone == ASSUME NEW W PROVE Sum(W, {}) = 0
<1>1. Adds(W, {}, Adder(W, {}))
  BY AdderAdds, FS_EmptySet
<1> QED BY <1>1, AddsAt DEF Sum

LEMMA SumPicked ==
  ASSUME NEW W, NEW S, IsFiniteSet(S), S # {}
  PROVE  Sum(W, S) = W[Pick(S)] + Sum(W, S \ {Pick(S)})
<1> DEFINE T == S \ {Pick(S)}
<1>1. Adds(W, S, Adder(W, S)) /\ S \in SUBSET S
  BY AdderAdds
<1>2. Sum(W, S) = W[Pick(S)] + Adder(W, S)[T]
  BY <1>1, AddsAt DEF Sum
<1>3. IsFiniteSet(T) /\ T \in SUBSET S /\ T \in SUBSET T
  BY FS_Subset
<1>4. Adds(W, T, Adder(W, T))
  BY <1>3, AdderAdds
<1> HIDE DEF T
<1>5. Adder(W, S)[T] = Adder(W, T)[T]
  BY <1>1, <1>3, <1>4, AddsAlike
<1> QED BY <1>2, <1>5 DEF Sum, T

LEMMA SumIsNumber ==
  ASSUME NEW D, NEW W \in [D -> Nat], NEW S \in SUBSET D, IsFiniteSet(S)
  PROVE  Sum(W, S) \in Nat
<1> DEFINE Bad == {U \in SUBSET S : Sum(W, U) \notin Nat}
<1> SUFFICES ASSUME Bad # {} PROVE FALSE
  OBVIOUS
<1>1. PICK U \in Bad : \A V \in SUBSET S : V \subseteq U /\ V # U => V \notin Bad
  <2>1. Bad \subseteq SUBSET S
    OBVIOUS
  <2> HIDE DEF Bad
  <2> QED BY <2>1, LeastBad
<1>2. U \in SUBSET S /\ Sum(W, U) \notin Nat /\ IsFiniteSet(U)
  BY FS_Subset
<1>3. U # {}
  BY <1>2, SumOfNone
<1>4. Pick(U) \in U /\ U \ {Pick(U)} # U /\ U \ {Pick(U)} \in SUBSET S
  BY <1>2, <1>3, Picked
<1>5. U \ {Pick(U)} \notin Bad
  BY <1>1, <1>4
<1>6. Sum(W, U \ {Pick(U)}) \in Nat
  BY <1>4, <1>5
<1>7. Sum(W, U) = W[Pick(U)] + Sum(W, U \ {Pick(U)})
  BY <1>2, <1>3, SumPicked
<1>8. W[Pick(U)] \in Nat
  BY <1>2, <1>4
<1> QED BY <1>2, <1>6, <1>7, <1>8

\* It does not matter in which order one adds.
LEMMA SumWithout ==
  ASSUME NEW D, NEW W \in [D -> Nat], NEW S \in SUBSET D, IsFiniteSet(S), NEW b \in S
  PROVE  Sum(W, S) = W[b] + Sum(W, S \ {b})
<1> DEFINE Splits(U, a) == Sum(W, U) = W[a] + Sum(W, U \ {a})
           Bad == {U \in SUBSET S : \E a \in U : ~Splits(U, a)}
<1>0. SUFFICES ASSUME Bad # {} PROVE FALSE
  OBVIOUS
<1>1. PICK U \in Bad : \A V \in SUBSET S : V \subseteq U /\ V # U => V \notin Bad
  <2>1. Bad \subseteq SUBSET S
    OBVIOUS
  <2> HIDE DEF Bad
  <2> QED BY <1>0, <2>1, LeastBad
<1>2. PICK a \in U : ~Splits(U, a)
  OBVIOUS
<1>3. ASSUME NEW V \in SUBSET S, V \subseteq U, V # U, NEW c \in V PROVE Splits(V, c)
  <2>1. V \notin Bad
    BY <1>1, <1>3
  <2> QED BY <2>1
<1>4. U \in SUBSET S /\ U # {} /\ a \in U /\ IsFiniteSet(U)
  BY FS_Subset
<1> HIDE DEF Bad
<1> DEFINE x == Pick(U)
<1>5. x \in U /\ Splits(U, x)
  BY <1>4, Picked, SumPicked
<1> HIDE DEF x
<1>6. x # a
  BY <1>2, <1>5
<1>7. Splits(U \ {x}, a) /\ Splits(U \ {a}, x)
  BY <1>3, <1>4, <1>5, <1>6
<1>8. (U \ {x}) \ {a} = (U \ {a}) \ {x} /\ IsFiniteSet((U \ {a}) \ {x})
  BY <1>4, FS_Subset
<1>9. W[x] \in Nat /\ W[a] \in Nat /\ Sum(W, (U \ {a}) \ {x}) \in Nat
  BY <1>4, <1>5, <1>8, SumIsNumber
<1>10. /\ Sum(W, U) = W[x] + Sum(W, U \ {x})
       /\ Sum(W, U \ {x}) = W[a] + Sum(W, (U \ {a}) \ {x})
       /\ Sum(W, U \ {a}) = W[x] + Sum(W, (U \ {a}) \ {x})
  BY <1>5, <1>7, <1>8
<1> HIDE DEF Splits
<1>11. Sum(W, U) = W[a] + Sum(W, U \ {a})
  BY <1>9, <1>10
<1> QED BY <1>2, <1>11 DEF Splits

LEMMA SumMonotone ==
  ASSUME NEW D, NEW W \in [D -> Nat], NEW S \in SUBSET D, IsFiniteSet(S), NEW T \in SUBSET S
  PROVE  Sum(W, T) <= Sum(W, S)
<1> DEFINE Bad == {U \in SUBSET S : T \subseteq U /\ ~ (Sum(W, T) <= Sum(W, U))}
<1>0. SUFFICES ASSUME Bad # {} PROVE FALSE
  OBVIOUS
<1>1. PICK U \in Bad : \A V \in SUBSET S : V \subseteq U /\ V # U => V \notin Bad
  <2>1. Bad \subseteq SUBSET S
    OBVIOUS
  <2> HIDE DEF Bad
  <2> QED BY <1>0, <2>1, LeastBad
<1>2. U \in SUBSET S /\ T \subseteq U /\ ~ (Sum(W, T) <= Sum(W, U))
  OBVIOUS
<1>3. /\ IsFiniteSet(U) /\ IsFiniteSet(T) /\ Sum(W, T) \in Nat /\ Sum(W, U) \in Nat
  <2>1. IsFiniteSet(U) /\ IsFiniteSet(T)
    BY FS_Subset
  <2> QED BY <2>1, <1>2, SumIsNumber
<1>4. PICK a \in U : a \notin T
  BY <1>2, <1>3
<1>5. U \ {a} \notin Bad /\ U \ {a} \in SUBSET S /\ T \subseteq U \ {a}
  BY <1>1, <1>2, <1>4
<1>6. Sum(W, T) <= Sum(W, U \ {a})
  BY <1>5
<1>7. IsFiniteSet(U \ {a}) /\ Sum(W, U \ {a}) \in Nat
  <2>1. IsFiniteSet(U \ {a})
    BY <1>3, FS_Subset
  <2> QED BY <2>1, <1>2, SumIsNumber
<1>8. Sum(W, U) = W[a] + Sum(W, U \ {a}) /\ W[a] \in Nat
  BY <1>2, <1>3, SumWithout
<1> QED BY <1>2, <1>3, <1>6, <1>7, <1>8

LEMMA BytesAreASum == ASSUME NEW S PROVE BytesOf(S) = Sum(Bytes, S)
BY DEF BytesOf, FoldFunctionOnSet, MapThenFoldSet, Sum, Adder, Adds, Pick

\* What the sizes of targets add up to.
LEMMA BytesAreNumbers == ASSUME NEW S \in SUBSET Actions PROVE BytesOf(S) \in Nat
<1>1. IsFiniteSet(S) /\ Bytes \in [Actions -> Nat]
  BY CleanupAssumption, FS_Subset
<1> QED BY <1>1, BytesAreASum, SumIsNumber

LEMMA BytesOfNone == BytesOf({}) = 0
BY BytesAreASum, SumOfNone

LEMMA BytesOfPart ==
  ASSUME NEW S \in SUBSET Actions, NEW T \in SUBSET S PROVE BytesOf(T) <= BytesOf(S)
<1>1. IsFiniteSet(S) /\ Bytes \in [Actions -> Nat]
  BY CleanupAssumption, FS_Subset
<1> QED BY <1>1, BytesAreASum, SumMonotone

LEMMA BytesWithout ==
  ASSUME NEW S \in SUBSET Actions, NEW a \in S
  PROVE  BytesOf(S) = Bytes[a] + BytesOf(S \ {a}) /\ Bytes[a] \in Nat
<1>1. IsFiniteSet(S) /\ Bytes \in [Actions -> Nat]
  BY CleanupAssumption, FS_Subset
<1> QED BY <1>1, BytesAreASum, SumWithout

LEMMA BytesOfOne == ASSUME NEW a \in Actions PROVE BytesOf({a}) = Bytes[a] /\ Bytes[a] \in Nat
<1>1. {a} \ {a} = {}
  OBVIOUS
<1>2. BytesOf({a}) = Bytes[a] + BytesOf({a} \ {a}) /\ Bytes[a] \in Nat
  BY BytesWithout
<1> QED BY <1>1, <1>2, BytesOfNone

LEMMA BytesOfOneMore ==
  ASSUME NEW S \in SUBSET Actions, NEW a \in Actions, NEW T \in SUBSET (S \cup {a})
  PROVE  BytesOf(T) <= BytesOf(S) + Bytes[a]
<1>1. BytesOf(S) \in Nat /\ BytesOf(T) \in Nat /\ Bytes[a] \in Nat /\ T \in SUBSET Actions
  BY BytesAreNumbers, BytesOfOne
<1>2. CASE a \in T
  <2>1. BytesOf(T) = Bytes[a] + BytesOf(T \ {a})
    BY <1>1, <1>2, BytesWithout
  <2>2. T \ {a} \in SUBSET S /\ BytesOf(T \ {a}) \in Nat
    BY BytesAreNumbers
  <2>3. BytesOf(T \ {a}) <= BytesOf(S)
    BY <2>2, BytesOfPart
  <2> QED BY <1>1, <2>1, <2>2, <2>3
<1>3. CASE a \notin T
  <2>1. BytesOf(T) <= BytesOf(S)
    BY <1>3, BytesOfPart
  <2> QED BY <1>1, <2>1
<1> QED BY <1>2, <1>3

LEMMA BytesOfOneLess ==
  ASSUME NEW S \in SUBSET Actions, NEW a \in S, NEW T \in SUBSET (S \ {a})
  PROVE  BytesOf(T) + Bytes[a] <= BytesOf(S)
<1>1. S \ {a} \in SUBSET Actions /\ T \in SUBSET Actions
  OBVIOUS
<1>2. BytesOf(S) = Bytes[a] + BytesOf(S \ {a}) /\ Bytes[a] \in Nat
  BY BytesWithout
<1>3. BytesOf(T) <= BytesOf(S \ {a}) /\ BytesOf(T) \in Nat /\ BytesOf(S \ {a}) \in Nat
  BY <1>1, BytesOfPart, BytesAreNumbers
<1> QED BY <1>2, <1>3

-----------------------------------------------------------------------------
(* The quarantine.                                                         *)

\* whose move it is that a row, a target or a client speaks of
Own(n, a) == n = Home \/ (n \in DOMAIN moves /\ moves[n].action = a)
Lawful(k) ==
  /\ k.op # "none" => \A a \in Actions : Own(k.copy[a].undo, a)
  /\ k.at = "record" => Own(k.result.undo, k.action)
  /\ k.at \in Moving => k.move # Home /\ Own(k.move, k.action)
Owned ==
  /\ \A a \in Actions : Own(rows[a].undo, a) /\ Own(target[a].at, a)
  /\ \A c \in Clients : Lawful(client[c])

\* what is in the quarantine, with a manifest that does not deny it
InQuarantine(a) == target[a].is = "same" /\ target[a].at \in Quarantined
Stored == {a \in Actions : InQuarantine(a)}
Standing == {"prepared", "isolated", "restoring", "purging"}
ManifestsStand == \A a \in Actions : InQuarantine(a) => moves[target[a].at].state \in Standing

LedgerTyped == ledger \in [bytes : Nat, pending : SUBSET Actions]
OneHolder ==
  \A c, d \in Clients : client[c].at \in Locking /\ client[d].at \in Locking => c = d
Bounded ==
  /\ BytesOf(Stored) <= ledger.bytes + BytesOf(ledger.pending)
  /\ ledger.bytes + BytesOf(ledger.pending) <= Capacity

\* what the client with the lock may rely on, step after step
Holder(k) ==
  /\ k.at \in {"prepare", "rename", "isolate", "commit"} =>
       ledger.pending = {k.action} /\ ledger.bytes + Bytes[k.action] <= Capacity
  /\ k.at \in {"prepare", "rename", "return", "delete"} => BytesOf(Stored) <= ledger.bytes
  /\ k.at \in {"isolate", "commit"} => BytesOf(Stored) <= ledger.bytes + Bytes[k.action]
  /\ k.at = "rename" => target[k.action].at # k.move /\ moves[k.move].state = "prepared"
  /\ k.at \in {"return", "delete", "settle", "debit"} =>
       ledger.pending = {} /\ moves[k.copy[k.action].undo].by = "quarantine"
  /\ k.at \in {"settle", "debit"} => BytesOf(Stored) + Bytes[k.action] <= ledger.bytes

QuarantineInv ==
  /\ Owned /\ ManifestsStand /\ LedgerTyped /\ OneHolder /\ Bounded
  /\ \A c \in Clients : Holder(client[c])

\* what every step does
ManifestsStay ==
  \A n \in DOMAIN moves :
    n \in DOMAIN moves' /\ moves'[n].action = moves[n].action /\ moves'[n].by = moves[n].by
OwnStep(c) ==
  /\ ManifestsStay
  /\ \A d \in Clients \ {c} : client'[d] = client[d]
  /\ \A a \in Actions : Own(rows[a].undo, a)' /\ Own(target[a].at, a)'
  /\ Lawful(client[c])'

\* what a step does that is not one of the quarantine, or gives up the lock
QuietStep(c) ==
  /\ ledger' = ledger /\ client'[c].at \notin Locking
  /\ \A a \in Actions : InQuarantine(a)' =>
       InQuarantine(a) /\ moves'[target'[a].at].state \in Standing
  /\ client[c].at \notin Locking =>
       /\ \A a \in Actions : target'[a].at \in {target[a].at, Home} \/ target'[a].at \notin DOMAIN moves
       /\ \A n \in DOMAIN moves : moves'[n].state = moves[n].state \/ Mentions(client[c], n)

LEMMA OwnersKept ==
  ASSUME Owned, NEW c \in Clients, OwnStep(c) PROVE Owned'
<1>1. ASSUME NEW n, NEW a, Own(n, a) PROVE Own(n, a)'
  BY <1>1 DEF OwnStep, ManifestsStay, Own
<1>2. ASSUME NEW d \in Clients \ {c} PROVE Lawful(client[d])'
  <2>1. client'[d] = client[d] /\ Lawful(client[d])
    BY DEF OwnStep, Owned
  <2>2. client[d].op # "none" => \A a \in Actions : Own(client[d].copy[a].undo, a)
    BY <2>1 DEF Lawful
  <2>3. client[d].op # "none" =>
          \A a \in Actions : client[d].copy[a].undo = Home
            \/ (client[d].copy[a].undo \in DOMAIN moves' /\ moves'[client[d].copy[a].undo].action = a)
    BY <1>1, <2>2 DEF Own
  <2>4. client[d].at = "record" =>
          client[d].result.undo = Home
            \/ (client[d].result.undo \in DOMAIN moves' /\ moves'[client[d].result.undo].action = client[d].action)
    BY <1>1, <2>1 DEF Own, Lawful
  <2>5. client[d].at \in Moving =>
          client[d].move # Home /\ client[d].move \in DOMAIN moves'
          /\ moves'[client[d].move].action = client[d].action
    BY <1>1, <2>1 DEF Own, Lawful
  <2> QED BY <2>1, <2>3, <2>4, <2>5 DEF Lawful, Own
<1> QED BY <1>2 DEF Owned, OwnStep

LEMMA StoredAreActions ==
  Stored \in SUBSET Actions /\ BytesOf(Stored) \in Nat
BY BytesAreNumbers DEF Stored

LEMMA LedgerCounts ==
  ASSUME LedgerTyped
  PROVE  ledger.bytes \in Nat /\ ledger.pending \in SUBSET Actions /\ BytesOf(ledger.pending) \in Nat
BY BytesAreNumbers DEF LedgerTyped

LEMMA QuietKeeps ==
  ASSUME UndoInv, QuarantineInv, NEW c \in Clients, OwnStep(c), QuietStep(c)
  PROVE  QuarantineInv'
<1>1. /\ Owned /\ ManifestsStand /\ LedgerTyped /\ OneHolder /\ Bounded
      /\ ledger' = ledger /\ client'[c].at \notin Locking
      /\ \A d \in Clients \ {c} : client'[d] = client[d]
  BY DEF QuarantineInv, QuietStep, OwnStep
<1>2. Owned'
  BY <1>1, OwnersKept
<1>3. ManifestsStand'
  BY DEF QuietStep, ManifestsStand
<1>4. LedgerTyped' /\ OneHolder'
  BY <1>1 DEF LedgerTyped, OneHolder
<1>5. Stored' \in SUBSET Stored
  BY DEF Stored, QuietStep
<1>6. /\ BytesOf(Stored') <= BytesOf(Stored) /\ BytesOf(Stored') \in Nat /\ BytesOf(Stored) \in Nat
      /\ ledger.bytes \in Nat /\ BytesOf(ledger.pending) \in Nat /\ Bytes \in [Actions -> Nat]
  <2>1. Stored \in SUBSET Actions /\ Stored' \in SUBSET Actions
    BY <1>5, StoredAreActions
  <2> QED BY <1>1, <1>5, <2>1, BytesOfPart, BytesAreNumbers, LedgerCounts, CleanupAssumption
<1>7. Bounded'
  BY <1>1, <1>6 DEF Bounded
<1>8. ASSUME NEW d \in Clients PROVE Holder(client[d])'
  <2>1. CASE client'[d].at \notin Locking
    BY <2>1 DEF Holder, Locking
  <2>2. CASE client'[d].at \in Locking
    <3> DEFINE k == client[d]
               a == client[d].action
    <3>1. d # c /\ client'[d] = k /\ k.at \in Locking /\ client[c].at \notin Locking
      BY <1>1, <2>2 DEF OneHolder
    <3>2. k.at \in InHand /\ a \in Actions /\ Fits(k) /\ Lawful(k) /\ Holder(k)
      <4>1. k.at \in InHand
        BY <3>1 DEF Locking, InHand, Moving, Back
      <4> QED BY <4>1, ItsRecord, ItsAction DEF QuarantineInv, Owned
    <3>3. Bytes[a] \in Nat
      BY <1>6, <3>2
    <3>4. k.at = "rename" => target'[a].at # k.move /\ moves'[k.move].state = "prepared"
      <4> SUFFICES ASSUME k.at = "rename" PROVE target'[a].at # k.move /\ moves'[k.move].state = "prepared"
        OBVIOUS
      <4>1. target[a].at # k.move /\ moves[k.move].state = "prepared"
        BY <3>2 DEF Holder
      <4>2. k.move # Home /\ k.move \in DOMAIN moves
        BY <3>2 DEF Lawful, Own, Moving
      <4>3. ~Mentions(client[c], k.move)
        BY <3>1 DEF UndoInv, Numbered
      <4> QED BY <3>1, <3>2, <4>1, <4>2, <4>3 DEF QuietStep
    <3>5. k.at \in {"return", "delete", "settle", "debit"} =>
            moves'[k.copy[a].undo].by = "quarantine"
      <4> SUFFICES ASSUME k.at \in {"return", "delete", "settle", "debit"}
                   PROVE  moves'[k.copy[a].undo].by = "quarantine"
        OBVIOUS
      <4>1. k.op # "none" /\ k.copy[a].undo # Home
        BY <3>2 DEF Fits, Back
      <4>2. k.copy[a].undo \in DOMAIN moves
        BY <3>2, <4>1 DEF Lawful, Own
      <4> QED BY <3>2, <4>2 DEF Holder, OwnStep, ManifestsStay
    <3>6. BytesOf(Stored) <= ledger.bytes => BytesOf(Stored') <= ledger.bytes
      BY <1>6
    <3>7. BytesOf(Stored) <= ledger.bytes + Bytes[a] => BytesOf(Stored') <= ledger.bytes + Bytes[a]
      BY <1>6, <3>3
    <3>8. BytesOf(Stored) + Bytes[a] <= ledger.bytes => BytesOf(Stored') + Bytes[a] <= ledger.bytes
      BY <1>6, <3>3
    <3>9. Holder(k)
      BY <3>2
    <3> HIDE DEF a
    <3> QED BY <1>1, <3>1, <3>4, <3>5, <3>6, <3>7, <3>8, <3>9 DEF Holder, a
  <2> QED BY <2>1, <2>2
<1> QED BY <1>2, <1>3, <1>4, <1>7, <1>8 DEF QuarantineInv

LEMMA HolderKeeps ==
  ASSUME UndoInv, QuarantineInv, NEW c \in Clients, OwnStep(c),
         client[c].at \in Locking \/ Unlocked,
         ManifestsStand', LedgerTyped', Bounded', Holder(client[c])'
  PROVE  QuarantineInv'
<1>1. Owned /\ OneHolder /\ \A d \in Clients \ {c} : client'[d] = client[d]
  BY DEF QuarantineInv, OwnStep
<1>2. \A d \in Clients \ {c} : client'[d].at \notin Locking
  BY <1>1 DEF OneHolder, Unlocked
<1>3. OneHolder'
  BY <1>2 DEF OneHolder
<1>4. \A d \in Clients \ {c} : Holder(client[d])'
  BY <1>2 DEF Holder, Locking
<1> QED BY <1>1, <1>3, <1>4, OwnersKept DEF QuarantineInv

\* manifests are written, added and audited; whose they are does not change
LEMMA ManifestsStayWhoseTheyAre ==
  ASSUME RestTyped,
         \/ UNCHANGED moves
         \/ moves' = LoadedMoves
         \/ \E m \in Manifests : moves' = Append(moves, m)
         \/ \E n \in Nat, st \in States : moves' = [moves EXCEPT ![n].state = st]
         \/ \E n \in Nat, st \in States : moves' = [LoadedMoves EXCEPT ![n].state = st]
  PROVE  ManifestsStay
<1>1. /\ Len(moves) \in Nat /\ DOMAIN moves = 1..Len(moves)
      /\ \A n \in DOMAIN moves : moves[n] \in Manifests
  BY DEF RestTyped
<1> DEFINE Alike(m) == DOMAIN m = DOMAIN moves
                       /\ \A n \in DOMAIN moves : m[n] \in Manifests /\ m[n].action = moves[n].action
                                                  /\ m[n].by = moves[n].by
<1>2. Alike(AuditedMoves)
  <2>1. ASSUME NEW n \in DOMAIN moves
        PROVE  LET s == [moves[n] EXCEPT !.state = Settled(n)]
               IN  /\ s.action = moves[n].action /\ s.by = moves[n].by
                   /\ Settled(n) # "" => s \in Manifests
    <3>1. Settled(n) \in States \cup {""}
      BY <1>1 DEF Settled, States, Manifests
    <3> QED BY <1>1, <3>1 DEF Manifests
  <2> QED BY <1>1, <2>1 DEF AuditedMoves
<1>3. Alike(LoadedMoves)
  BY <1>1, <1>2 DEF LoadedMoves
<1>4. ASSUME NEW m, Alike(m), NEW i, NEW st \in States, moves' = [m EXCEPT ![i].state = st]
      PROVE  ManifestsStay
  <2>1. ASSUME NEW n \in DOMAIN moves
        PROVE  n \in DOMAIN moves' /\ moves'[n].action = moves[n].action /\ moves'[n].by = moves[n].by
    <3>1. m[n] \in Manifests /\ n \in DOMAIN m /\ m[n].action = moves[n].action /\ m[n].by = moves[n].by
      BY <1>4
    <3>2. moves'[n] = IF n = i THEN [m[n] EXCEPT !.state = st] ELSE m[n]
      BY <1>4, <3>1
    <3>3. n \in DOMAIN moves'
      BY <1>4, <3>1
    <3> QED BY <3>1, <3>2, <3>3 DEF Manifests
  <2> QED BY <2>1 DEF ManifestsStay
<1>5. CASE \E m \in Manifests : moves' = Append(moves, m)
  <2>1. PICK m \in Manifests : moves' = Append(moves, m)
    BY <1>5
  <2>2. moves \in Seq(Manifests)
    BY DEF RestTyped
  <2>3. DOMAIN moves' = 1..(Len(moves) + 1) /\ \A n \in 1..Len(moves) : moves'[n] = moves[n]
    BY <2>1, <2>2
  <2>4. \A n \in 1..Len(moves) : n \in 1..(Len(moves) + 1)
    BY <1>1
  <2>5. \A n \in DOMAIN moves : n \in DOMAIN moves' /\ moves'[n] = moves[n]
    <3> HIDE DEF Alike
    <3> QED BY <1>1, <2>3, <2>4
  <2> QED BY <2>5 DEF ManifestsStay
<1>6. Alike(moves)
  BY <1>1
<1>7. CASE moves' = LoadedMoves
  BY <1>3, <1>7 DEF ManifestsStay
<1> HIDE DEF Alike
<1> QED BY <1>3, <1>4, <1>5, <1>6, <1>7 DEF ManifestsStay

\* whose move a client has in hand
LEMMA ItsOwnMove ==
  ASSUME UndoInv, Owned, NEW c \in Clients, client[c].at \in InHand
  PROVE  /\ Own(Move(c), client[c].action) /\ Own(client[c].copy[client[c].action].undo, client[c].action)
         /\ client[c].op # "apply" => Move(c) \in DOMAIN moves /\ moves[Move(c)].action = client[c].action
         /\ \A a \in Actions : Own(client[c].copy[a].undo, a)
<1>1. Lawful(client[c]) /\ Fits(client[c])
  BY ItsRecord DEF Owned
<1>2. client[c].action \in Actions /\ client[c].op # "none"
      /\ Move(c) = client[c].copy[client[c].action].undo
  BY ItsAction
<1>3. client[c].op # "apply" => Move(c) # Home
  BY <1>1, <1>2 DEF Fits
<1> QED BY <1>1, <1>2, <1>3 DEF Lawful, Own

\* how a client goes on and keeps to its own
LEMMA OwnGoing ==
  ASSUME UndoInv, Owned, ManifestsStay, NEW c \in Clients, client[c].at \in InHand,
         NEW there \in Ats \ {"record"}, Goes(c, there), there \in Moving => client[c].at \in Moving
  PROVE  /\ Lawful(client[c])' /\ client'[c].at = there
         /\ client'[c].action = client[c].action /\ client'[c].op = client[c].op
         /\ client'[c].copy = client[c].copy /\ client'[c].move = client[c].move
         /\ \A d \in Clients \ {c} : client'[d] = client[d]
<1>1. /\ client'[c].at = there
      /\ client'[c].action = client[c].action /\ client'[c].op = client[c].op
      /\ client'[c].copy = client[c].copy /\ client'[c].move = client[c].move
      /\ \A d \in Clients \ {c} : client'[d] = client[d]
  BY ItsRecord, GoesThere
<1>2. Lawful(client[c])
  BY DEF Owned
<1>3. \A a \in Actions : client[c].copy[a].undo = Home
        \/ (client[c].copy[a].undo \in DOMAIN moves' /\ moves'[client[c].copy[a].undo].action = a)
  BY ItsOwnMove DEF Own, ManifestsStay
<1>4. there \in Moving => client[c].move # Home /\ client[c].move \in DOMAIN moves'
                          /\ moves'[client[c].move].action = client[c].action
  BY <1>2 DEF Lawful, Own, ManifestsStay
<1> QED BY <1>1, <1>3, <1>4 DEF Lawful, Own

LEMMA OwnEnding ==
  ASSUME UndoInv, Owned, ManifestsStay, NEW c \in Clients, client[c].at \in InHand,
         NEW r \in Row, Ends(c, r), Own(r.undo, client[c].action)
  PROVE  /\ Lawful(client[c])' /\ client'[c].at = "record"
         /\ \A d \in Clients \ {c} : client'[d] = client[d]
<1>1. /\ client'[c].at = "record" /\ client'[c].result = r
      /\ client'[c].action = client[c].action /\ client'[c].op = client[c].op
      /\ client'[c].copy = client[c].copy
      /\ \A d \in Clients \ {c} : client'[d] = client[d]
  BY ItsRecord, EndsWith
<1>2. \A a \in Actions : client[c].copy[a].undo = Home
        \/ (client[c].copy[a].undo \in DOMAIN moves' /\ moves'[client[c].copy[a].undo].action = a)
  BY ItsOwnMove DEF Own, ManifestsStay
<1>3. r.undo = Home \/ (r.undo \in DOMAIN moves' /\ moves'[r.undo].action = client[c].action)
  BY DEF Own, ManifestsStay
<1> QED BY <1>1, <1>2, <1>3 DEF Lawful, Own, Moving

LEMMA OwnFailing ==
  ASSUME UndoInv, Owned, ManifestsStay, NEW c \in Clients, client[c].at \in InHand,
         Fails(c) \/ Errs(c)
  PROVE  /\ Lawful(client[c])' /\ client'[c].at = "record"
         /\ \A d \in Clients \ {c} : client'[d] = client[d]
<1> DEFINE r == client[c].copy[client[c].action]
           f == [r EXCEPT !.status = "failed"]
<1>1. r \in Row /\ f \in Row /\ f.undo = r.undo /\ Own(r.undo, client[c].action)
  BY ItsAction, ItsOwnMove DEF Row, Statuses
<1>2. Ends(c, f) \/ Ends(c, r)
  BY DEF Fails, Errs
<1> HIDE DEF r, f
<1> QED BY <1>1, <1>2, OwnEnding

LEMMA OwnReturning ==
  ASSUME UndoInv, NEW c \in Clients, Returns(c)
  PROVE  /\ Lawful(client[c])' /\ client'[c].at = ""
         /\ \A d \in Clients \ {c} : client'[d] = client[d]
<1>1. client'[c].at = "" /\ client'[c].op = "none" /\ \A d \in Clients \ {c} : client'[d] = client[d]
  BY ItsRecord, ReturnsIdle
<1> QED BY <1>1 DEF Lawful, Moving

LEMMA OwnStaying ==
  ASSUME Owned, ManifestsStay, NEW c \in Clients, UNCHANGED rows, Lawful(client[c])',
         \A d \in Clients \ {c} : client'[d] = client[d],
         \A a \in Actions : target'[a].at \in {target[a].at, Home} \/ Own(target[a].at, a)'
  PROVE  OwnStep(c)
<1>1. ASSUME NEW n, NEW a, Own(n, a) PROVE Own(n, a)'
  BY <1>1 DEF ManifestsStay, Own
<1>2. ASSUME NEW a \in Actions PROVE Own(rows[a].undo, a)'
  <2>1. Own(rows[a].undo, a) /\ rows' = rows
    BY DEF Owned
  <2>2. rows[a].undo = Home \/ (rows[a].undo \in DOMAIN moves' /\ moves'[rows[a].undo].action = a)
    BY <1>1, <2>1 DEF Own
  <2> QED BY <2>1, <2>2 DEF Own
<1>3. ASSUME NEW a \in Actions PROVE Own(target[a].at, a)'
  <2>1. target[a].at = Home \/ (target[a].at \in DOMAIN moves' /\ moves'[target[a].at].action = a)
    BY <1>1 DEF Own, Owned
  <2> QED BY <2>1 DEF Own
<1> QED BY <1>2, <1>3 DEF OwnStep

\* a step that puts nothing into the quarantine
LEMMA NothingEnters ==
  ASSUME RestTyped, RestTyped', Owned, ManifestsStay, NEW a \in Actions, InQuarantine(a)',
         target'[a].at \in {target[a].at, Home}, target'[a].is = "same" => target[a].is = "same"
  PROVE  InQuarantine(a) /\ target'[a].at = target[a].at
<1>1. target'[a].at \in DOMAIN moves' /\ moves'[target'[a].at].by = "quarantine" /\ target'[a].is = "same"
  BY DEF InQuarantine, Quarantined
<1>2. DOMAIN moves' = 1..Len(moves') /\ Len(moves') \in Nat
  BY DEF RestTyped
<1>3. target'[a].at # Home
  BY <1>1, <1>2 DEF Home
<1>4. target'[a].at = target[a].at /\ target[a].at \in DOMAIN moves
  BY <1>3 DEF Owned, Own
<1>5. moves[target[a].at].by = "quarantine"
  BY <1>1, <1>4 DEF ManifestsStay
<1> QED BY <1>1, <1>4, <1>5 DEF InQuarantine, Quarantined

LEMMA QuietFrom ==
  ASSUME UndoInv, QuarantineInv, NEW c \in Clients, OwnStep(c), RestTyped',
         ledger' = ledger, client'[c].at \notin Locking,
         \A a \in Actions :
           \/ /\ target'[a].at \in {target[a].at, Home}
              /\ target'[a].is = "same" => target[a].is = "same"
           \/ target'[a].at \notin DOMAIN moves /\ ~ InQuarantine(a)',
         \A n \in DOMAIN moves :
           \/ moves'[n].state = moves[n].state \/ moves'[n].state \in Standing
           \/ \A a \in Actions : target'[a].at # n \/ target'[a].is # "same",
         client[c].at \notin Locking =>
           \A n \in DOMAIN moves : moves'[n].state = moves[n].state \/ Mentions(client[c], n)
  PROVE  QuarantineInv'
<1>1. RestTyped /\ Owned /\ ManifestsStand /\ ManifestsStay
  BY DEF UndoInv, QuarantineInv, OwnStep
<1>2. ASSUME NEW a \in Actions, InQuarantine(a)'
      PROVE  InQuarantine(a) /\ moves'[target'[a].at].state \in Standing
  <2>1. InQuarantine(a) /\ target'[a].at = target[a].at /\ target'[a].is = "same"
    BY <1>1, <1>2, NothingEnters DEF InQuarantine
  <2>2. target[a].at \in DOMAIN moves /\ moves[target[a].at].state \in Standing
    BY <1>1, <2>1 DEF InQuarantine, Quarantined, ManifestsStand
  <2> QED BY <2>1, <2>2
<1>3. \A a \in Actions : target'[a].at \in {target[a].at, Home} \/ target'[a].at \notin DOMAIN moves
  OBVIOUS
<1>4. QuietStep(c)
  BY <1>2, <1>3 DEF QuietStep
<1> QED BY <1>4, QuietKeeps

\* only rows and clients change
LEMMA OnlyWords ==
  ASSUME UndoInv, QuarantineInv, NEW c \in Clients, RestTyped', UNCHANGED <<target, moves, ledger>>,
         client'[c].at \notin Locking, \A d \in Clients \ {c} : client'[d] = client[d],
         \A a \in Actions : Own(rows'[a].undo, a), Lawful(client[c])'
  PROVE  QuarantineInv'
<1>1. ManifestsStay
  BY DEF ManifestsStay
<1>2. \A a \in Actions : Own(target[a].at, a)' /\ Own(rows[a].undo, a)'
  BY DEF QuarantineInv, Owned, Own
<1>3. OwnStep(c)
  BY <1>1, <1>2 DEF OwnStep
<1> QED BY <1>3, QuietFrom

-----------------------------------------------------------------------------
(* Each step keeps the quarantine within its bounds.                       *)

LEMMA GetPlanWithin ==
  ASSUME UndoInv, QuarantineInv, NEW c \in Clients, NEW op \in {"apply", "undo", "purge"},
         get_plan(c, op)
  PROVE  QuarantineInv'
<1> DEFINE at == IF op = "apply" THEN "asked" ELSE "items"
<1>1. PICK todo : client' = [client EXCEPT ![c] =
                               [Idle EXCEPT !.op = op, !.copy = rows, !.at = at, !.todo = todo]]
  BY DEF get_plan
<1>2. UNCHANGED <<target, moves, ledger, rows, lost>>
  BY DEF get_plan
<1>3. ClientsTyped /\ RestTyped /\ RestTyped'
  BY GetPlanSteps, ItsRecord DEF CleanupStep
<1>4. client'[c] = [Idle EXCEPT !.op = op, !.copy = rows, !.at = at, !.todo = todo]
      /\ \A d \in Clients \ {c} : client'[d] = client[d]
  BY <1>1, <1>3 DEF ClientsTyped
<1>5. client'[c].op = op /\ client'[c].copy = rows /\ client'[c].at = at /\ at \in {"asked", "items"}
  BY <1>4 DEF Idle
<1>6. \A a \in Actions : Own(rows[a].undo, a)
  BY DEF QuarantineInv, Owned
<1>7. Lawful(client[c])'
  BY <1>2, <1>5, <1>6 DEF Lawful, Own, Moving
<1>8. client'[c].at \notin Locking
  BY <1>5 DEF Locking
<1>9. \A a \in Actions : Own(rows'[a].undo, a)
  BY <1>2, <1>6
<1> HIDE DEF at
<1> QED BY <1>2, <1>3, <1>4, <1>7, <1>8, <1>9, OnlyWords

\* a copy whose rows are of the actions' own moves is lawful with one more
LEMMA LawfulRows ==
  ASSUME NEW k, NEW a \in Actions, NEW r, NEW copy \in [Actions -> Row], UNCHANGED moves,
         \A b \in Actions : Own(copy[b].undo, b), Own(r.undo, a),
         k.copy = [copy EXCEPT ![a] = r], k.at \notin Moving \cup {"record"}
  PROVE  Lawful(k)'
<1>1. \A b \in Actions : Own(k.copy[b].undo, b)
  OBVIOUS
<1> QED BY <1>1 DEF Lawful, Own

LEMMA ExecuteWithin ==
  ASSUME UndoInv, QuarantineInv, NEW c \in Clients,
         NEW how \in {"trash", "quarantine", "permanent"}, execute(c, how)
  PROVE  QuarantineInv'
<1>1. /\ client[c].op = "apply" /\ rows' = client[c].copy
      /\ UNCHANGED <<target, moves, ledger, spare>>
  BY DEF execute, At
<1>2. ClientsTyped /\ RestTyped' /\ client[c] \in ClientRecord
  BY ExecuteSteps, ItsRecord DEF CleanupStep, ClientsTyped
<1>3. client'[c] = [client[c] EXCEPT !.how = how, !.at = "items",
                                     !.todo = StillToDo(client[c].copy)]
      /\ \A d \in Clients \ {c} : client'[d] = client[d]
  BY <1>2 DEF execute, ClientsTyped
<1>4. client'[c].at = "items" /\ client'[c].copy = client[c].copy
  BY <1>2, <1>3 DEF ClientRecord
<1>5. \A a \in Actions : Own(client[c].copy[a].undo, a)
  BY <1>1 DEF QuarantineInv, Owned, Lawful
<1>6. Lawful(client[c])' /\ \A a \in Actions : Own(rows'[a].undo, a)
  BY <1>1, <1>4, <1>5 DEF Lawful, Own, Moving
<1>7. client'[c].at \notin Locking
  BY <1>4 DEF Locking
<1> QED BY <1>1, <1>2, <1>3, <1>6, <1>7, OnlyWords

LEMMA PrepareWithin ==
  ASSUME UndoInv, QuarantineInv, NEW c \in Clients, NEW a \in Actions, Prepare(c, a)
  PROVE  QuarantineInv'
<1> DEFINE copy == client[c].copy
           valid == target[a].at = Home /\ target[a].is = "same"
           new == [copy[a] EXCEPT !.status = IF valid THEN @ ELSE "skipped"]
           blamed == [new EXCEPT !.status = "failed"]
           there == IF valid THEN FirstStep(client[c].how) ELSE "items"
<1>1. client[c].op = "apply" /\ client[c].at = "items" /\ UNCHANGED <<target, moves, ledger>>
  BY DEF Prepare, At
<1>2. /\ ClientsTyped /\ RestTyped' /\ client[c] \in ClientRecord /\ Fits(client[c])
      /\ rows \in [Actions -> Row]
  BY PrepareSteps, ItsRecord DEF CleanupStep, ClientsTyped, RestTyped
<1>3. copy \in [Actions -> Row] /\ copy[a] \in Row
  BY <1>1, <1>2 DEF Fits
<1>4. \A b \in Actions : Own(copy[b].undo, b) /\ Own(rows[b].undo, b)
  BY <1>1 DEF QuarantineInv, Owned, Lawful
<1>5. new.undo = copy[a].undo /\ blamed.undo = copy[a].undo
  BY <1>3 DEF Row
<1>6. ASSUME NEW r, r.undo = copy[a].undo, rows' = [rows EXCEPT ![a] = r],
             NEW k, client' = [client EXCEPT ![c] = k], k.copy = [copy EXCEPT ![a] = r],
             k.at \in {"items", "unaudited", "trash", "lock", "unlink"}
      PROVE  QuarantineInv'
  <2>1. client'[c] = k /\ \A d \in Clients \ {c} : client'[d] = client[d]
    BY <1>2, <1>6 DEF ClientsTyped
  <2>2. Own(r.undo, a)
    BY <1>4, <1>6
  <2>3. \A b \in Actions : Own(rows'[b].undo, b)
    BY <1>2, <1>4, <1>6, <2>2
  <2>4. Lawful(k)'
    BY <1>1, <1>3, <1>4, <1>6, <2>2, LawfulRows DEF Moving
  <2>5. k.at \notin Locking
    BY <1>6 DEF Locking
  <2>6. Lawful(client[c])'
    BY <2>1, <2>4 DEF Lawful
  <2> QED BY <1>1, <1>2, <2>1, <2>3, <2>5, <2>6, OnlyWords
<1>7. CASE /\ rows' = [rows EXCEPT ![a] = new]
           /\ client' = [client EXCEPT ![c].copy[a] = new, ![c].action = a,
                           ![c].todo = @ \ {a}, ![c].at = there]
  <2> DEFINE k == [client[c] EXCEPT !.copy = [copy EXCEPT ![a] = new], !.action = a,
                                    !.todo = @ \ {a}, !.at = there]
  <2>1. client' = [client EXCEPT ![c] = k]
    BY <1>2, <1>7 DEF ClientsTyped
  <2>2. there \in {"items", "trash", "lock", "unlink"}
    BY DEF FirstStep
  <2> HIDE DEF there, new
  <2>3. k.copy = [copy EXCEPT ![a] = new] /\ k.at = there
    BY <1>2 DEF ClientRecord
  <2> HIDE DEF k
  <2> QED BY <1>5, <1>6, <1>7, <2>1, <2>2, <2>3
<1>8. CASE /\ rows' = [rows EXCEPT ![a] = blamed]
           /\ client' = [client EXCEPT ![c].copy[a] = blamed, ![c].at = "unaudited"]
  <2> DEFINE k == [client[c] EXCEPT !.copy = [copy EXCEPT ![a] = blamed], !.at = "unaudited"]
  <2>1. client' = [client EXCEPT ![c] = k]
    BY <1>2, <1>8 DEF ClientsTyped
  <2> HIDE DEF blamed
  <2>2. k.copy = [copy EXCEPT ![a] = blamed] /\ k.at = "unaudited"
    BY <1>2 DEF ClientRecord
  <2> HIDE DEF k
  <2> QED BY <1>5, <1>6, <1>8, <2>1, <2>2
<1> QED BY <1>7, <1>8 DEF Prepare

LEMMA IdentifyWithin ==
  ASSUME UndoInv, QuarantineInv, NEW c \in Clients, NEW a \in Actions, Identify(c, a)
  PROVE  QuarantineInv'
<1>1. /\ client[c].op \in {"undo", "purge"} /\ client[c].at = "items"
      /\ UNCHANGED <<target, moves, ledger, rows, lost>>
  BY DEF Identify
<1>2. /\ ClientsTyped /\ RestTyped' /\ client[c] \in ClientRecord
      /\ \A b \in Actions : Own(rows'[b].undo, b)
  BY <1>1, IdentifySteps, ItsRecord DEF CleanupStep, ClientsTyped, QuarantineInv, Owned
<1>3. CASE Returns(c)
  <2>1. Lawful(client[c])' /\ client'[c].at = "" /\ \A d \in Clients \ {c} : client'[d] = client[d]
    BY <1>3, OwnReturning
  <2>2. client'[c].at \notin Locking
    BY <2>1 DEF Locking
  <2> QED BY <1>1, <1>2, <2>1, <2>2, OnlyWords
<1>4. CASE ~Returns(c)
  <2> DEFINE there == IF target[a].at = client[c].copy[a].undo /\ target[a].is = "same"
                      THEN "held" ELSE "record"
             k == [client[c] EXCEPT !.action = a, !.todo = @ \ {a},
                                    !.result = client[c].copy[a], !.at = there]
  <2>1. client' = [client EXCEPT ![c] = k]
    BY <1>2, <1>4 DEF Identify, ClientsTyped
  <2>2. there \in {"held", "record"}
    OBVIOUS
  <2> HIDE DEF there
  <2>3. k.copy = client[c].copy /\ k.result = client[c].copy[a] /\ k.at = there /\ k.action = a
    BY <1>2 DEF ClientRecord
  <2> HIDE DEF k
  <2>4. client'[c] = k /\ \A d \in Clients \ {c} : client'[d] = client[d]
    BY <1>2, <2>1 DEF ClientsTyped
  <2>5. \A b \in Actions : Own(client[c].copy[b].undo, b)
    BY <1>1 DEF QuarantineInv, Owned, Lawful
  <2>6. Lawful(client[c])'
    BY <1>1, <2>2, <2>3, <2>4, <2>5 DEF Lawful, Own, Moving
  <2>7. client'[c].at \notin Locking
    BY <2>2, <2>3, <2>4 DEF Locking
  <2> QED BY <1>1, <1>2, <2>4, <2>6, <2>7, OnlyWords
<1> QED BY <1>3, <1>4

LEMMA RecordedWithin ==
  ASSUME UndoInv, QuarantineInv, NEW c \in Clients, Recorded(c)
  PROVE  QuarantineInv'
<1> DEFINE a == client[c].action
           copy == client[c].copy
           result == client[c].result
           new == [copy EXCEPT ![a] = result]
<1>1. /\ client[c].at = "record" /\ client[c].at \in InHand
      /\ rows' = [rows EXCEPT ![a] = result] /\ UNCHANGED <<target, moves, ledger>>
  BY DEF Recorded, InHand
<1>2. /\ ClientsTyped /\ RestTyped' /\ client[c] \in ClientRecord
      /\ rows \in [Actions -> Row] /\ a \in Actions /\ copy \in [Actions -> Row]
  BY <1>1, RecordedSteps, ItsRecord, ItsAction DEF CleanupStep, ClientsTyped, RestTyped
<1>3. Owned /\ Own(result.undo, a) /\ \A b \in Actions : Own(copy[b].undo, b) /\ Own(rows[b].undo, b)
  <2>1. Owned /\ Lawful(client[c])
    BY DEF QuarantineInv, Owned
  <2> QED BY <1>1, <2>1, ItsOwnMove DEF Owned, Lawful
<1>4. \A b \in Actions : Own(rows'[b].undo, b)
  BY <1>1, <1>2, <1>3
<1>5. CASE Returns(c)
  <2>1. Lawful(client[c])' /\ client'[c].at = "" /\ \A d \in Clients \ {c} : client'[d] = client[d]
    BY <1>5, OwnReturning
  <2>2. client'[c].at \notin Locking
    BY <2>1 DEF Locking
  <2> QED BY <1>1, <1>2, <1>4, <2>1, <2>2, OnlyWords
<1>6. ASSUME NEW k, client' = [client EXCEPT ![c] = k], k.copy = new, k.at \in {"items", "unaudited"}
      PROVE  QuarantineInv'
  <2>1. client'[c] = k /\ \A d \in Clients \ {c} : client'[d] = client[d]
    BY <1>2, <1>6 DEF ClientsTyped
  <2>2. Lawful(k)'
    <3>0. PICK r : r = result
      OBVIOUS
    <3>1. PICK b \in Actions, old \in [Actions -> Row] : b = a /\ old = copy
      BY <1>2
    <3>2. UNCHANGED moves /\ k.copy = [old EXCEPT ![b] = r] /\ k.at \notin Moving \cup {"record"}
          /\ Own(r.undo, b) /\ \A d \in Actions : Own(old[d].undo, d)
      BY <1>1, <1>3, <1>6, <3>0, <3>1 DEF Moving
    <3> QED BY <3>2, LawfulRows
  <2>3. k.at \notin Locking
    BY <1>6 DEF Locking
  <2>4. Lawful(client[c])'
    BY <2>1, <2>2 DEF Lawful
  <2> QED BY <1>1, <1>2, <1>4, <2>1, <2>3, <2>4, OnlyWords
<1>7. CASE client' = [client EXCEPT ![c] = [Idle EXCEPT
                 !.op = client[c].op, !.how = client[c].how, !.at = "items",
                 !.todo = client[c].todo, !.copy = new]]
  <2> DEFINE k == [Idle EXCEPT !.op = client[c].op, !.how = client[c].how, !.at = "items",
                               !.todo = client[c].todo, !.copy = new]
  <2> HIDE DEF new
  <2>1. k.copy = new /\ k.at = "items" /\ client' = [client EXCEPT ![c] = k]
    BY <1>7 DEF Idle
  <2> HIDE DEF k
  <2> QED BY <1>6, <2>1
<1>8. CASE client' = [client EXCEPT ![c].at = "unaudited", ![c].copy[a] = result]
  <2> DEFINE k == [client[c] EXCEPT !.at = "unaudited", !.copy = new]
  <2>1. client' = [client EXCEPT ![c] = k]
    BY <1>2, <1>8 DEF ClientsTyped
  <2> HIDE DEF new
  <2>2. k.copy = new /\ k.at = "unaudited"
    BY <1>2 DEF ClientRecord
  <2> HIDE DEF k
  <2> QED BY <1>6, <2>1, <2>2
<1> QED BY <1>5, <1>7, <1>8 DEF Recorded

LEMMA UnauditedWithin ==
  ASSUME UndoInv, QuarantineInv, NEW c \in Clients, Unaudited(c)
  PROVE  QuarantineInv'
<1> DEFINE copy == client[c].copy
           new(a) == [copy[a] EXCEPT !.status = IF @ = "planned" THEN "skipped" ELSE @]
<1>1. /\ client[c].at = "unaudited" /\ rows' = [a \in Actions |-> new(a)] /\ Returns(c)
      /\ UNCHANGED <<target, moves, ledger, spare>>
  BY DEF Unaudited
<1>2. RestTyped' /\ Fits(client[c])
  BY UnauditedSteps, ItsRecord DEF CleanupStep
<1>3. copy \in [Actions -> Row] /\ client[c].op # "none"
  BY <1>1, <1>2 DEF Fits
<1>4. \A a \in Actions : Own(copy[a].undo, a)
  BY <1>3 DEF QuarantineInv, Owned, Lawful
<1>5. ASSUME NEW a \in Actions PROVE new(a).undo = copy[a].undo
  <2>1. copy[a] \in Row
    BY <1>3
  <2> QED BY <2>1 DEF Row
<1> HIDE DEF new
<1>6. \A a \in Actions : rows'[a] = new(a)
  BY <1>1
<1>7. \A a \in Actions : Own(rows'[a].undo, a)
  BY <1>4, <1>5, <1>6
<1>8. Lawful(client[c])' /\ client'[c].at = "" /\ \A d \in Clients \ {c} : client'[d] = client[d]
  BY <1>1, OwnReturning
<1>9. client'[c].at \notin Locking
  BY <1>8 DEF Locking
<1> QED BY <1>1, <1>2, <1>7, <1>8, <1>9, OnlyWords

LEMMA FinishWithin ==
  ASSUME UndoInv, QuarantineInv, NEW c \in Clients, Finish(c)
  PROVE  QuarantineInv'
<1>1. UNCHANGED <<target, moves, ledger, rows, lost>> /\ Returns(c)
  BY DEF Finish
<1>2. Lawful(client[c])' /\ client'[c].at = "" /\ \A d \in Clients \ {c} : client'[d] = client[d]
  BY <1>1, OwnReturning
<1>3. client'[c].at \notin Locking
  BY <1>2 DEF Locking
<1>4. RestTyped' /\ \A a \in Actions : Own(rows'[a].undo, a)
  BY <1>1, FinishSteps DEF CleanupStep, QuarantineInv, Owned
<1> QED BY <1>1, <1>2, <1>3, <1>4, OnlyWords

\* the states of two sequences of manifests that differ in one
LEMMA OneStateWritten ==
  ASSUME RestTyped, NEW i \in Nat, NEW st \in States, moves' = [moves EXCEPT ![i].state = st]
  PROVE  \A n \in DOMAIN moves : moves'[n].state = moves[n].state \/ (n = i /\ moves'[n].state = st)
<1>1. ASSUME NEW n \in DOMAIN moves
      PROVE  moves'[n].state = moves[n].state \/ (n = i /\ moves'[n].state = st)
  <2>1. moves[n] \in Manifests
    BY DEF RestTyped
  <2>2. moves'[n] = IF n = i THEN [moves[n] EXCEPT !.state = st] ELSE moves[n]
    OBVIOUS
  <2> QED BY <2>1, <2>2 DEF Manifests
<1> QED BY <1>1

LEMMA TrashWithin ==
  ASSUME UndoInv, QuarantineInv, NEW c \in Clients, Trash(c)
  PROVE  QuarantineInv'
<1> DEFINE a == client[c].action
           m == [action |-> a, by |-> "trash", state |-> "bare"]
<1>1. /\ client[c].op = "apply" /\ client[c].at = "trash" /\ client[c].at \in InHand
      /\ client[c].at \notin Locking /\ UNCHANGED <<ledger, rows, lost>>
  BY DEF Trash, At, InHand, Locking
<1>2. /\ RestTyped /\ RestTyped' /\ ClientsTyped /\ Len(moves) \in Nat /\ DOMAIN moves = 1..Len(moves)
      /\ a \in Actions /\ Action(c) = a /\ moves \in Seq(Manifests) /\ Owned
      /\ \A b \in Actions : Own(rows'[b].undo, b)
  BY <1>1, TrashSteps, ItsRecord, ItsAction DEF CleanupStep, RestTyped, QuarantineInv, Owned
<1>3. CASE UNCHANGED <<target, moves>> /\ Goes(c, "lock")
  <2>1. ManifestsStay
    BY <1>3 DEF ManifestsStay
  <2>2. /\ Lawful(client[c])' /\ client'[c].at = "lock"
        /\ \A d \in Clients \ {c} : client'[d] = client[d]
    BY <1>1, <1>2, <1>3, <2>1, OwnGoing DEF Ats, InHand, Moving
  <2>3. client'[c].at \notin Locking
    BY <2>2 DEF Locking
  <2> QED BY <1>1, <1>2, <1>3, <2>2, <2>3, OnlyWords
<1>4. CASE UNCHANGED <<target, moves>> /\ Fails(c)
  <2>1. ManifestsStay
    BY <1>4 DEF ManifestsStay
  <2>2. /\ Lawful(client[c])' /\ client'[c].at = "record"
        /\ \A d \in Clients \ {c} : client'[d] = client[d]
    BY <1>1, <1>2, <1>4, <2>1, OwnFailing
  <2>3. client'[c].at \notin Locking
    BY <2>2 DEF Locking
  <2> QED BY <1>1, <1>2, <1>4, <2>2, <2>3, OnlyWords
<1>5. CASE /\ moves' = Append(moves, m) /\ MovedTo(a, Len(moves) + 1)
           /\ GoesWith(c, "info", Len(moves) + 1)
  <2>1. PICK n \in Nat : n = Len(moves) + 1
    BY <1>2
  <2>2. m \in Manifests /\ m.action = a /\ m.by = "trash"
    BY <1>2 DEF Manifests, States
  <2>3. /\ DOMAIN moves' = 1..n /\ moves'[n] = m
        /\ \A i \in 1..Len(moves) : moves'[i] = moves[i]
    <3> HIDE DEF m
    <3> QED BY <1>2, <1>5, <2>1, <2>2
  <2>4. ManifestsStay
    BY <1>2, <1>5, <2>2, ManifestsStayWhoseTheyAre
  <2>5. /\ client'[c].at = "info" /\ client'[c].move = n
        /\ client'[c].op = client[c].op /\ client'[c].action = a
        /\ client'[c].copy = client[c].copy
        /\ \A d \in Clients \ {c} : client'[d] = client[d]
    BY <1>2, <1>5, <2>1, GoesThereWith DEF Ats, InHand, Moving
  <2>6. target'[a].at = n /\ \A b \in Actions : b # a => target'[b] = target[b]
    BY <1>2, <1>5, <2>1, MovedThere DEF MovedTo
  <2>7. n \in DOMAIN moves' /\ moves'[n].action = a /\ n # Home /\ n \notin DOMAIN moves
        /\ moves'[n].by = "trash"
    <3> HIDE DEF m
    <3> QED BY <1>2, <2>1, <2>2, <2>3 DEF Home
  <2>8. \A b \in Actions : client[c].copy[b].undo = Home
          \/ (client[c].copy[b].undo \in DOMAIN moves' /\ moves'[client[c].copy[b].undo].action = b)
    BY <1>1, <1>2, <2>4, ItsOwnMove DEF Own, ManifestsStay
  <2>9. Lawful(client[c])'
    BY <2>5, <2>7, <2>8 DEF Lawful, Own
  <2>10. \A b \in Actions : b = a => Own(target[b].at, b)'
    BY <2>6, <2>7 DEF Own
  <2>11. OwnStep(c)
    BY <1>1, <1>2, <2>4, <2>5, <2>6, <2>9, <2>10, OwnStaying
  <2>12. \A b \in Actions : b = a => ~ InQuarantine(b)'
    BY <2>6, <2>7 DEF InQuarantine, Quarantined
  <2>13. client'[c].at \notin Locking
    BY <2>5 DEF Locking
  <2>14. \A i \in DOMAIN moves : moves'[i].state = moves[i].state
    BY <1>2, <2>3
  <2>15. \A b \in Actions :
           \/ /\ target'[b].at \in {target[b].at, Home}
              /\ target'[b].is = "same" => target[b].is = "same"
           \/ target'[b].at \notin DOMAIN moves /\ ~ InQuarantine(b)'
    BY <2>6, <2>7, <2>12
  <2> HIDE DEF a, m
  <2> QED BY <1>1, <1>2, <2>11, <2>13, <2>14, <2>15, QuietFrom
<1> QED BY <1>2, <1>3, <1>4, <1>5 DEF Trash

LEMMA TrashInfoWithin ==
  ASSUME UndoInv, QuarantineInv, NEW c \in Clients, TrashInfo(c)
  PROVE  QuarantineInv'
<1> DEFINE a == client[c].action
           n == client[c].move
           back == target[a].is = "same" /\ ~target[a].taken
<1>1. /\ client[c].op = "apply" /\ client[c].at = "info" /\ client[c].at \in InHand
      /\ client[c].at \in Moving /\ client[c].at \notin Locking /\ UNCHANGED <<ledger, rows>>
  BY DEF TrashInfo, At, InHand, Locking, Moving
<1>2. /\ RestTyped /\ RestTyped' /\ ClientsTyped /\ n \in Nat /\ Mentions(client[c], n)
      /\ a \in Actions /\ Action(c) = a /\ Owned /\ target \in [Actions -> Targeted]
  BY <1>1, TrashInfoSteps, ItsRecord, ItsAction DEF CleanupStep, RestTyped, QuarantineInv, Mentions
<1>3. n # Home /\ Own(n, a) /\ n \in DOMAIN moves /\ moves[n].action = a
  BY <1>1, <1>2 DEF Owned, Lawful, Own
<1>4. CASE /\ moves' = [moves EXCEPT ![n].state = "isolated"] /\ Succeeds(c, n)
           /\ UNCHANGED <<target, lost>>
  <2>1. ManifestsStay
    BY <1>2, <1>4, ManifestsStayWhoseTheyAre DEF States
  <2> DEFINE r == [status |-> "succeeded", undo |-> n]
  <2>2. r \in Row /\ Ends(c, r) /\ r.undo = n
    BY <1>2, <1>4 DEF Row, Statuses, Succeeds
  <2> HIDE DEF r
  <2>3. /\ Lawful(client[c])' /\ client'[c].at = "record"
        /\ \A d \in Clients \ {c} : client'[d] = client[d]
    BY <1>1, <1>2, <1>3, <2>1, <2>2, OwnEnding
  <2>4. OwnStep(c)
    BY <1>1, <1>2, <1>4, <2>1, <2>3, OwnStaying
  <2>5. client'[c].at \notin Locking
    BY <2>3 DEF Locking
  <2>6. \A i \in DOMAIN moves : moves'[i].state = moves[i].state
                                \/ (moves'[i].state \in Standing /\ Mentions(client[c], i))
    BY <1>2, <1>4, OneStateWritten DEF States, Standing
  <2> QED BY <1>1, <1>2, <1>4, <2>4, <2>5, <2>6, QuietFrom
<1>5. CASE /\ moves' = [moves EXCEPT ![n].state = IF back THEN "aborted" ELSE @]
           /\ IF back THEN MovedTo(a, Home) ELSE UNCHANGED target
           /\ Goes(c, "lock")
  <2>1. PICK st \in States : moves' = [moves EXCEPT ![n].state = st] /\ (~back => st = moves[n].state)
    <3>1. moves[n].state \in States
      <4>1. moves[n] \in Manifests
        BY <1>2, <1>3 DEF RestTyped
      <4> QED BY <4>1 DEF Manifests
    <3>2. (IF back THEN "aborted" ELSE moves[n].state) \in States
      BY <3>1 DEF States
    <3> HIDE DEF back
    <3> QED BY <1>3, <1>5, <3>2
  <2>2. ManifestsStay
    BY <1>2, <2>1, ManifestsStayWhoseTheyAre
  <2>3. /\ Lawful(client[c])' /\ client'[c].at = "lock"
        /\ \A d \in Clients \ {c} : client'[d] = client[d]
    BY <1>1, <1>2, <1>5, <2>2, OwnGoing DEF Ats, InHand, Moving
  <2>4. /\ \A b \in Actions : target'[b].at \in {target[b].at, Home} /\ target'[b].is = target[b].is
        /\ back => target'[a].at = Home
    <3>1. CASE back
      <4>1. /\ target'[a].at = Home /\ target'[a].is = target[a].is
            /\ \A b \in Actions : b # a => target'[b] = target[b]
        BY <1>2, <1>5, <3>1, MovedThere DEF MovedTo, Home
      <4> QED BY <4>1
    <3>2. CASE ~back
      BY <1>5, <3>2
    <3> QED BY <3>1, <3>2
  <2>5. OwnStep(c)
    BY <1>1, <1>2, <2>2, <2>3, <2>4, OwnStaying
  <2>6. client'[c].at \notin Locking
    BY <2>3 DEF Locking
  <2>7. \A i \in DOMAIN moves : moves'[i].state = moves[i].state \/ Mentions(client[c], i)
    BY <1>2, <2>1, OneStateWritten
  <2>8. \A b \in Actions : b # a => target'[b].at # n
    BY <1>2, <1>3, <2>4 DEF Owned, Own
  <2>9. back => \A b \in Actions : target'[b].at # n
    BY <1>3, <2>4, <2>8
  <2>10. \A i \in DOMAIN moves : moves'[i].state = moves[i].state
                                 \/ \A b \in Actions : target'[b].at # i
    <3>1. CASE back
      BY <1>2, <2>1, <2>9, <3>1, OneStateWritten
    <3>2. CASE ~back
      BY <1>2, <2>1, <3>2, OneStateWritten
    <3> QED BY <3>1, <3>2
  <2> HIDE DEF a, n, back
  <2> QED BY <1>1, <1>2, <2>4, <2>5, <2>6, <2>7, <2>10, QuietFrom
<1> QED BY <1>2, <1>4, <1>5 DEF TrashInfo

LEMMA UnlinkWithin ==
  ASSUME UndoInv, QuarantineInv, NEW c \in Clients, Unlink(c)
  PROVE  QuarantineInv'
<1> DEFINE a == client[c].action
<1>1. /\ client[c].op = "apply" /\ client[c].at = "unlink" /\ client[c].at \in InHand
      /\ client[c].at \notin Locking /\ UNCHANGED <<moves, ledger, rows, lost>> /\ ManifestsStay
  BY DEF Unlink, At, InHand, Locking, ManifestsStay
<1>2. /\ RestTyped /\ RestTyped' /\ a \in Actions /\ Action(c) = a /\ Owned
      /\ Move(c) \in Nat /\ Own(Move(c), a)
  BY <1>1, UnlinkSteps, ItsRecord, ItsAction, ItsOwnMove DEF CleanupStep, QuarantineInv
<1>3. /\ Lawful(client[c])' /\ client'[c].at = "record"
      /\ \A d \in Clients \ {c} : client'[d] = client[d]
  <2>1. CASE Fails(c)
    BY <1>1, <1>2, <2>1, OwnFailing
  <2>2. CASE Succeeds(c, Move(c))
    <3> DEFINE r == [status |-> "succeeded", undo |-> Move(c)]
    <3>1. r \in Row /\ Ends(c, r) /\ r.undo = Move(c)
      BY <1>2, <2>2 DEF Row, Statuses, Succeeds
    <3> HIDE DEF r
    <3> QED BY <1>1, <1>2, <3>1, OwnEnding
  <2> QED BY <2>1, <2>2 DEF Unlink
<1>4. \A b \in Actions : target'[b].at = target[b].at
                         /\ (target'[b].is = "same" => target[b].is = "same")
  <2>1. CASE target' = [target EXCEPT ![a].is = "gone"]
    <3>1. /\ target'[a].at = target[a].at /\ target'[a].is = "gone"
          /\ \A b \in Actions : b # a => target'[b] = target[b]
      BY <1>2, <2>1, MadeTo
    <3> QED BY <3>1
  <2> QED BY <1>2, <2>1 DEF Unlink
<1>5. OwnStep(c)
  BY <1>1, <1>2, <1>3, <1>4, OwnStaying
<1>6. client'[c].at \notin Locking
  BY <1>3 DEF Locking
<1> QED BY <1>1, <1>2, <1>4, <1>5, <1>6, QuietFrom

LEMMA UntrashWithin ==
  ASSUME UndoInv, QuarantineInv, NEW c \in Clients, Untrash(c)
  PROVE  QuarantineInv'
<1> DEFINE a == client[c].action
           n == Move(c)
<1>1. /\ client[c].at = "held" /\ client[c].at \in Back /\ client[c].at \in InHand
      /\ client[c].at \notin Locking /\ UNCHANGED <<ledger, rows, lost>>
  BY DEF Untrash, Back, InHand, Locking
<1>2. /\ RestTyped /\ RestTyped' /\ Owned /\ a \in Actions /\ Action(c) = a /\ n \in Nat
      /\ n # Home /\ Mentions(client[c], n) /\ client[c].op # "apply"
  BY <1>1, UntrashSteps, HeldBack DEF CleanupStep, QuarantineInv
<1>3. Own(n, a) /\ n \in DOMAIN moves /\ moves[n].action = a
  BY <1>1, <1>2, ItsOwnMove
<1>4. CASE Errs(c) /\ UNCHANGED <<target, moves>>
  <2>1. ManifestsStay
    BY <1>4 DEF ManifestsStay
  <2>2. /\ Lawful(client[c])' /\ client'[c].at = "record"
        /\ \A d \in Clients \ {c} : client'[d] = client[d]
    BY <1>1, <1>2, <1>4, <2>1, OwnFailing
  <2>3. client'[c].at \notin Locking /\ \A b \in Actions : Own(rows'[b].undo, b)
    BY <1>1, <1>2, <2>2 DEF Locking, Owned
  <2> QED BY <1>1, <1>2, <1>4, <2>2, <2>3, OnlyWords
<1>5. CASE /\ target' = [target EXCEPT ![a].at = Home]
           /\ moves' = [moves EXCEPT ![n].state = "restored"]
           /\ Ends(c, [status |-> "undone", undo |-> n])
  <2>1. ManifestsStay
    BY <1>2, <1>5, ManifestsStayWhoseTheyAre DEF States
  <2> DEFINE r == [status |-> "undone", undo |-> n]
  <2>2. r \in Row /\ Ends(c, r) /\ r.undo = n
    BY <1>2, <1>5 DEF Row, Statuses
  <2> HIDE DEF r
  <2>3. /\ Lawful(client[c])' /\ client'[c].at = "record"
        /\ \A d \in Clients \ {c} : client'[d] = client[d]
    BY <1>1, <1>2, <1>3, <2>1, <2>2, OwnEnding
  <2>4. /\ target'[a].at = Home /\ target'[a].is = target[a].is
        /\ \A b \in Actions : b # a => target'[b] = target[b]
    BY <1>2, <1>5, MovedThere DEF Home
  <2>5. OwnStep(c)
    BY <1>1, <1>2, <2>1, <2>3, <2>4, OwnStaying
  <2>6. client'[c].at \notin Locking
    BY <2>3 DEF Locking
  <2>7. \A b \in Actions : target'[b].at # n
    BY <1>2, <1>3, <2>4 DEF Owned, Own
  <2>8. \A i \in DOMAIN moves : moves'[i].state = moves[i].state \/ i = n
    BY <1>2, <1>5, OneStateWritten DEF States
  <2>9. \A b \in Actions : target'[b].at \in {target[b].at, Home} /\ target'[b].is = target[b].is
    BY <2>4
  <2>10. \A i \in DOMAIN moves : moves'[i].state = moves[i].state
                                 \/ \A b \in Actions : target'[b].at # i
    BY <2>7, <2>8
  <2>11. \A i \in DOMAIN moves : moves'[i].state = moves[i].state \/ Mentions(client[c], i)
    BY <1>2, <2>8
  <2> HIDE DEF a, n
  <2> QED BY <1>1, <1>2, <2>5, <2>6, <2>9, <2>10, <2>11, QuietFrom
<1> QED BY <1>2, <1>4, <1>5 DEF Untrash, MovesBack, Writes

-----------------------------------------------------------------------------
(* The ledger, and the steps of the client that holds its lock.            *)

LEMMA StandingIsolated ==
  ASSUME UndoInv, QuarantineInv, NEW a \in Actions, InQuarantine(a)
  PROVE  /\ target[a].at \in Quarantined /\ IsThere(target[a].at)
         /\ moves[target[a].at].action = a /\ moves[target[a].at].state \in Standing
         /\ Settled(target[a].at) = "isolated"
<1> DEFINE n == target[a].at
<1>1. n \in Quarantined /\ n \in DOMAIN moves /\ target[a].is = "same"
      /\ moves[n].state \in Standing
  BY DEF InQuarantine, Quarantined, QuarantineInv, ManifestsStand
<1>2. n # Home
  <2>1. DOMAIN moves = 1..Len(moves) /\ Len(moves) \in Nat
    BY DEF UndoInv, RestTyped
  <2> QED BY <1>1, <2>1 DEF Home
<1>3. moves[n].action = a
  BY <1>2 DEF QuarantineInv, Owned, Own
<1>4. IsThere(n) /\ ~IsHome(n)
  BY <1>1, <1>2, <1>3 DEF IsThere, IsHome, Object
<1> HIDE DEF n
<1>5. Settled(n) = "isolated"
  BY <1>1, <1>4 DEF Settled, Standing
<1> QED BY <1>1, <1>3, <1>4, <1>5 DEF n

LEMMA StoredIsThere ==
  ASSUME UndoInv, QuarantineInv
  PROVE  /\ {moves[n].action : n \in {m \in Quarantined : IsThere(m)}} = Stored
         /\ {moves[n].action : n \in {m \in Quarantined : Settled(m) = "isolated" /\ IsThere(m)}} = Stored
<1>1. ASSUME NEW n \in Quarantined, IsThere(n) PROVE moves[n].action \in Stored
  <2>1. moves[n] \in Manifests
    BY DEF Quarantined, UndoInv, RestTyped
  <2>2. moves[n].action \in Actions
    BY <2>1 DEF Manifests
  <2> QED BY <1>1, <2>2 DEF IsThere, Object, Stored, InQuarantine
<1>2. ASSUME NEW a \in Stored
      PROVE  \E n \in Quarantined : IsThere(n) /\ Settled(n) = "isolated" /\ moves[n].action = a
  BY StandingIsolated DEF Stored
<1> QED BY <1>1, <1>2

\* what is loaded counts all that is stored, within the capacity
LEMMA LoadedLedgerCounts ==
  ASSUME UndoInv, QuarantineInv
  PROVE  /\ LoadedLedger \in [bytes : Nat, pending : SUBSET Actions]
         /\ LoadedLedger.pending = {} /\ LoadedLedger.bytes \in Nat
         /\ LoadedLedger = [bytes |-> LoadedLedger.bytes, pending |-> {}]
         /\ BytesOf(Stored) <= LoadedLedger.bytes /\ LoadedLedger.bytes <= Capacity
<1>1. /\ BytesOf(Stored) \in Nat /\ ledger.bytes \in Nat /\ BytesOf(ledger.pending) \in Nat
      /\ Bounded /\ LedgerTyped /\ Capacity \in Nat
  BY StoredAreActions, LedgerCounts, CleanupAssumption DEF QuarantineInv
<1>2. CASE ledger.pending = {}
  <2>1. BytesOf(ledger.pending) = 0
    BY <1>2, BytesOfNone
  <2>2. BytesOf(Stored) <= ledger.bytes /\ ledger.bytes <= Capacity
    BY <1>1, <2>1 DEF Bounded
  <2> QED BY <1>1, <1>2, <2>2 DEF LoadedLedger, LedgerTyped
<1>3. CASE ledger.pending # {}
  <2>1. LoadedLedger = [bytes |-> BytesOf(Stored), pending |-> {}]
    BY <1>3, StoredIsThere DEF LoadedLedger, AuditedLedger
  <2>2. BytesOf(Stored) <= Capacity
    BY <1>1 DEF Bounded
  <2> QED BY <1>1, <2>1, <2>2
<1> QED BY <1>2, <1>3

LEMMA AuditedStand ==
  ASSUME UndoInv, QuarantineInv, NEW a \in Actions, InQuarantine(a)
  PROVE  /\ target[a].at \in DOMAIN moves
         /\ AuditedMoves[target[a].at].state \in Standing /\ LoadedMoves[target[a].at].state \in Standing
<1> DEFINE n == target[a].at
<1>1. /\ n \in Quarantined /\ n \in DOMAIN moves /\ moves[n].state \in Standing
      /\ Settled(n) = "isolated"
  BY StandingIsolated DEF Quarantined
<1>2. moves[n] \in Manifests
  BY <1>1 DEF UndoInv, RestTyped
<1> HIDE DEF n
<1>3. AuditedMoves[n] = [moves[n] EXCEPT !.state = Settled(n)]
  BY <1>1 DEF AuditedMoves
<1>4. AuditedMoves[n].state = "isolated"
  BY <1>1, <1>2, <1>3 DEF Manifests
<1> QED BY <1>1, <1>4 DEF n, LoadedMoves, Standing

\* when nothing enters, no more is stored
LEMMA NoMoreStored ==
  ASSUME UndoInv, QuarantineInv, RestTyped', ManifestsStay,
         \A a \in Actions : /\ target'[a].at \in {target[a].at, Home}
                            /\ target'[a].is = "same" => target[a].is = "same"
  PROVE  /\ Stored' \in SUBSET Stored /\ Stored \in SUBSET Actions
         /\ BytesOf(Stored') <= BytesOf(Stored) /\ BytesOf(Stored') \in Nat /\ BytesOf(Stored) \in Nat
         /\ \A a \in Actions : InQuarantine(a)' => InQuarantine(a) /\ target'[a].at = target[a].at
<1>1. \A a \in Actions : InQuarantine(a)' => InQuarantine(a) /\ target'[a].at = target[a].at
  BY NothingEnters DEF UndoInv, QuarantineInv
<1>2. Stored' \in SUBSET Stored
  BY <1>1 DEF Stored
<1>3. Stored \in SUBSET Actions /\ Stored' \in SUBSET Actions
  BY <1>2, StoredAreActions
<1> QED BY <1>1, <1>2, <1>3, BytesOfPart, BytesAreNumbers

LEMMA ReserveWithin ==
  ASSUME UndoInv, QuarantineInv, NEW c \in Clients, Reserve(c)
  PROVE  QuarantineInv'
<1> DEFINE a == client[c].action
<1>1. /\ client[c].at = "lock" /\ client[c].at \in InHand /\ Unlocked
      /\ UNCHANGED <<target, rows, lost>> /\ moves' = LoadedMoves
  BY DEF Reserve, At, InHand
<1>2. /\ RestTyped /\ RestTyped' /\ a \in Actions /\ Action(c) = a /\ Owned
  BY <1>1, ReserveSteps, ItsRecord, ItsAction DEF CleanupStep, QuarantineInv
<1>3. ManifestsStay
  BY <1>1, <1>2, ManifestsStayWhoseTheyAre
<1>4. PICK l : l = LoadedLedger
  OBVIOUS
<1>5. /\ l.pending = {} /\ l.bytes \in Nat /\ l = [bytes |-> l.bytes, pending |-> {}]
      /\ BytesOf(Stored) <= l.bytes /\ l.bytes <= Capacity
  BY <1>4, LoadedLedgerCounts
<1>6. /\ BytesOf(Stored') <= BytesOf(Stored) /\ BytesOf(Stored') \in Nat /\ BytesOf(Stored) \in Nat
      /\ \A b \in Actions : InQuarantine(b)' => InQuarantine(b) /\ target'[b].at = target[b].at
  BY <1>1, <1>2, <1>3, NoMoreStored
<1>7. ManifestsStand'
  BY <1>1, <1>6, AuditedStand DEF ManifestsStand
<1>8. Bytes[a] \in Nat /\ BytesOf({a}) = Bytes[a] /\ BytesOf({}) = 0 /\ Capacity \in Nat
  BY <1>2, BytesOfOne, BytesOfNone, CleanupAssumption
<1>9. CASE /\ l.bytes + BytesOf(l.pending \cup {a}) <= Capacity
           /\ ledger' = [l EXCEPT !.pending = @ \cup {a}] /\ Goes(c, "prepare")
  <2>1. /\ Lawful(client[c])' /\ client'[c].at = "prepare" /\ client'[c].action = a
        /\ \A d \in Clients \ {c} : client'[d] = client[d]
    BY <1>1, <1>2, <1>3, <1>9, OwnGoing DEF Ats, InHand, Moving
  <2>2. OwnStep(c)
    BY <1>1, <1>2, <1>3, <2>1, OwnStaying
  <2>3. l.pending \cup {a} = {a}
    BY <1>5
  <2>4. ledger' = [bytes |-> l.bytes, pending |-> {a}]
    BY <1>5, <1>9, <2>3
  <2>5. l.bytes + Bytes[a] <= Capacity
    BY <1>8, <1>9, <2>3
  <2> HIDE DEF a
  <2>6. ledger'.bytes = l.bytes /\ ledger'.pending = {a}
    BY <2>4
  <2>7. BytesOf(Stored') <= l.bytes /\ BytesOf(Stored') <= l.bytes + Bytes[a]
    BY <1>5, <1>6, <1>8
  <2>8. LedgerTyped'
    BY <1>2, <1>5, <2>4 DEF LedgerTyped
  <2>9. Bounded'
    BY <1>8, <2>5, <2>6, <2>7 DEF Bounded
  <2>10. Holder(client[c])'
    BY <2>1, <2>5, <2>6, <2>7 DEF Holder
  <2> QED BY <1>1, <1>7, <2>2, <2>8, <2>9, <2>10, HolderKeeps
<1>10. CASE ledger' = l /\ Fails(c)
  <2>1. /\ Lawful(client[c])' /\ client'[c].at = "record"
        /\ \A d \in Clients \ {c} : client'[d] = client[d]
    BY <1>1, <1>2, <1>3, <1>10, OwnFailing
  <2>2. OwnStep(c)
    BY <1>1, <1>2, <1>3, <2>1, OwnStaying
  <2>3. ledger'.bytes = l.bytes /\ ledger'.pending = {}
    BY <1>5, <1>10
  <2>4. LedgerTyped'
    BY <1>5, <1>10 DEF LedgerTyped
  <2>5. BytesOf(Stored') <= l.bytes
    BY <1>5, <1>6
  <2>6. Bounded'
    BY <1>5, <1>8, <2>3, <2>5 DEF Bounded
  <2>7. Holder(client[c])'
    BY <2>1 DEF Holder
  <2> QED BY <1>1, <1>7, <2>2, <2>4, <2>6, <2>7, HolderKeeps
<1> QED BY <1>2, <1>4, <1>9, <1>10 DEF Reserve

\* what the client with the lock has in hand when it moves a target
LEMMA HeldForMove ==
  ASSUME UndoInv, QuarantineInv, NEW c \in Clients,
         client[c].at \in {"prepare", "rename", "isolate", "commit"}
  PROVE  /\ client[c].at \in InHand /\ client[c].at \in Locking /\ client[c].action \in Actions
         /\ Action(c) = client[c].action /\ RestTyped /\ ClientsTyped /\ Owned
         /\ Len(moves) \in Nat /\ DOMAIN moves = 1..Len(moves)
         /\ ledger.bytes \in Nat /\ ledger = [bytes |-> ledger.bytes, pending |-> {client[c].action}]
         /\ ledger.bytes + Bytes[client[c].action] <= Capacity /\ Capacity \in Nat
         /\ Bytes[client[c].action] \in Nat
         /\ BytesOf({client[c].action}) = Bytes[client[c].action] /\ BytesOf({}) = 0
         /\ client[c].at # "prepare" =>
              /\ client[c].move \in Nat /\ client[c].move # Home /\ client[c].move \in DOMAIN moves
              /\ moves[client[c].move].action = client[c].action
<1>1. client[c].at \in InHand /\ client[c].at \in Locking
  BY DEF InHand, Moving, Locking
<1>2. /\ client[c].action \in Actions /\ Action(c) = client[c].action
      /\ RestTyped /\ ClientsTyped /\ Owned /\ LedgerTyped /\ Lawful(client[c]) /\ Holder(client[c])
      /\ client[c].move \in Nat
  BY <1>1, ItsRecord, ItsAction DEF QuarantineInv, Owned
<1>3. Len(moves) \in Nat /\ DOMAIN moves = 1..Len(moves)
  BY <1>2 DEF RestTyped
<1>4. ledger.pending = {client[c].action} /\ ledger.bytes + Bytes[client[c].action] <= Capacity
  BY <1>2 DEF Holder
<1>5. ledger.bytes \in Nat /\ ledger = [bytes |-> ledger.bytes, pending |-> {client[c].action}]
  BY <1>2, <1>4 DEF LedgerTyped
<1>6. /\ Bytes[client[c].action] \in Nat /\ Capacity \in Nat
      /\ BytesOf({client[c].action}) = Bytes[client[c].action] /\ BytesOf({}) = 0
  BY <1>2, BytesOfOne, BytesOfNone, CleanupAssumption
<1>7. client[c].at # "prepare" =>
        /\ client[c].move # Home /\ client[c].move \in DOMAIN moves
        /\ moves[client[c].move].action = client[c].action
  BY <1>2 DEF Lawful, Own, Moving
<1> QED BY <1>1, <1>2, <1>3, <1>4, <1>5, <1>6, <1>7

LEMMA PrepareManifestWithin ==
  ASSUME UndoInv, QuarantineInv, NEW c \in Clients, PrepareManifest(c)
  PROVE  QuarantineInv'
<1> DEFINE a == client[c].action
           m == [action |-> a, by |-> "quarantine", state |-> "prepared"]
<1>1. client[c].at = "prepare" /\ UNCHANGED <<target, rows, lost>>
  BY DEF PrepareManifest, At
<1>2. /\ client[c].at \in InHand /\ client[c].at \in Locking /\ a \in Actions /\ Action(c) = a
      /\ RestTyped /\ ClientsTyped /\ Owned /\ Len(moves) \in Nat /\ DOMAIN moves = 1..Len(moves)
      /\ ledger.bytes \in Nat /\ ledger = [bytes |-> ledger.bytes, pending |-> {a}]
      /\ ledger.bytes + Bytes[a] <= Capacity /\ Capacity \in Nat /\ Bytes[a] \in Nat
      /\ BytesOf({a}) = Bytes[a] /\ BytesOf({}) = 0
  BY <1>1, HeldForMove
<1>3. BytesOf(Stored) <= ledger.bytes /\ RestTyped' /\ moves \in Seq(Manifests)
  BY <1>1, PrepareManifestSteps DEF CleanupStep, QuarantineInv, Holder, UndoInv, RestTyped
<1>4. CASE moves' = Append(moves, m) /\ GoesWith(c, "rename", Len(moves) + 1) /\ UNCHANGED ledger
  <2>1. PICK n \in Nat : n = Len(moves) + 1
    BY <1>2
  <2>2. m \in Manifests /\ m.action = a /\ m.state = "prepared"
    BY <1>2 DEF Manifests, States
  <2>3. ManifestsStay
    BY <1>2, <1>4, <2>2, ManifestsStayWhoseTheyAre
  <2>4. /\ DOMAIN moves' = 1..n /\ moves'[n] = m
        /\ \A i \in 1..Len(moves) : moves'[i] = moves[i]
    <3> HIDE DEF m
    <3> QED BY <1>3, <1>4, <2>1, <2>2
  <2>5. n \in DOMAIN moves' /\ moves'[n].action = a /\ moves'[n].state = "prepared"
        /\ n # Home /\ n \notin DOMAIN moves
    <3> HIDE DEF m
    <3> QED BY <1>2, <2>1, <2>2, <2>4 DEF Home
  <2>6. /\ client'[c].at = "rename" /\ client'[c].move = n
        /\ client'[c].op = client[c].op /\ client'[c].action = a
        /\ client'[c].copy = client[c].copy
        /\ \A d \in Clients \ {c} : client'[d] = client[d]
    <3>1. "rename" \in Ats /\ GoesWith(c, "rename", n) /\ ClientsTyped
      BY <1>2, <1>4, <2>1 DEF Ats, InHand, Moving
    <3> QED BY <3>1, GoesThereWith
  <2>7. \A b \in Actions : client[c].copy[b].undo = Home
          \/ (client[c].copy[b].undo \in DOMAIN moves' /\ moves'[client[c].copy[b].undo].action = b)
    BY <1>2, <2>3, ItsOwnMove DEF Own, ManifestsStay
  <2>8. Lawful(client[c])'
    BY <2>5, <2>6, <2>7 DEF Lawful, Own
  <2>9. OwnStep(c)
    BY <1>1, <1>2, <2>3, <2>6, <2>8, OwnStaying
  <2>10. /\ BytesOf(Stored') <= BytesOf(Stored) /\ BytesOf(Stored') \in Nat /\ BytesOf(Stored) \in Nat
         /\ \A b \in Actions : InQuarantine(b)' => InQuarantine(b) /\ target'[b].at = target[b].at
    BY <1>1, <1>3, <2>3, NoMoreStored
  <2>11. ManifestsStand'
    <3>1. \A b \in Actions : InQuarantine(b) =>
            target[b].at \in 1..Len(moves) /\ moves[target[b].at].state \in Standing
      BY <1>2, StandingIsolated DEF Quarantined
    <3> QED BY <2>4, <2>10, <3>1 DEF ManifestsStand
  <2>12. target[a].at # n
    BY <1>2, <2>5 DEF Owned, Own
  <2> HIDE DEF a, m
  <2>13. BytesOf(Stored') <= ledger.bytes /\ BytesOf(Stored') <= ledger.bytes + Bytes[a]
    BY <1>2, <1>3, <2>10
  <2>14. ledger' = ledger /\ ledger.pending = {a}
    BY <1>2, <1>4
  <2>15. LedgerTyped' /\ Bounded'
    BY <1>2, <2>13, <2>14 DEF LedgerTyped, Bounded
  <2>16. Holder(client[c])'
    BY <1>1, <1>2, <2>5, <2>6, <2>12, <2>13, <2>14 DEF Holder
  <2> QED BY <1>2, <2>9, <2>11, <2>15, <2>16, HolderKeeps
<1>5. CASE ledger' \in {ledger, Freed(c)} /\ Fails(c) /\ UNCHANGED moves
  <2>1. ManifestsStay
    BY <1>5 DEF ManifestsStay
  <2>2. /\ Lawful(client[c])' /\ client'[c].at = "record"
        /\ \A d \in Clients \ {c} : client'[d] = client[d]
    BY <1>2, <1>5, <2>1, OwnFailing
  <2>3. OwnStep(c)
    BY <1>1, <1>2, <2>1, <2>2, OwnStaying
  <2>4. Stored' = Stored /\ ManifestsStand'
    BY <1>1, <1>5 DEF Stored, InQuarantine, Quarantined, ManifestsStand, QuarantineInv
  <2>5. {a} \ {a} = {}
    OBVIOUS
  <2>6. ledger' = [bytes |-> ledger.bytes, pending |-> {a}] \/ ledger' = [bytes |-> ledger.bytes, pending |-> {}]
    BY <1>2, <1>5, <2>5 DEF Freed
  <2> HIDE DEF a
  <2>7. LedgerTyped'
    BY <1>2, <2>6 DEF LedgerTyped
  <2>8. BytesOf(Stored) \in Nat
    BY StoredAreActions
  <2>9. Bounded'
    <3>1. ledger'.bytes = ledger.bytes /\ (ledger'.pending = {a} \/ ledger'.pending = {})
      BY <2>6
    <3>2. BytesOf(ledger'.pending) = Bytes[a] \/ BytesOf(ledger'.pending) = 0
      BY <1>2, <3>1
    <3>3. /\ BytesOf(Stored) <= ledger.bytes + BytesOf(ledger'.pending)
          /\ ledger.bytes + BytesOf(ledger'.pending) <= Capacity
      BY <1>2, <1>3, <2>8, <3>2
    <3> QED BY <2>4, <3>1, <3>3 DEF Bounded
  <2>10. Holder(client[c])'
    BY <2>2 DEF Holder
  <2> QED BY <1>2, <2>3, <2>4, <2>7, <2>9, <2>10, HolderKeeps
<1> QED BY <1>2, <1>4, <1>5 DEF PrepareManifest

\* the reservation given up
LEMMA FreedLedger ==
  ASSUME NEW c, NEW x, NEW a, Action(c) = a, ledger = [bytes |-> x, pending |-> {a}]
  PROVE  Freed(c) = [bytes |-> x, pending |-> {}]
<1>1. {a} \ {a} = {}
  OBVIOUS
<1> QED BY <1>1 DEF Freed

LEMMA RenameWithin ==
  ASSUME UndoInv, QuarantineInv, NEW c \in Clients, Rename(c)
  PROVE  QuarantineInv'
<1> DEFINE a == client[c].action
           n == client[c].move
<1>1. client[c].at = "rename" /\ UNCHANGED <<rows, lost, spare>>
  BY DEF Rename, At
<1>2. /\ client[c].at \in InHand /\ client[c].at \in Locking /\ a \in Actions /\ Action(c) = a
      /\ RestTyped /\ ClientsTyped /\ Owned /\ DOMAIN moves = 1..Len(moves) /\ Len(moves) \in Nat
      /\ ledger.bytes \in Nat /\ ledger = [bytes |-> ledger.bytes, pending |-> {a}]
      /\ ledger.bytes + Bytes[a] <= Capacity /\ Capacity \in Nat /\ Bytes[a] \in Nat
      /\ BytesOf({a}) = Bytes[a] /\ BytesOf({}) = 0
      /\ n \in Nat /\ n # Home /\ n \in DOMAIN moves /\ moves[n].action = a
  BY <1>1, HeldForMove
<1>3. /\ RestTyped' /\ BytesOf(Stored) <= ledger.bytes
      /\ target[a].at # n /\ moves[n].state = "prepared"
  BY <1>1, RenameSteps DEF CleanupStep, QuarantineInv, Holder
<1>4. BytesOf(Stored) \in Nat /\ Stored \in SUBSET Actions
  BY StoredAreActions
<1>5. CASE Movable(a) /\ MovedTo(a, n) /\ Goes(c, "isolate") /\ UNCHANGED <<moves, ledger>>
  <2>1. ManifestsStay
    BY <1>5 DEF ManifestsStay
  <2>2. /\ Lawful(client[c])' /\ client'[c].at = "isolate" /\ client'[c].action = a
        /\ \A d \in Clients \ {c} : client'[d] = client[d]
    BY <1>1, <1>2, <1>5, <2>1, OwnGoing DEF Ats, InHand, Moving
  <2>3. target'[a].at = n /\ \A b \in Actions : b # a => target'[b] = target[b]
    BY <1>2, <1>5, MovedThere DEF MovedTo
  <2>4. \A b \in Actions : b = a => Own(target[b].at, b)'
    BY <1>2, <1>5, <2>3 DEF Own
  <2>5. \A b \in Actions : target'[b].at \in {target[b].at, Home} \/ Own(target[b].at, b)'
    BY <2>3, <2>4
  <2>6. OwnStep(c)
    BY <1>1, <1>2, <2>1, <2>2, <2>5, OwnStaying
  <2> HIDE DEF a, n
  <2>7. \A b \in Actions : b # a => (InQuarantine(b)' <=> InQuarantine(b))
    BY <1>5, <2>3 DEF InQuarantine, Quarantined
  <2>8. Stored' \in SUBSET (Stored \cup {a})
    BY <2>7 DEF Stored
  <2>9. BytesOf(Stored') <= BytesOf(Stored) + Bytes[a] /\ BytesOf(Stored') \in Nat
    <3>1. Stored' \in SUBSET Actions
      BY <1>2, <1>4, <2>8
    <3> QED BY <1>2, <1>4, <2>8, <3>1, BytesOfOneMore, BytesAreNumbers
  <2>10. BytesOf(Stored') <= ledger.bytes + Bytes[a]
    BY <1>2, <1>3, <1>4, <2>9
  <2>11. ManifestsStand'
    <3>1. ASSUME NEW b \in Actions, InQuarantine(b)' PROVE moves'[target'[b].at].state \in Standing
      <4>1. CASE b = a
        BY <1>3, <1>5, <2>3, <4>1 DEF Standing
      <4>2. CASE b # a
        BY <1>5, <2>3, <2>7, <3>1, <4>2 DEF QuarantineInv, ManifestsStand
      <4> QED BY <4>1, <4>2
    <3> QED BY <3>1 DEF ManifestsStand
  <2>12. ledger' = ledger /\ ledger.pending = {a}
    BY <1>2, <1>5
  <2>13. LedgerTyped' /\ Bounded'
    BY <1>2, <2>10, <2>12 DEF LedgerTyped, Bounded
  <2>14. Holder(client[c])'
    BY <1>2, <2>2, <2>10, <2>12 DEF Holder
  <2> QED BY <1>2, <2>6, <2>11, <2>13, <2>14, HolderKeeps
<1>6. CASE moves' = [moves EXCEPT ![n].state = "aborted"] /\ ledger' = Freed(c) /\ Fails(c)
           /\ UNCHANGED target
  <2>1. ManifestsStay
    BY <1>2, <1>6, ManifestsStayWhoseTheyAre DEF States
  <2>2. /\ Lawful(client[c])' /\ client'[c].at = "record"
        /\ \A d \in Clients \ {c} : client'[d] = client[d]
    BY <1>2, <1>6, <2>1, OwnFailing
  <2>3. OwnStep(c)
    BY <1>1, <1>2, <1>6, <2>1, <2>2, OwnStaying
  <2>4. /\ BytesOf(Stored') <= BytesOf(Stored) /\ BytesOf(Stored') \in Nat
        /\ \A b \in Actions : InQuarantine(b)' => InQuarantine(b) /\ target'[b].at = target[b].at
    BY <1>3, <1>6, <2>1, NoMoreStored
  <2>5. \A b \in Actions : target[b].at # n
    BY <1>2, <1>3 DEF Owned, Own
  <2>6. ManifestsStand'
    <3>1. \A i \in DOMAIN moves : moves'[i].state = moves[i].state \/ i = n
      BY <1>2, <1>6, OneStateWritten DEF States
    <3>2. \A b \in Actions : InQuarantine(b) =>
            target[b].at \in DOMAIN moves /\ moves[target[b].at].state \in Standing
      BY StandingIsolated DEF Quarantined
    <3> HIDE DEF n
    <3> QED BY <2>4, <2>5, <3>1, <3>2 DEF ManifestsStand
  <2>8. ledger' = [bytes |-> ledger.bytes, pending |-> {}]
    BY <1>2, <1>6, FreedLedger
  <2> HIDE DEF a
  <2>9. LedgerTyped'
    BY <1>2, <2>8 DEF LedgerTyped
  <2>10. Bounded'
    <3>1. BytesOf(Stored') <= ledger.bytes /\ ledger.bytes <= Capacity
      BY <1>2, <1>3, <1>4, <2>4
    <3> QED BY <1>2, <2>8, <3>1 DEF Bounded
  <2>11. Holder(client[c])'
    BY <2>2 DEF Holder
  <2> QED BY <1>2, <2>3, <2>6, <2>9, <2>10, <2>11, HolderKeeps
<1> QED BY <1>2, <1>5, <1>6 DEF Rename

LEMMA IsolateWithin ==
  ASSUME UndoInv, QuarantineInv, NEW c \in Clients, Isolate(c)
  PROVE  QuarantineInv'
<1> DEFINE a == client[c].action
           n == client[c].move
<1>1. client[c].at = "isolate" /\ UNCHANGED <<target, ledger, rows>>
  BY DEF Isolate, At
<1>2. /\ client[c].at \in InHand /\ client[c].at \in Locking /\ a \in Actions /\ Action(c) = a
      /\ RestTyped /\ Owned /\ ledger.bytes \in Nat
      /\ ledger = [bytes |-> ledger.bytes, pending |-> {a}]
      /\ ledger.bytes + Bytes[a] <= Capacity /\ Bytes[a] \in Nat /\ BytesOf({a}) = Bytes[a]
      /\ n \in Nat
  BY <1>1, HeldForMove
<1>3. RestTyped' /\ BytesOf(Stored) <= ledger.bytes + Bytes[a]
  BY <1>1, IsolateSteps DEF CleanupStep, QuarantineInv, Holder
<1>4. ManifestsStay
  <2>1. CASE moves' = [moves EXCEPT ![n].state = "isolated"]
    BY <1>2, <2>1, ManifestsStayWhoseTheyAre DEF States
  <2>2. CASE UNCHANGED moves
    BY <2>2 DEF ManifestsStay
  <2> QED BY <2>1, <2>2 DEF Isolate
<1>5. \A i \in DOMAIN moves : moves'[i].state = moves[i].state \/ moves'[i].state \in Standing
  <2>1. CASE moves' = [moves EXCEPT ![n].state = "isolated"]
    BY <1>2, <2>1, OneStateWritten DEF States, Standing
  <2> QED BY <2>1 DEF Isolate
<1>6. CASE Goes(c, "commit")
  <2>1. /\ Lawful(client[c])' /\ client'[c].at = "commit" /\ client'[c].action = a
        /\ \A d \in Clients \ {c} : client'[d] = client[d]
    BY <1>1, <1>2, <1>4, <1>6, OwnGoing DEF Ats, InHand, Moving
  <2>2. OwnStep(c)
    BY <1>1, <1>2, <1>4, <2>1, OwnStaying
  <2>3. /\ BytesOf(Stored') <= BytesOf(Stored) /\ BytesOf(Stored') \in Nat /\ BytesOf(Stored) \in Nat
        /\ \A b \in Actions : InQuarantine(b)' => InQuarantine(b) /\ target'[b].at = target[b].at
    BY <1>1, <1>3, <1>4, NoMoreStored
  <2>4. ManifestsStand'
    <3>1. \A b \in Actions : InQuarantine(b) =>
            target[b].at \in DOMAIN moves /\ moves[target[b].at].state \in Standing
      BY StandingIsolated DEF Quarantined
    <3> QED BY <1>5, <2>3, <3>1 DEF ManifestsStand
  <2> HIDE DEF a
  <2>5. BytesOf(Stored') <= ledger.bytes + Bytes[a]
    BY <1>2, <1>3, <2>3
  <2>6. ledger' = ledger /\ ledger.pending = {a}
    BY <1>1, <1>2
  <2>7. LedgerTyped' /\ Bounded'
    BY <1>2, <2>5, <2>6 DEF LedgerTyped, Bounded
  <2>8. Holder(client[c])'
    BY <1>2, <2>1, <2>5, <2>6 DEF Holder
  <2> QED BY <1>2, <2>2, <2>4, <2>7, <2>8, HolderKeeps
<1>7. CASE Fails(c)
  <2>1. /\ Lawful(client[c])' /\ client'[c].at = "record"
        /\ \A d \in Clients \ {c} : client'[d] = client[d]
    BY <1>2, <1>4, <1>7, OwnFailing
  <2>2. OwnStep(c)
    BY <1>1, <1>2, <1>4, <2>1, OwnStaying
  <2>3. client'[c].at \notin Locking
    BY <2>1 DEF Locking
  <2> QED BY <1>1, <1>2, <1>3, <1>5, <2>2, <2>3, QuietFrom
<1> QED BY <1>6, <1>7 DEF Isolate

LEMMA CommitWithin ==
  ASSUME UndoInv, QuarantineInv, NEW c \in Clients, Commit(c)
  PROVE  QuarantineInv'
<1> DEFINE a == client[c].action
           n == client[c].move
<1>1. client[c].at = "commit" /\ UNCHANGED <<target, moves, rows>>
  BY DEF Commit, At
<1>2. /\ client[c].at \in InHand /\ client[c].at \in Locking /\ a \in Actions /\ Action(c) = a
      /\ RestTyped /\ Owned /\ ledger.bytes \in Nat
      /\ ledger = [bytes |-> ledger.bytes, pending |-> {a}]
      /\ ledger.bytes + Bytes[a] <= Capacity /\ Bytes[a] \in Nat /\ BytesOf({}) = 0
      /\ Capacity \in Nat /\ n \in Nat /\ n \in DOMAIN moves /\ moves[n].action = a
  BY <1>1, HeldForMove
<1>3. RestTyped' /\ BytesOf(Stored) <= ledger.bytes + Bytes[a]
  BY <1>1, CommitSteps DEF CleanupStep, QuarantineInv, Holder
<1>4. ManifestsStay
  BY <1>1 DEF ManifestsStay
<1>5. CASE ledger' = [Freed(c) EXCEPT !.bytes = @ + Bytes[Action(c)]] /\ Succeeds(c, n)
  <2> DEFINE r == [status |-> "succeeded", undo |-> n]
  <2>1. r \in Row /\ Ends(c, r) /\ r.undo = n /\ Own(n, a)
    BY <1>2, <1>5 DEF Row, Statuses, Succeeds, Own
  <2> HIDE DEF r
  <2>2. /\ Lawful(client[c])' /\ client'[c].at = "record"
        /\ \A d \in Clients \ {c} : client'[d] = client[d]
    BY <1>2, <1>4, <2>1, OwnEnding
  <2>3. OwnStep(c)
    BY <1>1, <1>2, <1>4, <2>2, OwnStaying
  <2>4. Stored' = Stored /\ ManifestsStand'
    BY <1>1 DEF Stored, InQuarantine, Quarantined, ManifestsStand, QuarantineInv
  <2>6. ledger' = [bytes |-> ledger.bytes + Bytes[a], pending |-> {}]
    <3>1. Freed(c) = [bytes |-> ledger.bytes, pending |-> {}]
      BY <1>2, FreedLedger
    <3>2. PICK f, x : f = Freed(c) /\ x = ledger.bytes
      OBVIOUS
    <3>3. ledger' = [f EXCEPT !.bytes = f.bytes + Bytes[a]] /\ f = [bytes |-> x, pending |-> {}]
      BY <1>2, <1>5, <3>1, <3>2
    <3>4. ledger' = [bytes |-> x + Bytes[a], pending |-> {}]
      BY <3>3
    <3> QED BY <3>2, <3>4
  <2> HIDE DEF a
  <2>7. LedgerTyped'
    BY <1>2, <2>6 DEF LedgerTyped
  <2>8. Bounded'
    <3>1. BytesOf(Stored) \in Nat /\ ledger.bytes + Bytes[a] \in Nat
      BY <1>2, StoredAreActions
    <3> QED BY <1>2, <1>3, <2>4, <2>6, <3>1 DEF Bounded
  <2>9. Holder(client[c])'
    BY <2>2 DEF Holder
  <2> QED BY <1>2, <2>3, <2>4, <2>7, <2>8, <2>9, HolderKeeps
<1>6. CASE Fails(c) /\ UNCHANGED ledger
  <2>1. /\ Lawful(client[c])' /\ client'[c].at = "record"
        /\ \A d \in Clients \ {c} : client'[d] = client[d]
    BY <1>2, <1>4, <1>6, OwnFailing
  <2>2. OwnStep(c)
    BY <1>1, <1>2, <1>4, <2>1, OwnStaying
  <2>3. client'[c].at \notin Locking
    BY <2>1 DEF Locking
  <2> QED BY <1>1, <1>2, <1>3, <1>6, <2>2, <2>3, QuietFrom
<1> QED BY <1>5, <1>6 DEF Commit

\* what the client with the lock has in hand when it undoes or purges
LEMMA HeldForReturn ==
  ASSUME UndoInv, QuarantineInv, NEW c \in Clients, client[c].at \in Back
  PROVE  /\ client[c].at \in InHand /\ client[c].action \in Actions
         /\ Action(c) = client[c].action /\ RestTyped /\ ClientsTyped /\ Owned
         /\ client[c].op # "apply" /\ Move(c) \in Nat /\ Move(c) # Home
         /\ Move(c) = client[c].copy[client[c].action].undo /\ Mentions(client[c], Move(c))
         /\ Move(c) \in DOMAIN moves /\ moves[Move(c)].action = client[c].action
         /\ Own(Move(c), client[c].action)
         /\ \A b \in Actions : b # client[c].action => target[b].at # Move(c)
         /\ Bytes[client[c].action] \in Nat /\ Capacity \in Nat /\ BytesOf({}) = 0
<1>1. /\ client[c].at \in InHand /\ client[c].action \in Actions
      /\ Action(c) = client[c].action /\ RestTyped /\ ClientsTyped /\ Owned
      /\ client[c].op # "apply" /\ Move(c) \in Nat /\ Move(c) # Home
      /\ Move(c) = client[c].copy[client[c].action].undo /\ Mentions(client[c], Move(c))
  BY HeldBack DEF QuarantineInv
<1>2. /\ Move(c) \in DOMAIN moves /\ moves[Move(c)].action = client[c].action
      /\ Own(Move(c), client[c].action)
  BY <1>1, ItsOwnMove
<1>3. \A b \in Actions : b # client[c].action => target[b].at # Move(c)
  BY <1>1, <1>2 DEF Owned, Own
<1>4. Bytes[client[c].action] \in Nat /\ Capacity \in Nat /\ BytesOf({}) = 0
  BY <1>1, BytesOfNone, CleanupAssumption
<1> QED BY <1>1, <1>2, <1>3, <1>4

\* the ledger of the client with the lock, between its reading and its debit
LEMMA HeldLedger ==
  ASSUME UndoInv, QuarantineInv, NEW c \in Clients,
         client[c].at \in {"return", "delete", "settle", "debit"}
  PROVE  /\ client[c].at \in Back /\ client[c].at \in Locking
         /\ ledger.bytes \in Nat /\ ledger.pending = {}
         /\ ledger = [bytes |-> ledger.bytes, pending |-> {}]
         /\ ledger.bytes <= Capacity /\ BytesOf(Stored) <= ledger.bytes
         /\ moves[Move(c)].by = "quarantine" /\ Move(c) \in Quarantined
         /\ client[c].at \in {"settle", "debit"} =>
              BytesOf(Stored) + Bytes[client[c].action] <= ledger.bytes
<1>1. client[c].at \in Back /\ client[c].at \in Locking
  BY DEF Back, Locking
<1>2. /\ Holder(client[c]) /\ LedgerTyped /\ Bounded /\ BytesOf({}) = 0 /\ Move(c) \in DOMAIN moves
      /\ Move(c) = client[c].copy[client[c].action].undo
  BY <1>1, HeldForReturn DEF QuarantineInv
<1>3. /\ ledger.pending = {} /\ moves[Move(c)].by = "quarantine"
      /\ client[c].at \in {"settle", "debit"} =>
           BytesOf(Stored) + Bytes[client[c].action] <= ledger.bytes
  BY <1>2 DEF Holder
<1>4. ledger.bytes \in Nat /\ ledger = [bytes |-> ledger.bytes, pending |-> {}]
  BY <1>2, <1>3 DEF LedgerTyped
<1>5. BytesOf(Stored) <= ledger.bytes /\ ledger.bytes <= Capacity
  <2>1. BytesOf(ledger.pending) = 0
    BY <1>2, <1>3
  <2>2. BytesOf(Stored) \in Nat
    BY StoredAreActions
  <2> QED BY <1>2, <1>4, <2>1, <2>2 DEF Bounded
<1> QED BY <1>1, <1>2, <1>3, <1>4, <1>5 DEF Quarantined

LEMMA AnnounceWithin ==
  ASSUME UndoInv, QuarantineInv, NEW c \in Clients, Announce(c)
  PROVE  QuarantineInv'
<1> DEFINE a == client[c].action
           n == Move(c)
           st == IF client[c].op = "undo" THEN "restoring" ELSE "purging"
<1>1. /\ client[c].at = "held" /\ client[c].at \in Back /\ Unlocked /\ moves[n].by = "quarantine"
      /\ ledger' = LoadedLedger /\ UNCHANGED <<target, rows, lost>>
  BY DEF Announce, Back
<1>2. /\ client[c].at \in InHand /\ a \in Actions /\ Action(c) = a /\ RestTyped /\ Owned
      /\ client[c].op # "apply" /\ n \in Nat /\ n = client[c].copy[a].undo
      /\ n \in DOMAIN moves /\ BytesOf({}) = 0
  BY <1>1, HeldForReturn
<1>3. RestTyped' /\ st \in States \cap Standing
  BY AnnounceSteps DEF CleanupStep, States, Standing
<1>4. PICK l : l = LoadedLedger
  OBVIOUS
<1>5. /\ l.pending = {} /\ l.bytes \in Nat /\ l = [bytes |-> l.bytes, pending |-> {}]
      /\ BytesOf(Stored) <= l.bytes /\ l.bytes <= Capacity
  BY <1>4, LoadedLedgerCounts
<1>6. moves' = LoadedMoves \/ moves' = [LoadedMoves EXCEPT ![n].state = st]
  BY DEF Announce
<1> HIDE DEF st
<1>7. ManifestsStay
  BY <1>2, <1>3, <1>6, ManifestsStayWhoseTheyAre
<1>8. /\ BytesOf(Stored') <= BytesOf(Stored) /\ BytesOf(Stored') \in Nat /\ BytesOf(Stored) \in Nat
      /\ \A b \in Actions : InQuarantine(b)' => InQuarantine(b) /\ target'[b].at = target[b].at
  BY <1>1, <1>3, <1>7, NoMoreStored
<1>9. ManifestsStand'
  <2>1. ASSUME NEW b \in Actions, InQuarantine(b) PROVE moves'[target[b].at].state \in Standing
    <3> DEFINE i == target[b].at
    <3>1. i \in DOMAIN moves /\ LoadedMoves[i].state \in Standing
      BY <2>1, AuditedStand
    <3>2. LoadedMoves \in Seq(Manifests) /\ Len(LoadedMoves) = Len(moves)
      BY <1>2, Loaded
    <3>3. i \in DOMAIN LoadedMoves /\ LoadedMoves[i] \in Manifests
      <4>1. DOMAIN LoadedMoves = 1..Len(LoadedMoves) /\ DOMAIN moves = 1..Len(moves)
        BY <1>2, <3>2 DEF RestTyped
      <4> QED BY <3>1, <3>2, <4>1
    <3> HIDE DEF i, n
    <3>4. CASE moves' = LoadedMoves
      BY <3>1, <3>4 DEF i
    <3>5. CASE moves' = [LoadedMoves EXCEPT ![n].state = st]
      <4>1. moves'[i] = IF i = n THEN [LoadedMoves[i] EXCEPT !.state = st] ELSE LoadedMoves[i]
        BY <3>3, <3>5
      <4>2. moves'[i].state = st \/ moves'[i].state = LoadedMoves[i].state
        BY <3>3, <4>1 DEF Manifests
      <4> QED BY <1>3, <3>1, <4>2 DEF i
    <3> QED BY <1>6, <3>4, <3>5 DEF n
  <2> QED BY <1>8, <2>1 DEF ManifestsStand
<1>10. ledger'.bytes = l.bytes /\ ledger'.pending = {} /\ LedgerTyped'
  BY <1>1, <1>4, <1>5 DEF LedgerTyped
<1>11. BytesOf(Stored') <= l.bytes
  BY <1>5, <1>8
<1>12. Bounded'
  <2>1. Capacity \in Nat
    BY CleanupAssumption
  <2> QED BY <1>2, <1>5, <1>10, <1>11, <2>1 DEF Bounded
<1>13. CASE \E there \in {"return", "delete"} : Goes(c, there)
  <2>1. PICK there \in {"return", "delete"} : Goes(c, there)
    BY <1>13
  <2>2. /\ Lawful(client[c])' /\ client'[c].at = there /\ client'[c].action = a
        /\ client'[c].copy = client[c].copy
        /\ \A d \in Clients \ {c} : client'[d] = client[d]
    BY <1>2, <1>7, <2>1, OwnGoing DEF Ats, InHand, Back, Moving
  <2>3. OwnStep(c)
    BY <1>1, <1>2, <1>7, <2>2, OwnStaying
  <2>4. moves'[n].by = "quarantine"
    BY <1>1, <1>2, <1>7 DEF ManifestsStay
  <2>5. Holder(client[c])'
    BY <1>2, <1>10, <1>11, <2>2, <2>4 DEF Holder
  <2> QED BY <1>1, <1>9, <1>10, <1>12, <2>3, <2>5, HolderKeeps
<1>14. CASE Errs(c)
  <2>1. /\ Lawful(client[c])' /\ client'[c].at = "record"
        /\ \A d \in Clients \ {c} : client'[d] = client[d]
    BY <1>2, <1>7, <1>14, OwnFailing
  <2>2. OwnStep(c)
    BY <1>1, <1>2, <1>7, <2>1, OwnStaying
  <2>3. Holder(client[c])'
    BY <2>1 DEF Holder
  <2> QED BY <1>1, <1>9, <1>10, <1>12, <2>2, <2>3, HolderKeeps
<1> QED BY <1>13, <1>14 DEF Announce

\* what was there and is gone makes room before the ledger says so
LEMMA LeavesRoom ==
  ASSUME UndoInv, QuarantineInv, NEW c \in Clients, client[c].at \in {"return", "delete"},
         IsThere(Move(c)), UNCHANGED <<moves, ledger, rows>>, RestTyped', Goes(c, "settle"),
         \A b \in Actions : /\ target'[b].at \in {target[b].at, Home}
                            /\ target'[b].is = "same" => target[b].is = "same",
         ~ (target'[client[c].action].at = Move(c) /\ target'[client[c].action].is = "same")
  PROVE  QuarantineInv'
<1> DEFINE a == client[c].action
           n == Move(c)
<1>1. /\ client[c].at \in Back /\ client[c].at \in Locking
      /\ ledger.bytes \in Nat /\ ledger.pending = {}
      /\ ledger.bytes <= Capacity /\ BytesOf(Stored) <= ledger.bytes
      /\ moves[n].by = "quarantine" /\ n \in Quarantined
  BY HeldLedger
<1>2. /\ client[c].at \in InHand /\ a \in Actions /\ RestTyped /\ Owned /\ Capacity \in Nat
      /\ n = client[c].copy[a].undo /\ n \in DOMAIN moves /\ moves[n].action = a
      /\ client[c].op # "apply" /\ BytesOf({}) = 0 /\ Bytes[a] \in Nat
  BY <1>1, HeldForReturn
<1>3. ManifestsStay
  BY DEF ManifestsStay
<1>4. /\ Lawful(client[c])' /\ client'[c].at = "settle" /\ client'[c].action = a
      /\ client'[c].copy = client[c].copy
      /\ \A d \in Clients \ {c} : client'[d] = client[d]
  BY <1>2, <1>3, OwnGoing DEF Ats, InHand, Back, Moving
<1>5. OwnStep(c)
  BY <1>2, <1>3, <1>4, OwnStaying
<1>6. /\ Stored' \in SUBSET Stored /\ Stored \in SUBSET Actions
      /\ BytesOf(Stored') \in Nat /\ BytesOf(Stored) \in Nat
      /\ \A b \in Actions : InQuarantine(b)' => InQuarantine(b) /\ target'[b].at = target[b].at
  BY <1>3, NoMoreStored
<1>7. ManifestsStand'
  BY <1>6 DEF ManifestsStand, QuarantineInv
<1>8. target[a].at = n /\ target[a].is = "same"
  BY <1>2 DEF IsThere, Object
<1>9. a \in Stored
  BY <1>1, <1>2, <1>8 DEF Stored, InQuarantine
<1>10. \A b \in Actions : b = a => ~ InQuarantine(b)'
  BY <1>6, <1>8 DEF InQuarantine
<1> HIDE DEF a, n
<1>11. Stored' \in SUBSET (Stored \ {a})
  BY <1>6, <1>10 DEF Stored
<1>12. BytesOf(Stored') + Bytes[a] <= BytesOf(Stored)
  BY <1>6, <1>9, <1>11, BytesOfOneLess
<1>13. BytesOf(Stored') + Bytes[a] <= ledger.bytes /\ BytesOf(Stored') <= ledger.bytes
  BY <1>1, <1>2, <1>6, <1>12
<1>14. LedgerTyped' /\ Bounded'
  BY <1>1, <1>2, <1>13 DEF LedgerTyped, Bounded, QuarantineInv
<1>15. Holder(client[c])'
  BY <1>1, <1>2, <1>4, <1>13 DEF Holder
<1> QED BY <1>1, <1>5, <1>7, <1>14, <1>15, HolderKeeps

LEMMA ReturnWithin ==
  ASSUME UndoInv, QuarantineInv, NEW c \in Clients, Return(c)
  PROVE  QuarantineInv'
<1> DEFINE a == client[c].action
           n == Move(c)
<1>1. client[c].at = "return" /\ client[c].at \in Back /\ UNCHANGED <<ledger, rows, lost>>
  BY DEF Return, Back
<1>2. /\ client[c].at \in InHand /\ a \in Actions /\ Action(c) = a /\ RestTyped /\ Owned
      /\ client[c].op # "apply" /\ n \in Nat /\ n # Home
      /\ client[c].at \in Locking
  BY <1>1, HeldForReturn, HeldLedger
<1>3. RestTyped'
  BY ReturnSteps DEF CleanupStep
<1>4. CASE /\ IsThere(n) /\ target' = [target EXCEPT ![a].at = Home]
           /\ Goes(c, "settle") /\ UNCHANGED moves
  <2>1. /\ target'[a].at = Home /\ target'[a].is = target[a].is
        /\ \A b \in Actions : b # a => target'[b] = target[b]
    BY <1>2, <1>4, MovedThere DEF Home
  <2>2. \A b \in Actions : target'[b].at \in {target[b].at, Home} /\ target'[b].is = target[b].is
    BY <2>1
  <2> QED BY <1>1, <1>2, <1>3, <1>4, <2>1, <2>2, LeavesRoom
<1>5. CASE moves' = [moves EXCEPT ![n].state = "isolated"] /\ Errs(c) /\ UNCHANGED target
  <2>1. ManifestsStay
    BY <1>2, <1>5, ManifestsStayWhoseTheyAre DEF States
  <2>2. /\ Lawful(client[c])' /\ client'[c].at = "record"
        /\ \A d \in Clients \ {c} : client'[d] = client[d]
    BY <1>2, <1>5, <2>1, OwnFailing
  <2>3. OwnStep(c)
    BY <1>1, <1>2, <1>5, <2>1, <2>2, OwnStaying
  <2>4. client'[c].at \notin Locking
    BY <2>2 DEF Locking
  <2>5. \A i \in DOMAIN moves : moves'[i].state = moves[i].state \/ moves'[i].state \in Standing
    BY <1>2, <1>5, OneStateWritten DEF States, Standing
  <2> QED BY <1>1, <1>2, <1>3, <1>5, <2>3, <2>4, <2>5, QuietFrom
<1> QED BY <1>2, <1>4, <1>5 DEF Return, MovesBack, Writes

LEMMA DeleteWithin ==
  ASSUME UndoInv, QuarantineInv, NEW c \in Clients, Delete(c)
  PROVE  QuarantineInv'
<1> DEFINE a == client[c].action
           n == Move(c)
<1>1. client[c].at = "delete" /\ client[c].at \in Back /\ UNCHANGED <<ledger, rows, lost>>
  BY DEF Delete, Back
<1>2. /\ client[c].at \in InHand /\ a \in Actions /\ Action(c) = a /\ RestTyped /\ Owned
      /\ client[c].op # "apply" /\ n \in Nat /\ n # Home
      /\ client[c].at \in Locking /\ target \in [Actions -> Targeted] /\ target[a] \in Targeted
  BY <1>1, HeldForReturn, HeldLedger DEF RestTyped
<1>3. RestTyped'
  BY DeleteSteps DEF CleanupStep
<1>4. CASE /\ IsThere(n) /\ target' = [target EXCEPT ![a].is = "gone"]
           /\ Goes(c, "settle") /\ UNCHANGED moves
  <2>1. /\ target'[a].at = target[a].at /\ target'[a].is = "gone"
        /\ \A b \in Actions : b # a => target'[b] = target[b]
    BY <1>2, <1>4, MadeTo
  <2>2. \A b \in Actions : /\ target'[b].at \in {target[b].at, Home}
                           /\ target'[b].is = "same" => target[b].is = "same"
    BY <2>1
  <2> QED BY <1>1, <1>2, <1>3, <1>4, <2>1, <2>2, LeavesRoom
<1>5. CASE /\ target' = [target EXCEPT ![a].is = IF @ = "same" THEN "changed" ELSE @]
           /\ moves' = [moves EXCEPT ![n].state = "isolated"] /\ Errs(c)
  <2>1. ManifestsStay
    BY <1>2, <1>5, ManifestsStayWhoseTheyAre DEF States
  <2>2. /\ Lawful(client[c])' /\ client'[c].at = "record"
        /\ \A d \in Clients \ {c} : client'[d] = client[d]
    BY <1>2, <1>5, <2>1, OwnFailing
  <2>3. PICK is \in {"changed", "gone"} : target' = [target EXCEPT ![a].is = is]
    <3>1. target[a].is \in {"same", "changed", "gone"}
      BY <1>2 DEF Targeted
    <3>2. (IF target[a].is = "same" THEN "changed" ELSE target[a].is) \in {"changed", "gone"}
      BY <3>1
    <3>3. target' = [target EXCEPT ![a].is = IF target[a].is = "same" THEN "changed" ELSE target[a].is]
      BY <1>5
    <3> QED BY <3>2, <3>3
  <2>4. /\ target'[a].at = target[a].at /\ target'[a].is = is
        /\ \A b \in Actions : b # a => target'[b] = target[b]
    BY <1>2, <2>3, MadeTo
  <2>5. \A b \in Actions : /\ target'[b].at \in {target[b].at, Home}
                           /\ target'[b].is = "same" => target[b].is = "same"
    BY <2>4
  <2>6. OwnStep(c)
    BY <1>1, <1>2, <2>1, <2>2, <2>5, OwnStaying
  <2>7. client'[c].at \notin Locking
    BY <2>2 DEF Locking
  <2>8. \A i \in DOMAIN moves : moves'[i].state = moves[i].state \/ moves'[i].state \in Standing
    BY <1>2, <1>5, OneStateWritten DEF States, Standing
  <2> QED BY <1>1, <1>2, <1>3, <2>5, <2>6, <2>7, <2>8, QuietFrom
<1> QED BY <1>2, <1>4, <1>5 DEF Delete, Writes

LEMMA SettleWithin ==
  ASSUME UndoInv, QuarantineInv, NEW c \in Clients, Settle(c)
  PROVE  QuarantineInv'
<1> DEFINE a == client[c].action
           n == Move(c)
           st == IF client[c].op = "undo" THEN "restored" ELSE "purged"
<1>1. client[c].at = "settle" /\ client[c].at \in Back /\ UNCHANGED <<target, ledger, rows, lost>>
  BY DEF Settle, Back
<1>2. /\ client[c].at \in InHand /\ a \in Actions /\ RestTyped /\ Owned
      /\ client[c].op # "apply" /\ n \in Nat /\ n = client[c].copy[a].undo
      /\ n \in DOMAIN moves /\ BytesOf({}) = 0 /\ Bytes[a] \in Nat /\ Capacity \in Nat
      /\ \A b \in Actions : b # a => target[b].at # n
  BY <1>1, HeldForReturn
<1>3. /\ client[c].at \in Locking /\ ledger.bytes \in Nat /\ ledger.pending = {}
      /\ ledger.bytes <= Capacity /\ moves[n].by = "quarantine"
      /\ BytesOf(Stored) + Bytes[a] <= ledger.bytes
  BY <1>1, HeldLedger
<1>4. RestTyped' /\ st \in States
  BY SettleSteps DEF CleanupStep, States
<1>5. Gone(client[c], a)
  BY <1>1, ItsRecord DEF Rightly, SaysGone
<1>6. \A b \in Actions : target[b].at # n \/ target[b].is # "same"
  BY <1>2, <1>5 DEF Gone
<1> HIDE DEF st
<1>7. CASE moves' = [moves EXCEPT ![n].state = st] /\ Goes(c, "debit")
  <2>1. ManifestsStay
    BY <1>2, <1>4, <1>7, ManifestsStayWhoseTheyAre
  <2>2. /\ Lawful(client[c])' /\ client'[c].at = "debit" /\ client'[c].action = a
        /\ client'[c].copy = client[c].copy
        /\ \A d \in Clients \ {c} : client'[d] = client[d]
    BY <1>2, <1>7, <2>1, OwnGoing DEF Ats, InHand, Back, Moving
  <2>3. OwnStep(c)
    BY <1>1, <1>2, <2>1, <2>2, OwnStaying
  <2>4. /\ BytesOf(Stored') <= BytesOf(Stored) /\ BytesOf(Stored') \in Nat /\ BytesOf(Stored) \in Nat
        /\ \A b \in Actions : InQuarantine(b)' => InQuarantine(b) /\ target'[b].at = target[b].at
    BY <1>1, <1>4, <2>1, NoMoreStored
  <2>5. moves'[n].by = "quarantine"
    BY <1>2, <1>3, <2>1 DEF ManifestsStay
  <2>6. \A i \in DOMAIN moves : moves'[i].state = moves[i].state \/ i = n
    BY <1>2, <1>4, <1>7, OneStateWritten
  <2> HIDE DEF a, n
  <2>7. ManifestsStand'
    <3>1. \A b \in Actions : InQuarantine(b) =>
            /\ target[b].at \in DOMAIN moves /\ moves[target[b].at].state \in Standing
            /\ target[b].is = "same"
      BY StandingIsolated DEF Quarantined, InQuarantine
    <3> QED BY <1>6, <2>4, <2>6, <3>1 DEF ManifestsStand
  <2>8. BytesOf(Stored') + Bytes[a] <= ledger.bytes /\ BytesOf(Stored') <= ledger.bytes
    BY <1>2, <1>3, <2>4
  <2>9. LedgerTyped' /\ Bounded'
    BY <1>1, <1>2, <1>3, <2>8 DEF LedgerTyped, Bounded, QuarantineInv
  <2>10. Holder(client[c])'
    BY <1>1, <1>2, <1>3, <2>2, <2>5, <2>8 DEF Holder
  <2> QED BY <1>3, <2>3, <2>7, <2>9, <2>10, HolderKeeps
<1>8. CASE Errs(c) /\ UNCHANGED moves
  <2>1. ManifestsStay
    BY <1>8 DEF ManifestsStay
  <2>2. /\ Lawful(client[c])' /\ client'[c].at = "record"
        /\ \A d \in Clients \ {c} : client'[d] = client[d]
    BY <1>2, <1>8, <2>1, OwnFailing
  <2>3. client'[c].at \notin Locking /\ \A b \in Actions : Own(rows'[b].undo, b)
    BY <1>1, <1>2, <2>2 DEF Locking, Owned
  <2> QED BY <1>1, <1>4, <1>8, <2>2, <2>3, OnlyWords
<1> QED BY <1>7, <1>8 DEF Settle, Writes, st

LEMMA DebitWithin ==
  ASSUME UndoInv, QuarantineInv, NEW c \in Clients, Debit(c)
  PROVE  QuarantineInv'
<1> DEFINE a == client[c].action
           n == Move(c)
<1>1. client[c].at = "debit" /\ client[c].at \in Back /\ UNCHANGED <<target, moves, rows, lost>>
  BY DEF Debit, Back
<1>2. /\ client[c].at \in InHand /\ a \in Actions /\ Action(c) = a /\ RestTyped /\ Owned
      /\ client[c].op # "apply" /\ n \in Nat /\ Own(n, a)
      /\ BytesOf({}) = 0 /\ Bytes[a] \in Nat /\ Capacity \in Nat
  BY <1>1, HeldForReturn
<1>3. /\ client[c].at \in Locking /\ ledger.bytes \in Nat
      /\ ledger = [bytes |-> ledger.bytes, pending |-> {}]
      /\ ledger.bytes <= Capacity /\ BytesOf(Stored) + Bytes[a] <= ledger.bytes
  BY <1>1, HeldLedger
<1>4. RestTyped' /\ ManifestsStay
  BY <1>1, DebitSteps DEF CleanupStep, ManifestsStay
<1>5. CASE Errs(c) /\ UNCHANGED ledger
  <2>1. /\ Lawful(client[c])' /\ client'[c].at = "record"
        /\ \A d \in Clients \ {c} : client'[d] = client[d]
    BY <1>2, <1>4, <1>5, OwnFailing
  <2>2. client'[c].at \notin Locking /\ \A b \in Actions : Own(rows'[b].undo, b)
    BY <1>1, <1>2, <2>1 DEF Locking, Owned
  <2> QED BY <1>1, <1>4, <1>5, <2>1, <2>2, OnlyWords
<1>6. ASSUME NEW r \in Row, Ends(c, r), r.undo = 0 \/ r.undo = n,
             ledger' = [ledger EXCEPT !.bytes = Short(@, Bytes[Action(c)])]
      PROVE  QuarantineInv'
  <2>1. Own(r.undo, a)
    BY <1>2, <1>6 DEF Own, Home
  <2>2. /\ Lawful(client[c])' /\ client'[c].at = "record"
        /\ \A d \in Clients \ {c} : client'[d] = client[d]
    BY <1>2, <1>4, <1>6, <2>1, OwnEnding
  <2>3. OwnStep(c)
    BY <1>1, <1>2, <1>4, <2>2, OwnStaying
  <2>4. Stored' = Stored /\ ManifestsStand'
    BY <1>1 DEF Stored, InQuarantine, Quarantined, ManifestsStand, QuarantineInv
  <2> HIDE DEF a
  <2>5. BytesOf(Stored) \in Nat
    BY StoredAreActions
  <2>6. /\ Short(ledger.bytes, Bytes[a]) \in Nat
        /\ BytesOf(Stored) <= Short(ledger.bytes, Bytes[a])
        /\ Short(ledger.bytes, Bytes[a]) <= Capacity
    BY <1>2, <1>3, <2>5 DEF Short
  <2>7. ledger' = [bytes |-> Short(ledger.bytes, Bytes[a]), pending |-> {}]
    <3>1. PICK l, x : l = ledger /\ x = ledger.bytes
      OBVIOUS
    <3>2. l = [bytes |-> x, pending |-> {}] /\ ledger' = [l EXCEPT !.bytes = Short(l.bytes, Bytes[a])]
      BY <1>2, <1>3, <1>6, <3>1
    <3>3. ledger' = [bytes |-> Short(x, Bytes[a]), pending |-> {}]
      BY <3>2
    <3> QED BY <3>1, <3>3
  <2>8. LedgerTyped'
    BY <2>6, <2>7 DEF LedgerTyped
  <2>9. Bounded'
    BY <1>2, <2>4, <2>5, <2>6, <2>7 DEF Bounded
  <2>10. Holder(client[c])'
    BY <2>2 DEF Holder
  <2> QED BY <1>3, <2>3, <2>4, <2>8, <2>9, <2>10, HolderKeeps
<1>7. CASE /\ Ends(c, [status |-> "undone", undo |-> n])
           /\ ledger' = [ledger EXCEPT !.bytes = Short(@, Bytes[Action(c)])]
  <2>1. [status |-> "undone", undo |-> n] \in Row
    BY <1>2 DEF Row, Statuses
  <2> QED BY <1>6, <1>7, <2>1
<1>8. CASE /\ Ends(c, [status |-> "purged", undo |-> 0])
           /\ ledger' = [ledger EXCEPT !.bytes = Short(@, Bytes[Action(c)])]
  <2>1. [status |-> "purged", undo |-> 0] \in Row
    BY DEF Row, Statuses
  <2> QED BY <1>6, <1>8, <2>1
<1> QED BY <1>5, <1>7, <1>8 DEF Debit

LEMMA DiesWithin ==
  ASSUME UndoInv, QuarantineInv, NEW c \in Clients, Dies(c)
  PROVE  QuarantineInv'
<1>1. Returns(c) /\ UNCHANGED <<moves, ledger, rows>> /\ ManifestsStay
  BY DEF Dies, ManifestsStay
<1>2. RestTyped /\ RestTyped' /\ Owned
  BY DiesSteps DEF CleanupStep, UndoInv, QuarantineInv
<1>3. Lawful(client[c])' /\ client'[c].at = "" /\ \A d \in Clients \ {c} : client'[d] = client[d]
  BY <1>1, OwnReturning
<1>4. client'[c].at \notin Locking
  BY <1>3 DEF Locking
<1>5. \A b \in Actions : target'[b].at = target[b].at /\ (target'[b].is = "same" => target[b].is = "same")
  <2>1. CASE client[c].at = "delete" /\ target' = [target EXCEPT ![Action(c)].is = "changed"]
    <3>1. PICK a \in Actions : a = Action(c)
      BY <2>1, HeldForReturn DEF Back
    <3>2. /\ target'[a].at = target[a].at /\ target'[a].is = "changed"
          /\ \A b \in Actions : b # a => target'[b] = target[b]
      BY <1>2, <2>1, <3>1, MadeTo
    <3> QED BY <3>2
  <2> QED BY <2>1 DEF Dies
<1>6. OwnStep(c)
  BY <1>1, <1>2, <1>3, <1>5, OwnStaying
<1> QED BY <1>1, <1>2, <1>4, <1>5, <1>6, QuietFrom

\* a step that no client takes, while nobody has the lock
LEMMA ManifestsAloneWithin ==
  ASSUME UndoInv, QuarantineInv, RestTyped', ManifestsStay, UNCHANGED <<rows, client>>,
         \A a \in Actions : /\ target'[a].at = target[a].at
                            /\ target'[a].is = "same" => target[a].is = "same",
         \A a \in Actions : InQuarantine(a) => moves'[target[a].at].state \in Standing,
         \/ UNCHANGED <<ledger, moves>>
         \/ Unlocked /\ ledger' \in {ledger, AuditedLedger}
  PROVE  QuarantineInv'
<1>1. /\ Owned /\ LedgerTyped /\ OneHolder /\ Bounded
      /\ ledger.bytes \in Nat /\ BytesOf(ledger.pending) \in Nat /\ Capacity \in Nat
      /\ \A c \in Clients : Lawful(client[c]) /\ Holder(client[c]) /\ Fits(client[c])
  BY LedgerCounts, CleanupAssumption DEF QuarantineInv, Owned, UndoInv
<1>2. ASSUME NEW n, NEW a, Own(n, a) PROVE n = Home \/ (n \in DOMAIN moves' /\ moves'[n].action = a)
  BY <1>2 DEF ManifestsStay, Own
<1>3. Owned'
  <2>1. ASSUME NEW c \in Clients PROVE Lawful(client[c])'
    <3>1. Lawful(client[c]) /\ client' = client
      BY <1>1
    <3>2. client[c].op # "none" => \A a \in Actions :
            client[c].copy[a].undo = Home
            \/ (client[c].copy[a].undo \in DOMAIN moves' /\ moves'[client[c].copy[a].undo].action = a)
      BY <1>2, <3>1 DEF Lawful
    <3>3. client[c].at = "record" => client[c].result.undo = Home
            \/ (client[c].result.undo \in DOMAIN moves' /\ moves'[client[c].result.undo].action = client[c].action)
      BY <1>2, <3>1 DEF Lawful
    <3>4. client[c].at \in Moving => client[c].move # Home /\ (client[c].move = Home
            \/ (client[c].move \in DOMAIN moves' /\ moves'[client[c].move].action = client[c].action))
      BY <1>2, <3>1 DEF Lawful
    <3> QED BY <3>1, <3>2, <3>3, <3>4 DEF Lawful, Own
  <2>2. \A a \in Actions : /\ rows[a].undo = Home
                              \/ (rows[a].undo \in DOMAIN moves' /\ moves'[rows[a].undo].action = a)
                           /\ target[a].at = Home
                              \/ (target[a].at \in DOMAIN moves' /\ moves'[target[a].at].action = a)
    BY <1>1, <1>2 DEF Owned
  <2>3. \A a \in Actions : Own(rows[a].undo, a)' /\ Own(target[a].at, a)'
    BY <2>2 DEF Own
  <2> QED BY <2>1, <2>3 DEF Owned
<1>4. /\ BytesOf(Stored') <= BytesOf(Stored) /\ BytesOf(Stored') \in Nat /\ BytesOf(Stored) \in Nat
      /\ \A b \in Actions : InQuarantine(b)' => InQuarantine(b) /\ target'[b].at = target[b].at
  BY NoMoreStored
<1>5. ManifestsStand'
  BY <1>4 DEF ManifestsStand
<1>6. OneHolder'
  BY <1>1 DEF OneHolder
<1>7. CASE UNCHANGED <<ledger, moves>>
  <2>1. LedgerTyped' /\ Bounded'
    BY <1>1, <1>4, <1>7 DEF LedgerTyped, Bounded
  <2>2. ASSUME NEW c \in Clients PROVE Holder(client[c])'
    <3> DEFINE k == client[c]
               a == client[c].action
    <3>1. Holder(k) /\ client' = client /\ ledger' = ledger /\ moves' = moves
      BY <1>1, <1>7
    <3>2. CASE k.at \notin Locking
      BY <3>1, <3>2 DEF Holder, Locking
    <3>3. CASE k.at \in Locking
      <4>1. a \in Actions
        BY <3>3, ItsAction DEF Locking, InHand, Moving, Back
      <4>2. Bytes[a] \in Nat /\ target'[a].at = target[a].at
        BY <4>1, CleanupAssumption
      <4> HIDE DEF a
      <4>3. /\ BytesOf(Stored) <= ledger.bytes => BytesOf(Stored') <= ledger.bytes
            /\ BytesOf(Stored) <= ledger.bytes + Bytes[a] => BytesOf(Stored') <= ledger.bytes + Bytes[a]
            /\ BytesOf(Stored) + Bytes[a] <= ledger.bytes => BytesOf(Stored') + Bytes[a] <= ledger.bytes
        BY <1>1, <1>4, <4>2
      <4> QED BY <3>1, <4>2, <4>3 DEF Holder, a
    <3> QED BY <3>2, <3>3
  <2> QED BY <1>3, <1>5, <1>6, <2>1, <2>2 DEF QuarantineInv
<1>8. CASE Unlocked /\ ledger' \in {ledger, AuditedLedger}
  <2>1. \A c \in Clients : Holder(client[c])'
    BY <1>8 DEF Unlocked, Holder, Locking
  <2>2. LedgerTyped' /\ Bounded'
    <3>1. CASE ledger' = ledger
      BY <1>1, <1>4, <3>1 DEF LedgerTyped, Bounded
    <3>2. CASE ledger' = AuditedLedger
      <4>1. ledger' = [bytes |-> BytesOf(Stored), pending |-> {}]
        BY <3>2, StoredIsThere DEF AuditedLedger
      <4>2. BytesOf({}) = 0 /\ BytesOf(Stored) <= Capacity
        BY <1>1, <1>4, BytesOfNone DEF Bounded
      <4>3. LedgerTyped'
        BY <1>4, <4>1 DEF LedgerTyped
      <4>4. Bounded'
        BY <1>1, <1>4, <4>1, <4>2 DEF Bounded
      <4> QED BY <4>3, <4>4
    <3> QED BY <1>8, <3>1, <3>2
  <2> QED BY <1>3, <1>5, <1>6, <2>1, <2>2 DEF QuarantineInv
<1> QED BY <1>7, <1>8

LEMMA AuditWithin ==
  ASSUME UndoInv, QuarantineInv, audit
  PROVE  QuarantineInv'
<1>1. /\ Unlocked /\ UNCHANGED <<target, rows, client, lost>>
      /\ ledger' \in {ledger, AuditedLedger}
  BY DEF audit
<1>2. RestTyped /\ RestTyped'
  BY AuditKeepsTheInvariant DEF UndoInv
<1>3. \A n \in DOMAIN moves :
        /\ AuditedMoves[n] = moves[n]
           \/ AuditedMoves[n] = [moves[n] EXCEPT !.state = Settled(n)]
        /\ moves[n] \in Manifests
  BY <1>2 DEF AuditedMoves, RestTyped
<1>4. \A n \in DOMAIN moves :
        AuditedMoves[n].action = moves[n].action /\ AuditedMoves[n].by = moves[n].by
  BY <1>3 DEF Manifests
<1>5. DOMAIN moves' = DOMAIN moves
      /\ \A n \in DOMAIN moves : moves'[n] = moves[n] \/ moves'[n] = AuditedMoves[n]
  <2>1. CASE moves' = AuditedMoves
    <3>1. DOMAIN AuditedMoves = DOMAIN moves
      BY DEF AuditedMoves
    <3> QED BY <2>1, <3>1
  <2>2. CASE \E done \in SUBSET Quarantined :
               moves' = [n \in DOMAIN moves |-> IF n \in done THEN AuditedMoves[n] ELSE moves[n]]
    BY <2>2
  <2> QED BY <2>1, <2>2 DEF audit
<1>6. ManifestsStay
  BY <1>4, <1>5 DEF ManifestsStay
<1>7. \A a \in Actions : InQuarantine(a) => moves'[target[a].at].state \in Standing
  <2>1. ASSUME NEW a \in Actions, InQuarantine(a) PROVE moves'[target[a].at].state \in Standing
    <3>1. target[a].at \in DOMAIN moves /\ AuditedMoves[target[a].at].state \in Standing
          /\ moves[target[a].at].state \in Standing
      BY <2>1, AuditedStand, StandingIsolated
    <3> QED BY <1>5, <3>1
  <2> QED BY <2>1
<1> QED BY <1>1, <1>2, <1>6, <1>7, ManifestsAloneWithin

LEMMA TouchedWithin ==
  ASSUME UndoInv, QuarantineInv, NEW a \in Actions, Touched(a)
  PROVE  QuarantineInv'
<1>1. UNCHANGED <<moves, ledger, rows, client, lost>> /\ ManifestsStay
  BY DEF Touched, ManifestsStay
<1>2. RestTyped /\ RestTyped' /\ target \in [Actions -> Targeted] /\ target[a] \in Targeted
  BY TouchKeepsTheInvariant DEF UndoInv, RestTyped
<1>3. \A b \in Actions : target'[b].at = target[b].at /\ (target'[b].is = "same" => target[b].is = "same")
  <2>1. CASE target[a].is = "same" /\ target' = [target EXCEPT ![a].is = "changed"]
    <3>1. /\ target'[a].at = target[a].at /\ target'[a].is = "changed"
          /\ \A b \in Actions : b # a => target'[b] = target[b]
      BY <1>2, <2>1, MadeTo
    <3> QED BY <3>1
  <2>2. CASE target' = [target EXCEPT ![a].taken = TRUE]
    <3>1. target'[a] = [target[a] EXCEPT !.taken = TRUE] /\ \A b \in Actions : b # a => target'[b] = target[b]
      BY <1>2, <2>2
    <3>2. target'[a].at = target[a].at /\ target'[a].is = target[a].is
      BY <1>2, <3>1 DEF Targeted
    <3> QED BY <3>1, <3>2
  <2> QED BY <2>1, <2>2 DEF Touched
<1>4. \A b \in Actions : InQuarantine(b) => moves'[target[b].at].state \in Standing
  BY <1>1 DEF QuarantineInv, ManifestsStand
<1> QED BY <1>1, <1>2, <1>3, <1>4, ManifestsAloneWithin

LEMMA QuarantineStarts == CleanupInit => QuarantineInv
<1> SUFFICES ASSUME CleanupInit PROVE QuarantineInv
  OBVIOUS
<1>1. PICK n \in 0..MaxMoves, out \in SUBSET Actions :
        \E order \in [1..n -> Actions \ out] : BeginsWith(n, out, order)
  BY DEF CleanupInit
<1>2. PICK order \in [1..n -> Actions \ out] : BeginsWith(n, out, order)
  BY <1>1
<1> DEFINE done == Range(order)
           place == [a \in done |-> CHOOSE i \in 1..n : order[i] = a]
<1>3. n \in Nat /\ UndoInv /\ Capacity \in Nat
  BY CleanupAssumption, CleanupStarts
<1>4. \A a \in done : place[a] \in 1..n /\ order[place[a]] = a
  BY DEF Range
<1>5. done \in SUBSET Actions /\ BytesOf(done) <= Capacity
  BY <1>2 DEF BeginsWith, Range
<1> HIDE DEF place
<1>6. /\ target = [a \in Actions |-> [at |-> IF a \in done THEN place[a] ELSE Home,
                                      is |-> "same", taken |-> FALSE]]
      /\ rows = [a \in Actions |-> IF a \in done
                                   THEN [status |-> "succeeded", undo |-> place[a]]
                                   ELSE [status |-> IF a \in out THEN "skipped" ELSE "planned",
                                         undo |-> Home]]
      /\ client = [c \in Clients |-> Idle]
      /\ moves = [i \in 1..n |-> [action |-> order[i], by |-> "quarantine", state |-> "isolated"]]
      /\ ledger = [bytes |-> BytesOf(done), pending |-> {}]
  BY <1>2 DEF place, BeginsWith
<1> HIDE DEF done
<1>7. DOMAIN moves = 1..n /\ \A i \in 1..n : moves[i].action = order[i]
        /\ moves[i].by = "quarantine" /\ moves[i].state = "isolated"
  BY <1>6
<1>8. ASSUME NEW a \in Actions
      PROVE  /\ target[a].at = rows[a].undo
             /\ IF a \in done THEN target[a].at = place[a] ELSE target[a].at = Home
  BY <1>6
<1>9. \A c \in Clients : client[c].op = "none" /\ client[c].at = ""
  BY <1>6 DEF Idle
<1>10. Owned
  <2>1. \A a \in Actions : Own(target[a].at, a)
    BY <1>4, <1>7, <1>8 DEF Own
  <2>2. \A c \in Clients : Lawful(client[c])
    BY <1>9 DEF Lawful, Moving
  <2> QED BY <1>8, <2>1, <2>2 DEF Owned
<1>11. Stored \in SUBSET done
  <2>1. ASSUME NEW a \in Actions, a \notin done PROVE ~ InQuarantine(a)
    BY <1>3, <1>7, <1>8, <2>1 DEF InQuarantine, Quarantined, Home
  <2> QED BY <2>1 DEF Stored
<1>12. /\ BytesOf(Stored) <= BytesOf(done) /\ BytesOf(Stored) \in Nat /\ BytesOf(done) \in Nat
       /\ BytesOf({}) = 0
  BY <1>5, <1>11, BytesOfPart, StoredAreActions, BytesAreNumbers, BytesOfNone
<1>13. LedgerTyped /\ Bounded
  BY <1>3, <1>5, <1>6, <1>12 DEF LedgerTyped, Bounded
<1>14. ManifestsStand
  BY <1>7 DEF ManifestsStand, InQuarantine, Quarantined, Standing
<1>15. OneHolder /\ \A c \in Clients : Holder(client[c])
  BY <1>9 DEF OneHolder, Holder, Locking
<1> QED BY <1>10, <1>13, <1>14, <1>15 DEF QuarantineInv

LEMMA QuarantineInvariant == CleanupSpec => []QuarantineInv
<1>1. UndoInv /\ QuarantineInv /\ [CleanupNext]_cleanupVars => QuarantineInv'
  <2> SUFFICES ASSUME UndoInv, QuarantineInv, [CleanupNext]_cleanupVars PROVE QuarantineInv'
    OBVIOUS
  <2>1. CASE audit
    BY <2>1, AuditWithin
  <2>2. ASSUME NEW a \in Actions, Touched(a) PROVE QuarantineInv'
    BY <2>2, TouchedWithin
  <2>3. ASSUME NEW c \in Clients, NEW op \in {"apply", "undo", "purge"}, get_plan(c, op)
        PROVE QuarantineInv'
    BY <2>3, GetPlanWithin
  <2>4. ASSUME NEW c \in Clients, NEW how \in {"trash", "quarantine", "permanent"}, execute(c, how)
        PROVE QuarantineInv'
    BY <2>4, ExecuteWithin
  <2>5. ASSUME NEW c \in Clients, NEW a \in Actions, Prepare(c, a) \/ Identify(c, a)
        PROVE QuarantineInv'
    BY <2>5, PrepareWithin, IdentifyWithin
  <2>6. ASSUME NEW c \in Clients, Recorded(c) \/ Unaudited(c) \/ Finish(c) PROVE QuarantineInv'
    BY <2>6, RecordedWithin, UnauditedWithin, FinishWithin
  <2>7. ASSUME NEW c \in Clients, Trash(c) \/ TrashInfo(c) \/ Unlink(c) PROVE QuarantineInv'
    BY <2>7, TrashWithin, TrashInfoWithin, UnlinkWithin
  <2>8. ASSUME NEW c \in Clients, Reserve(c) \/ PrepareManifest(c) \/ Rename(c) PROVE QuarantineInv'
    BY <2>8, ReserveWithin, PrepareManifestWithin, RenameWithin
  <2>9. ASSUME NEW c \in Clients, Isolate(c) \/ Commit(c) \/ Dies(c) PROVE QuarantineInv'
    BY <2>9, IsolateWithin, CommitWithin, DiesWithin
  <2>10. ASSUME NEW c \in Clients, Untrash(c) \/ Announce(c) \/ Return(c) PROVE QuarantineInv'
    BY <2>10, UntrashWithin, AnnounceWithin, ReturnWithin
  <2>11. ASSUME NEW c \in Clients, Delete(c) \/ Settle(c) \/ Debit(c) PROVE QuarantineInv'
    BY <2>11, DeleteWithin, SettleWithin, DebitWithin
  <2>12. CASE UNCHANGED cleanupVars
    <3>1. UNCHANGED <<target, moves, ledger, rows, client>> /\ ManifestsStay
      BY <2>12 DEF cleanupVars, ManifestsStay
    <3>2. RestTyped'
      BY <2>12 DEF cleanupVars, UndoInv, RestTyped
    <3>3. \A a \in Actions : InQuarantine(a) => moves'[target[a].at].state \in Standing
      BY <3>1 DEF QuarantineInv, ManifestsStand
    <3> QED BY <3>1, <3>2, <3>3, ManifestsAloneWithin
  <2> QED BY <2>1, <2>2, <2>3, <2>4, <2>5, <2>6, <2>7, <2>8, <2>9, <2>10, <2>11, <2>12
             DEF CleanupNext
<1> QED BY <1>1, QuarantineStarts, UndoInvariant, PTL DEF CleanupSpec

(* For any number of clients, actions, sizes, failures and changes by      *)
(* others, and any capacity: what is in the quarantine fits into it, and   *)
(* the ledger with its reservations counts all of it, whichever process    *)
(* died or failed to write on the way.                                     *)
THEOREM QuarantineIsBounded == CleanupSpec => []QuarantineWithinCapacity
<1>1. UndoInv /\ QuarantineInv => QuarantineWithinCapacity
  <2> SUFFICES ASSUME UndoInv, QuarantineInv PROVE QuarantineWithinCapacity
    OBVIOUS
  <2>1. {moves[n].action : n \in {m \in Quarantined : IsThere(m)}} = Stored
    BY StoredIsThere
  <2>2. /\ BytesOf(Stored) \in Nat /\ ledger.bytes \in Nat /\ BytesOf(ledger.pending) \in Nat
        /\ Bounded /\ Capacity \in Nat
    BY StoredAreActions, LedgerCounts, CleanupAssumption DEF QuarantineInv
  <2>3. BytesOf(Stored) <= Capacity
    BY <2>2 DEF Bounded
  <2> QED BY <2>1, <2>2, <2>3 DEF QuarantineWithinCapacity, Bounded
<1> QED BY <1>1, UndoInvariant, QuarantineInvariant, PTL

-----------------------------------------------------------------------------
(* Sums over two sets.                                                     *)

LEMMA SumAgree ==
  ASSUME NEW V, NEW W, NEW S, IsFiniteSet(S), \A x \in S : V[x] = W[x]
  PROVE  Sum(V, S) = Sum(W, S)
<1> DEFINE Bad == {U \in SUBSET S : Sum(V, U) # Sum(W, U)}
<1>0. SUFFICES ASSUME Bad # {} PROVE FALSE
  OBVIOUS
<1>1. PICK U \in Bad : \A X \in SUBSET S : X \subseteq U /\ X # U => X \notin Bad
  <2>1. Bad \subseteq SUBSET S
    OBVIOUS
  <2> HIDE DEF Bad
  <2> QED BY <1>0, <2>1, LeastBad
<1>2. U \in SUBSET S /\ Sum(V, U) # Sum(W, U) /\ IsFiniteSet(U)
  BY FS_Subset
<1>3. U # {}
  BY <1>2, SumOfNone
<1>4. Pick(U) \in U /\ U \ {Pick(U)} # U /\ U \ {Pick(U)} \in SUBSET S
  BY <1>2, <1>3, Picked
<1>5. U \ {Pick(U)} \notin Bad
  BY <1>1, <1>4
<1>6. Sum(V, U \ {Pick(U)}) = Sum(W, U \ {Pick(U)})
  BY <1>4, <1>5
<1>7. /\ Sum(V, U) = V[Pick(U)] + Sum(V, U \ {Pick(U)})
      /\ Sum(W, U) = W[Pick(U)] + Sum(W, U \ {Pick(U)})
  BY <1>2, <1>3, SumPicked
<1>8. V[Pick(U)] = W[Pick(U)]
  BY <1>2, <1>4
<1> QED BY <1>2, <1>6, <1>7, <1>8

LEMMA SumJoin ==
  ASSUME NEW D, NEW W \in [D -> Nat], NEW S \in SUBSET D, NEW T \in SUBSET D,
         IsFiniteSet(S), IsFiniteSet(T), S \cap T = {}
  PROVE  Sum(W, S \cup T) = Sum(W, S) + Sum(W, T)
<1> DEFINE Bad == {U \in SUBSET T : Sum(W, S \cup U) # Sum(W, S) + Sum(W, U)}
<1>0. SUFFICES ASSUME Bad # {} PROVE FALSE
  OBVIOUS
<1>1. PICK U \in Bad : \A X \in SUBSET T : X \subseteq U /\ X # U => X \notin Bad
  <2>1. Bad \subseteq SUBSET T
    OBVIOUS
  <2> HIDE DEF Bad
  <2> QED BY <1>0, <2>1, LeastBad
<1>2. U \in SUBSET T /\ Sum(W, S \cup U) # Sum(W, S) + Sum(W, U)
  OBVIOUS
<1>3. IsFiniteSet(U) /\ IsFiniteSet(S \cup U) /\ Sum(W, S) \in Nat
  BY <1>2, FS_Subset, FS_Union, SumIsNumber
<1>4. U # {}
  <2>1. S \cup {} = S
    OBVIOUS
  <2> QED BY <1>2, <1>3, <2>1, SumOfNone
<1>5. PICK a \in U : TRUE
  BY <1>4
<1>6. U \ {a} \notin Bad
  BY <1>1, <1>2, <1>5
<1>7. Sum(W, S \cup (U \ {a})) = Sum(W, S) + Sum(W, U \ {a})
  BY <1>2, <1>6
<1>8. (S \cup U) \ {a} = S \cup (U \ {a})
  BY <1>2, <1>5
<1>9. Sum(W, S \cup U) = W[a] + Sum(W, S \cup (U \ {a}))
  BY <1>2, <1>3, <1>5, <1>8, SumWithout
<1>10. Sum(W, U) = W[a] + Sum(W, U \ {a})
  BY <1>2, <1>3, <1>5, SumWithout
<1>11. W[a] \in Nat /\ Sum(W, U \ {a}) \in Nat
  <2>1. IsFiniteSet(U \ {a})
    BY <1>3, FS_Subset
  <2> QED BY <1>2, <1>5, <2>1, SumIsNumber
<1> QED BY <1>2, <1>3, <1>7, <1>9, <1>10, <1>11

-----------------------------------------------------------------------------
(* The provisional overlay.  The overlays lie side by side, and the tree   *)
(* they make with the snapshot is put together directory by directory, of  *)
(* any part of the overlays: so the totals can be followed as one after    *)
(* the other is projected.                                                 *)

OverlaySpec == OverlayInit /\ [][OverlayNext]_overlayVars

\* a tree below f: what a reading is, but that parents may be missing
IsTree(f, t) ==
  /\ DOMAIN t \subseteq Below[f] /\ f \in DOMAIN t
  /\ t = [g \in DOMAIN t |-> t[g]] /\ \A g \in DOMAIN t : t[g] \in Nat

Apart(S) == \A f, g \in S : g \in Below[f] => g = f
Over(S, g) == {h \in S : g \in Below[h]}
ShownOf(b, o, S, g) ==
  IF Over(S, g) = {} THEN b
  ELSE o[CHOOSE h \in Over(S, g) : Below[h] \cap Over(S, g) = {h}]
Laid(b, o, S) == [g \in {h \in Folders : h \in DOMAIN ShownOf(b, o, S, h)} |-> ShownOf(b, o, S, g)[g]]

Overlays(b, o) ==
  /\ b \in Readings(Top)
  /\ DOMAIN o \subseteq Folders /\ Apart(DOMAIN o)
  /\ \A f \in DOMAIN o : IsTree(f, o[f])

OverlayInv == Overlays(base, overlays) /\ freshest = Laid(base, overlays, DOMAIN overlays)

LEMMA TreeOfFolders ==
  /\ Top \in Folders /\ IsFiniteSet(Folders) /\ Below[Top] = Folders
  /\ \A f \in Folders : f \in Below[f] /\ Below[f] \subseteq Folders
  /\ \A f \in Folders : \A g \in Below[f] :
       /\ g \in Folders /\ Below[g] \subseteq Below[f]
       /\ f \in Below[g] => f = g
       /\ g # f => Parent[g] \in Below[f]
  /\ \A f \in Folders \ {Top} : Parent[f] \in Folders /\ f \in Below[Parent[f]] /\ Parent[f] # f
  /\ \A f, g \in Folders : Below[f] \cap Below[g] # {} => f \in Below[g] \/ g \in Below[f]
BY ProvisionalAssumption

LEMMA ReadingIsTree ==
  ASSUME NEW f \in Folders, NEW t \in Readings(f)
  PROVE  IsTree(f, t) /\ \A g \in DOMAIN t \ {f} : Parent[g] \in DOMAIN t
<1>1. PICK D \in SUBSET Below[f] : t \in [D -> Sizes]
  BY DEF Readings
<1>2. f \in DOMAIN t /\ \A g \in DOMAIN t \ {f} : Parent[g] \in DOMAIN t
  BY DEF Readings
<1>3. Sizes \subseteq Nat
  BY ProvisionalAssumption
<1> QED BY <1>1, <1>2, <1>3 DEF IsTree

\* One overlay at most lies over a directory.
LEMMA OneOver ==
  ASSUME NEW b, NEW o, NEW S \in SUBSET Folders, Apart(S), NEW g, NEW h \in S, g \in Below[h]
  PROVE  /\ Over(S, g) = {h}
         /\ ShownOf(b, o, S, g) = o[h]
<1>1. \A k \in Over(S, g) : k = h
  <2> TAKE k \in Over(S, g)
  <2>1. k \in S /\ g \in Below[k] \cap Below[h]
    BY DEF Over
  <2>2. k \in Below[h] \/ h \in Below[k]
    BY <2>1, TreeOfFolders
  <2> QED BY <2>1, <2>2 DEF Apart
<1>2. Over(S, g) = {h}
  BY <1>1 DEF Over
<1>3. Below[h] \cap {h} = {h}
  BY TreeOfFolders
<1>4. (CHOOSE k \in {h} : Below[k] \cap {h} = {h}) = h
  BY <1>3
<1> QED BY <1>2, <1>4 DEF ShownOf

LEMMA NoneOver ==
  ASSUME NEW b, NEW o, NEW S, NEW g, \A h \in S : g \notin Below[h]
  PROVE  ShownOf(b, o, S, g) = b
BY DEF ShownOf, Over

LEMMA MaterializedIsLaid == Materialized = Laid(base, overlays, DOMAIN overlays)
BY DEF Materialized, Laid, Shown, ShownOf, Over

SizedTree(t) ==
  /\ DOMAIN t \subseteq Folders /\ t = [g \in DOMAIN t |-> t[g]]
  /\ \A g \in DOMAIN t : t[g] \in Nat
IsLaid(b, o, S, t) ==
  /\ SizedTree(t)
  /\ \A g \in Folders : (\A h \in S : g \notin Below[h]) =>
       (g \in DOMAIN t <=> g \in DOMAIN b) /\ (g \in DOMAIN t => t[g] = b[g])
  /\ \A h \in S : \A g \in Below[h] :
       (g \in DOMAIN t <=> g \in DOMAIN o[h]) /\ (g \in DOMAIN t => t[g] = o[h][g])

LEMMA LaidIs ==
  ASSUME NEW b, NEW o, Overlays(b, o), NEW S \in SUBSET DOMAIN o, NEW t, t = Laid(b, o, S)
  PROVE  IsLaid(b, o, S, t)
<1>1. /\ DOMAIN t = {h \in Folders : h \in DOMAIN ShownOf(b, o, S, h)}
      /\ \A g \in DOMAIN t : t[g] = ShownOf(b, o, S, g)[g]
      /\ t = [g \in DOMAIN t |-> t[g]]
  BY DEF Laid
<1>2. S \in SUBSET Folders /\ Apart(S)
  BY DEF Overlays, Apart
<1>3. ASSUME NEW g \in Folders, \A h \in S : g \notin Below[h]
      PROVE  (g \in DOMAIN t <=> g \in DOMAIN b) /\ (g \in DOMAIN t => t[g] = b[g])
  <2>1. ShownOf(b, o, S, g) = b
    BY <1>3, NoneOver
  <2> QED BY <1>1, <1>3, <2>1
<1>4. ASSUME NEW h \in S, NEW g \in Below[h]
      PROVE  (g \in DOMAIN t <=> g \in DOMAIN o[h]) /\ (g \in DOMAIN t => t[g] = o[h][g])
  <2>1. ShownOf(b, o, S, g) = o[h]
    BY <1>2, OneOver
  <2>2. g \in Folders
    BY <1>2, TreeOfFolders
  <2> QED BY <1>1, <2>1, <2>2
<1>5. IsTree(Top, b)
  BY ReadingIsTree, TreeOfFolders DEF Overlays
<1>6. ASSUME NEW g \in DOMAIN t PROVE t[g] \in Nat
  <2>0. g \in Folders
    BY <1>1
  <2>1. CASE \A h \in S : g \notin Below[h]
    BY <1>3, <1>5, <2>0, <2>1 DEF IsTree
  <2>2. ASSUME NEW h \in S, g \in Below[h] PROVE t[g] \in Nat
    BY <1>4, <2>2 DEF Overlays, IsTree
  <2> QED BY <2>1, <2>2
<1> QED BY <1>1, <1>3, <1>4, <1>6 DEF IsLaid, SizedTree

\* Two trees are the same when they have the same directories with the same in them.
LEMMA SameTree ==
  ASSUME NEW s, NEW t, s = [g \in DOMAIN s |-> s[g]], t = [g \in DOMAIN t |-> t[g]],
         DOMAIN s \subseteq Folders, DOMAIN t \subseteq Folders,
         \A g \in Folders : (g \in DOMAIN s <=> g \in DOMAIN t) /\ (g \in DOMAIN s => s[g] = t[g])
  PROVE  s = t
<1>1. DOMAIN s = DOMAIN t
  OBVIOUS
<1>2. \A g \in DOMAIN s : s[g] = t[g]
  OBVIOUS
<1> QED BY <1>1, <1>2

LEMMA ReplacedIs ==
  ASSUME NEW t, NEW f, NEW found, NEW r, r = Replaced(t, f, found), DOMAIN found \subseteq Below[f]
  PROVE  /\ r = [g \in DOMAIN r |-> r[g]]
         /\ \A g \in Below[f] : (g \in DOMAIN r <=> g \in DOMAIN found)
                                /\ (g \in DOMAIN r => r[g] = found[g])
         /\ \A g : g \notin Below[f] => (g \in DOMAIN r <=> g \in DOMAIN t)
                                        /\ (g \in DOMAIN r => r[g] = t[g])
<1>1. DOMAIN r = (DOMAIN t \ Below[f]) \cup DOMAIN found
  BY DEF Replaced
<1>2. \A g \in DOMAIN r : r[g] = IF g \in DOMAIN found THEN found[g] ELSE t[g]
  BY DEF Replaced
<1>3. r = [g \in DOMAIN r |-> r[g]]
  BY DEF Replaced
<1> QED BY <1>1, <1>2, <1>3

\* Where a subtree goes: into the one overlay above it, or over those below it.
LEMMA MergesAbove ==
  ASSUME NEW b, NEW o, Overlays(b, o), NEW f \in Folders, NEW found,
         NEW a \in DOMAIN o, a # f, f \in Below[a], NEW r, r = Replaced(o[a], f, found),
         NEW m, m = Merged(o, f, found)
  PROVE  /\ DOMAIN m = DOMAIN o /\ m[a] = r
         /\ \A g \in DOMAIN o : g # a => m[g] = o[g]
<1> DEFINE above == {g \in DOMAIN o \ {f} : f \in Below[g]}
<1>1. above = {a}
  <2>1. DOMAIN o \in SUBSET Folders /\ Apart(DOMAIN o)
    BY DEF Overlays
  <2>2. Over(DOMAIN o, f) = {a}
    BY <2>1, OneOver
  <2> QED BY <2>2 DEF Over
<1>2. (CHOOSE g \in above : Below[g] \cap above = {g}) = a
  <2>1. Below[a] \cap {a} = {a}
    BY TreeOfFolders DEF Overlays
  <2>2. (CHOOSE g \in {a} : Below[g] \cap {a} = {g}) = a
    BY <2>1
  <2> HIDE DEF above
  <2> QED BY <1>1, <2>2
<1>3. {g \in DOMAIN o : g \notin Below[a]} \cup {a} = DOMAIN o
  <2>1. \A g \in DOMAIN o : g \in Below[a] => g = a
    BY DEF Overlays, Apart
  <2> QED BY <2>1
<1> DEFINE into == IF above = {} THEN f ELSE CHOOSE g \in above : Below[g] \cap above = {g}
<1>4. m = [g \in {h \in DOMAIN o : h \notin Below[into]} \cup {into} |->
             IF g # into THEN o[g]
             ELSE IF above = {} THEN found ELSE Replaced(o[into], f, found)]
  BY DEF Merged
<1>5. into = a /\ above # {}
  BY <1>1, <1>2
<1> HIDE DEF into, above
<1>6. m = [g \in DOMAIN o |-> IF g # a THEN o[g] ELSE r]
  BY <1>3, <1>4, <1>5
<1> QED BY <1>6

MergedOver(o, f, found, m) ==
  /\ DOMAIN m = {g \in DOMAIN o : g \notin Below[f]} \cup {f} /\ m[f] = found
  /\ \A g \in DOMAIN m : g # f => m[g] = o[g]
Uncovered(o, f) == \A a \in DOMAIN o \ {f} : f \notin Below[a]

LEMMA MergesOver ==
  ASSUME NEW o, NEW f \in Folders, NEW found, Uncovered(o, f),
         NEW m, m = Merged(o, f, found)
  PROVE  MergedOver(o, f, found, m)
<1> DEFINE above == {g \in DOMAIN o \ {f} : f \in Below[g]}
<1> DEFINE into == IF above = {} THEN f ELSE CHOOSE g \in above : Below[g] \cap above = {g}
<1>1. m = [g \in {h \in DOMAIN o : h \notin Below[into]} \cup {into} |->
             IF g # into THEN o[g]
             ELSE IF above = {} THEN found ELSE Replaced(o[into], f, found)]
  BY DEF Merged
<1>2. into = f /\ above = {}
  BY DEF Uncovered
<1> HIDE DEF into, above
<1>3. m = [g \in {h \in DOMAIN o : h \notin Below[f]} \cup {f} |-> IF g # f THEN o[g] ELSE found]
  BY <1>1, <1>2
<1> QED BY <1>3 DEF MergedOver

LEMMA AppliesInto ==
  ASSUME NEW b, NEW o, Overlays(b, o), NEW f \in Folders, NEW found, IsTree(f, found),
         NEW a \in DOMAIN o, a # f, f \in Below[a], NEW m, m = Merged(o, f, found)
  PROVE  /\ Overlays(b, m)
         /\ Laid(b, m, DOMAIN m) = Replaced(Laid(b, o, DOMAIN o), f, found)
<1>1. PICK s, t, r, u : /\ s = Laid(b, o, DOMAIN o) /\ t = Laid(b, m, DOMAIN m)
                        /\ r = Replaced(o[a], f, found) /\ u = Replaced(s, f, found)
  OBVIOUS
<1>2. DOMAIN m = DOMAIN o /\ m[a] = r /\ \A g \in DOMAIN o : g # a => m[g] = o[g]
  BY <1>1, MergesAbove
<1>3. /\ a \in Folders /\ IsTree(a, o[a]) /\ DOMAIN o \subseteq Folders /\ Apart(DOMAIN o)
      /\ b \in Readings(Top) /\ DOMAIN found \subseteq Below[f]
  BY DEF Overlays, IsTree
<1>4. Below[f] \subseteq Below[a] /\ a \notin Below[f]
  BY <1>3, TreeOfFolders
<1>5. /\ r = [g \in DOMAIN r |-> r[g]]
      /\ \A g \in Below[f] : (g \in DOMAIN r <=> g \in DOMAIN found)
                             /\ (g \in DOMAIN r => r[g] = found[g])
      /\ \A g : g \notin Below[f] => (g \in DOMAIN r <=> g \in DOMAIN o[a])
                                     /\ (g \in DOMAIN r => r[g] = o[a][g])
  BY <1>1, <1>3, ReplacedIs
<1>6. IsTree(a, r)
  BY <1>3, <1>4, <1>5 DEF IsTree
<1>7. Overlays(b, m)
  <2>1. \A h \in DOMAIN m : IsTree(h, m[h])
    <3> TAKE h \in DOMAIN m
    <3> QED BY <1>2, <1>6 DEF Overlays
  <2> QED BY <1>2, <1>3, <2>1 DEF Overlays
<1>8. /\ DOMAIN s \subseteq Folders /\ s = [g \in DOMAIN s |-> s[g]]
      /\ \A g \in Folders : (\A h \in DOMAIN o : g \notin Below[h]) =>
           (g \in DOMAIN s <=> g \in DOMAIN b) /\ (g \in DOMAIN s => s[g] = b[g])
      /\ \A h \in DOMAIN o : \A g \in Below[h] :
           (g \in DOMAIN s <=> g \in DOMAIN o[h]) /\ (g \in DOMAIN s => s[g] = o[h][g])
  BY <1>1, LaidIs DEF IsLaid, SizedTree
<1>9. /\ DOMAIN t \subseteq Folders /\ t = [g \in DOMAIN t |-> t[g]]
      /\ \A g \in Folders : (\A h \in DOMAIN m : g \notin Below[h]) =>
           (g \in DOMAIN t <=> g \in DOMAIN b) /\ (g \in DOMAIN t => t[g] = b[g])
      /\ \A h \in DOMAIN m : \A g \in Below[h] :
           (g \in DOMAIN t <=> g \in DOMAIN m[h]) /\ (g \in DOMAIN t => t[g] = m[h][g])
  BY <1>1, <1>7, LaidIs DEF IsLaid, SizedTree
<1>10. /\ u = [g \in DOMAIN u |-> u[g]]
       /\ \A g \in Below[f] : (g \in DOMAIN u <=> g \in DOMAIN found)
                              /\ (g \in DOMAIN u => u[g] = found[g])
       /\ \A g : g \notin Below[f] => (g \in DOMAIN u <=> g \in DOMAIN s)
                                      /\ (g \in DOMAIN u => u[g] = s[g])
  BY <1>1, <1>3, ReplacedIs
<1>11. DOMAIN u \subseteq Folders
  <2>1. Below[f] \subseteq Folders
    BY TreeOfFolders
  <2> QED BY <1>8, <1>10, <2>1
<1>12. ASSUME NEW g \in Folders
       PROVE  (g \in DOMAIN t <=> g \in DOMAIN u) /\ (g \in DOMAIN t => t[g] = u[g])
  <2>1. CASE g \in Below[f]
    <3>1. g \in Below[a]
      BY <1>4, <2>1
    <3>2. (g \in DOMAIN t <=> g \in DOMAIN r) /\ (g \in DOMAIN t => t[g] = r[g])
      BY <1>2, <1>9, <3>1
    <3> QED BY <1>5, <1>10, <2>1, <3>2
  <2>2. ASSUME g \notin Below[f], NEW h \in DOMAIN o, g \in Below[h], h # a
        PROVE  (g \in DOMAIN t <=> g \in DOMAIN u) /\ (g \in DOMAIN t => t[g] = u[g])
    <3>1. (g \in DOMAIN t <=> g \in DOMAIN o[h]) /\ (g \in DOMAIN t => t[g] = o[h][g])
      BY <1>2, <1>9, <2>2
    <3>2. (g \in DOMAIN s <=> g \in DOMAIN o[h]) /\ (g \in DOMAIN s => s[g] = o[h][g])
      BY <1>8, <2>2
    <3> QED BY <1>10, <2>2, <3>1, <3>2
  <2>3. CASE g \notin Below[f] /\ g \in Below[a]
    <3>1. (g \in DOMAIN t <=> g \in DOMAIN r) /\ (g \in DOMAIN t => t[g] = r[g])
      BY <1>2, <1>9, <2>3
    <3>2. (g \in DOMAIN s <=> g \in DOMAIN o[a]) /\ (g \in DOMAIN s => s[g] = o[a][g])
      BY <1>8, <2>3
    <3> QED BY <1>5, <1>10, <2>3, <3>1, <3>2
  <2>4. CASE \A h \in DOMAIN o : g \notin Below[h]
    <3>1. g \notin Below[f]
      BY <1>4, <2>4
    <3>2. (g \in DOMAIN t <=> g \in DOMAIN b) /\ (g \in DOMAIN t => t[g] = b[g])
      BY <1>2, <1>9, <2>4
    <3>3. (g \in DOMAIN s <=> g \in DOMAIN b) /\ (g \in DOMAIN s => s[g] = b[g])
      BY <1>8, <2>4
    <3> QED BY <1>10, <3>1, <3>2, <3>3
  <2> QED BY <2>1, <2>2, <2>3, <2>4
<1>13. t = u
  BY <1>8, <1>9, <1>10, <1>11, <1>12, SameTree
<1> QED BY <1>1, <1>7, <1>13

LEMMA AppliesOver ==
  ASSUME NEW b, NEW o, Overlays(b, o), NEW f \in Folders, NEW found, IsTree(f, found),
         Uncovered(o, f), NEW m, m = Merged(o, f, found)
  PROVE  /\ Overlays(b, m)
         /\ Laid(b, m, DOMAIN m) = Replaced(Laid(b, o, DOMAIN o), f, found)
<1>1. PICK s, t, u : /\ s = Laid(b, o, DOMAIN o) /\ t = Laid(b, m, DOMAIN m)
                     /\ u = Replaced(s, f, found)
  OBVIOUS
<1>2. /\ DOMAIN m = {g \in DOMAIN o : g \notin Below[f]} \cup {f} /\ m[f] = found
      /\ \A g \in DOMAIN m : g # f => m[g] = o[g]
  BY MergesOver DEF MergedOver
<1>3. /\ DOMAIN o \subseteq Folders /\ Apart(DOMAIN o) /\ b \in Readings(Top)
      /\ DOMAIN found \subseteq Below[f] /\ f \in Below[f]
  BY TreeOfFolders DEF Overlays, IsTree
<1>4. Apart(DOMAIN m)
  BY <1>2, <1>3 DEF Apart, Uncovered
<1>5. Overlays(b, m)
  <2>1. \A h \in DOMAIN m : IsTree(h, m[h])
    <3> TAKE h \in DOMAIN m
    <3> QED BY <1>2 DEF Overlays
  <2> QED BY <1>2, <1>3, <1>4, <2>1 DEF Overlays
<1>8. /\ DOMAIN s \subseteq Folders /\ s = [g \in DOMAIN s |-> s[g]]
      /\ \A g \in Folders : (\A h \in DOMAIN o : g \notin Below[h]) =>
           (g \in DOMAIN s <=> g \in DOMAIN b) /\ (g \in DOMAIN s => s[g] = b[g])
      /\ \A h \in DOMAIN o : \A g \in Below[h] :
           (g \in DOMAIN s <=> g \in DOMAIN o[h]) /\ (g \in DOMAIN s => s[g] = o[h][g])
  BY <1>1, LaidIs DEF IsLaid, SizedTree
<1>9. /\ DOMAIN t \subseteq Folders /\ t = [g \in DOMAIN t |-> t[g]]
      /\ \A g \in Folders : (\A h \in DOMAIN m : g \notin Below[h]) =>
           (g \in DOMAIN t <=> g \in DOMAIN b) /\ (g \in DOMAIN t => t[g] = b[g])
      /\ \A h \in DOMAIN m : \A g \in Below[h] :
           (g \in DOMAIN t <=> g \in DOMAIN m[h]) /\ (g \in DOMAIN t => t[g] = m[h][g])
  BY <1>1, <1>5, LaidIs DEF IsLaid, SizedTree
<1>10. /\ u = [g \in DOMAIN u |-> u[g]]
       /\ \A g \in Below[f] : (g \in DOMAIN u <=> g \in DOMAIN found)
                              /\ (g \in DOMAIN u => u[g] = found[g])
       /\ \A g : g \notin Below[f] => (g \in DOMAIN u <=> g \in DOMAIN s)
                                      /\ (g \in DOMAIN u => u[g] = s[g])
  BY <1>1, <1>3, ReplacedIs
<1>11. DOMAIN u \subseteq Folders
  <2>1. Below[f] \subseteq Folders
    BY TreeOfFolders
  <2> QED BY <1>8, <1>10, <2>1
<1>12. ASSUME NEW g \in Folders
       PROVE  (g \in DOMAIN t <=> g \in DOMAIN u) /\ (g \in DOMAIN t => t[g] = u[g])
  <2>1. CASE g \in Below[f]
    <3>1. (g \in DOMAIN t <=> g \in DOMAIN found) /\ (g \in DOMAIN t => t[g] = found[g])
      BY <1>2, <1>9, <2>1
    <3> QED BY <1>10, <2>1, <3>1
  <2>2. ASSUME g \notin Below[f], NEW h \in DOMAIN o, g \in Below[h]
        PROVE  (g \in DOMAIN t <=> g \in DOMAIN u) /\ (g \in DOMAIN t => t[g] = u[g])
    <3>0. h \notin Below[f]
      BY <2>2, TreeOfFolders
    <3>1. (g \in DOMAIN t <=> g \in DOMAIN o[h]) /\ (g \in DOMAIN t => t[g] = o[h][g])
      <4>1. h \in DOMAIN m /\ m[h] = o[h]
        BY <1>2, <1>3, <3>0
      <4>2. (g \in DOMAIN t <=> g \in DOMAIN m[h]) /\ (g \in DOMAIN t => t[g] = m[h][g])
        BY <1>9, <2>2, <4>1
      <4> QED BY <4>1, <4>2
    <3>2. (g \in DOMAIN s <=> g \in DOMAIN o[h]) /\ (g \in DOMAIN s => s[g] = o[h][g])
      BY <1>8, <2>2
    <3> QED BY <1>10, <2>2, <3>1, <3>2
  <2>3. CASE g \notin Below[f] /\ \A h \in DOMAIN o : g \notin Below[h]
    <3>1. \A h \in DOMAIN m : g \notin Below[h]
      BY <1>2, <2>3
    <3>2. (g \in DOMAIN t <=> g \in DOMAIN b) /\ (g \in DOMAIN t => t[g] = b[g])
      BY <1>9, <3>1
    <3>3. (g \in DOMAIN s <=> g \in DOMAIN b) /\ (g \in DOMAIN s => s[g] = b[g])
      BY <1>8, <2>3
    <3> QED BY <1>10, <2>3, <3>2, <3>3
  <2> QED BY <2>1, <2>2, <2>3
<1>13. t = u
  BY <1>8, <1>9, <1>10, <1>11, <1>12, SameTree
<1> QED BY <1>1, <1>5, <1>13

LEMMA NothingLaid ==
  ASSUME NEW b \in Readings(Top), NEW o, o = <<>>
  PROVE  Overlays(b, o) /\ Laid(b, o, DOMAIN o) = b
<1>1. DOMAIN o = {}
  OBVIOUS
<1>2. Overlays(b, o)
  BY <1>1 DEF Overlays, Apart
<1>3. PICK t : t = Laid(b, o, DOMAIN o)
  OBVIOUS
<1>4. /\ DOMAIN t \subseteq Folders /\ t = [g \in DOMAIN t |-> t[g]]
      /\ \A g \in Folders : (\A h \in DOMAIN o : g \notin Below[h]) =>
           (g \in DOMAIN t <=> g \in DOMAIN b) /\ (g \in DOMAIN t => t[g] = b[g])
  BY <1>2, <1>3, LaidIs DEF IsLaid, SizedTree
<1>5. DOMAIN b \subseteq Folders /\ b = [g \in DOMAIN b |-> b[g]]
  <2>1. IsTree(Top, b) /\ Below[Top] = Folders
    BY ReadingIsTree, TreeOfFolders
  <2> QED BY <2>1 DEF IsTree
<1>6. t = b
  BY <1>1, <1>4, <1>5, SameTree
<1> QED BY <1>2, <1>3, <1>6

LEMMA OverlayStays ==
  ASSUME OverlayInv, OverlayNext
  PROVE  OverlayInv'
<1>1. Overlays(base, overlays) /\ freshest = Laid(base, overlays, DOMAIN overlays)
      /\ base \in Readings(Top)
  BY DEF OverlayInv, Overlays
<1>2. ASSUME NEW f \in Folders, NEW found \in Readings(f), apply(f, found)
      PROVE  OverlayInv'
  <2>1. PICK m : m = Merged(overlays, f, found)
    OBVIOUS
  <2>2. IsTree(f, found)
    BY ReadingIsTree
  <2>3. Overlays(base, m) /\ Laid(base, m, DOMAIN m) = Replaced(freshest, f, found)
    <3>1. CASE Uncovered(overlays, f)
      BY <1>1, <2>1, <2>2, <3>1, AppliesOver
    <3>2. ASSUME NEW a \in DOMAIN overlays \ {f}, f \in Below[a]
          PROVE  Overlays(base, m) /\ Laid(base, m, DOMAIN m) = Replaced(freshest, f, found)
      BY <1>1, <2>1, <2>2, <3>2, AppliesInto
    <3> QED BY <3>1, <3>2 DEF Uncovered
  <2>4. base' = base /\ \/ overlays' = <<>> /\ freshest' = base
                        \/ overlays' = m /\ freshest' = Replaced(freshest, f, found)
    BY <1>2, <2>1 DEF apply
  <2>5. CASE overlays' = m /\ freshest' = Replaced(freshest, f, found)
    BY <2>3, <2>4, <2>5 DEF OverlayInv
  <2>6. CASE overlays' = <<>> /\ freshest' = base
    <3>1. Overlays(base', overlays') /\ Laid(base', overlays', DOMAIN overlays') = base'
      BY <1>1, <2>4, <2>6, NothingLaid
    <3> QED BY <2>4, <2>6, <3>1 DEF OverlayInv
  <2> QED BY <2>4, <2>5, <2>6
<1>3. ASSUME Rebase PROVE OverlayInv'
  <2>1. base' \in Readings(Top) /\ overlays' = <<>> /\ freshest' = base'
    BY <1>3 DEF Rebase
  <2>2. Overlays(base', overlays') /\ Laid(base', overlays', DOMAIN overlays') = base'
    BY <2>1, NothingLaid
  <2> QED BY <2>1, <2>2 DEF OverlayInv
<1> QED BY <1>2, <1>3 DEF OverlayNext

-----------------------------------------------------------------------------
(* The totals, projected one overlay after the other.                      *)

LEMMA LogicalIsSum == ASSUME NEW t, NEW f PROVE Logical(t, f) = Sum(t, DOMAIN t \cap Below[f])
BY DEF Logical, FoldFunctionOnSet, MapThenFoldSet, Sum, Adder, Adds, Pick, Plus

TotalOf(t) == [logical |-> Sum(t, DOMAIN t), dirs |-> Cardinality(DOMAIN t \ {Top})]
Told(S) == TotalOf(Laid(base, overlays, S))

LEMMA TotalOfTree ==
  ASSUME NEW t, DOMAIN t \subseteq Folders
  PROVE  [logical |-> Logical(t, Top), dirs |-> DirCount(t, Top)] = TotalOf(t)
<1>1. DOMAIN t \cap Below[Top] = DOMAIN t
  BY TreeOfFolders
<1>2. Logical(t, Top) = Sum(t, DOMAIN t)
  BY <1>1, LogicalIsSum
<1>3. DirCount(t, Top) = Cardinality(DOMAIN t \ {Top})
  BY <1>1 DEF DirCount
<1> QED BY <1>2, <1>3 DEF TotalOf

\* A snapshot that has something below a directory has the directory.
LEMMA HasWhatIsAbove ==
  ASSUME NEW b \in Readings(Top), NEW f \in Folders, NEW g \in DOMAIN b, g \in Below[f]
  PROVE  f \in DOMAIN b
<1> SUFFICES ASSUME f \notin DOMAIN b PROVE FALSE
  OBVIOUS
<1>1. /\ Top \in DOMAIN b /\ DOMAIN b \subseteq Folders
      /\ \A h \in DOMAIN b \ {Top} : Parent[h] \in DOMAIN b
  BY ReadingIsTree, TreeOfFolders DEF IsTree
<1> DEFINE B == DOMAIN b \cap Below[f]
           Bad == {Folders \ Below[h] : h \in B}
<1>2. Bad \subseteq SUBSET Folders /\ Bad # {}
  OBVIOUS
<1>3. PICK U \in Bad : \A V \in SUBSET Folders : V \subseteq U /\ V # U => V \notin Bad
  <2> HIDE DEF Bad
  <2> QED BY <1>2, LeastBad, TreeOfFolders
<1>4. PICK h \in B : U = Folders \ Below[h]
  OBVIOUS
<1>5. h \in Folders /\ h # f /\ h # Top /\ h \in Below[f]
  <2>1. h # Top
    <3>1. Top \in Below[f] => f = Top
      BY TreeOfFolders
    <3> QED BY <1>1, <3>1
  <2> QED BY <1>1, <2>1
<1>6. Parent[h] \in B
  BY <1>1, <1>5, TreeOfFolders
<1>7. /\ Parent[h] \in Folders /\ Below[h] \subseteq Below[Parent[h]]
      /\ Parent[h] \in Below[Parent[h]] /\ Parent[h] \notin Below[h]
  <2>1. Parent[h] \in Folders /\ h \in Below[Parent[h]] /\ Parent[h] # h
    BY <1>5, TreeOfFolders
  <2> QED BY <2>1, TreeOfFolders
<1>8. Folders \ Below[Parent[h]] \in Bad
  BY <1>6
<1>9. /\ Folders \ Below[Parent[h]] \in SUBSET Folders
      /\ Folders \ Below[Parent[h]] \subseteq U /\ Folders \ Below[Parent[h]] # U
  BY <1>4, <1>7
<1> QED BY <1>3, <1>8, <1>9

\* A tree in two parts: what is below f and what is not.
InParts(t, A, B) ==
  /\ TotalOf(t) = [logical |-> Sum(t, A) + Sum(t, B),
                   dirs |-> Cardinality(A \ {Top}) + Cardinality(B)]
  /\ Sum(t, A) \in Nat /\ Sum(t, B) \in Nat
  /\ Cardinality(A \ {Top}) \in Nat /\ Cardinality(B) \in Nat

LEMMA TotalInParts ==
  ASSUME NEW t, SizedTree(t), NEW f \in Folders \ {Top},
         NEW A, A = DOMAIN t \ Below[f], NEW B, B = DOMAIN t \cap Below[f]
  PROVE  InParts(t, A, B)
<1>1. t \in [DOMAIN t -> Nat] /\ A \in SUBSET DOMAIN t /\ B \in SUBSET DOMAIN t
      /\ A \cap B = {} /\ A \cup B = DOMAIN t /\ DOMAIN t \subseteq Folders
  BY DEF SizedTree
<1>2. IsFiniteSet(A) /\ IsFiniteSet(B) /\ IsFiniteSet(A \ {Top})
  <2>1. A \subseteq Folders /\ B \subseteq Folders /\ A \ {Top} \subseteq Folders
    BY <1>1
  <2> QED BY <2>1, TreeOfFolders, FS_Subset
<1>3. Sum(t, A) \in Nat /\ Sum(t, B) \in Nat
  BY <1>1, <1>2, SumIsNumber
<1>4. Sum(t, DOMAIN t) = Sum(t, A) + Sum(t, B)
  <2>1. Sum(t, A \cup B) = Sum(t, A) + Sum(t, B)
    <3> DEFINE D == DOMAIN t
    <3>1. t \in [D -> Nat] /\ A \in SUBSET D /\ B \in SUBSET D
      BY <1>1
    <3> HIDE DEF D
    <3> QED BY <1>1, <1>2, <3>1, SumJoin
  <2> QED BY <1>1, <2>1
<1>5. Top \notin Below[f]
  BY TreeOfFolders
<1>6. DOMAIN t \ {Top} = (A \ {Top}) \cup B /\ (A \ {Top}) \cap B = {}
  BY <1>1, <1>5
<1>7. Cardinality(A \ {Top}) \in Nat /\ Cardinality(B) \in Nat
  BY <1>2, FS_CardinalityType
<1>8. Cardinality((A \ {Top}) \cup B) = Cardinality(A \ {Top}) + Cardinality(B)
  <2>1. Cardinality((A \ {Top}) \cap B) = 0
    BY <1>6, FS_EmptySet
  <2>2. Cardinality((A \ {Top}) \cup B)
        = Cardinality(A \ {Top}) + Cardinality(B) - Cardinality((A \ {Top}) \cap B)
    BY <1>2, FS_Union
  <2> QED BY <1>7, <2>1, <2>2
<1> QED BY <1>3, <1>4, <1>6, <1>7, <1>8 DEF TotalOf, InParts

\* What one measurement takes off or puts on the totals.
LEMMA MeasuredWithItself ==
  ASSUME NEW t, NEW f \in Folders, f \in DOMAIN t, DOMAIN t \subseteq Folders
  PROVE  DirCount(t, f) + 1 = Cardinality(DOMAIN t \cap Below[f])
<1>1. f \in DOMAIN t \cap Below[f] /\ IsFiniteSet(DOMAIN t \cap Below[f])
  <2>1. DOMAIN t \cap Below[f] \subseteq Folders
    OBVIOUS
  <2> QED BY <2>1, TreeOfFolders, FS_Subset
<1>2. Cardinality((DOMAIN t \cap Below[f]) \ {f}) = Cardinality(DOMAIN t \cap Below[f]) - 1
  BY <1>1, FS_RemoveElement
<1>3. Cardinality(DOMAIN t \cap Below[f]) \in Nat
  BY <1>1, FS_CardinalityType
<1> QED BY <1>2, <1>3 DEF DirCount

\* What is taken off the totals is what the snapshot has there.
LEMMA OldMeasurement ==
  ASSUME base \in Readings(Top), NEW f \in Folders,
         NEW B, B = DOMAIN base \cap Below[f]
  PROVE  OldLogical(f) = Sum(base, B) /\ OldDirs(f) = Cardinality(B)
<1>1. DOMAIN base \subseteq Folders
  BY ReadingIsTree, TreeOfFolders DEF IsTree
<1>2. CASE f \in DOMAIN base
  <2>1. DirCount(base, f) + 1 = Cardinality(B)
    BY <1>1, <1>2, MeasuredWithItself
  <2>2. Logical(base, f) = Sum(base, B)
    BY LogicalIsSum
  <2> QED BY <1>2, <2>1, <2>2 DEF OldLogical, OldDirs
<1>3. CASE f \notin DOMAIN base
  <2>1. B = {}
    BY <1>3, HasWhatIsAbove
  <2>2. Sum(base, B) = 0 /\ Cardinality(B) = 0
    BY <2>1, SumOfNone, FS_EmptySet
  <2> QED BY <1>3, <2>2 DEF OldLogical, OldDirs
<1> QED BY <1>2, <1>3

\* One overlay more: outside it nothing changes, inside it takes the place of
\* what the snapshot had.
LEMMA OneMore ==
  ASSUME Overlays(base, overlays), NEW S \in SUBSET DOMAIN overlays, NEW f \in S,
         NEW s, s = Laid(base, overlays, S \ {f}), NEW t, t = Laid(base, overlays, S)
  PROVE  /\ DOMAIN t \ Below[f] = DOMAIN s \ Below[f]
         /\ \A g \in DOMAIN t \ Below[f] : t[g] = s[g]
         /\ DOMAIN t \cap Below[f] = DOMAIN overlays[f]
         /\ \A g \in DOMAIN overlays[f] : t[g] = overlays[f][g]
         /\ DOMAIN s \cap Below[f] = DOMAIN base \cap Below[f]
         /\ \A g \in DOMAIN s \cap Below[f] : s[g] = base[g]
<1>1. /\ DOMAIN t \subseteq Folders
      /\ \A g \in Folders : (\A h \in S : g \notin Below[h]) =>
           (g \in DOMAIN t <=> g \in DOMAIN base) /\ (g \in DOMAIN t => t[g] = base[g])
      /\ \A h \in S : \A g \in Below[h] :
           (g \in DOMAIN t <=> g \in DOMAIN overlays[h])
           /\ (g \in DOMAIN t => t[g] = overlays[h][g])
  BY LaidIs DEF IsLaid, SizedTree
<1>2. /\ DOMAIN s \subseteq Folders
      /\ \A g \in Folders : (\A h \in S \ {f} : g \notin Below[h]) =>
           (g \in DOMAIN s <=> g \in DOMAIN base) /\ (g \in DOMAIN s => s[g] = base[g])
      /\ \A h \in S \ {f} : \A g \in Below[h] :
           (g \in DOMAIN s <=> g \in DOMAIN overlays[h])
           /\ (g \in DOMAIN s => s[g] = overlays[h][g])
  <2>1. IsLaid(base, overlays, S \ {f}, s)
    <3>1. S \ {f} \in SUBSET DOMAIN overlays
      OBVIOUS
    <3> QED BY <3>1, LaidIs
  <2> QED BY <2>1 DEF IsLaid, SizedTree
<1>3. /\ f \in Folders /\ S \in SUBSET Folders /\ Apart(S) /\ IsTree(f, overlays[f])
      /\ Below[f] \subseteq Folders
  BY TreeOfFolders DEF Overlays, Apart
<1>4. ASSUME NEW g \in Folders, g \notin Below[f]
      PROVE  (g \in DOMAIN t <=> g \in DOMAIN s) /\ (g \in DOMAIN t => t[g] = s[g])
  <2>1. CASE \A h \in S : g \notin Below[h]
    <3>1. (g \in DOMAIN t <=> g \in DOMAIN base) /\ (g \in DOMAIN t => t[g] = base[g])
      BY <1>1, <2>1
    <3>2. (g \in DOMAIN s <=> g \in DOMAIN base) /\ (g \in DOMAIN s => s[g] = base[g])
      BY <1>2, <2>1
    <3> QED BY <3>1, <3>2
  <2>2. ASSUME NEW h \in S, g \in Below[h]
        PROVE  (g \in DOMAIN t <=> g \in DOMAIN s) /\ (g \in DOMAIN t => t[g] = s[g])
    <3>1. h \in S \ {f}
      BY <1>4, <2>2
    <3>2. (g \in DOMAIN t <=> g \in DOMAIN overlays[h])
          /\ (g \in DOMAIN t => t[g] = overlays[h][g])
      BY <1>1, <2>2
    <3>3. (g \in DOMAIN s <=> g \in DOMAIN overlays[h])
          /\ (g \in DOMAIN s => s[g] = overlays[h][g])
      BY <1>2, <2>2, <3>1
    <3> QED BY <3>2, <3>3
  <2> QED BY <2>1, <2>2
<1>5. ASSUME NEW g \in Below[f]
      PROVE  /\ (g \in DOMAIN t <=> g \in DOMAIN overlays[f])
             /\ (g \in DOMAIN t => t[g] = overlays[f][g])
             /\ (g \in DOMAIN s <=> g \in DOMAIN base) /\ (g \in DOMAIN s => s[g] = base[g])
  <2>1. \A h \in S \ {f} : g \notin Below[h]
    <3>1. Over(S, g) = {f}
      BY <1>3, OneOver
    <3> QED BY <3>1 DEF Over
  <2>2. g \in Folders
    BY <1>3
  <2> QED BY <1>1, <1>2, <2>1, <2>2
<1>6. DOMAIN overlays[f] \subseteq Below[f]
  BY <1>3 DEF IsTree
<1> QED BY <1>1, <1>2, <1>3, <1>4, <1>5, <1>6

LEMMA ProjectsOne ==
  ASSUME Overlays(base, overlays), NEW S \in SUBSET DOMAIN overlays, NEW f \in S, f # Top
  PROVE  Told(S) = Project(Told(S \ {f}), f)
<1>1. PICK s, t : s = Laid(base, overlays, S \ {f}) /\ t = Laid(base, overlays, S)
  OBVIOUS
<1>2. PICK A, B, C : A = DOMAIN s \ Below[f] /\ B = DOMAIN s \cap Below[f] /\ C = DOMAIN t \cap Below[f]
  OBVIOUS
<1>3. /\ f \in Folders \ {Top} /\ IsTree(f, overlays[f]) /\ base \in Readings(Top)
      /\ DOMAIN overlays[f] \subseteq Folders
  BY TreeOfFolders DEF Overlays, IsTree
<1>4. /\ DOMAIN t \ Below[f] = A /\ \A g \in A : t[g] = s[g]
      /\ C = DOMAIN overlays[f] /\ \A g \in C : t[g] = overlays[f][g]
      /\ B = DOMAIN base \cap Below[f] /\ \A g \in B : s[g] = base[g]
  <2>1. /\ DOMAIN t \ Below[f] = DOMAIN s \ Below[f]
        /\ \A g \in DOMAIN t \ Below[f] : t[g] = s[g]
        /\ DOMAIN t \cap Below[f] = DOMAIN overlays[f]
        /\ \A g \in DOMAIN overlays[f] : t[g] = overlays[f][g]
        /\ DOMAIN s \cap Below[f] = DOMAIN base \cap Below[f]
        /\ \A g \in DOMAIN s \cap Below[f] : s[g] = base[g]
    BY <1>1, OneMore
  <2> QED BY <1>2, <2>1
<1>5. SizedTree(s) /\ DOMAIN s \subseteq Folders
  <2>1. S \ {f} \in SUBSET DOMAIN overlays
    OBVIOUS
  <2> QED BY <1>1, <2>1, LaidIs DEF IsLaid, SizedTree
<1>6. SizedTree(t) /\ DOMAIN t \subseteq Folders
  BY <1>1, LaidIs DEF IsLaid, SizedTree
<1>7. /\ TotalOf(s) = [logical |-> Sum(s, A) + Sum(s, B),
                       dirs |-> Cardinality(A \ {Top}) + Cardinality(B)]
      /\ Sum(s, A) \in Nat /\ Sum(s, B) \in Nat
      /\ Cardinality(A \ {Top}) \in Nat /\ Cardinality(B) \in Nat
  BY <1>2, <1>3, <1>5, TotalInParts DEF InParts
<1>8. /\ TotalOf(t) = [logical |-> Sum(t, A) + Sum(t, C),
                       dirs |-> Cardinality(A \ {Top}) + Cardinality(C)]
      /\ Sum(t, A) \in Nat /\ Sum(t, C) \in Nat
      /\ Cardinality(C) \in Nat
  <2>1. A = DOMAIN t \ Below[f] /\ C = DOMAIN t \cap Below[f]
    BY <1>2, <1>4
  <2> QED BY <1>3, <1>6, <2>1, TotalInParts DEF InParts
<1>9. Sum(t, A) = Sum(s, A) /\ Sum(s, B) = Sum(base, B) /\ Sum(t, C) = Sum(overlays[f], C)
  <2>1. IsFiniteSet(A) /\ IsFiniteSet(B) /\ IsFiniteSet(C)
    <3>1. A \subseteq Folders /\ B \subseteq Folders /\ C \subseteq Folders
      BY <1>2, <1>5, <1>6
    <3> QED BY <3>1, TreeOfFolders, FS_Subset
  <2>2. Sum(t, A) = Sum(s, A)
    BY <1>4, <2>1, SumAgree
  <2>3. Sum(s, B) = Sum(base, B)
    BY <1>4, <2>1, SumAgree
  <2>4. Sum(t, C) = Sum(overlays[f], C)
    BY <1>4, <2>1, SumAgree
  <2> QED BY <2>2, <2>3, <2>4
<1>10. OldLogical(f) = Sum(s, B) /\ OldDirs(f) = Cardinality(B)
  <2>1. OldLogical(f) = Sum(base, B) /\ OldDirs(f) = Cardinality(B)
    BY <1>3, <1>4, OldMeasurement
  <2> QED BY <1>9, <2>1
<1>11. Logical(overlays[f], f) = Sum(t, C) /\ DirCount(overlays[f], f) + 1 = Cardinality(C)
  <2>1. DOMAIN overlays[f] \cap Below[f] = C /\ f \in DOMAIN overlays[f]
    BY <1>3, <1>4 DEF IsTree
  <2>2. Logical(overlays[f], f) = Sum(overlays[f], C)
    BY <2>1, LogicalIsSum
  <2>3. DirCount(overlays[f], f) + 1 = Cardinality(C)
    BY <1>3, <2>1, MeasuredWithItself
  <2> QED BY <1>9, <2>2, <2>3
<1>12. PICK was : was = Told(S \ {f})
  OBVIOUS
<1>13. was.logical = Sum(s, A) + Sum(s, B) /\ was.dirs = Cardinality(A \ {Top}) + Cardinality(B)
  <2>1. was = TotalOf(s)
    BY <1>1, <1>12 DEF Told
  <2> QED BY <1>7, <2>1
<1>14. DirCount(overlays[f], f) \in Nat
  <2>1. IsFiniteSet((DOMAIN overlays[f] \cap Below[f]) \ {f})
    <3>1. (DOMAIN overlays[f] \cap Below[f]) \ {f} \subseteq Folders
      BY <1>3
    <3> QED BY <3>1, TreeOfFolders, FS_Subset
  <2> QED BY <2>1, FS_CardinalityType DEF DirCount
<1>15. Less(was.logical + Logical(overlays[f], f), OldLogical(f)) = Sum(t, A) + Sum(t, C)
  BY <1>7, <1>8, <1>9, <1>10, <1>11, <1>13 DEF Less
<1>16. Less(was.dirs + DirCount(overlays[f], f) + 1, OldDirs(f))
       = Cardinality(A \ {Top}) + Cardinality(C)
  <2>1. PICK x, y, z, d : /\ x = Cardinality(A \ {Top}) /\ y = Cardinality(B)
                          /\ z = Cardinality(C) /\ d = DirCount(overlays[f], f)
    OBVIOUS
  <2>2. /\ x \in Nat /\ y \in Nat /\ z \in Nat /\ d \in Nat /\ d + 1 = z
        /\ was.dirs = x + y /\ OldDirs(f) = y
    BY <1>7, <1>8, <1>10, <1>11, <1>13, <1>14, <2>1
  <2>3. Less(was.dirs + d + 1, OldDirs(f)) = x + z
    BY <2>2 DEF Less
  <2> QED BY <2>1, <2>3
<1>17. Project(was, f) = TotalOf(t)
  BY <1>8, <1>3, <1>15, <1>16 DEF Project
<1> QED BY <1>1, <1>12, <1>17 DEF Told

LEMMA ProjectsTheTop ==
  ASSUME Overlays(base, overlays), NEW S \in SUBSET DOMAIN overlays, Top \in S
  PROVE  Told(S) = Project(Told(S \ {Top}), Top)
<1>1. PICK t : t = Laid(base, overlays, S)
  OBVIOUS
<1>2. IsLaid(base, overlays, S, t)
  BY <1>1, LaidIs
<1>3. DOMAIN overlays[Top] \subseteq Folders /\ overlays[Top] = [g \in DOMAIN overlays[Top] |-> overlays[Top][g]]
  BY TreeOfFolders DEF Overlays, IsTree
<1>4. t = overlays[Top]
  <2>1. \A g \in Folders : (g \in DOMAIN t <=> g \in DOMAIN overlays[Top])
                           /\ (g \in DOMAIN t => t[g] = overlays[Top][g])
    BY <1>2, TreeOfFolders DEF IsLaid
  <2>2. DOMAIN t \subseteq Folders /\ t = [g \in DOMAIN t |-> t[g]]
    BY <1>2 DEF IsLaid, SizedTree
  <2> QED BY <1>3, <2>1, <2>2, SameTree
<1>5. [logical |-> Logical(overlays[Top], Top), dirs |-> DirCount(overlays[Top], Top)]
      = TotalOf(overlays[Top])
  BY <1>3, TotalOfTree
<1>6. PICK was : was = Told(S \ {Top})
  OBVIOUS
<1>7. Project(was, Top) = TotalOf(t)
  BY <1>4, <1>5 DEF Project
<1> QED BY <1>1, <1>6, <1>7 DEF Told

\* The projection, as a function of the overlays that have been taken.
Projects(D, g) ==
  g = [s \in SUBSET D |->
         IF s = {} THEN [logical |-> Logical(base, Top), dirs |-> DirCount(base, Top)]
         ELSE Project(g[s \ {Pick(s)}], Pick(s))]
Projector(D) == CHOOSE g : Projects(D, g)

LEMMA ProjectedIs == Projected = Projector(DOMAIN overlays)[DOMAIN overlays]
BY DEF Projected, MapThenFoldSet, Projector, Projects, Pick

LEMMA ProjectsAt ==
  ASSUME NEW D, NEW g, Projects(D, g), NEW s \in SUBSET D
  PROVE  g[s] = IF s = {} THEN [logical |-> Logical(base, Top), dirs |-> DirCount(base, Top)]
                ELSE Project(g[s \ {Pick(s)}], Pick(s))
<1> DEFINE e(t) == IF t = {} THEN [logical |-> Logical(base, Top), dirs |-> DirCount(base, Top)]
                   ELSE Project(g[t \ {Pick(t)}], Pick(t))
<1>1. g = [t \in SUBSET D |-> e(t)]
  BY DEF Projects
<1> HIDE DEF e
<1>2. g[s] = e(s)
  BY <1>1
<1> QED BY <1>2 DEF e

LEMMA ToldIsProjected ==
  ASSUME Overlays(base, overlays), NEW D, D = DOMAIN overlays, NEW g,
         g = [s \in SUBSET D |-> Told(s)]
  PROVE  Projects(D, g)
<1> DEFINE e(s) == IF s = {} THEN [logical |-> Logical(base, Top), dirs |-> DirCount(base, Top)]
                   ELSE Project(g[s \ {Pick(s)}], Pick(s))
<1>1. ASSUME NEW s \in SUBSET D PROVE Told(s) = e(s)
  <2>1. CASE s = {}
    <3>1. PICK t : t = Laid(base, overlays, s)
      OBVIOUS
    <3>2. IsLaid(base, overlays, s, t)
      BY <3>1, LaidIs
    <3>3. IsTree(Top, base) /\ DOMAIN base \subseteq Folders
      BY ReadingIsTree, TreeOfFolders DEF Overlays, IsTree
    <3>4. base = [h \in DOMAIN base |-> base[h]]
      BY <3>3 DEF IsTree
    <3>5. \A h \in Folders : (h \in DOMAIN t <=> h \in DOMAIN base) /\ (h \in DOMAIN t => t[h] = base[h])
      BY <2>1, <3>2 DEF IsLaid
    <3>6. t = base
      BY <3>2, <3>3, <3>4, <3>5, SameTree DEF IsLaid, SizedTree
    <3>7. [logical |-> Logical(base, Top), dirs |-> DirCount(base, Top)] = TotalOf(base)
      BY <3>3, TotalOfTree
    <3>8. Told(s) = TotalOf(base)
      BY <3>1, <3>6 DEF Told
    <3> QED BY <2>1, <3>7, <3>8
  <2>2. CASE s # {}
    <3>1. PICK f : f = Pick(s)
      OBVIOUS
    <3>2. f \in s /\ s \ {f} \in SUBSET D
      BY <2>2, <3>1, Picked
    <3>3. g[s \ {f}] = Told(s \ {f})
      <4> DEFINE r == s \ {f}
      <4> HIDE DEF r
      <4>1. g[r] = Told(r)
        BY <3>2 DEF r
      <4> QED BY <4>1 DEF r
    <3>4. Told(s) = Project(Told(s \ {f}), f)
      <4>1. CASE f = Top
        BY <3>2, <4>1, ProjectsTheTop
      <4>2. CASE f # Top
        BY <3>2, <4>2, ProjectsOne
      <4> QED BY <4>1, <4>2
    <3> QED BY <2>2, <3>1, <3>3, <3>4
  <2> QED BY <2>1, <2>2
<1>2. g = [s \in SUBSET D |-> e(s)]
  <2> HIDE DEF e
  <2> QED BY <1>1
<1> QED BY <1>2 DEF Projects

LEMMA ProjectsAlike ==
  ASSUME NEW D, IsFiniteSet(D), NEW g, NEW h, Projects(D, g), Projects(D, h)
  PROVE  g[D] = h[D]
<1> DEFINE Bad == {t \in SUBSET D : g[t] # h[t]}
<1>0. SUFFICES ASSUME Bad # {} PROVE FALSE
  OBVIOUS
<1>2. PICK t \in Bad : \A V \in SUBSET D : V \subseteq t /\ V # t => V \notin Bad
  <2>1. Bad \subseteq SUBSET D
    OBVIOUS
  <2> HIDE DEF Bad
  <2> QED BY <1>0, <2>1, LeastBad
<1>3. t \in SUBSET D /\ g[t] # h[t]
  OBVIOUS
<1> HIDE DEF Bad
<1>4. g[t] = IF t = {} THEN [logical |-> Logical(base, Top), dirs |-> DirCount(base, Top)]
             ELSE Project(g[t \ {Pick(t)}], Pick(t))
  BY <1>3, ProjectsAt
<1>5. h[t] = IF t = {} THEN [logical |-> Logical(base, Top), dirs |-> DirCount(base, Top)]
             ELSE Project(h[t \ {Pick(t)}], Pick(t))
  BY <1>3, ProjectsAt
<1>6. t # {}
  BY <1>3, <1>4, <1>5
<1>7. t \ {Pick(t)} # t /\ t \ {Pick(t)} \in SUBSET D
  BY <1>3, <1>6, Picked
<1>8. g[t \ {Pick(t)}] = h[t \ {Pick(t)}]
  BY <1>2, <1>7 DEF Bad
<1> QED BY <1>3, <1>4, <1>5, <1>6, <1>8

LEMMA ProjectedIsTold ==
  ASSUME Overlays(base, overlays)
  PROVE  Projected = Told(DOMAIN overlays)
<1>1. PICK D, g : D = DOMAIN overlays /\ g = [s \in SUBSET D |-> Told(s)]
  OBVIOUS
<1>2. Projects(D, g)
  BY <1>1, ToldIsProjected
<1>3. Projects(D, Projector(D))
  BY <1>2 DEF Projector
<1>4. IsFiniteSet(D)
  BY <1>1, TreeOfFolders, FS_Subset DEF Overlays
<1>5. g[D] = Projector(D)[D]
  BY <1>2, <1>3, <1>4, ProjectsAlike
<1>6. g[D] = Told(D)
  BY <1>1
<1> QED BY <1>1, <1>5, <1>6, ProjectedIs

LEMMA OverlayInvariant == OverlaySpec => []OverlayInv
<1>1. OverlayInit => OverlayInv
  <2> SUFFICES ASSUME OverlayInit PROVE OverlayInv
    OBVIOUS
  <2>1. base \in Readings(Top) /\ overlays = <<>> /\ freshest = base
    BY DEF OverlayInit
  <2>2. Overlays(base, overlays) /\ Laid(base, overlays, DOMAIN overlays) = base
    BY <2>1, NothingLaid
  <2> QED BY <2>1, <2>2 DEF OverlayInv
<1>2. OverlayInv /\ [OverlayNext]_overlayVars => OverlayInv'
  <2> SUFFICES ASSUME OverlayInv, [OverlayNext]_overlayVars PROVE OverlayInv'
    OBVIOUS
  <2>1. CASE OverlayNext
    BY <2>1, OverlayStays
  <2>2. CASE UNCHANGED overlayVars
    BY <2>2 DEF overlayVars, OverlayInv
  <2> QED BY <2>1, <2>2
<1> QED BY <1>1, <1>2, PTL DEF OverlaySpec

(* For any tree of directories and any sizes (services/provisional.py):    *)
(* however subtrees were rescanned over and within each other and whatever *)
(* was dropped for being too large, materialize shows of every directory   *)
(* what was read last, and _project_measurements, which never loads the    *)
(* tree, comes to the totals of that tree.                                 *)
THEOREM OverlaysShowFreshest == OverlaySpec => []OverlayShowsFreshest
<1>1. OverlayInv => OverlayShowsFreshest
  <2> SUFFICES ASSUME OverlayInv PROVE OverlayShowsFreshest
    OBVIOUS
  <2>1. Overlays(base, overlays) /\ freshest = Laid(base, overlays, DOMAIN overlays)
    BY DEF OverlayInv
  <2>2. Materialized = freshest
    BY <2>1, MaterializedIsLaid
  <2>3. DOMAIN freshest \subseteq Folders
    <3>1. IsLaid(base, overlays, DOMAIN overlays, freshest)
      BY <2>1, LaidIs
    <3> QED BY <3>1 DEF IsLaid, SizedTree
  <2>4. [logical |-> Logical(freshest, Top), dirs |-> DirCount(freshest, Top)] = TotalOf(freshest)
    BY <2>3, TotalOfTree
  <2>5. Projected = TotalOf(freshest)
    BY <2>1, ProjectedIsTold DEF Told
  <2> QED BY <2>2, <2>4, <2>5 DEF OverlayShowsFreshest
<1> QED BY <1>1, OverlayInvariant, PTL

-----------------------------------------------------------------------------
(* Making a plan.  The fold over the paths is a function of the positions  *)
(* that have been taken; it is followed along the positions in order.      *)

PlansSpec == PlansInit /\ [][PlansNext]_planVars

Positions == DOMAIN ByParts
FirstTurn == [cover |-> Nobody, actions |-> [e \in targets |-> Judged(e)]]
Rightmost(s) == CHOOSE i \in s : \A j \in s : i >= j
Resolves(S, g) ==
  g = [s \in SUBSET S |->
         IF s = {} THEN FirstTurn ELSE Resolve_(g[s \ {Rightmost(s)}], ByParts[Rightmost(s)])]
Resolver(S) == CHOOSE g : Resolves(S, g)

FiniteNumbers(s) == IsFiniteSet(s) /\ s \subseteq Nat

LEMMA RightmostIs ==
  ASSUME NEW s, FiniteNumbers(s), s # {}
  PROVE  Rightmost(s) \in s /\ s \ {Rightmost(s)} # s /\ \A j \in s : Rightmost(s) >= j
<1>1. PICK i \in s : \A j \in s : j <= i
  BY Greatest DEF HasGreatest, FiniteNumbers
<1>2. \A j \in s : i >= j
  BY <1>1 DEF FiniteNumbers
<1>3. Rightmost(s) \in s /\ \A j \in s : Rightmost(s) >= j
  BY <1>2 DEF Rightmost
<1> QED BY <1>3

LEMMA ResolvesAt ==
  ASSUME NEW S, NEW g, Resolves(S, g), NEW s \in SUBSET S
  PROVE  g[s] = IF s = {} THEN FirstTurn ELSE Resolve_(g[s \ {Rightmost(s)}], ByParts[Rightmost(s)])
<1> DEFINE e(t) == IF t = {} THEN FirstTurn ELSE Resolve_(g[t \ {Rightmost(t)}], ByParts[Rightmost(t)])
<1>1. g = [t \in SUBSET S |-> e(t)]
  BY DEF Resolves
<1> HIDE DEF e
<1>2. g[s] = e(s)
  BY <1>1
<1> QED BY <1>2 DEF e

LEMMA ResolvesAlike ==
  ASSUME NEW S, FiniteNumbers(S), NEW U \in SUBSET S, NEW g, NEW h,
         Resolves(S, g), Resolves(U, h), NEW s \in SUBSET U
  PROVE  g[s] = h[s]
<1> DEFINE Bad == {t \in SUBSET U : g[t] # h[t]}
<1> SUFFICES ASSUME Bad # {} PROVE FALSE
  OBVIOUS
<1>0. IsFiniteSet(S)
  BY DEF FiniteNumbers
<1>1. Bad \subseteq SUBSET S
  OBVIOUS
<1>2. PICK t \in Bad : \A V \in SUBSET S : V \subseteq t /\ V # t => V \notin Bad
  <2> HIDE DEF Bad
  <2> QED BY <1>0, <1>1, LeastBad
<1>3. t \in SUBSET U /\ t \in SUBSET S /\ g[t] # h[t]
  OBVIOUS
<1> HIDE DEF Bad
<1>9. t \in SUBSET S
  BY <1>3
<1>10. t \in SUBSET U
  BY <1>3
<1>4. g[t] = IF t = {} THEN FirstTurn ELSE Resolve_(g[t \ {Rightmost(t)}], ByParts[Rightmost(t)])
  BY <1>9, ResolvesAt
<1>5. h[t] = IF t = {} THEN FirstTurn ELSE Resolve_(h[t \ {Rightmost(t)}], ByParts[Rightmost(t)])
  BY <1>10, ResolvesAt
<1>6. t # {}
  BY <1>3, <1>4, <1>5
<1>7. t \ {Rightmost(t)} # t /\ t \ {Rightmost(t)} \in SUBSET U /\ t \ {Rightmost(t)} \in SUBSET S
  <2>1. FiniteNumbers(t)
    BY <1>3, FS_Subset DEF FiniteNumbers
  <2> QED BY <1>3, <1>6, <2>1, RightmostIs
<1>8. g[t \ {Rightmost(t)}] = h[t \ {Rightmost(t)}]
  BY <1>2, <1>7 DEF Bad
<1> QED BY <1>3, <1>4, <1>5, <1>6, <1>8

LEMMA ResolverResolves ==
  ASSUME NEW S, FiniteNumbers(S)
  PROVE  Resolves(S, Resolver(S))
<1> DEFINE Bad == {U \in SUBSET S : ~ (\E g : Resolves(U, g))}
<1>0. IsFiniteSet(S)
  BY DEF FiniteNumbers
<1>1. SUFFICES \E g : Resolves(S, g)
  BY DEF Resolver
<1> SUFFICES ASSUME Bad # {} PROVE FALSE
  OBVIOUS
<1>2. PICK U \in Bad : \A V \in SUBSET S : V \subseteq U /\ V # U => V \notin Bad
  <2>1. Bad \subseteq SUBSET S
    OBVIOUS
  <2> HIDE DEF Bad
  <2> QED BY <1>0, <2>1, LeastBad
<1>3. U \in SUBSET S /\ ~ (\E g : Resolves(U, g))
  OBVIOUS
<1>4. ASSUME NEW V \in SUBSET U, V # U PROVE Resolves(V, Resolver(V))
  <2>1. V \in SUBSET S /\ V \notin Bad
    BY <1>2, <1>3, <1>4
  <2>2. \E g : Resolves(V, g)
    BY <2>1
  <2> QED BY <2>2 DEF Resolver
<1> HIDE DEF Bad
<1> DEFINE below(s) == s \ {Rightmost(s)}
           value(s) == IF s = {} THEN FirstTurn
                       ELSE IF s = U THEN Resolve_(Resolver(below(s))[below(s)], ByParts[Rightmost(s)])
                       ELSE Resolver(s)[s]
           h == [s \in SUBSET U |-> value(s)]
           step(s) == IF s = {} THEN FirstTurn ELSE Resolve_(h[s \ {Rightmost(s)}], ByParts[Rightmost(s)])
<1>5. ASSUME NEW s \in SUBSET U PROVE value(s) = step(s)
  <2>0. FiniteNumbers(s)
    BY <1>3, FS_Subset DEF FiniteNumbers
  <2>1. CASE s = {}
    BY <2>1
  <2>2. CASE s # {}
    <3>1. below(s) \in SUBSET s /\ below(s) \in SUBSET U /\ below(s) # s /\ below(s) # U
      BY <2>0, <2>2, RightmostIs
    <3>2. h[below(s)] = value(below(s))
      BY <3>1
    <3>3. Resolves(below(s), Resolver(below(s)))
      BY <3>1, <1>4
    <3>4. h[below(s)] = Resolver(below(s))[below(s)]
      <4>1. CASE below(s) = {}
        <5>1. Resolver(below(s))[below(s)] = FirstTurn
          BY <4>1, <3>3, ResolvesAt
        <5> QED BY <5>1, <4>1, <3>2
      <4>2. CASE below(s) # {}
        BY <4>2, <3>1, <3>2
      <4> QED BY <4>1, <4>2
    <3>5. CASE s = U
      BY <2>2, <3>4, <3>5
    <3>6. CASE s # U
      <4>1. Resolves(s, Resolver(s))
        BY <3>6, <1>4
      <4>2. Resolver(s)[s] = Resolve_(Resolver(s)[below(s)], ByParts[Rightmost(s)])
        <5>1. s \in SUBSET s
          OBVIOUS
        <5> QED BY <5>1, <4>1, <2>2, ResolvesAt
      <4>4. Resolver(s)[below(s)] = Resolver(below(s))[below(s)]
        <5>1. below(s) \in SUBSET below(s)
          OBVIOUS
        <5> HIDE DEF below
        <5> QED BY <2>0, <5>1, <3>1, <3>3, <4>1, ResolvesAlike
      <4> QED BY <2>2, <3>4, <3>6, <4>2, <4>4
    <3> QED BY <3>5, <3>6
  <2> QED BY <2>1, <2>2
<1>6. h = [s \in SUBSET U |-> step(s)]
  <2> HIDE DEF value, step
  <2> QED BY <1>5
<1>7. Resolves(U, h)
  <2> HIDE DEF h
  <2> QED BY <1>6 DEF Resolves
<1> QED BY <1>3, <1>7

\* The turn after the first n paths.
TurnAfter(n) == Resolver(Positions)[1..n]

LEMMA PathsInOrder ==
  /\ Len(ByParts) \in Nat /\ Positions = 1..Len(ByParts) /\ FiniteNumbers(Positions)
  /\ \A i \in Positions : ByParts[i] \in Items
  /\ \A e \in Items : \E i \in Positions : ByParts[i] = e
  /\ \A i, j \in Positions : i < j => ByParts[i] \notin Taken(ByParts[j])
  /\ \A i, j, k \in Positions :
       i < j /\ j < k /\ ByParts[k] \in Inside[ByParts[i]] => ByParts[j] \in Inside[ByParts[i]]
<1>1. ByParts \in Seq(Items) /\ Range(ByParts) = Items
  BY PlanAssumption
<1>2. Len(ByParts) \in Nat /\ Positions = 1..Len(ByParts) /\ \A i \in Positions : ByParts[i] \in Items
  BY <1>1 DEF Positions
<1>3. FiniteNumbers(Positions)
  <2>1. IsFiniteSet(1..Len(ByParts))
    BY <1>2, FS_Interval
  <2> QED BY <1>2, <2>1 DEF FiniteNumbers
<1>4. \A e \in Items : \E i \in Positions : ByParts[i] = e
  BY <1>1 DEF Range, Positions
<1>5. /\ \A i, j \in Positions : i < j => ByParts[i] \notin Taken(ByParts[j])
      /\ \A i, j, k \in Positions :
           i < j /\ j < k /\ ByParts[k] \in Inside[ByParts[i]] => ByParts[j] \in Inside[ByParts[i]]
  BY PlanAssumption DEF Positions
<1> QED BY <1>2, <1>3, <1>4, <1>5

LEMMA FirstTurnIs == TurnAfter(0) = FirstTurn
<1>1. 1..0 = {} /\ {} \in SUBSET Positions
  OBVIOUS
<1>2. Resolves(Positions, Resolver(Positions))
  BY PathsInOrder, ResolverResolves
<1>3. Resolver(Positions)[{}] = FirstTurn
  BY <1>1, <1>2, ResolvesAt
<1> QED BY <1>1, <1>3 DEF TurnAfter

LEMMA NextTurnIs ==
  ASSUME NEW n \in Positions
  PROVE  TurnAfter(n) = Resolve_(TurnAfter(n - 1), ByParts[n])
<1>1. n \in Nat /\ n >= 1 /\ n <= Len(ByParts) /\ Len(ByParts) \in Nat /\ Positions = 1..Len(ByParts)
  BY PathsInOrder
<1>2. Resolves(Positions, Resolver(Positions))
  BY PathsInOrder, ResolverResolves
<1>3. PICK s, r : s = 1..n /\ r = 1..(n - 1)
  OBVIOUS
<1>4. s \subseteq Nat /\ n \in s /\ s \ {n} = r /\ \A j \in s : n >= j
  <2>1. n \in Nat /\ n >= 1
    BY <1>1
  <2>2. s \subseteq Nat /\ n \in s /\ \A j \in s : n >= j
    BY <1>3, <2>1
  <2>3. \A j : j \in s \ {n} <=> j \in r
    BY <1>3, <2>1
  <2> QED BY <2>2, <2>3
<1>8. s \in SUBSET Positions /\ s # {}
  <2>1. \A j \in s : j \in Positions
    BY <1>1, <1>3
  <2> QED BY <1>4, <2>1
<1>5. Rightmost(s) = n
  <2>1. FiniteNumbers(s)
    BY <1>4, <1>8, PathsInOrder, FS_Subset DEF FiniteNumbers
  <2>2. Rightmost(s) \in s /\ \A j \in s : Rightmost(s) >= j
    BY <1>8, <2>1, RightmostIs
  <2>3. Rightmost(s) \in Nat /\ Rightmost(s) >= n /\ n >= Rightmost(s)
    BY <1>4, <2>2
  <2> QED BY <1>1, <2>3
<1>6. Resolver(Positions)[s] = Resolve_(Resolver(Positions)[s \ {Rightmost(s)}], ByParts[Rightmost(s)])
  BY <1>2, <1>8, ResolvesAt
<1>7. Resolver(Positions)[s] = Resolve_(Resolver(Positions)[r], ByParts[n])
  BY <1>4, <1>5, <1>6
<1> QED BY <1>3, <1>7 DEF TurnAfter

LEMMA PlanIsLastTurn ==
  ASSUME create_plan PROVE choices' = TurnAfter(Len(ByParts)).actions
<1>1. choices' = FoldLeft(Resolve_, FirstTurn, ByParts).actions
  BY DEF create_plan, Order, FirstTurn
<1>2. FoldLeft(Resolve_, FirstTurn, ByParts) = Resolver(Positions)[Positions]
  BY DEF FoldLeft, MapThenFoldSet, Resolver, Resolves, Rightmost, Max, Positions
<1> QED BY <1>1, <1>2, PathsInOrder DEF TurnAfter

\* Of the first n paths the targets have been settled; what of them is planned
\* holds all that comes after it and lies in it, as long as it is the cover.
Visited(n) == {e \in targets : \E i \in 1..n : ByParts[i] = e}
Chosen(n, turn) == {e \in Visited(n) : turn.actions[e].status = "planned"}
Turns ==
  [cover : Items \cup {Nobody},
   actions : [targets -> [danger : BOOLEAN, status : {"planned", "skipped", "subsumed"},
                          by : Items \cup {Nobody}]]]

Decided(n, turn, e) ==
  \/ turn.actions[e].status = "planned" /\ ~Danger(e)
  \/ turn.actions[e].status = "skipped" /\ turn.actions[e].danger
  \/ /\ turn.actions[e].status = "subsumed"
     /\ turn.actions[e].by \in Chosen(n, turn) /\ e \in Inside[turn.actions[e].by]
AllDecided(n, turn) == \A e \in Visited(n) : Decided(n, turn, e)
Untouched(n, turn) == \A e \in targets \ Visited(n) : turn.actions[e] = Judged(e)
Covers(n, turn) == turn.cover # Nobody => turn.cover \in Chosen(n, turn)
Closed(n, turn) ==
  \A d \in Chosen(n, turn) : d # turn.cover =>
    \A k \in Positions : k > n => ByParts[k] \notin Inside[d]
ChosenApart(n, turn) ==
  \A d, e \in Chosen(n, turn) : d # e => Taken(d) \cap Taken(e) = {}

TurnInv(n, turn) ==
  /\ turn \in Turns /\ AllDecided(n, turn) /\ Untouched(n, turn)
  /\ Covers(n, turn) /\ Closed(n, turn) /\ ChosenApart(n, turn)

LEMMA PathsNest ==
  /\ Nobody \notin Items
  /\ \A e \in Items : e \notin Inside[e] /\ Inside[e] \subseteq Items
  /\ \A d, e \in Items : d \notin Taken(e) /\ e \notin Taken(d) => Taken(d) \cap Taken(e) = {}
BY PlanAssumption

LEMMA TurnsBegin ==
  ASSUME targets \subseteq Items PROVE TurnInv(0, FirstTurn)
<1>1. Visited(0) = {}
  BY DEF Visited
<1>2. Chosen(0, FirstTurn) = {}
  BY <1>1 DEF Chosen
<1>3. FirstTurn \in Turns
  <2>1. \A e \in targets : Judged(e) \in [danger : BOOLEAN, status : {"planned", "skipped", "subsumed"},
                                          by : Items \cup {Nobody}]
    BY DEF Judged, Danger
  <2> QED BY <2>1 DEF FirstTurn, Turns
<1>4. Untouched(0, FirstTurn)
  BY DEF Untouched, FirstTurn
<1>5. FirstTurn.cover = Nobody
  BY DEF FirstTurn
<1> QED BY <1>1, <1>2, <1>3, <1>4, <1>5 DEF TurnInv, AllDecided, Covers, Closed, ChosenApart

\* What is at a position is new, and lies in no target before it but the cover.
LEMMA VisitedNext ==
  ASSUME targets \subseteq Items, NEW n \in Positions, NEW e, e = ByParts[n]
  PROVE  /\ e \in Items /\ e \notin Visited(n - 1)
         /\ e \in targets => Visited(n) = Visited(n - 1) \cup {e}
         /\ e \notin targets => Visited(n) = Visited(n - 1)
         /\ \A d \in Visited(n - 1) : d \in Items /\ d \notin Taken(e)
         /\ \A d \in Visited(n - 1) : \A k \in Positions :
              k > n /\ ByParts[k] \in Inside[d] => e \in Inside[d]
<1>1. n \in Nat /\ n >= 1 /\ n <= Len(ByParts) /\ Len(ByParts) \in Nat /\ Positions = 1..Len(ByParts)
  BY PathsInOrder
<1>2. \A i : i \in 1..n <=> i \in 1..(n - 1) \/ i = n
  BY <1>1
<1>3. ASSUME NEW d \in Visited(n - 1)
      PROVE  /\ d \in Items /\ d \notin Taken(e)
             /\ \A k \in Positions : k > n /\ ByParts[k] \in Inside[d] => e \in Inside[d]
  <2>1. PICK i \in 1..(n - 1) : ByParts[i] = d
    BY DEF Visited
  <2>2. i \in Positions /\ i < n
    BY <1>1
  <2>3. d \notin Taken(e)
    BY <2>1, <2>2, PathsInOrder
  <2>4. ASSUME NEW k \in Positions, k > n, ByParts[k] \in Inside[d] PROVE e \in Inside[d]
    <3>1. n < k
      BY <1>1, <2>4
    <3>2. ByParts[k] \in Inside[ByParts[i]]
      BY <2>1, <2>4
    <3>3. ByParts[n] \in Inside[ByParts[i]]
      BY <2>2, <3>1, <3>2, PathsInOrder
    <3> QED BY <2>1, <3>3
  <2> QED BY <2>3, <2>4 DEF Visited
<1>4. e \in Items
  BY PathsInOrder
<1>5. e \notin Visited(n - 1)
  BY <1>3 DEF Taken
<1>6. /\ e \in targets => Visited(n) = Visited(n - 1) \cup {e}
      /\ e \notin targets => Visited(n) = Visited(n - 1)
  BY <1>2 DEF Visited
<1> QED BY <1>3, <1>4, <1>5, <1>6

\* A path that is no target changes nothing.
LEMMA PassesOver ==
  ASSUME targets \subseteq Items, NEW n \in Positions, NEW turn, TurnInv(n - 1, turn),
         ByParts[n] \notin targets
  PROVE  TurnInv(n, turn)
<1>1. Visited(n) = Visited(n - 1)
  BY VisitedNext
<1>2. Chosen(n, turn) = Chosen(n - 1, turn)
  BY <1>1 DEF Chosen
<1>3. Closed(n, turn)
  <2> SUFFICES ASSUME NEW d \in Chosen(n, turn), d # turn.cover, NEW k \in Positions, k > n
               PROVE  ByParts[k] \notin Inside[d]
    BY DEF Closed
  <2>1. k > n - 1
    BY PathsInOrder
  <2> QED BY <1>2, <2>1 DEF Closed, TurnInv
<1>4. AllDecided(n, turn)
  BY <1>1, <1>2 DEF AllDecided, Decided, TurnInv
<1>5. Untouched(n, turn) /\ Covers(n, turn) /\ ChosenApart(n, turn)
  BY <1>1, <1>2 DEF Untouched, Covers, ChosenApart, TurnInv
<1> QED BY <1>3, <1>4, <1>5 DEF TurnInv

\* A target in the cover is left to it.
LEMMA IsSubsumed ==
  ASSUME targets \subseteq Items, NEW n \in Positions, NEW turn, TurnInv(n - 1, turn),
         NEW e, e = ByParts[n], e \in targets, turn.cover # Nobody, e \in Inside[turn.cover],
         NEW new, new = Resolve_(turn, e)
  PROVE  TurnInv(n, new)
<1>1. PICK c, a : c = turn.cover /\ a = turn.actions
  OBVIOUS
<1>2. turn = [cover |-> c, actions |-> a] /\ turn \in Turns
  BY <1>1 DEF TurnInv, Turns
<1>3. /\ c \in Items /\ a \in [targets -> [danger : BOOLEAN, by : Items \cup {Nobody},
                                           status : {"planned", "skipped", "subsumed"}]]
  <2>1. c \in Items
    BY <1>1, <1>2 DEF Turns
  <2> QED BY <1>1, <1>2, <2>1 DEF Turns
<1>4. PICK b : b = [danger |-> Danger(e), status |-> "subsumed", by |-> c]
  OBVIOUS
<1>5. new = [cover |-> c, actions |-> [a EXCEPT ![e] = b]]
  <2>1. new = [turn EXCEPT !.actions[e] = b]
    BY <1>1, <1>4 DEF Resolve_
  <2> QED BY <1>2, <2>1
<1>6. /\ new.cover = c /\ new.actions[e] = b /\ DOMAIN new.actions = targets
      /\ \A d \in targets : d # e => new.actions[d] = a[d]
  BY <1>3, <1>5
<1>7. new \in Turns
  <2>1. b \in [danger : BOOLEAN, by : Items \cup {Nobody}, status : {"planned", "skipped", "subsumed"}]
    BY <1>3, <1>4 DEF Danger
  <2> QED BY <1>3, <1>5, <2>1 DEF Turns
<1>8. e \notin Visited(n - 1) /\ Visited(n) = Visited(n - 1) \cup {e}
  BY VisitedNext
<1>9. Chosen(n, new) = Chosen(n - 1, turn)
  <2>1. \A d : d \in Chosen(n, new) <=> d \in Chosen(n - 1, turn)
    BY <1>1, <1>4, <1>6, <1>8 DEF Chosen, Visited
  <2> QED BY <2>1
<1>10. AllDecided(n, new)
  <2> SUFFICES ASSUME NEW d \in Visited(n) PROVE Decided(n, new, d)
    BY DEF AllDecided
  <2>1. CASE d = e
    <3>1. c \in Chosen(n - 1, turn)
      BY <1>1 DEF TurnInv, Covers
    <3> QED BY <1>1, <1>4, <1>6, <1>9, <2>1, <3>1 DEF Decided
  <2>2. CASE d # e
    <3>1. d \in Visited(n - 1) /\ d \in targets
      BY <1>8, <2>2 DEF Visited
    <3>2. Decided(n - 1, turn, d)
      BY <3>1 DEF TurnInv, AllDecided
    <3>3. new.actions[d] = turn.actions[d]
      BY <1>1, <1>6, <2>2, <3>1
    <3> QED BY <1>9, <3>2, <3>3 DEF Decided
  <2> QED BY <2>1, <2>2
<1>11. Untouched(n, new)
  <2> SUFFICES ASSUME NEW d \in targets \ Visited(n) PROVE new.actions[d] = Judged(d)
    BY DEF Untouched
  <2>1. d # e /\ d \in targets \ Visited(n - 1)
    BY <1>8
  <2> QED BY <1>1, <1>6, <2>1 DEF TurnInv, Untouched
<1>12. Covers(n, new) /\ ChosenApart(n, new)
  BY <1>1, <1>6, <1>9 DEF TurnInv, Covers, ChosenApart
<1>13. Closed(n, new)
  <2> SUFFICES ASSUME NEW d \in Chosen(n, new), d # new.cover, NEW k \in Positions, k > n
               PROVE  ByParts[k] \notin Inside[d]
    BY DEF Closed
  <2>1. k > n - 1
    BY PathsInOrder
  <2> QED BY <1>1, <1>6, <1>9, <2>1 DEF Closed, TurnInv
<1> QED BY <1>7, <1>10, <1>11, <1>12, <1>13 DEF TurnInv

\* A target that is not in the cover takes its place, or leaves it empty.
LEMMA TakesThePlace ==
  ASSUME targets \subseteq Items, NEW n \in Positions, NEW turn, TurnInv(n - 1, turn),
         NEW e, e = ByParts[n], e \in targets, ~ (turn.cover # Nobody /\ e \in Inside[turn.cover]),
         NEW new, new = Resolve_(turn, e)
  PROVE  TurnInv(n, new)
<1>1. PICK c, a : c = turn.cover /\ a = turn.actions
  OBVIOUS
<1>2. turn = [cover |-> c, actions |-> a] /\ turn \in Turns
  BY <1>1 DEF TurnInv, Turns
<1>3. PICK t : t = IF a[e].status = "planned" THEN e ELSE Nobody
  OBVIOUS
<1>4. new = [cover |-> t, actions |-> a]
  <2>1. new = [turn EXCEPT !.cover = t]
    BY <1>1, <1>3 DEF Resolve_
  <2> QED BY <1>2, <2>1
<1>5. new.cover = t /\ new.actions = a
  BY <1>4
<1>6. /\ e \in Items /\ e \notin Visited(n - 1) /\ Visited(n) = Visited(n - 1) \cup {e}
      /\ \A d \in Visited(n - 1) : d \in Items /\ d \notin Taken(e)
      /\ \A d \in Visited(n - 1) : \A k \in Positions :
           k > n /\ ByParts[k] \in Inside[d] => e \in Inside[d]
  BY VisitedNext
<1>7. new \in Turns
  <2>1. t \in Items \cup {Nobody}
    BY <1>3, <1>6
  <2> QED BY <1>1, <1>2, <1>4, <2>1 DEF Turns
<1>8. a[e] = Judged(e)
  BY <1>1, <1>6 DEF TurnInv, Untouched
<1>9. /\ \A d \in Chosen(n, new) : d \in Chosen(n - 1, turn) \/ (d = e /\ t = e)
      /\ \A d \in Chosen(n - 1, turn) : d \in Chosen(n, new) /\ d \in Visited(n - 1) /\ d # e
      /\ t # Nobody => t = e /\ e \in Chosen(n, new)
  BY <1>1, <1>3, <1>5, <1>6 DEF Chosen
<1>10. AllDecided(n, new)
  <2> SUFFICES ASSUME NEW d \in Visited(n) PROVE Decided(n, new, d)
    BY DEF AllDecided
  <2>1. CASE d = e
    BY <1>5, <1>8, <2>1 DEF Decided, Judged
  <2>2. CASE d # e
    <3>1. Decided(n - 1, turn, d)
      BY <1>6, <2>2 DEF TurnInv, AllDecided
    <3> QED BY <1>1, <1>5, <1>9, <3>1 DEF Decided
  <2> QED BY <2>1, <2>2
<1>11. Untouched(n, new)
  BY <1>1, <1>5, <1>6 DEF TurnInv, Untouched
<1>12. Covers(n, new)
  BY <1>5, <1>9 DEF Covers
<1>13. \A d \in Chosen(n - 1, turn) : e \notin Inside[d]
  <2> SUFFICES ASSUME NEW d \in Chosen(n - 1, turn) PROVE e \notin Inside[d]
    OBVIOUS
  <2>1. CASE d # turn.cover
    <3>1. n > n - 1
      BY PathsInOrder
    <3> QED BY <2>1, <3>1 DEF Closed, TurnInv
  <2>2. CASE d = turn.cover
    <3>1. d # Nobody
      BY <1>6, <1>9, PathsNest
    <3> QED BY <2>2, <3>1
  <2> QED BY <2>1, <2>2
<1>14. Closed(n, new)
  <2> SUFFICES ASSUME NEW d \in Chosen(n, new), d # new.cover, NEW k \in Positions, k > n
               PROVE  ByParts[k] \notin Inside[d]
    BY DEF Closed
  <2>1. d \in Chosen(n - 1, turn)
    BY <1>5, <1>9
  <2> QED BY <1>6, <1>9, <1>13, <2>1
<1>15. ChosenApart(n, new)
  <2>1. ASSUME NEW d \in Chosen(n - 1, turn) PROVE Taken(d) \cap Taken(e) = {}
    <3>1. d \in Items /\ d \notin Taken(e) /\ d # e /\ e \notin Inside[d]
      BY <1>6, <1>9, <1>13
    <3>2. e \notin Taken(d)
      BY <3>1 DEF Taken
    <3> QED BY <1>6, <3>1, <3>2, PathsNest
  <2> SUFFICES ASSUME NEW d \in Chosen(n, new), NEW f \in Chosen(n, new), d # f
               PROVE  Taken(d) \cap Taken(f) = {}
    BY DEF ChosenApart
  <2>2. CASE d \in Chosen(n - 1, turn) /\ f \in Chosen(n - 1, turn)
    BY <2>2 DEF TurnInv, ChosenApart
  <2>3. CASE d \in Chosen(n - 1, turn) /\ f = e
    BY <2>1, <2>3
  <2>4. CASE f \in Chosen(n - 1, turn) /\ d = e
    BY <2>1, <2>4
  <2> QED BY <1>9, <2>2, <2>3, <2>4
<1> QED BY <1>7, <1>10, <1>11, <1>12, <1>14, <1>15 DEF TurnInv

LEMMA TurnsGoOn ==
  ASSUME targets \subseteq Items, NEW n \in Positions, TurnInv(n - 1, TurnAfter(n - 1))
  PROVE  TurnInv(n, TurnAfter(n))
<1>1. PICK turn, e, new : turn = TurnAfter(n - 1) /\ e = ByParts[n] /\ new = Resolve_(turn, e)
  OBVIOUS
<1>2. TurnAfter(n) = new
  BY <1>1, NextTurnIs
<1>3. CASE e \notin targets
  <2>1. new = turn
    BY <1>1, <1>3 DEF Resolve_
  <2> QED BY <1>1, <1>2, <1>3, <2>1, PassesOver
<1>4. CASE e \in targets /\ turn.cover # Nobody /\ e \in Inside[turn.cover]
  BY <1>1, <1>2, <1>4, IsSubsumed
<1>5. CASE e \in targets /\ ~ (turn.cover # Nobody /\ e \in Inside[turn.cover])
  BY <1>1, <1>2, <1>5, TakesThePlace
<1> QED BY <1>3, <1>4, <1>5

LEMMA LeastNumber ==
  ASSUME NEW S, S \subseteq Nat, S # {}
  PROVE  \E n \in S : \A m \in S : n <= m
<1>1. IsWellFoundedOn(OpToRel(<, Nat), Nat)
  BY NatLessThanWellFounded
<1>2. PICK n \in S : \A m \in S : ~ (<<m, n>> \in OpToRel(<, Nat))
  BY <1>1, WFMin
<1>3. \A m \in S : ~ (m < n)
  BY <1>2 DEF OpToRel
<1> QED BY <1>3

LEMMA TurnsEnd ==
  ASSUME targets \subseteq Items
  PROVE  TurnInv(Len(ByParts), TurnAfter(Len(ByParts)))
<1> DEFINE Good(n) == TurnInv(n, TurnAfter(n))
           Bad == {n \in 0..Len(ByParts) : ~Good(n)}
<1> SUFFICES ASSUME Bad # {} PROVE FALSE
  BY PathsInOrder
<1>1. PICK n \in Bad : \A m \in Bad : n <= m
  <2>1. Bad \subseteq Nat
    OBVIOUS
  <2> HIDE DEF Bad
  <2> QED BY <2>1, LeastNumber
<1>2. n \in 0..Len(ByParts) /\ ~Good(n)
  OBVIOUS
<1>3. n # 0
  BY <1>2, FirstTurnIs, TurnsBegin
<1>4. n \in Positions /\ n - 1 \in 0..Len(ByParts) /\ ~ (n <= n - 1)
  BY <1>2, <1>3, PathsInOrder
<1>5. Good(n - 1)
  BY <1>1, <1>4
<1>6. Good(n)
  BY <1>4, <1>5, TurnsGoOn
<1> QED BY <1>2, <1>6

\* What is said of a plan that has been made.
Fit(a) ==
  /\ DOMAIN a = targets
  /\ \A d, e \in targets :
       a[d].status = "planned" /\ a[e].status = "planned" /\ d # e => Taken(d) \cap Taken(e) = {}
  /\ \A e \in targets :
       \/ a[e].status = "planned" /\ ~Danger(e)
       \/ a[e].status = "skipped" /\ a[e].danger
       \/ /\ a[e].status = "subsumed" /\ a[e].by \in targets
          /\ a[a[e].by].status = "planned" /\ e \in Inside[a[e].by]

PlansInv == targets \subseteq Items /\ (choices # NoPlan => Fit(choices))

LEMMA PlanIsFit ==
  ASSUME targets \subseteq Items, create_plan
  PROVE  Fit(choices')
<1>1. PICK n, turn : n = Len(ByParts) /\ turn = TurnAfter(n)
  OBVIOUS
<1>2. TurnInv(n, turn)
  BY <1>1, TurnsEnd
<1>3. choices' = turn.actions
  BY <1>1, PlanIsLastTurn
<1>4. Visited(n) = targets
  <2>1. \A e \in targets : \E i \in 1..n : ByParts[i] = e
    BY <1>1, PathsInOrder
  <2> QED BY <2>1 DEF Visited
<1>5. DOMAIN choices' = targets
  BY <1>2, <1>3 DEF TurnInv, Turns
<1>6. \A e \in targets : e \in Chosen(n, turn) <=> choices'[e].status = "planned"
  BY <1>3, <1>4 DEF Chosen
<1>7. ASSUME NEW d \in targets, NEW e \in targets, choices'[d].status = "planned",
             choices'[e].status = "planned", d # e
      PROVE  Taken(d) \cap Taken(e) = {}
  BY <1>2, <1>6, <1>7 DEF TurnInv, ChosenApart
<1>8. ASSUME NEW e \in targets
      PROVE  \/ choices'[e].status = "planned" /\ ~Danger(e)
             \/ choices'[e].status = "skipped" /\ choices'[e].danger
             \/ /\ choices'[e].status = "subsumed" /\ choices'[e].by \in targets
                /\ choices'[choices'[e].by].status = "planned" /\ e \in Inside[choices'[e].by]
  <2>1. Decided(n, turn, e)
    BY <1>2, <1>4 DEF TurnInv, AllDecided
  <2>2. \A d \in Chosen(n, turn) : d \in targets
    BY DEF Chosen, Visited
  <2> QED BY <1>3, <1>6, <2>1, <2>2 DEF Decided
<1> QED BY <1>5, <1>7, <1>8 DEF Fit

LEMMA PlansInvariant == PlansSpec => []PlansInv
<1>1. PlansInit => PlansInv
  BY DEF PlansInit, PlansInv
<1>2. PlansInv /\ [PlansNext]_planVars => PlansInv'
  <2> SUFFICES ASSUME PlansInv, [PlansNext]_planVars PROVE PlansInv'
    OBVIOUS
  <2>1. CASE create_plan
    <3>1. Fit(choices')
      BY <2>1, PlanIsFit DEF PlansInv
    <3>2. targets' = targets /\ world' = world
      BY <2>1 DEF create_plan
    <3> QED BY <3>1, <3>2 DEF PlansInv, Fit, Danger
  <2>2. ASSUME NEW e \in Items, Mounts(e) PROVE PlansInv'
    BY <2>2 DEF Mounts, PlansInv
  <2>3. CASE UNCHANGED planVars
    BY <2>3 DEF planVars, PlansInv, Fit, Danger
  <2> QED BY <2>1, <2>2, <2>3 DEF PlansNext
<1> QED BY <1>1, <1>2, PTL DEF PlansSpec

(* For any paths and targets, however they lie inside one another          *)
(* (services/cleanup.py, create_plan and _resolve_overlaps): nothing is in *)
(* two planned targets, a target that is not planned is refused or inside  *)
(* one that is, and neither a mounted volume nor anything the program      *)
(* keeps moves with what is planned.                                       *)
THEOREM PlansAreSound == PlansSpec => []PlansDoNotOverlap
<1>1. PlansInv => PlansDoNotOverlap
  <2> SUFFICES ASSUME PlansInv, choices # NoPlan, Fit(choices), targets \subseteq Items
               PROVE  PlansDoNotOverlap
    BY DEF PlansInv, PlansDoNotOverlap, NothingTwice, NothingDropped, NothingKeptMoves, Planned
  <2>1. Planned = {e \in targets : choices[e].status = "planned"}
    BY DEF Planned
  <2>2. NothingTwice
    BY <2>1 DEF NothingTwice, Fit
  <2>3. NothingDropped
    BY <2>1 DEF NothingDropped, Fit
  <2>4. NothingKeptMoves
    <3> SUFFICES ASSUME NEW e \in Planned
                 PROVE  /\ Taken(e) \cap (world.mounted \cup world.own \cup {ScanRoot}) = {}
                        /\ \A d \in Isolated : e \notin Taken(d)
      BY DEF NothingKeptMoves
    <3>1. ~Danger(e) /\ e \in Items
      BY <2>1 DEF Fit
    <3>2. /\ e # ScanRoot /\ \A d \in Isolated : e \notin Taken(d)
          /\ Taken(e) \cap world.mounted = {} /\ Taken(e) \cap world.own = {}
      BY <3>1 DEF Danger
    <3>3. ScanRoot \notin Taken(e)
      <4>1. e \in Inside[ScanRoot] /\ ScanRoot \notin Inside[ScanRoot] /\ Inside[e] \subseteq Inside[ScanRoot]
        BY <3>1, <3>2, PlanAssumption
      <4> QED BY <3>2, <4>1 DEF Taken
    <3> QED BY <3>2, <3>3
  <2> QED BY <2>2, <2>3, <2>4 DEF PlansDoNotOverlap
<1> QED BY <1>1, PlansInvariant, PTL

-----------------------------------------------------------------------------
(* Who is charged for shared blocks: sums of what may be unavailable.      *)

LEMMA AvailableIsSum ==
  ASSUME NEW f, NEW S
  PROVE  SumAvailable(f, S) =
           IF \E x \in S : f[x] = Unavailable THEN Unavailable ELSE Sum(f, S)
BY DEF SumAvailable, MapThenSumSet, MapThenFoldSet, Sum, Adder, Adds, Pick

LEMMA AvailableNumbers ==
  ASSUME NEW f, NEW S, IsFiniteSet(S), \A x \in S : f[x] \in Nat
  PROVE  SumAvailable(f, S) = Sum(f, S) /\ Sum(f, S) \in Nat
<1>1. ~ (\E x \in S : f[x] = Unavailable)
  BY DEF Unavailable
<1> DEFINE g == [x \in S |-> f[x]]
<1>2. g \in [S -> Nat] /\ \A x \in S : f[x] = g[x]
  OBVIOUS
<1> HIDE DEF g
<1>3. Sum(f, S) = Sum(g, S)
  BY <1>2, SumAgree
<1>4. Sum(g, S) \in Nat
  BY <1>2, SumIsNumber
<1> QED BY <1>1, <1>3, <1>4, AvailableIsSum

LEMMA AvailableAgree ==
  ASSUME NEW f, NEW g, NEW S, IsFiniteSet(S), \A x \in S : f[x] = g[x]
  PROVE  SumAvailable(f, S) = SumAvailable(g, S)
<1>1. Sum(f, S) = Sum(g, S)
  BY SumAgree
<1> QED BY <1>1, AvailableIsSum

\* The sum over a set in parts is the sum of the sums over the parts.
LEMMA SumOfParts ==
  ASSUME NEW S, IsFiniteSet(S), NEW D, IsFiniteSet(D), NEW W \in [D -> Nat],
         NEW P \in [S -> SUBSET D],
         \A x, y \in S : x # y => P[x] \cap P[y] = {},
         NEW V, \A x \in S : V[x] = Sum(W, P[x])
  PROVE  Sum(V, S) = Sum(W, UNION {P[x] : x \in S})
<1> DEFINE All(U) == UNION {P[x] : x \in U}
           Bad == {U \in SUBSET S : Sum(V, U) # Sum(W, All(U))}
<1>0. SUFFICES ASSUME Bad # {} PROVE FALSE
  OBVIOUS
<1>1. PICK U \in Bad : \A X \in SUBSET S : X \subseteq U /\ X # U => X \notin Bad
  <2>1. Bad \subseteq SUBSET S
    OBVIOUS
  <2> HIDE DEF Bad
  <2> QED BY <1>0, <2>1, LeastBad
<1>2. U \in SUBSET S /\ Sum(V, U) # Sum(W, All(U)) /\ IsFiniteSet(U)
  BY FS_Subset
<1>3. U # {}
  <2> SUFFICES ASSUME U = {} PROVE FALSE
    OBVIOUS
  <2>1. All(U) = {}
    OBVIOUS
  <2> HIDE DEF All
  <2> QED BY <1>2, <2>1, SumOfNone
<1>4. PICK a \in U : TRUE
  BY <1>3
<1> DEFINE X == U \ {a}
<1>5. X \in SUBSET S /\ Sum(V, X) = Sum(W, All(X))
  <2>1. X \in SUBSET S /\ X \subseteq U /\ X # U
    BY <1>2, <1>4
  <2>2. X \notin Bad
    BY <1>1, <2>1
  <2> QED BY <2>1, <2>2
<1>6. All(U) = P[a] \cup All(X) /\ P[a] \cap All(X) = {}
  BY <1>2, <1>4
<1>7. P[a] \in SUBSET D /\ All(X) \in SUBSET D /\ a \in S
  BY <1>2, <1>4
<1> HIDE DEF All, Bad, X
<1>8. IsFiniteSet(P[a]) /\ IsFiniteSet(All(X))
  BY <1>7, FS_Subset
<1>9. Sum(W, All(U)) = Sum(W, P[a]) + Sum(W, All(X))
  BY <1>6, <1>7, <1>8, SumJoin
<1>10. Sum(V, U) = V[a] + Sum(V, X)
  <2> DEFINE g == [x \in S |-> V[x]]
  <2>1. ASSUME NEW x \in S PROVE V[x] \in Nat
    <3>1. P[x] \in SUBSET D /\ IsFiniteSet(P[x])
      BY FS_Subset
    <3> QED BY <3>1, SumIsNumber
  <2>2. g \in [S -> Nat] /\ \A x \in S : V[x] = g[x]
    BY <2>1
  <2> HIDE DEF g
  <2>3. IsFiniteSet(X) /\ X = U \ {a}
    BY <1>2, FS_Subset DEF X
  <2>4. Sum(V, U) = Sum(g, U) /\ Sum(V, X) = Sum(g, X) /\ V[a] = g[a]
    <3>1. \A x \in U : V[x] = g[x]
      BY <2>2, <1>2
    <3>2. \A x \in X : V[x] = g[x]
      BY <2>2, <1>5
    <3> QED BY <3>1, <3>2, <2>2, <2>3, <1>2, <1>7, SumAgree
  <2>5. Sum(g, U) = g[a] + Sum(g, U \ {a})
    BY <2>2, <1>2, <1>4, SumWithout
  <2> QED BY <2>3, <2>4, <2>5
<1> QED BY <1>2, <1>5, <1>7, <1>9, <1>10

LEMMA SumOfZeros ==
  ASSUME NEW W, NEW S, IsFiniteSet(S), \A x \in S : W[x] = 0
  PROVE  Sum(W, S) = 0
<1> DEFINE Bad == {U \in SUBSET S : Sum(W, U) # 0}
<1>0. SUFFICES ASSUME Bad # {} PROVE FALSE
  OBVIOUS
<1>1. PICK U \in Bad : \A X \in SUBSET S : X \subseteq U /\ X # U => X \notin Bad
  <2>1. Bad \subseteq SUBSET S
    OBVIOUS
  <2> HIDE DEF Bad
  <2> QED BY <1>0, <2>1, LeastBad
<1>2. U \in SUBSET S /\ Sum(W, U) # 0 /\ IsFiniteSet(U)
  BY FS_Subset
<1>3. U # {}
  BY <1>2, SumOfNone
<1>4. Pick(U) \in U /\ U \ {Pick(U)} # U
  BY <1>3, Picked
<1>5. Sum(W, U \ {Pick(U)}) = 0
  <2>1. U \ {Pick(U)} \notin Bad /\ U \ {Pick(U)} \in SUBSET S
    BY <1>1, <1>2, <1>4
  <2> QED BY <2>1
<1>6. Sum(W, U) = W[Pick(U)] + Sum(W, U \ {Pick(U)})
  BY <1>2, <1>3, SumPicked
<1> QED BY <1>2, <1>4, <1>5, <1>6

-----------------------------------------------------------------------------
(* The directories in a directory.                                         *)

LEMMA InFoldItself ==
  ASSUME NEW d \in Folds
  PROVE  d \in InFold(d) /\ InFold(d) \subseteq Folds
BY DEF InFold

LEMMA InFoldClosed ==
  ASSUME NEW d, NEW b \in Folds \ {Top_}, UpOf[b] \in InFold(d)
  PROVE  b \in InFold(d)
BY DEF InFold

LEMMA InFoldLeast ==
  ASSUME NEW d \in Folds, NEW S \in SUBSET Folds, d \in S,
         \A b \in Folds \ {Top_} : UpOf[b] \in S => b \in S
  PROVE  InFold(d) \subseteq S
BY DEF InFold

\* What holds of the root and passes on to what is in a directory holds of all.
LEMMA DownFolds ==
  ASSUME NEW S \in SUBSET Folds, Top_ \in S,
         \A b \in Folds \ {Top_} : UpOf[b] \in S => b \in S
  PROVE  S = Folds
<1>1. InFold(Top_) = Folds /\ Top_ \in Folds
  BY AccountingAssumption DEF AccountingAssumption
<1> QED BY <1>1, InFoldLeast

LEMMA InFoldThrough ==
  ASSUME NEW d \in Folds, NEW e \in InFold(d)
  PROVE  InFold(e) \subseteq InFold(d)
<1>1. e \in Folds /\ InFold(d) \in SUBSET Folds
  BY InFoldItself
<1> QED BY <1>1, InFoldLeast, InFoldClosed

\* One comes into a directory through the one above.
LEMMA InFoldUp ==
  ASSUME NEW d \in Folds, NEW b \in InFold(d), b # d
  PROVE  b \in Folds \ {Top_} /\ UpOf[b] \in InFold(d)
<1> DEFINE S == {x \in InFold(d) : x = d \/ (x # Top_ /\ UpOf[x] \in InFold(d))}
<1>1. S \in SUBSET Folds /\ d \in S
  BY InFoldItself
<1>2. \A x \in Folds \ {Top_} : UpOf[x] \in S => x \in S
  BY InFoldClosed
<1> HIDE DEF S
<1>3. InFold(d) \subseteq S
  BY <1>1, <1>2, InFoldLeast
<1> QED BY <1>3, <1>1 DEF S

LEMMA RootInNone ==
  ASSUME NEW d \in Folds, Top_ \in InFold(d)
  PROVE  d = Top_
BY InFoldUp

\* No directory is in one that is in it.
LEMMA NoFoldLoop ==
  ASSUME NEW d \in Folds, NEW e \in SubFolds(d)
  PROVE  d \notin InFold(e)
<1> DEFINE S == {x \in Folds : \A y \in SubFolds(x) : x \notin InFold(y)}
<1>1. Top_ \in S
  <2>1. Top_ \in Folds
    BY AccountingAssumption DEF AccountingAssumption
  <2> QED BY <2>1, RootInNone DEF SubFolds
<1>2. ASSUME NEW b \in Folds \ {Top_}, UpOf[b] \in S, NEW y \in SubFolds(b), b \in InFold(y)
      PROVE  FALSE
  <2> DEFINE u == UpOf[b]
  <2>1. u \in Folds /\ b \in SubFolds(u) /\ u \notin InFold(b)
    BY <1>2 DEF SubFolds
  <2>2. y \in Folds \ {Top_} /\ UpOf[y] = b
    BY DEF SubFolds
  <2>3. CASE b = y
    BY <2>1, <2>2, <2>3, InFoldItself
  <2>4. CASE b # y
    <3>1. u \in InFold(y)
      BY <2>2, <2>4, <1>2, InFoldUp
    <3>2. y \in InFold(b)
      BY <2>2, InFoldItself, InFoldClosed
    <3>3. u \in InFold(b)
      BY <3>1, <3>2, InFoldThrough
    <3> QED BY <3>3, <2>1
  <2> QED BY <2>3, <2>4
<1>3. \A b \in Folds \ {Top_} : UpOf[b] \in S => b \in S
  BY <1>2
<1>4. S \in SUBSET Folds
  OBVIOUS
<1> HIDE DEF S
<1>5. S = Folds
  BY <1>1, <1>3, <1>4, DownFolds
<1> QED BY <1>5 DEF S

LEMMA FoldsApart ==
  ASSUME NEW d \in Folds, NEW e \in SubFolds(d), NEW f \in SubFolds(d), e # f
  PROVE  InFold(e) \cap InFold(f) = {}
<1>1. /\ e \in Folds \ {Top_} /\ f \in Folds \ {Top_} /\ UpOf[e] = d /\ UpOf[f] = d
      /\ d \notin InFold(e) /\ d \notin InFold(f)
  BY NoFoldLoop DEF SubFolds
<1> DEFINE S == {x \in Folds : x \notin InFold(e) \cap InFold(f)}
<1>2. Top_ \in S
  BY <1>1, RootInNone, AccountingAssumption DEF AccountingAssumption
<1>3. ASSUME NEW b \in Folds \ {Top_}, UpOf[b] \in S, b \notin S
      PROVE  FALSE
  <2>1. b \in InFold(e) /\ b \in InFold(f)
    BY <1>3
  <2>2. b # e /\ b # f
    BY <2>1, <1>1, InFoldUp
  <2>3. UpOf[b] \in InFold(e) \cap InFold(f)
    BY <2>1, <2>2, <1>1, InFoldUp
  <2> QED BY <2>3, <1>3
<1>4. S \in SUBSET Folds
  OBVIOUS
<1> HIDE DEF S
<1>5. S = Folds
  BY <1>2, <1>3, <1>4, DownFolds
<1>6. InFold(e) \subseteq Folds
  BY <1>1, InFoldItself
<1> QED BY <1>5, <1>6 DEF S

LEMMA InFoldParts ==
  ASSUME NEW d \in Folds
  PROVE  /\ InFold(d) = {d} \cup UNION {InFold(e) : e \in SubFolds(d)}
         /\ d \notin UNION {InFold(e) : e \in SubFolds(d)}
         /\ SubFolds(d) \subseteq Folds
<1> DEFINE U == {d} \cup UNION {InFold(e) : e \in SubFolds(d)}
<1>1. SubFolds(d) \subseteq Folds
  BY DEF SubFolds
<1>2. U \in SUBSET Folds /\ d \in U
  BY <1>1, InFoldItself
<1>3. ASSUME NEW b \in Folds \ {Top_}, UpOf[b] \in U PROVE b \in U
  <2>1. CASE UpOf[b] = d
    <3>1. b \in SubFolds(d) /\ b \in InFold(b)
      BY <2>1, InFoldItself DEF SubFolds
    <3> QED BY <3>1
  <2>2. CASE UpOf[b] # d
    <3>1. PICK e \in SubFolds(d) : UpOf[b] \in InFold(e)
      BY <1>3, <2>2
    <3>2. b \in InFold(e)
      BY <3>1, InFoldClosed
    <3> QED BY <3>2
  <2> QED BY <2>1, <2>2
<1>4. U \subseteq InFold(d)
  <2>1. ASSUME NEW e \in SubFolds(d) PROVE InFold(e) \subseteq InFold(d)
    <3>1. e \in InFold(d)
      BY InFoldItself, InFoldClosed DEF SubFolds
    <3> QED BY <3>1, InFoldThrough
  <2>2. d \in InFold(d)
    BY InFoldItself
  <2> QED BY <2>1, <2>2
<1>5. d \notin UNION {InFold(e) : e \in SubFolds(d)}
  BY NoFoldLoop
<1> HIDE DEF U
<1>6. InFold(d) \subseteq U
  BY <1>2, <1>3, InFoldLeast
<1> QED BY <1>1, <1>4, <1>5, <1>6 DEF U

-----------------------------------------------------------------------------
(* The totals of a tree.                                                   *)

\* What a directory's total is computed from.
StepOf(own, total, d) ==
  IF own[d] = Unavailable THEN Unavailable
  ELSE LET below == SumAvailable([e \in SubFolds(d) |-> total[e]], SubFolds(d))
       IN IF below = Unavailable THEN Unavailable ELSE own[d] + below
IsTotal(own, total) == total = [d \in Folds |-> StepOf(own, total, d)]

\* And what it comes to.
Whole(own) == [d \in Folds |-> SumAvailable(own, InFold(d))]

LEMMA SubFoldsFinite ==
  ASSUME NEW d \in Folds
  PROVE  IsFiniteSet(SubFolds(d)) /\ IsFiniteSet(InFold(d)) /\ IsFiniteSet(Folds)
<1>1. SubFolds(d) \subseteq Folds /\ InFold(d) \subseteq Folds
  BY InFoldItself DEF SubFolds
<1>2. IsFiniteSet(Folds)
  BY AccountingAssumption DEF AccountingAssumption
<1> QED BY <1>1, <1>2, FS_Subset

\* A total is unavailable only where a part is.
LEMMA WholeUnavailable ==
  ASSUME NEW own, \A e \in Folds : own[e] \in Nat \cup {Unavailable}, NEW d \in Folds
  PROVE  Whole(own)[d] = Unavailable <=> \E e \in InFold(d) : own[e] = Unavailable
<1>1. IsFiniteSet(InFold(d)) /\ InFold(d) \subseteq Folds
  BY SubFoldsFinite, InFoldItself
<1>2. Whole(own)[d] = SumAvailable(own, InFold(d))
  BY DEF Whole
<1>3. CASE \E e \in InFold(d) : own[e] = Unavailable
  BY <1>2, <1>3, AvailableIsSum
<1>4. CASE ~ (\E e \in InFold(d) : own[e] = Unavailable)
  <2>1. \A e \in InFold(d) : own[e] \in Nat
    BY <1>1, <1>4
  <2>2. Whole(own)[d] \in Nat
    BY <1>1, <1>2, <2>1, AvailableNumbers
  <2> QED BY <2>2, <1>4 DEF Unavailable
<1> QED BY <1>3, <1>4

LEMMA WholeIsTotal ==
  ASSUME NEW own, \A e \in Folds : own[e] \in Nat \cup {Unavailable}
  PROVE  IsTotal(own, Whole(own))
<1> DEFINE w == Whole(own)
<1>1. ASSUME NEW d \in Folds PROVE w[d] = StepOf(own, w, d)
  <2> DEFINE S == SubFolds(d)
             I == InFold(d)
             f == [e \in S |-> w[e]]
             below == SumAvailable(f, S)
  <2>1. /\ IsFiniteSet(S) /\ IsFiniteSet(I) /\ S \subseteq Folds /\ I \subseteq Folds /\ d \in I
        /\ I = {d} \cup UNION {InFold(e) : e \in S} /\ d \notin UNION {InFold(e) : e \in S}
    BY SubFoldsFinite, InFoldItself, InFoldParts
  <2>2. StepOf(own, w, d) = IF own[d] = Unavailable THEN Unavailable
                            ELSE IF below = Unavailable THEN Unavailable ELSE own[d] + below
    BY DEF StepOf
  <2>3. CASE own[d] = Unavailable
    <3>1. w[d] = Unavailable
      BY <2>1, <2>3, WholeUnavailable
    <3> QED BY <3>1, <2>2, <2>3
  <2>4. CASE own[d] # Unavailable /\ \E e \in S : w[e] = Unavailable
    <3>1. PICK e \in S : w[e] = Unavailable
      BY <2>4
    <3>2. PICK x \in InFold(e) : own[x] = Unavailable
      BY <3>1, <2>1, WholeUnavailable
    <3>3. x \in I
      BY <2>1
    <3>4. w[d] = Unavailable
      BY <3>2, <3>3, WholeUnavailable
    <3>5. below = Unavailable
      <4>1. f[e] = Unavailable
        BY <3>1
      <4> HIDE DEF f
      <4> QED BY <4>1, AvailableIsSum
    <3> QED BY <3>4, <3>5, <2>2, <2>4
  <2>5. CASE own[d] # Unavailable /\ ~ (\E e \in S : w[e] = Unavailable)
    <3>1. \A e \in I : own[e] # Unavailable
      <4>1. ASSUME NEW e \in S, NEW x \in InFold(e) PROVE own[x] # Unavailable
        BY <2>1, <2>5, WholeUnavailable
      <4> QED BY <4>1, <2>1, <2>5
    <3>2. \A e \in I : own[e] \in Nat
      BY <3>1, <2>1
    <3> DEFINE W == [e \in I |-> own[e]]
               P == [e \in S |-> InFold(e)]
    <3>3. W \in [I -> Nat] /\ \A e \in I : W[e] = own[e]
      BY <3>2
    <3>4. P \in [S -> SUBSET I] /\ \A x, y \in S : x # y => P[x] \cap P[y] = {}
      <4>1. \A e \in S : InFold(e) \in SUBSET I
        BY <2>1
      <4> QED BY <4>1, FoldsApart
    <3>5. ASSUME NEW e \in S PROVE f[e] = Sum(W, P[e])
      <4>1. InFold(e) \subseteq I /\ e \in Folds /\ IsFiniteSet(InFold(e))
        BY <2>1, SubFoldsFinite
      <4>2. \A x \in InFold(e) : own[x] \in Nat /\ own[x] = W[x]
        BY <4>1, <3>2, <3>3
      <4> HIDE DEF W
      <4>3. SumAvailable(own, InFold(e)) = Sum(own, InFold(e))
        BY <4>1, <4>2, AvailableNumbers
      <4>4. Sum(own, InFold(e)) = Sum(W, InFold(e))
        BY <4>1, <4>2, SumAgree
      <4>5. f[e] = SumAvailable(own, InFold(e))
        BY <4>1 DEF Whole
      <4> QED BY <4>3, <4>4, <4>5
    <3>6. UNION {P[e] : e \in S} = UNION {InFold(e) : e \in S}
      OBVIOUS
    <3> HIDE DEF W, P
    <3>7. Sum(f, S) = Sum(W, I \ {d})
      <4>1. Sum(f, S) = Sum(W, UNION {P[e] : e \in S})
        <5> HIDE DEF f, S, I
        <5> QED BY <2>1, <3>3, <3>4, <3>5, SumOfParts
      <4>2. I \ {d} = UNION {InFold(e) : e \in S}
        BY <2>1
      <4> QED BY <4>1, <4>2, <3>6
    <3>8. below = Sum(f, S) /\ Sum(f, S) \in Nat
      <4>1. ASSUME NEW e \in S PROVE f[e] \in Nat
        <5>1. P[e] \in SUBSET I /\ IsFiniteSet(P[e])
          BY <3>4, <2>1, FS_Subset
        <5>2. Sum(W, P[e]) \in Nat
          <6> HIDE DEF I
          <6> QED BY <5>1, <3>3, SumIsNumber
        <5> QED BY <5>2, <3>5
      <4> HIDE DEF f, S
      <4> QED BY <4>1, <2>1, AvailableNumbers
    <3>9. w[d] = own[d] + Sum(W, I \ {d})
      <4>1. w[d] = Sum(own, I)
        <5>1. w[d] = SumAvailable(own, I)
          BY DEF Whole
        <5> HIDE DEF w, I
        <5> QED BY <5>1, <2>1, <3>2, AvailableNumbers
      <4>2. Sum(own, I) = Sum(W, I)
        <5> HIDE DEF I
        <5> QED BY <2>1, <3>3, SumAgree
      <4>3. Sum(W, I) = W[d] + Sum(W, I \ {d})
        <5> HIDE DEF I
        <5>1. I \in SUBSET I
          OBVIOUS
        <5> QED BY <5>1, <2>1, <3>3, SumWithout
      <4> QED BY <4>1, <4>2, <4>3, <3>3, <2>1
    <3>10. below # Unavailable
      BY <3>8 DEF Unavailable
    <3> HIDE DEF below, f, w, I, S
    <3> QED BY <2>2, <2>5, <3>7, <3>8, <3>9, <3>10
  <2> QED BY <2>3, <2>4, <2>5
<1>2. w = [d \in Folds |-> w[d]]
  BY DEF Whole
<1> HIDE DEF w
<1>3. w = [d \in Folds |-> StepOf(own, w, d)]
  BY <1>1, <1>2
<1> QED BY <1>3 DEF IsTotal, w

\* There is one such function.
LEMMA TotalIsWhole ==
  ASSUME NEW own, \A e \in Folds : own[e] \in Nat \cup {Unavailable},
         NEW total, IsTotal(own, total)
  PROVE  total = Whole(own)
<1> DEFINE w == Whole(own)
           Bad == {InFold(d) : d \in {e \in Folds : total[e] # w[e]}}
<1>1. /\ \A d \in Folds : w[d] = StepOf(own, w, d) /\ total[d] = StepOf(own, total, d)
      /\ w = [d \in Folds |-> w[d]] /\ total = [d \in Folds |-> total[d]]
  <2>1. IsTotal(own, w)
    BY WholeIsTotal
  <2> HIDE DEF w
  <2> QED BY <2>1 DEF IsTotal
<1>2. SUFFICES ASSUME Bad # {} PROVE FALSE
  <2>1. \A d \in Folds : total[d] = w[d]
    BY <1>2
  <2> QED BY <2>1, <1>1
<1>3. PICK U \in Bad : \A V \in SUBSET Folds : V \subseteq U /\ V # U => V \notin Bad
  <2>1. Bad \subseteq SUBSET Folds /\ IsFiniteSet(Folds)
    BY InFoldItself, AccountingAssumption DEF AccountingAssumption
  <2> HIDE DEF Bad
  <2> QED BY <1>2, <2>1, LeastBad
<1>4. PICK d \in Folds : U = InFold(d) /\ total[d] # w[d]
  BY <1>3
<1>5. ASSUME NEW e \in SubFolds(d) PROVE total[e] = w[e]
  <2>1. e \in Folds /\ InFold(e) \in SUBSET Folds /\ InFold(e) \subseteq U /\ InFold(e) # U
    BY <1>4, InFoldItself, InFoldParts, NoFoldLoop
  <2>2. InFold(e) \notin Bad
    BY <1>3, <2>1
  <2> QED BY <2>1, <2>2
<1>6. [e \in SubFolds(d) |-> total[e]] = [e \in SubFolds(d) |-> w[e]]
  BY <1>5
<1>7. StepOf(own, total, d) = StepOf(own, w, d)
  BY <1>6 DEF StepOf
<1> QED BY <1>1, <1>4, <1>7

-----------------------------------------------------------------------------
(* What a scan has read, and what its books say of it.                     *)

AccountSpec == AccountInit /\ [][AccountNext]_accountVars

Entries == [file : Inodes \cup {NoName}, links : Nat]
Walks == [leaf : [Leaves -> Entries], own : [Folds -> Int], found : SUBSET Folds,
          done : SUBSET Folds, hardlinked : BOOLEAN, blocks : BOOLEAN]
WalkTyped ==
  /\ named \in [Leaves -> Inodes \cup {NoName}] /\ outer \in [Inodes -> {0, 1}]
  /\ walked \in Walks

\* A leaf was read with its file, and a file has a name.
LeafRead(w) ==
  \A p \in Leaves : w.leaf[p] # Unread => w.leaf[p].file \in Inodes /\ w.leaf[p].links >= 1
\* What was read of a file whose names stay is still so.
SteadyLeaves ==
  \A p \in Leaves : InTree(p) /\ walked.leaf[p].file \notin stirred => walked.leaf[p] = Stat(p)
\* Every hard link that was read was noticed.
Noticed(w) == ~w.hardlinked => \A p \in Leaves : w.leaf[p].links <= 1
\* A directory's own blocks are those of its leaves and, once it was read, one more.
BlocksOf(w) ==
  [p \in Leaves |-> IF w.leaf[p] = Unread THEN 0 ELSE IF w.blocks THEN 1 ELSE Unavailable]
OwnBlocks(w, d) ==
  IF ~w.blocks /\ d \in w.done THEN Unavailable
  ELSE SumAvailable(BlocksOf(w), LeavesOf(d)) + (IF d \in w.done THEN 1 ELSE 0)
OwnKept(w) == \A d \in Folds : w.own[d] = OwnBlocks(w, d)

WalkKept(w) == LeafRead(w) /\ Noticed(w) /\ OwnKept(w)
AccountInv == WalkTyped /\ SteadyLeaves /\ WalkKept(walked)

LEMMA LeavesFinite ==
  ASSUME NEW S \in SUBSET Leaves
  PROVE  IsFiniteSet(S)
BY FS_Subset, AccountingAssumption DEF AccountingAssumption

LEMMA LeavesOfApart ==
  ASSUME NEW d \in Folds
  PROVE  /\ LeavesOf(d) \in SUBSET Leaves /\ IsFiniteSet(LeavesOf(d))
         /\ \A p \in Leaves : p \in LeavesOf(d) <=> HomeOf[p] = d
BY LeavesFinite DEF LeavesOf

LEMMA StatSound ==
  ASSUME WalkTyped, NEW p \in Leaves, named[p] # NoName
  PROVE  /\ Stat(p) \in Entries /\ Stat(p) # Unread /\ Stat(p).file = named[p]
         /\ Stat(p).file \in Inodes /\ Stat(p).links >= 1 /\ Stat(p).links \in Nat
<1> DEFINE f == named[p]
           N == NamesOf(f)
<1>1. f \in Inodes /\ outer[f] \in {0, 1}
  BY DEF WalkTyped
<1>2. p \in N /\ N \in SUBSET Leaves
  BY DEF NamesOf
<1>3. Cardinality(N) \in Nat /\ Cardinality(N) # 0
  BY <1>2, LeavesFinite, FS_CardinalityType, FS_EmptySet
<1>4. Stat(p) = [file |-> f, links |-> Cardinality(N) + outer[f]]
  BY DEF Stat
<1> HIDE DEF f, N
<1>5. Cardinality(N) + outer[f] \in Nat /\ Cardinality(N) + outer[f] >= 1
  BY <1>1, <1>3
<1>6. f = named[p]
  BY DEF f
<1> QED BY <1>1, <1>4, <1>5, <1>6 DEF Entries, Unread

LEMMA AccountStarts == AccountInit => AccountInv
<1> SUFFICES ASSUME AccountInit PROVE AccountInv
  OBVIOUS
<1>1. PICK b \in BOOLEAN :
        walked = [leaf |-> [p \in Leaves |-> Unread], own |-> [d \in Folds |-> 0],
                  found |-> {Top_}, done |-> {}, hardlinked |-> FALSE, blocks |-> b]
  BY DEF AccountInit
<1>2. WalkTyped
  <2>1. Unread \in Entries
    BY DEF Unread, Entries
  <2>2. Top_ \in Folds
    BY AccountingAssumption DEF AccountingAssumption
  <2> QED BY <1>1, <2>1, <2>2 DEF AccountInit, WalkTyped, Walks
<1>3. SteadyLeaves /\ LeafRead(walked) /\ Noticed(walked)
  BY <1>1 DEF SteadyLeaves, InTree, LeafRead, Noticed, Unread
<1>4. ASSUME NEW d \in Folds PROVE walked.own[d] = OwnBlocks(walked, d)
  <2>1. \A p \in LeavesOf(d) : BlocksOf(walked)[p] = 0
    BY <1>1, LeavesOfApart DEF BlocksOf
  <2>2. SumAvailable(BlocksOf(walked), LeavesOf(d)) = 0
    BY <2>1, LeavesOfApart, AvailableNumbers, SumOfZeros
  <2> QED BY <1>1, <2>2 DEF OwnBlocks
<1> QED BY <1>2, <1>3, <1>4 DEF AccountInv, WalkKept, OwnKept

\* A directory's own blocks depend on its leaves only.
LEMMA OwnElsewhere ==
  ASSUME NEW w, NEW v, NEW d \in Folds, w.blocks = v.blocks,
         d \in w.done <=> d \in v.done, \A p \in LeavesOf(d) : w.leaf[p] = v.leaf[p]
  PROVE  OwnBlocks(w, d) = OwnBlocks(v, d)
<1>1. \A p \in LeavesOf(d) : BlocksOf(w)[p] = BlocksOf(v)[p]
  BY LeavesOfApart DEF BlocksOf
<1>2. SumAvailable(BlocksOf(w), LeavesOf(d)) = SumAvailable(BlocksOf(v), LeavesOf(d))
  BY <1>1, LeavesOfApart, AvailableAgree
<1> QED BY <1>2 DEF OwnBlocks

\* Reading leaves of one directory, whatever is read of them.
LEMMA ReadKeeps ==
  ASSUME AccountInv, NEW d \in Folds, d \notin walked.done,
         NEW leaf \in [Leaves -> Entries],
         \A p \in Leaves : \/ leaf[p] = walked.leaf[p]
                           \/ p \in LeavesOf(d) /\ named[p] # NoName /\ leaf[p] = Stat(p),
         walked' \in Walks, walked'.leaf = leaf, walked'.blocks = walked.blocks,
         walked'.done \in {walked.done, walked.done \cup {d}},
         ~walked'.hardlinked =>
           /\ ~walked.hardlinked
           /\ \A p \in LeavesOf(d) : leaf[p] # walked.leaf[p] => ~ (leaf[p].links > 1),
         \A e \in Folds \ {d} : walked'.own[e] = walked.own[e],
         walked'.own[d] = OwnBlocks(walked', d),
         UNCHANGED <<named, outer, stirred>>
  PROVE  AccountInv'
<1>1. WalkTyped /\ LeafRead(walked) /\ Noticed(walked) /\ OwnKept(walked) /\ SteadyLeaves
  BY DEF AccountInv, WalkKept
<1>2. WalkTyped'
  BY <1>1 DEF WalkTyped
<1>3. LeafRead(walked')
  <2> SUFFICES ASSUME NEW p \in Leaves, leaf[p] # Unread
               PROVE  leaf[p].file \in Inodes /\ leaf[p].links >= 1
    BY DEF LeafRead
  <2>1. CASE leaf[p] = walked.leaf[p]
    BY <1>1, <2>1 DEF LeafRead
  <2>2. CASE named[p] # NoName /\ leaf[p] = Stat(p)
    BY <1>1, <2>2, StatSound
  <2> QED BY <2>1, <2>2
<1>4. \A p \in Leaves : Stat(p)' = Stat(p)
  BY DEF Stat, NamesOf
<1>5. SteadyLeaves'
  <2> SUFFICES ASSUME NEW p \in Leaves, leaf[p] # Unread, leaf[p].file \notin stirred
               PROVE  leaf[p] = Stat(p)
    BY <1>4 DEF SteadyLeaves, InTree
  <2> QED BY <1>1 DEF SteadyLeaves, InTree
<1>6. Noticed(walked')
  <2> SUFFICES ASSUME ~walked'.hardlinked, NEW p \in Leaves PROVE leaf[p].links <= 1
    BY DEF Noticed
  <2>1. CASE leaf[p] = walked.leaf[p]
    BY <1>1, <2>1 DEF Noticed
  <2>2. CASE leaf[p] # walked.leaf[p]
    <3>1. p \in LeavesOf(d) /\ ~ (leaf[p].links > 1)
      BY <2>2
    <3>2. leaf[p].links \in Nat
      BY DEF Entries
    <3> DEFINE n == leaf[p].links
    <3> HIDE DEF n
    <3>3. n \in Nat /\ ~ (n > 1) => n <= 1
      OBVIOUS
    <3> QED BY <3>1, <3>2, <3>3 DEF n
  <2> QED BY <2>1, <2>2
<1>7. ASSUME NEW e \in Folds, e # d PROVE walked'.own[e] = OwnBlocks(walked', e)
  <2>1. \A p \in LeavesOf(e) : leaf[p] = walked.leaf[p]
    BY <1>7, LeavesOfApart
  <2>2. e \in walked'.done <=> e \in walked.done
    BY <1>7
  <2>3. OwnBlocks(walked', e) = OwnBlocks(walked, e)
    BY <2>1, <2>2, OwnElsewhere
  <2> QED BY <1>1, <1>7, <2>3 DEF OwnKept
<1>8. OwnKept(walked')
  BY <1>7 DEF OwnKept
<1>9. WalkKept(walked)'
  BY <1>3, <1>6, <1>8 DEF WalkKept
<1> QED BY <1>2, <1>5, <1>9 DEF AccountInv

LEMMA LinksKeep ==
  ASSUME AccountInv, NEW q \in Leaves, NEW f \in Inodes, Links(q, f)
  PROVE  AccountInv'
<1>1. WalkTyped /\ SteadyLeaves
  BY DEF AccountInv
<1>2. /\ walked' = walked /\ outer' = outer /\ stirred' = stirred \cup {f}
      /\ f # NoName
      /\ \E g \in {f, NoName} : named[q] \in {f, NoName} /\ named' = [named EXCEPT ![q] = g]
  BY AccountingAssumption DEF Links, AccountingAssumption
<1>3. WalkTyped'
  BY <1>1, <1>2 DEF WalkTyped
<1>4. SteadyLeaves'
  <2> SUFFICES ASSUME NEW p \in Leaves, InTree(p), walked.leaf[p].file \notin stirred'
               PROVE  walked.leaf[p] = Stat(p)'
    BY <1>2 DEF SteadyLeaves, InTree
  <2> DEFINE h == walked.leaf[p].file
  <2>1. walked.leaf[p] = Stat(p) /\ h \notin stirred /\ h # f
    BY <1>1, <1>2 DEF SteadyLeaves
  <2>2. named[p] = h /\ h \in Inodes
    BY <2>1, <1>1 DEF Stat, AccountInv, WalkKept, LeafRead, InTree
  <2>3. h # NoName
    BY <2>2, AccountingAssumption DEF AccountingAssumption
  <2>4. \A r \in Leaves : named'[r] = h <=> named[r] = h
    BY <1>1, <1>2, <2>1, <2>3 DEF WalkTyped
  <2>5. {r \in Leaves : named'[r] = h} = {r \in Leaves : named[r] = h}
    BY <2>4
  <2>6. named'[p] = h
    BY <2>2, <2>4
  <2> HIDE DEF h
  <2>7. Stat(p) = [file |-> h, links |-> Cardinality({r \in Leaves : named[r] = h}) + outer[h]]
    BY <2>2 DEF Stat, NamesOf
  <2>8. Stat(p)' = [file |-> h, links |-> Cardinality({r \in Leaves : named'[r] = h}) + outer[h]]
    BY <1>2, <2>6 DEF Stat, NamesOf
  <2> QED BY <2>1, <2>5, <2>7, <2>8
<1>5. WalkKept(walked)'
  BY <1>2 DEF AccountInv
<1> QED BY <1>3, <1>4, <1>5 DEF AccountInv

\* The books of a walk are those of its leaves.
LEMMA BooksOfLeaves ==
  ASSUME AccountInv, NEW leaf, walked'.leaf = leaf, walked'.blocks = walked.blocks
  PROVE  Allocated(leaf) = BlocksOf(walked')
BY DEF Allocated, BlocksOf

LEMMA SumTyped ==
  ASSUME NEW w, NEW S \in SUBSET Leaves
  PROVE  SumAvailable(BlocksOf(w), S) \in Nat \cup {Unavailable}
<1>1. CASE \E p \in S : BlocksOf(w)[p] = Unavailable
  BY <1>1, AvailableIsSum
<1>2. CASE ~ (\E p \in S : BlocksOf(w)[p] = Unavailable)
  <2>1. \A p \in S : BlocksOf(w)[p] \in Nat
    BY <1>2 DEF BlocksOf
  <2> QED BY <2>1, LeavesFinite, AvailableNumbers
<1> QED BY <1>1, <1>2

LEMMA OwnTyped ==
  ASSUME NEW w, NEW d \in Folds
  PROVE  OwnBlocks(w, d) \in Int
<1>1. SumAvailable(BlocksOf(w), LeavesOf(d)) \in Nat \cup {Unavailable}
  BY SumTyped, LeavesOfApart
<1> DEFINE n == SumAvailable(BlocksOf(w), LeavesOf(d))
<1>2. n \in Int
  BY <1>1 DEF Unavailable
<1>3. OwnBlocks(w, d) = IF ~w.blocks /\ d \in w.done THEN Unavailable
                        ELSE n + (IF d \in w.done THEN 1 ELSE 0)
  BY DEF OwnBlocks
<1> HIDE DEF n
<1> QED BY <1>2, <1>3 DEF Unavailable

LEMMA ChunkKeeps ==
  ASSUME AccountInv, NEW d \in Folds, NEW p \in Leaves, Chunk(d, p)
  PROVE  AccountInv'
<1> DEFINE leaf == [walked.leaf EXCEPT ![p] = Stat(p)]
           own == SumAvailable(Allocated(leaf), LeavesOf(d))
<1>1. /\ walked' = [walked EXCEPT !.leaf = leaf, !.own[d] = own,
                      !.hardlinked = @ \/ leaf[p].links > 1]
      /\ d \in walked.found \ walked.done /\ p \in LeavesOf(d) /\ named[p] # NoName
      /\ UNCHANGED <<named, outer, stirred>>
  BY DEF Chunk
<1>2. WalkTyped /\ walked \in Walks
  BY DEF AccountInv, WalkTyped
<1>3. Stat(p) \in Entries
  BY <1>1, <1>2, StatSound
<1>4. leaf \in [Leaves -> Entries] /\ leaf[p] = Stat(p)
      /\ \A q \in Leaves \ {p} : leaf[q] = walked.leaf[q]
  BY <1>2, <1>3 DEF Walks
<1> HIDE DEF leaf
<1>5. /\ walked'.leaf = leaf /\ walked'.blocks = walked.blocks /\ walked'.done = walked.done
      /\ walked'.hardlinked = (walked.hardlinked \/ leaf[p].links > 1)
      /\ walked'.own[d] = own /\ \A e \in Folds \ {d} : walked'.own[e] = walked.own[e]
  BY <1>1, <1>2 DEF Walks
<1>6. own = OwnBlocks(walked', d)
  <2>1. Allocated(leaf) = BlocksOf(walked')
    BY <1>5, BooksOfLeaves
  <2>2. OwnBlocks(walked', d) = own + 0
    BY <1>1, <1>5, <2>1 DEF OwnBlocks
  <2>3. own \in Int
    BY <2>1, SumTyped, LeavesOfApart DEF Unavailable
  <2> HIDE DEF own
  <2> QED BY <2>2, <2>3
<1>7. own \in Int
  BY <1>6, OwnTyped
<1> HIDE DEF own
<1>8. walked' \in Walks
  <2>1. (walked.hardlinked \/ leaf[p].links > 1) \in BOOLEAN
    OBVIOUS
  <2>2. [walked.own EXCEPT ![d] = own] \in [Folds -> Int]
    BY <1>2, <1>7 DEF Walks
  <2>3. walked' = [leaf |-> leaf, own |-> [walked.own EXCEPT ![d] = own],
                   found |-> walked.found, done |-> walked.done,
                   hardlinked |-> walked.hardlinked \/ leaf[p].links > 1,
                   blocks |-> walked.blocks]
    BY <1>1, <1>2 DEF Walks
  <2> QED BY <1>2, <1>4, <2>1, <2>2, <2>3 DEF Walks
<1>9. ~walked'.hardlinked =>
        /\ ~walked.hardlinked
        /\ \A q \in LeavesOf(d) : leaf[q] # walked.leaf[q] => ~ (leaf[q].links > 1)
  BY <1>4, <1>5, LeavesOfApart
<1>10. \A q \in Leaves : \/ leaf[q] = walked.leaf[q]
                         \/ q \in LeavesOf(d) /\ named[q] # NoName /\ leaf[q] = Stat(q)
  BY <1>1, <1>4
<1> QED BY <1>1, <1>4, <1>5, <1>6, <1>8, <1>9, <1>10, ReadKeeps

LEMMA ChunkFindsKeeps ==
  ASSUME AccountInv, NEW d \in Folds, ChunkFinds(d)
  PROVE  AccountInv'
<1>1. walked' = [walked EXCEPT !.found = @ \cup {d}] /\ UNCHANGED <<named, outer, stirred>>
  BY DEF ChunkFinds
<1>2. walked \in Walks /\ WalkTyped
  BY DEF AccountInv, WalkTyped
<1>3. /\ walked'.leaf = walked.leaf /\ walked'.own = walked.own /\ walked'.done = walked.done
      /\ walked'.hardlinked = walked.hardlinked /\ walked'.blocks = walked.blocks
      /\ walked' \in Walks
  BY <1>1, <1>2 DEF Walks
<1>4. WalkTyped'
  BY <1>1, <1>2, <1>3 DEF WalkTyped
<1>5. \A p \in Leaves : Stat(p)' = Stat(p)
  BY <1>1 DEF Stat, NamesOf
<1>6. SteadyLeaves'
  BY <1>1, <1>3, <1>5 DEF AccountInv, SteadyLeaves, InTree
<1>7. LeafRead(walked') /\ Noticed(walked')
  BY <1>3 DEF AccountInv, WalkKept, LeafRead, Noticed
<1>8. OwnKept(walked')
  BY <1>3, OwnElsewhere DEF AccountInv, WalkKept, OwnKept
<1>9. WalkKept(walked)'
  BY <1>7, <1>8 DEF WalkKept
<1> QED BY <1>4, <1>6, <1>9 DEF AccountInv

LEMMA ResultKeeps ==
  ASSUME AccountInv, NEW d \in Folds, Result(d)
  PROVE  AccountInv'
<1> DEFINE Read(q) == q \in LeavesOf(d) /\ ~InTree(q) /\ named[q] # NoName
           leaf == [q \in Leaves |-> IF Read(q) THEN Stat(q) ELSE walked.leaf[q]]
           sum == SumAvailable(Allocated(leaf), LeavesOf(d))
           own == IF walked.blocks THEN sum + 1 ELSE Unavailable
           linked == walked.hardlinked \/ \E p \in LeavesOf(d) : leaf[p].links > 1
<1>1. /\ walked' = [walked EXCEPT !.leaf = leaf, !.own[d] = own,
                      !.found = @ \cup SubFolds(d), !.done = @ \cup {d}, !.hardlinked = linked]
      /\ d \in walked.found \ walked.done
      /\ UNCHANGED <<named, outer, stirred>>
  BY DEF Result
<1>2. WalkTyped /\ walked \in Walks
  BY DEF AccountInv, WalkTyped
<1>3. \A q \in Leaves : Read(q) => Stat(q) \in Entries
  BY <1>2, StatSound
<1>4. /\ leaf \in [Leaves -> Entries]
      /\ \A q \in Leaves : \/ leaf[q] = walked.leaf[q]
                           \/ q \in LeavesOf(d) /\ named[q] # NoName /\ leaf[q] = Stat(q)
  BY <1>2, <1>3 DEF Walks
<1> HIDE DEF leaf
<1>5. /\ walked'.leaf = leaf /\ walked'.blocks = walked.blocks
      /\ walked'.done = walked.done \cup {d} /\ walked'.hardlinked = linked
      /\ walked'.own[d] = own /\ \A e \in Folds \ {d} : walked'.own[e] = walked.own[e]
  BY <1>1, <1>2 DEF Walks
<1>6. own = OwnBlocks(walked', d)
  <2>1. Allocated(leaf) = BlocksOf(walked')
    BY <1>5, BooksOfLeaves
  <2> QED BY <1>5, <2>1 DEF OwnBlocks
<1>7. own \in Int
  BY <1>6, OwnTyped
<1>8. SubFolds(d) \subseteq Folds
  BY DEF SubFolds
<1>9. linked \in BOOLEAN
  OBVIOUS
<1>10. ~linked => ~walked.hardlinked /\ \A p \in LeavesOf(d) : ~ (leaf[p].links > 1)
  OBVIOUS
<1> HIDE DEF own, linked
<1>11. walked' \in Walks
  <2>1. [walked.own EXCEPT ![d] = own] \in [Folds -> Int]
    BY <1>2, <1>7 DEF Walks
  <2>2. walked' = [leaf |-> leaf, own |-> [walked.own EXCEPT ![d] = own],
                   found |-> walked.found \cup SubFolds(d), done |-> walked.done \cup {d},
                   hardlinked |-> linked, blocks |-> walked.blocks]
    BY <1>1, <1>2 DEF Walks
  <2> QED BY <1>2, <1>4, <1>8, <1>9, <2>1, <2>2 DEF Walks
<1> QED BY <1>1, <1>4, <1>5, <1>6, <1>10, <1>11, ReadKeeps

LEMMA AccountKept ==
  ASSUME AccountInv, [AccountNext]_accountVars
  PROVE  AccountInv'
<1>1. ASSUME NEW p \in Leaves, NEW f \in Inodes, Links(p, f) PROVE AccountInv'
  BY <1>1, LinksKeep
<1>2. ASSUME NEW d \in Folds, NEW p \in Leaves, Chunk(d, p) PROVE AccountInv'
  BY <1>2, ChunkKeeps
<1>3. ASSUME NEW d \in Folds, Result(d) PROVE AccountInv'
  BY <1>3, ResultKeeps
<1>4. ASSUME NEW d \in Folds \ {Top_}, ChunkFinds(d) PROVE AccountInv'
  BY <1>4, ChunkFindsKeeps
<1>5. ASSUME UNCHANGED <<named, outer, stirred, walked>> PROVE AccountInv'
  <2>1. \A p \in Leaves : Stat(p)' = Stat(p)
    BY <1>5 DEF Stat, NamesOf
  <2>2. WalkTyped' /\ SteadyLeaves'
    BY <1>5, <2>1 DEF AccountInv, WalkTyped, SteadyLeaves, InTree
  <2>3. WalkKept(walked)'
    BY <1>5 DEF AccountInv
  <2> QED BY <2>2, <2>3 DEF AccountInv
<1>6. CASE Finalize
  BY <1>5, <1>6 DEF Finalize
<1>7. CASE UNCHANGED accountVars
  BY <1>5, <1>7 DEF accountVars
<1> QED BY <1>1, <1>2, <1>3, <1>4, <1>6, <1>7 DEF AccountNext

-----------------------------------------------------------------------------
(* The end of the scan.                                                    *)

\* What finalize_unique_allocated charges the paths with, and the directories.
Unique ==
  [p \in Leaves |->
     IF BlocksOf(walked)[p] = Unavailable THEN Unavailable
     ELSE IF walked.leaf[p].links > 1 /\ Owner(p) # p THEN 0 ELSE BlocksOf(walked)[p]]
OwnCharged ==
  [d \in Folds |->
     IF walked.own[d] = Unavailable THEN Unavailable
     ELSE SumAvailable(Unique, LeavesOf(d))
            + (walked.own[d] - SumAvailable(BlocksOf(walked), LeavesOf(d)))]

LEMMA FinalizedAs ==
  finalize_unique_allocated =
    [unique |-> Unique, own |-> OwnCharged, total |-> CHOOSE t : IsTotal(OwnCharged, t)]
BY DEF finalize_unique_allocated, Unique, OwnCharged, IsTotal, StepOf, Allocated, BlocksOf

IsMirrored(own, t) ==
  t = [d \in Folds |->
         LET below == SumAvailable([e \in SubFolds(d) |-> t[e]], SubFolds(d))
         IN IF Unavailable \in {own[d], below} THEN Unavailable ELSE own[d] + below]

LEMMA MirroredAs ==
  mirror_allocated_as_unique =
    [unique |-> BlocksOf(walked), own |-> walked.own,
     total |-> CHOOSE t : IsMirrored(walked.own, t)]
BY DEF mirror_allocated_as_unique, IsMirrored, Allocated, BlocksOf

LEMMA MirroredIsTotal ==
  ASSUME NEW own, NEW t
  PROVE  IsMirrored(own, t) <=> IsTotal(own, t)
<1> DEFINE m(d) == LET below == SumAvailable([e \in SubFolds(d) |-> t[e]], SubFolds(d))
                   IN IF Unavailable \in {own[d], below} THEN Unavailable ELSE own[d] + below
<1>1. \A d \in Folds : m(d) = StepOf(own, t, d)
  BY DEF StepOf
<1>2. IsMirrored(own, t) <=> t = [d \in Folds |-> m(d)]
  BY DEF IsMirrored
<1> HIDE DEF m
<1>3. [d \in Folds |-> m(d)] = [d \in Folds |-> StepOf(own, t, d)]
  BY <1>1
<1> QED BY <1>2, <1>3 DEF IsTotal

\* Both recursions come to the sum over what is in the directory.
LEMMA ChosenTotal ==
  ASSUME NEW own, \A e \in Folds : own[e] \in Nat \cup {Unavailable}
  PROVE  /\ (CHOOSE t : IsTotal(own, t)) = Whole(own)
         /\ (CHOOSE t : IsMirrored(own, t)) = Whole(own)
<1>1. IsTotal(own, Whole(own)) /\ IsMirrored(own, Whole(own))
  BY WholeIsTotal, MirroredIsTotal
<1>2. IsTotal(own, CHOOSE t : IsTotal(own, t))
  BY <1>1
<1>3. IsMirrored(own, CHOOSE t : IsMirrored(own, t))
  BY <1>1
<1>4. IsTotal(own, CHOOSE t : IsMirrored(own, t))
  BY <1>3, MirroredIsTotal
<1> QED BY <1>2, <1>4, TotalIsWhole

\* What a path is charged with, where there are block counts.
Charged ==
  [p \in Leaves |->
     IF walked.leaf[p] = Unread \/ (walked.leaf[p].links > 1 /\ Owner(p) # p) THEN 0 ELSE 1]
WithBlock(unique) ==
  [d \in Folds |-> Sum(unique, LeavesOf(d)) + (IF d \in walked.done THEN 1 ELSE 0)]

LEMMA WithBlockTyped ==
  ASSUME NEW unique \in [Leaves -> Nat]
  PROVE  WithBlock(unique) \in [Folds -> Nat]
<1>1. ASSUME NEW d \in Folds PROVE Sum(unique, LeavesOf(d)) \in Nat
  BY LeavesOfApart, SumIsNumber
<1> QED BY <1>1 DEF WithBlock

LEMMA OwnWithBlocks ==
  ASSUME AccountInv, walked.blocks
  PROVE  /\ BlocksOf(walked) \in [Leaves -> Nat]
         /\ walked.own = WithBlock(BlocksOf(walked))
<1>1. BlocksOf(walked) \in [Leaves -> Nat]
  BY DEF BlocksOf
<1>2. walked.own \in [Folds -> Int] /\ OwnKept(walked)
  BY DEF AccountInv, WalkTyped, Walks, WalkKept
<1>3. ASSUME NEW d \in Folds PROVE walked.own[d] = WithBlock(BlocksOf(walked))[d]
  <2>1. SumAvailable(BlocksOf(walked), LeavesOf(d)) = Sum(BlocksOf(walked), LeavesOf(d))
    BY <1>1, LeavesOfApart, AvailableNumbers
  <2> QED BY <1>2, <2>1 DEF OwnKept, OwnBlocks, WithBlock
<1> QED BY <1>1, <1>2, <1>3 DEF WithBlock

\* With block counts, both functions charge the same.
LEMMA BlocksCharged ==
  ASSUME AccountInv, walked.blocks, Finalize
  PROVE  /\ Charged \in [Leaves -> Nat] /\ bill'.unique = Charged
         /\ bill'.total = Whole(WithBlock(Charged))
<1>1. Charged \in [Leaves -> Nat]
  BY DEF Charged
<1>2. BlocksOf(walked) \in [Leaves -> Nat] /\ walked.own = WithBlock(BlocksOf(walked))
  BY OwnWithBlocks
<1>3. WithBlock(Charged) \in [Folds -> Nat]
  BY <1>1, WithBlockTyped
<1>4. CASE walked.hardlinked
  <2>1. bill' = [unique |-> Unique, own |-> OwnCharged, total |-> CHOOSE t : IsTotal(OwnCharged, t)]
    BY <1>4, FinalizedAs DEF Finalize
  <2>2. Unique = Charged
    BY DEF Unique, Charged, BlocksOf, Unavailable
  <2>3. ASSUME NEW d \in Folds PROVE OwnCharged[d] = WithBlock(Charged)[d]
    <3> DEFINE c == Sum(Charged, LeavesOf(d))
               b == Sum(BlocksOf(walked), LeavesOf(d))
               k == IF d \in walked.done THEN 1 ELSE 0
    <3>1. SumAvailable(Charged, LeavesOf(d)) = c /\ c \in Nat
      BY <1>1, LeavesOfApart, AvailableNumbers
    <3>2. SumAvailable(BlocksOf(walked), LeavesOf(d)) = b /\ b \in Nat
      BY <1>2, LeavesOfApart, AvailableNumbers
    <3>3. walked.own[d] = b + k /\ WithBlock(Charged)[d] = c + k
      BY <1>2 DEF WithBlock
    <3>4. OwnCharged[d] = IF walked.own[d] = Unavailable THEN Unavailable
                          ELSE c + (walked.own[d] - b)
      BY <2>2, <3>1, <3>2 DEF OwnCharged
    <3>5. k \in Nat
      OBVIOUS
    <3> HIDE DEF c, b, k
    <3>6. b + k # Unavailable /\ c + ((b + k) - b) = c + k
      BY <3>1, <3>2, <3>5 DEF Unavailable
    <3> QED BY <3>3, <3>4, <3>6
  <2>4. OwnCharged = WithBlock(Charged)
    BY <2>3 DEF OwnCharged, WithBlock
  <2> QED BY <1>1, <1>3, <2>1, <2>2, <2>4, ChosenTotal
<1>5. CASE ~walked.hardlinked
  <2>1. bill' = [unique |-> BlocksOf(walked), own |-> walked.own,
                 total |-> CHOOSE t : IsMirrored(walked.own, t)]
    BY <1>5, MirroredAs DEF Finalize
  <2>2. \A p \in Leaves : ~ (walked.leaf[p].links > 1)
    <3>1. \A p \in Leaves : walked.leaf[p].links \in Nat /\ walked.leaf[p].links <= 1
      BY <1>5 DEF AccountInv, WalkTyped, Walks, Entries, WalkKept, Noticed
    <3> QED BY <3>1
  <2>3. BlocksOf(walked) = Charged
    BY <2>2 DEF Charged, BlocksOf
  <2> QED BY <1>1, <1>2, <1>3, <2>1, <2>3, ChosenTotal
<1> QED BY <1>1, <1>4, <1>5

\* Without, a directory with a leaf says that there is none.
LEMMA NoneSaid ==
  ASSUME AccountInv, ~walked.blocks, Finalize
  PROVE  \A p \in Leaves : InTree(p) => bill'.total[HomeOf[p]] = Unavailable
<1>1. /\ walked.own \in [Folds -> Int] /\ walked.blocks \in BOOLEAN
      /\ \A d \in Folds : walked.own[d] = OwnBlocks(walked, d)
  BY DEF AccountInv, WalkTyped, Walks, WalkKept, OwnKept
<1>2. ASSUME NEW d \in Folds
      PROVE  /\ walked.own[d] \in Nat \cup {Unavailable}
             /\ OwnCharged[d] \in Nat \cup {Unavailable}
             /\ \A p \in LeavesOf(d) : InTree(p) =>
                  walked.own[d] = Unavailable /\ OwnCharged[d] = Unavailable
  <2> DEFINE L == LeavesOf(d)
  <2>1. walked.own[d] = Unavailable => OwnCharged[d] = Unavailable
    BY DEF OwnCharged
  <2>2. CASE d \in walked.done
    BY <1>1, <2>1, <2>2 DEF OwnBlocks
  <2>3. CASE d \notin walked.done
    <3>1. walked.own[d] = SumAvailable(BlocksOf(walked), L) + 0
      BY <1>1, <2>3 DEF OwnBlocks
    <3>2. CASE \E p \in L : InTree(p)
      <4>1. \E p \in L : BlocksOf(walked)[p] = Unavailable
        BY <3>2, LeavesOfApart DEF InTree, BlocksOf
      <4>2. SumAvailable(BlocksOf(walked), L) = Unavailable
        BY <4>1, AvailableIsSum
      <4>3. walked.own[d] = Unavailable
        BY <3>1, <4>2 DEF Unavailable
      <4> QED BY <2>1, <4>3
    <3>3. CASE ~ (\E p \in L : InTree(p))
      <4>1. \A p \in L : BlocksOf(walked)[p] = 0
        BY <3>3, LeavesOfApart DEF InTree, BlocksOf
      <4>2. \A p \in L : walked.leaf[p].links = 0
        BY <3>3 DEF InTree, Unread
      <4>3. \A p \in L : Unique[p] = 0
        BY <4>1, <4>2, LeavesOfApart DEF Unique, Unavailable
      <4>4. SumAvailable(BlocksOf(walked), L) = 0 /\ SumAvailable(Unique, L) = 0
        BY <4>1, <4>3, LeavesOfApart, AvailableNumbers, SumOfZeros
      <4>5. walked.own[d] = 0 /\ OwnCharged[d] = 0
        BY <3>1, <4>4 DEF OwnCharged, Unavailable
      <4> QED BY <3>3, <4>5
    <3> QED BY <3>2, <3>3
  <2> QED BY <2>2, <2>3
<1>3. ASSUME NEW p \in Leaves, InTree(p)
      PROVE  /\ HomeOf[p] \in Folds /\ p \in LeavesOf(HomeOf[p])
             /\ HomeOf[p] \in InFold(HomeOf[p])
  BY InFoldItself, AccountingAssumption DEF AccountingAssumption, LeavesOf
<1>4. \A p \in Leaves : InTree(p) =>
        /\ Whole(walked.own)[HomeOf[p]] = Unavailable
        /\ Whole(OwnCharged)[HomeOf[p]] = Unavailable
  BY <1>2, <1>3, WholeUnavailable
<1>5. bill'.total = Whole(walked.own) \/ bill'.total = Whole(OwnCharged)
  BY <1>2, FinalizedAs, MirroredAs, ChosenTotal DEF Finalize
<1> QED BY <1>4, <1>5

\* What is charged in some directories, and a block for each that was read.
LEMMA ChargesAddUp ==
  ASSUME NEW unique \in [Leaves -> Nat], NEW I \in SUBSET Folds
  PROVE  /\ Sum(WithBlock(unique), I) =
              Sum(unique, {p \in Leaves : HomeOf[p] \in I}) + Cardinality(I \cap walked.done)
         /\ Sum(unique, {p \in Leaves : HomeOf[p] \in I}) \in Nat
<1> DEFINE In(U) == {p \in Leaves : HomeOf[p] \in U}
           Count(U) == Cardinality(U \cap walked.done)
           W == WithBlock(unique)
           Bad == {U \in SUBSET I : Sum(W, U) # Sum(unique, In(U)) + Count(U)}
<1>1. IsFiniteSet(I) /\ W \in [Folds -> Nat]
  BY WithBlockTyped, FS_Subset, AccountingAssumption DEF AccountingAssumption
<1>2. \A U \in SUBSET I : /\ IsFiniteSet(U) /\ IsFiniteSet(U \cap walked.done)
                          /\ In(U) \in SUBSET Leaves /\ IsFiniteSet(In(U))
                          /\ Count(U) \in Nat /\ Sum(unique, In(U)) \in Nat
  <2> TAKE U \in SUBSET I
  <2>1. IsFiniteSet(U) /\ IsFiniteSet(U \cap walked.done)
    BY <1>1, FS_Subset
  <2>2. In(U) \in SUBSET Leaves /\ IsFiniteSet(In(U))
    BY LeavesFinite
  <2>3. Count(U) \in Nat
    BY <2>1, FS_CardinalityType
  <2> HIDE DEF In, Count
  <2>4. Sum(unique, In(U)) \in Nat
    BY <2>2, SumIsNumber
  <2> QED BY <2>1, <2>2, <2>3, <2>4
<1>3. Bad = {}
  <2>0. SUFFICES ASSUME Bad # {} PROVE FALSE
    OBVIOUS
  <2>1. PICK U \in Bad : \A X \in SUBSET I : X \subseteq U /\ X # U => X \notin Bad
    <3>1. Bad \subseteq SUBSET I
      OBVIOUS
    <3> HIDE DEF Bad
    <3> QED BY <1>1, <2>0, <3>1, LeastBad
  <2>2. U \in SUBSET I /\ Sum(W, U) # Sum(unique, In(U)) + Count(U)
    OBVIOUS
  <2>3. U # {}
    <3> SUFFICES ASSUME U = {} PROVE FALSE
      OBVIOUS
    <3>1. In(U) = {} /\ Count(U) = 0
      BY FS_EmptySet
    <3>2. Sum(W, U) = 0 /\ Sum(unique, {}) = 0
      BY SumOfNone
    <3> HIDE DEF In, Count, W, Bad
    <3>3. Sum(unique, In(U)) = 0
      BY <3>1, <3>2
    <3> QED BY <2>2, <3>1, <3>2, <3>3
  <2>4. PICK a \in U : TRUE
    BY <2>3
  <2> DEFINE X == U \ {a}
  <2>5. X \in SUBSET I /\ Sum(W, X) = Sum(unique, In(X)) + Count(X)
    <3>1. X \in SUBSET I /\ X \subseteq U /\ X # U
      BY <2>2, <2>4
    <3>2. X \notin Bad
      BY <2>1, <3>1
    <3> QED BY <3>1, <3>2
  <2>6. a \in Folds /\ a \in I
    BY <2>2, <2>4
  <2>7. Sum(W, U) = W[a] + Sum(W, X) /\ W[a] \in Nat
    <3>1. U \in SUBSET Folds /\ IsFiniteSet(U)
      BY <1>2, <2>2
    <3> HIDE DEF W
    <3> QED BY <1>1, <2>4, <2>6, <3>1, SumWithout
  <2>8. Sum(unique, In(U)) = Sum(unique, LeavesOf(a)) + Sum(unique, In(X))
    <3>1. In(U) = LeavesOf(a) \cup In(X) /\ LeavesOf(a) \cap In(X) = {}
      BY <2>2, <2>4 DEF LeavesOf
    <3>2. In(X) \in SUBSET Leaves /\ IsFiniteSet(In(X))
      BY <1>2, <2>5
    <3>3. LeavesOf(a) \in SUBSET Leaves /\ IsFiniteSet(LeavesOf(a))
      BY <2>6, LeavesOfApart
    <3> DEFINE A == LeavesOf(a)
               B == In(X)
    <3>4. A \in SUBSET Leaves /\ IsFiniteSet(A) /\ B \in SUBSET Leaves /\ IsFiniteSet(B)
          /\ A \cap B = {} /\ In(U) = A \cup B
      BY <3>1, <3>2, <3>3
    <3> HIDE DEF In, X, A, B
    <3>5. Sum(unique, A \cup B) = Sum(unique, A) + Sum(unique, B)
      BY <3>4, SumJoin
    <3> QED BY <3>4, <3>5 DEF A, B
  <2> DEFINE k == IF a \in walked.done THEN 1 ELSE 0
  <2>9. Count(U) = Count(X) + k
    <3>1. CASE a \in walked.done
      <4>1. U \cap walked.done = (X \cap walked.done) \cup {a} /\ a \notin X \cap walked.done
        BY <2>4, <3>1
      <4>2. IsFiniteSet(X \cap walked.done)
        BY <1>2, <2>5
      <4> QED BY <3>1, <4>1, <4>2, FS_AddElement
    <3>2. CASE a \notin walked.done
      <4>1. U \cap walked.done = X \cap walked.done /\ k = 0 /\ Count(X) \in Nat
        BY <3>2, <1>2, <2>5
      <4>2. Count(U) = Count(X)
        BY <4>1
      <4> HIDE DEF Count, k, X
      <4> QED BY <4>1, <4>2
    <3> QED BY <3>1, <3>2
  <2>10. W[a] = Sum(unique, LeavesOf(a)) + k
    BY <2>6 DEF WithBlock
  <2>11. /\ Sum(unique, LeavesOf(a)) \in Nat /\ Sum(unique, In(X)) \in Nat
         /\ Count(X) \in Nat /\ k \in Nat
    BY <1>2, <2>5, <2>6, LeavesOfApart, SumIsNumber
  <2> HIDE DEF In, Count, W, Bad, X, k
  <2> QED BY <2>2, <2>5, <2>7, <2>8, <2>9, <2>10, <2>11
<1>4. I \in SUBSET I
  OBVIOUS
<1> QED BY <1>2, <1>3, <1>4

LEMMA FinalAddsUp ==
  ASSUME AccountInv, walked.blocks, Finalize
  PROVE  TotalsAddUp'
<1>1. /\ Charged \in [Leaves -> Nat] /\ bill'.unique = Charged
      /\ bill'.total = Whole(WithBlock(Charged)) /\ walked' = walked
  BY BlocksCharged DEF Finalize
<1>2. WithBlock(Charged) \in [Folds -> Nat]
  BY <1>1, WithBlockTyped
<1> SUFFICES ASSUME NEW d \in Folds
             PROVE  bill'.total[d] =
                      SumAvailable(bill'.unique, {p \in Leaves : HomeOf[p] \in InFold(d)})
                        + Cardinality(InFold(d) \cap walked.done)
  BY <1>1 DEF TotalsAddUp
<1> DEFINE I == InFold(d)
           P == {p \in Leaves : HomeOf[p] \in I}
<1>3. I \in SUBSET Folds /\ IsFiniteSet(I)
  BY InFoldItself, SubFoldsFinite
<1>4. bill'.total[d] = Sum(WithBlock(Charged), I)
  BY <1>1, <1>2, <1>3, AvailableNumbers DEF Whole
<1>5. P \in SUBSET Leaves /\ IsFiniteSet(P)
  BY LeavesFinite
<1>6. SumAvailable(Charged, P) = Sum(Charged, P)
  BY <1>1, <1>5, AvailableNumbers
<1> QED BY <1>1, <1>3, <1>4, <1>6, ChargesAddUp

\* The first path of a file with several links is one of its paths.
LEMMA OwnerIsFirst ==
  ASSUME NEW f, NEW M, M = {q \in Leaves : walked.leaf[q].links > 1 /\ walked.leaf[q].file = f},
         M # {}
  PROVE  \E o \in M : \A p \in Leaves : walked.leaf[p].file = f => Owner(p) = o
<1>1. M \subseteq Nat
  BY AccountingAssumption DEF AccountingAssumption
<1>2. PICK n \in M : \A m \in M : n <= m
  BY <1>1, LeastNumber
<1>3. Min(M) \in M
  BY <1>2 DEF Min
<1>4. \A p \in Leaves : walked.leaf[p].file = f => Owner(p) = Min(M)
  BY DEF Owner
<1> QED BY <1>3, <1>4

LEMMA OneNameOnly ==
  ASSUME NEW S \in SUBSET Leaves, Cardinality(S) <= 1, NEW p \in S, NEW q \in S
  PROVE  p = q
<1> SUFFICES ASSUME p # q PROVE FALSE
  OBVIOUS
<1> DEFINE T == S \ {p}
<1>1. IsFiniteSet(T) /\ IsFiniteSet(T \ {q}) /\ S = T \cup {p} /\ T = (T \ {q}) \cup {q}
      /\ p \notin T /\ q \notin T \ {q}
  BY LeavesFinite
<1>2. Cardinality(T \ {q}) \in Nat
  BY <1>1, FS_CardinalityType
<1> HIDE DEF T
<1>3. Cardinality(T) = Cardinality(T \ {q}) + 1
  BY <1>1, FS_AddElement
<1>4. Cardinality(S) = Cardinality(T) + 1
  BY <1>1, FS_AddElement
<1> QED BY <1>2, <1>3, <1>4

LEMMA FinalChargesOnce ==
  ASSUME AccountInv, walked.blocks, Finalize
  PROVE  ChargedToOnePath'
<1>1. /\ Charged \in [Leaves -> Nat] /\ bill'.unique = Charged
      /\ walked' = walked /\ stirred' = stirred
  BY BlocksCharged DEF Finalize
<1> SUFFICES ASSUME NEW f \in Inodes, ReadAs(f) # {}
             PROVE  /\ SumAvailable(Charged, ReadAs(f)) >= 1
                    /\ f \notin stirred => SumAvailable(Charged, ReadAs(f)) = 1
  BY <1>1 DEF ChargedToOnePath, ReadAs
<1> DEFINE R == ReadAs(f)
           M == {q \in Leaves : walked.leaf[q].links > 1 /\ walked.leaf[q].file = f}
<1>2. /\ R \in SUBSET Leaves /\ IsFiniteSet(R) /\ M \subseteq R
      /\ \A p \in R : walked.leaf[p].file = f
  BY LeavesFinite DEF ReadAs
<1>3. \A p \in R : walked.leaf[p] # Unread /\ walked.leaf[p].links \in Nat
  <2>1. f # NoName
    BY AccountingAssumption DEF AccountingAssumption
  <2> QED BY <1>2, <2>1 DEF Unread, AccountInv, WalkTyped, Walks, Entries
<1>4. \A p \in R : ~ (walked.leaf[p].links > 1) => Charged[p] = 1
  BY <1>2, <1>3 DEF Charged
<1>5. M # {} => \E o \in M : /\ Charged[o] = 1
                             /\ \A p \in M \ {o} : Charged[p] = 0
  <2> SUFFICES ASSUME M # {}
               PROVE  \E o \in M : Charged[o] = 1 /\ \A p \in M \ {o} : Charged[p] = 0
    OBVIOUS
  <2>1. PICK o \in M : \A p \in Leaves : walked.leaf[p].file = f => Owner(p) = o
    BY OwnerIsFirst
  <2>2. \A p \in M : p \in Leaves /\ walked.leaf[p].links > 1 /\ Owner(p) = o /\ p \in R
    BY <2>1, <1>2
  <2>3. Charged[o] = 1
    BY <2>1, <2>2, <1>3 DEF Charged
  <2>4. \A p \in M \ {o} : Charged[p] = 0
    BY <2>2 DEF Charged
  <2> QED BY <2>3, <2>4
<1>6. SumAvailable(Charged, R) = Sum(Charged, R)
  BY <1>1, <1>2, AvailableNumbers
\* One path in the rest of which nothing is charged, if the names stayed.
<1>7. \E o \in R : Charged[o] = 1 /\ (f \notin stirred => \A p \in R \ {o} : Charged[p] = 0)
  <2>1. CASE \E p \in R : ~ (walked.leaf[p].links > 1)
    <3>1. PICK o \in R : ~ (walked.leaf[o].links > 1)
      BY <2>1
    <3>2. ASSUME f \notin stirred, NEW p \in R PROVE p = o
      <4>1. walked.leaf[p] = Stat(p) /\ walked.leaf[o] = Stat(o)
        BY <3>2, <1>2, <1>3 DEF AccountInv, SteadyLeaves, InTree
      <4>2. named[p] = f /\ named[o] = f
        BY <4>1, <1>2 DEF Stat
      <4>3. walked.leaf[o].links = Cardinality(NamesOf(f)) + outer[f]
        BY <4>1, <4>2 DEF Stat
      <4>4. outer[f] \in {0, 1}
        BY DEF AccountInv, WalkTyped
      <4>5. p \in NamesOf(f) /\ o \in NamesOf(f) /\ NamesOf(f) \in SUBSET Leaves
        BY <1>2, <4>2 DEF NamesOf
      <4>6. Cardinality(NamesOf(f)) \in Nat
        BY <4>5, LeavesFinite, FS_CardinalityType
      <4>7. Cardinality(NamesOf(f)) <= 1
        BY <3>1, <4>3, <4>4, <4>6
      <4> QED BY <4>5, <4>7, OneNameOnly
    <3> QED BY <3>1, <3>2, <1>4
  <2>2. CASE ~ (\E p \in R : ~ (walked.leaf[p].links > 1))
    <3>1. M = R
      BY <2>2, <1>2
    <3> QED BY <3>1, <1>5
  <2> QED BY <2>1, <2>2
<1>8. PICK o \in R : Charged[o] = 1 /\ (f \notin stirred => \A p \in R \ {o} : Charged[p] = 0)
  BY <1>7
<1> HIDE DEF R, M
<1>9. Sum(Charged, R) = 1 + Sum(Charged, R \ {o})
  BY <1>1, <1>2, <1>8, SumWithout
<1>10. IsFiniteSet(R \ {o}) /\ R \ {o} \in SUBSET Leaves
  BY <1>2, FS_Subset
<1>11. Sum(Charged, R \ {o}) \in Nat
  BY <1>1, <1>10, SumIsNumber
<1>12. f \notin stirred => Sum(Charged, R \ {o}) = 0
  BY <1>8, <1>10, SumOfZeros
<1>13. R = ReadAs(f)
  BY DEF R
<1> QED BY <1>6, <1>9, <1>11, <1>12, <1>13

LEMMA SharedBlocksKept ==
  ASSUME AccountInv, SharedBlocksOnce, [AccountNext]_accountVars
  PROVE  SharedBlocksOnce'
<1>1. CASE Finalize
  <2>1. walked' = walked /\ walked.blocks \in BOOLEAN
    BY <1>1 DEF Finalize, AccountInv, WalkTyped, Walks
  <2>2. CASE walked.blocks
    BY <1>1, <2>1, <2>2, FinalAddsUp, FinalChargesOnce DEF SharedBlocksOnce
  <2>3. CASE ~walked.blocks
    <3>1. \A p \in Leaves : InTree(p) => bill'.total[HomeOf[p]] = Unavailable
      BY <1>1, <2>3, NoneSaid
    <3>2. NoneIsNotZero'
      BY <2>1, <3>1 DEF NoneIsNotZero, InTree
    <3> QED BY <2>1, <2>3, <3>2 DEF SharedBlocksOnce
  <2> QED BY <2>2, <2>3
<1>2. CASE bill = NoBill /\ bill' = bill
  BY <1>2 DEF SharedBlocksOnce
<1>3. CASE UNCHANGED accountVars
  BY <1>3 DEF accountVars, SharedBlocksOnce, ChargedToOnePath, TotalsAddUp, NoneIsNotZero,
              ReadAs, InTree
<1>4. CASE AccountNext /\ ~Finalize
  <2>1. bill = NoBill /\ bill' = bill
    BY <1>4 DEF AccountNext, Links, Chunk, Result, ChunkFinds
  <2> QED BY <1>2, <2>1
<1> QED BY <1>1, <1>3, <1>4

(* However a scan ends, and whatever names come and go while it runs, a    *)
(* file that was read is charged to one of its paths, to one only unless   *)
(* its names changed; the totals add up, in every directory and however    *)
(* deep the tree; and where there are no block counts a directory with a   *)
(* file in it says so.                                                     *)
THEOREM SharedBlocksCharged == AccountSpec => []SharedBlocksOnce
<1>1. AccountInit => AccountInv /\ SharedBlocksOnce
  BY AccountStarts DEF AccountInit, SharedBlocksOnce
<1>2. AccountInv /\ SharedBlocksOnce /\ [AccountNext]_accountVars
        => (AccountInv /\ SharedBlocksOnce)'
  BY AccountKept, SharedBlocksKept
<1> QED BY <1>1, <1>2, PTL DEF AccountSpec

=============================================================================
