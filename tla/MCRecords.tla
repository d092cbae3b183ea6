----------------------------- MODULE MCRecords -----------------------------
(* What disktide keeps and how it keeps it true, part by part: in an         *)
(* initial state one part is awake, and only that part moves.  The parts are *)
(* modelled without one another, so nothing is lost by it.                   *)
EXTENDS MonitorWatch, SnapshotStore, Provisional, Cleanup, Retention, Migrations,
        NativeEvents, Explorer, Alerts, MonitorDefinitions, TransientWatch, CleanupPlans,
        Accounting

VARIABLE part \* the part that is awake

MCUnder == [d \in {"root", "left", "right"} |->
              IF d = "root" THEN {"root", "left", "right"} ELSE {d}]

\* one path, the other, or both
MCTrees == {[p \in {"p", "q"} |-> IF p \in D THEN "1" ELSE "absent"]
            : D \in {{"p"}, {"q"}, {"p", "q"}}}

\* "deep" is inside "upper", beside it is "lower"
MCParent == [f \in {"upper", "deep", "lower"} |-> IF f = "deep" THEN "upper" ELSE "top"]
MCBelow == [f \in {"top", "upper", "deep", "lower"} |->
              CASE f = "top"   -> {"top", "upper", "deep", "lower"}
                [] f = "upper" -> {"upper", "deep"}
                [] OTHER       -> {f}]

MCBytes == [a \in {"x", "y"} |-> 1]

\* two processes of the older build and one of the newer
MCBuild == [p \in {"old", "twin", "new"} |-> IF p = "new" THEN 2 ELSE 1]

\* where there are two directories, changes of every kind but new ones; where
\* there is one, a removal or a rename, and a new one; new ones only where
\* there is none
NativeScene ==
  LET kinds == Cardinality(DOMAIN disk) IN
  /\ part # "native" => kinds = 1
  /\ DOMAIN disk \in {{TheRoot}, {TheRoot, <<"a">>}, {TheRoot, <<"a">>, <<"b">>},
                      {TheRoot, <<"a">>, <<"a", "b">>}}
  /\ <<MaxRenames - spent.moves, MaxRemovals - spent.removals>>
       \in CASE kinds = 1 -> {<<0, 0>>}
            [] kinds = 2 -> {<<0, 1>>, <<1, 0>>}
            [] OTHER     -> {<<1, 1>>}

\* two changes of the tree, one where the host watches by events only
WatchScene ==
  /\ left = [changes |-> IF mode = "events" THEN 1 ELSE MaxChanges, faults |-> MaxFaults]
  /\ part # "watch" => mode = "auto"

\* a directory, what is in it, a quarantine, and a name that sorts between the
\* first two as a string
MCInside == [e \in {"r", "a", "a/b", "a/b/c", "a/d", "a-", "q"} |->
               CASE e = "r"   -> {"a", "a/b", "a/b/c", "a/d", "a-", "q"}
                 [] e = "a"   -> {"a/b", "a/b/c", "a/d"}
                 [] e = "a/b" -> {"a/b/c"}
                 [] OTHER     -> {}]
MCByParts == <<"r", "a", "a/b", "a/b/c", "a/d", "a-", "q">>
MCByString == <<"r", "a", "a-", "a/b", "a/b/c", "a/d", "q">>

\* of the paths 1, 2, 3 the middle one is in the root, the last a level below
\* and the first one more
MCUp == [d \in {"mid", "low"} |-> IF d = "low" THEN "mid" ELSE "high"]
MCHome == [p \in 1..3 |-> CASE p = 1 -> "low" [] p = 2 -> "high" [] OTHER -> "mid"]

\* only "f" has names elsewhere, "g" comes after it; and without block counts
\* there is one file
AccountScene ==
  /\ outer["g"] = 0
  /\ \A p \in Leaves : named[p] = "g" => \E q \in Leaves : q < p /\ named[q] = "f"
  /\ ~walked.blocks => outer["f"] = 0 /\ \A p \in Leaves : named[p] # "g"
  /\ part # "accounting" => named = [p \in Leaves |-> "f"] /\ outer["f"] = 0 /\ walked.blocks

\* no snapshot yet and nobody reading, or a reader and one saved and deleted
StoreScene ==
  /\ lastId = MaxReads - reading.reads
  /\ \A i \in DOMAIN saved : saved[i] = CHOOSE t \in Trees : TRUE
  /\ part # "store" => lastId = 0

\* a plan of one action; and one that has "x" in the quarantine ("y" is its
\* mirror image), with a change by somebody else to come; a failure in both
CleanupScene ==
  /\ part # "cleanup" => moves = <<>>
  /\ spare.faults = 1 /\ spare.touches = Len(moves)
  /\ \A n \in DOMAIN moves : moves[n].action = "x"
  /\ {a \in Actions : rows[a].status = "skipped"} = (IF moves = <<>> THEN {"y"} ELSE {})

\* a handler that raises, a monitor's tree read in between, or past snapshots
\* asked for twice over
ExplorerScene ==
  <<MaxRaises - walk.raises, MaxLoads - errands.loaded,
    MaxRequests - errands.asked, MaxFrames - walk.frames>>
      \in IF part = "explorer"
          THEN {<<1, 0, 1, 2>>, <<0, 0, 2, 2>>, <<0, 1, 1, 1>>}
          ELSE {<<0, 0, 0, 0>>}

\* the rule is edited once, or a snapshot is deleted
AlertScene ==
  /\ used.edits + used.deletions = 1
  /\ rule.cooldown = 2
  /\ rule.kind = "size" => rule.window = 0
  /\ part # "alerts" => rule.kind = "size" /\ used.edits = 1

Init ==
  /\ part \in {"watch", "store", "overlay", "cleanup", "retention", "migrations",
            "native", "explorer", "alerts", "definitions", "transient", "plans",
            "accounting"}
  /\ WatchInit /\ WatchScene
  /\ part = "transient" => TransientInit
  /\ StoreInit /\ StoreScene
  /\ OverlayInit /\ (part # "overlay" => base = [f \in {Top} |-> 0])
  /\ CleanupInit /\ CleanupScene
  /\ RetentionInit
  /\ NativeInit /\ NativeScene
  /\ MigrationInit /\ (part # "migrations" => ~held)
  /\ ExplorerInit /\ ExplorerScene
  /\ AlertInit /\ AlertScene
  /\ DefinitionInit /\ (part # "definitions" => row_.scope = CHOOSE s \in Scopes : TRUE)
  /\ PlansInit /\ (part # "plans" => targets = {ScanRoot} /\ world.own = {})
  /\ AccountInit /\ AccountScene

Next ==
  /\ UNCHANGED part
  /\ \/ part = "watch" /\ WatchNext
        /\ UNCHANGED <<storeVars, overlayVars, cleanupVars, retentionVars,
                      migrationVars, nativeVars, explorerVars, alertVars,
                      definitionVars, planVars, accountVars>>
     \/ part = "store" /\ StoreNext
        /\ UNCHANGED <<watchVars, overlayVars, cleanupVars, retentionVars,
                      migrationVars, nativeVars, explorerVars, alertVars,
                      definitionVars, planVars, accountVars>>
     \/ part = "overlay" /\ OverlayNext
        /\ UNCHANGED <<watchVars, storeVars, cleanupVars, retentionVars,
                      migrationVars, nativeVars, explorerVars, alertVars,
                      definitionVars, planVars, accountVars>>
     \/ part = "cleanup" /\ CleanupNext
        /\ UNCHANGED <<watchVars, storeVars, overlayVars, retentionVars,
                      migrationVars, nativeVars, explorerVars, alertVars,
                      definitionVars, planVars, accountVars>>
     \/ part = "retention" /\ RetentionNext
        /\ UNCHANGED <<watchVars, storeVars, overlayVars, cleanupVars,
                      migrationVars, nativeVars, explorerVars, alertVars,
                      definitionVars, planVars, accountVars>>
     \/ part = "migrations" /\ MigrationNext
        /\ UNCHANGED <<watchVars, storeVars, overlayVars, cleanupVars,
                      retentionVars, nativeVars, explorerVars, alertVars,
                      definitionVars, planVars, accountVars>>
     \/ part = "native" /\ NativeNext
        /\ UNCHANGED <<watchVars, storeVars, overlayVars, cleanupVars,
                      retentionVars, migrationVars, explorerVars, alertVars,
                      definitionVars, planVars, accountVars>>
     \/ part = "explorer" /\ ExplorerNext
        /\ UNCHANGED <<watchVars, storeVars, overlayVars, cleanupVars,
                      retentionVars, migrationVars, nativeVars, alertVars,
                      definitionVars, planVars, accountVars>>
     \/ part = "alerts" /\ AlertNext
        /\ UNCHANGED <<watchVars, storeVars, overlayVars, cleanupVars,
                      retentionVars, migrationVars, nativeVars, explorerVars,
                      definitionVars, planVars, accountVars>>
     \/ part = "definitions" /\ DefinitionNext
        /\ UNCHANGED <<watchVars, storeVars, overlayVars, cleanupVars,
                      retentionVars, migrationVars, nativeVars, explorerVars,
                      alertVars, planVars, accountVars>>
     \/ part = "transient" /\ TransientNext
        /\ UNCHANGED <<storeVars, overlayVars, cleanupVars, retentionVars,
                      migrationVars, nativeVars, explorerVars, alertVars,
                      definitionVars, planVars, accountVars>>
     \/ part = "plans" /\ PlansNext
        /\ UNCHANGED <<watchVars, storeVars, overlayVars, cleanupVars,
                      retentionVars, migrationVars, nativeVars, explorerVars,
                      alertVars, definitionVars, accountVars>>
     \/ part = "accounting" /\ AccountNext
        /\ UNCHANGED <<watchVars, storeVars, overlayVars, cleanupVars,
                      retentionVars, migrationVars, nativeVars, explorerVars,
                      alertVars, definitionVars, planVars>>

(* Fairness is owed to the threads of the watch parts, which are scheduled, *)
(* and to the debounce window and the retry delays, which end.  The next   *)
(* scheduled scan may be far away: nothing is owed to FallsDue, nor to what *)
(* changes the tree or asks for something.                                 *)
Fairness ==
  /\ WF_watchVars(part = "watch" /\ SessionAdvances)
  /\ WF_watchVars(part = "watch" /\ HandlerAdvances)
  /\ WF_watchVars(part = "watch" /\ ControlAdvances)
  /\ WF_watchVars(part = "transient" /\ TransientAdvances)
  /\ WF_watchVars(part = "transient" /\ TransientHears)
  /\ WF_watchVars(part \in {"watch", "transient"} /\ Elapse)

Spec ==
  Init /\ [][Next]_<<part, watchVars, storeVars, overlayVars, cleanupVars,
                     retentionVars, migrationVars, nativeVars, explorerVars,
                     alertVars, definitionVars, planVars, accountVars>>
       /\ Fairness

(* The part that moves keeps to its types; the others stay as they began.    *)
TypesOK ==
  /\ part \in {"watch", "transient"} => WatchTypeOK
  /\ part = "store" => StoreTypeOK
  /\ part = "overlay" => OverlayTypeOK
  /\ part = "cleanup" => CleanupTypeOK
  /\ part = "retention" => RetentionTypeOK
  /\ part = "migrations" => MigrationTypeOK
  /\ part = "native" => NativeTypeOK
  /\ part = "explorer" => ExplorerTypeOK
  /\ part = "alerts" => AlertTypeOK
  /\ part = "definitions" => DefinitionTypeOK
  /\ part = "plans" => PlansTypeOK
  /\ part = "accounting" => AccountTypeOK
=============================================================================
