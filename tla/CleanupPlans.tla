---------------------------- MODULE CleanupPlans ----------------------------
(***************************************************************************)
(* Making a cleanup plan of what a scan found (create_plan and             *)
(* _resolve_overlaps in services/cleanup.py).  Targets may lie inside one  *)
(* another; a plan counts and moves what is in them once.  A volume may    *)
(* have been mounted in a target since the scan.                           *)
(*                                                                         *)
(* Entries are told by their paths; scores, sizes and rules are left out,  *)
(* and that a target may be gone, which changes nothing but a label.       *)
(***************************************************************************)
EXTENDS Sequences, FiniteSets, Functions, SequencesExt

CONSTANTS Items,      \* the paths of the scan, its root among them
          ScanRoot,
          Inside,     \* Inside[e]: what lies below e
          ByParts,    \* the paths in the order of their tuples of parts
          ByString,   \* and in that of the strings
          Isolated    \* quarantine directories and the Trash

NoPlan == <<>>
Nobody == "nobody"
Taken(e) == {e} \cup Inside[e]

ASSUME PlanAssumption ==
  /\ ScanRoot \in Items /\ Inside \in [Items -> SUBSET Items] /\ Nobody \notin Items
  /\ ByParts \in Seq(Items) /\ Range(ByParts) = Items /\ Range(ByString) = Items
  /\ Isolated \subseteq Items /\ Inside[ScanRoot] = Items \ {ScanRoot}
  \* paths are nested or apart
  /\ \A e \in Items : e \notin Inside[e] /\ \A d \in Inside[e] : Inside[d] \subseteq Inside[e]
  /\ \A d, e \in Items : Taken(d) \cap Taken(e) # {} => d \in Taken(e) \/ e \in Taken(d)
  \* ordered by parts, what lies below a path comes next after it
  /\ \A i, j \in DOMAIN ByParts : i < j =>
       /\ ByParts[i] \notin Taken(ByParts[j])
       /\ \A k \in DOMAIN ByParts :
            j < k /\ ByParts[k] \in Inside[ByParts[i]] => ByParts[j] \in Inside[ByParts[i]]

VARIABLES
  targets,  \* what the rules match, or what of it was selected
  world,    \* where a volume is mounted, what the program keeps
  choices   \* the actions of the plan, none before it is made

planVars == <<targets, world, choices>>

PlansTypeOK ==
  /\ targets \subseteq Items
  /\ world \in [mounted : SUBSET Items, own : SUBSET Items]
  /\ choices = NoPlan \/ choices \in
       [targets -> [danger : BOOLEAN, status : {"planned", "skipped", "subsumed"},
                    by : Items \cup {Nobody}]]

\* own: the database and its directory, known when the service is made
PlansInit ==
  /\ targets \in SUBSET Items \ {{}}
  /\ \E e \in Items : world \in [mounted : {{}}, own : {{}, {e}}]
  /\ choices = NoPlan

Mounts(e) ==
  /\ choices = NoPlan /\ e # ScanRoot /\ world.mounted = {}
  /\ world' = [world EXCEPT !.mounted = {e}]
  /\ UNCHANGED <<targets, choices>>

-----------------------------------------------------------------------------
\* _danger_reason and _mount_boundary_reason; the scan root is the widest target
Danger(e) ==
  \/ e = ScanRoot
  \/ \E d \in Isolated : e \in Taken(d)
  \/ Taken(e) \cap world.mounted # {}
  \/ Taken(e) \cap world.own # {}

\* mutant: the strings are compared
OrderOfStrings == ByString

\* the order of _resolve_overlaps: what is below a path follows it
Order == ByParts

\* one turn of _resolve_overlaps: a target is covered by the one on the stack, or
\* takes its place if it is planned.  The stack never grows beyond one, for what
\* is covered does not go on it.
Resolve_(turn, e) ==
  IF e \notin targets THEN turn
  ELSE IF turn.cover # Nobody /\ e \in Inside[turn.cover]
  THEN [turn EXCEPT !.actions[e] =
          [danger |-> Danger(e), status |-> "subsumed", by |-> turn.cover]]
  ELSE [turn EXCEPT !.cover = IF turn.actions[e].status = "planned" THEN e ELSE Nobody]

Judged(e) ==
  [danger |-> Danger(e), status |-> IF Danger(e) THEN "skipped" ELSE "planned",
   by |-> Nobody]

create_plan ==
  /\ choices = NoPlan
  /\ choices' = FoldLeft(Resolve_, [cover |-> Nobody,
                                    actions |-> [e \in targets |-> Judged(e)]],
                      Order).actions
  /\ UNCHANGED <<targets, world>>

PlansNext ==
  \/ create_plan
  \/ \E e \in Items : Mounts(e)

-----------------------------------------------------------------------------
(* Properties.                                                             *)

\* the actions that a plan counts and that executing it may carry out
Planned == IF choices = NoPlan THEN {} ELSE {e \in targets : choices[e].status = "planned"}

(* Nothing is in two planned targets: it is counted once and moved once.   *)
NothingTwice ==
  \A d, e \in Planned : d # e => Taken(d) \cap Taken(e) = {}

(* A target is planned itself, or refused, or inside one that is planned.  *)
NothingDropped ==
  choices # NoPlan =>
    \A e \in targets \ Planned :
      \/ choices[e].status = "skipped" /\ choices[e].danger
      \/ choices[e].status = "subsumed" /\ choices[e].by \in Planned /\ e \in Inside[choices[e].by]

(* What is planned takes neither a mounted volume nor the program's own    *)
(* files with it, whatever covers what.                                    *)
NothingKeptMoves ==
  \A e \in Planned :
    /\ Taken(e) \cap (world.mounted \cup world.own \cup {ScanRoot}) = {}
    /\ \A d \in Isolated : e \notin Taken(d)

(* A plan takes each thing once, leaves no target out in silence and takes *)
(* nothing that is not to be moved, however the targets lie inside one     *)
(* another (services/cleanup.py:947).                                       *)
PlansDoNotOverlap == NothingTwice /\ NothingDropped /\ NothingKeptMoves
=============================================================================
