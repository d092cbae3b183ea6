---------------------------- MODULE Provisional ----------------------------
(***************************************************************************)
(* What a monitor shows between two full scans (services/provisional.py):  *)
(* the last snapshot with the rescanned subtrees laid over it.  The totals *)
(* are projected without loading the tree; the tree is put together only   *)
(* when somebody looks at it.                                              *)
(*                                                                         *)
(* A tree is the set of directories it has, with what each holds itself.   *)
(***************************************************************************)
EXTENDS Naturals, FiniteSets, Functions, Folds

CONSTANTS Folders, Top,  \* the directories there may be, and the root
          Parent,        \* Parent[f], for f # Top
          Below,         \* Below[f]: f and what may be below it
          Sizes,         \* own_size of a directory
          MaxNodes       \* max_overlay_nodes

ASSUME ProvisionalAssumption ==
  /\ Top \in Folders /\ Parent \in [Folders \ {Top} -> Folders]
  /\ Below \in [Folders -> SUBSET Folders] /\ Below[Top] = Folders
  /\ IsFiniteSet(Folders) /\ Sizes \subseteq Nat
  \* it is a tree
  /\ \A f \in Folders : f \in Below[f]
  /\ \A f \in Folders : \A g \in Below[f] \ {f} :
       Below[g] \subseteq Below[f] /\ f \notin Below[g] /\ Parent[g] \in Below[f]
  /\ \A f \in Folders \ {Top} : f \in Below[Parent[f]] \ {Parent[f]}
  /\ \A f, g \in Folders :
       Below[f] \cap Below[g] # {} => f \in Below[g] \/ g \in Below[f]

VARIABLES base,     \* the canonical snapshot's tree
          overlays, \* path -> the tree a local scan found there
          freshest  \* history: the last thing read of every directory

overlayVars == <<base, overlays, freshest>>

\* what a scan of f may find: f, and only what has its parent there
Readings(f) ==
  {t \in UNION {[D -> Sizes] : D \in SUBSET Below[f]} :
     /\ f \in DOMAIN t
     /\ \A g \in DOMAIN t \ {f} : Parent[g] \in DOMAIN t}

\* the directories held by the overlays together
Nodes(laid) == FoldFunction(+, 0, [f \in DOMAIN laid |-> Cardinality(DOMAIN laid[f])])

OverlayTypeOK ==
  /\ base \in Readings(Top) /\ freshest \in Readings(Top)
  /\ DOMAIN overlays \subseteq Folders
  /\ \A f \in DOMAIN overlays : overlays[f] \in Readings(f)
  /\ \A f, g \in DOMAIN overlays : g \in Below[f] => g = f
  /\ Nodes(overlays) <= MaxNodes

OverlayInit ==
  /\ base \in Readings(Top) /\ overlays = <<>> /\ freshest = base

-----------------------------------------------------------------------------
\* _replace_subtree, in the tree t
Replaced(t, f, found) ==
  [g \in (DOMAIN t \ Below[f]) \cup DOMAIN found |->
     IF g \in DOMAIN found THEN found[g] ELSE t[g]]

\* mutant: overlays below the incoming one stay
MergedOverInner(laid, f, found) ==
  LET above == {g \in DOMAIN laid \ {f} : f \in Below[g]}
      deepest == CHOOSE g \in above : Below[g] \cap above = {g}
      into == IF above = {} THEN f ELSE deepest
  IN  [g \in DOMAIN laid \cup {into} |->
         IF g # into THEN laid[g]
         ELSE IF above = {} THEN found ELSE Replaced(laid[into], f, found)]

\* _merge_overlay: into the overlay above it, or in place of those below it
Merged(laid, f, found) ==
  LET above == {g \in DOMAIN laid \ {f} : f \in Below[g]}
      deepest == CHOOSE g \in above : Below[g] \cap above = {g}
      into == IF above = {} THEN f ELSE deepest
      kept == {g \in DOMAIN laid : g \notin Below[into]}
  IN  [g \in kept \cup {into} |->
         IF g # into THEN laid[g]
         ELSE IF above = {} THEN found ELSE Replaced(laid[into], f, found)]

\* materialize: each overlay replaces its subtree, the deepest last
Shown(g) ==
  LET over == {h \in DOMAIN overlays : g \in Below[h]}
  IN  IF over = {} THEN base
      ELSE overlays[CHOOSE h \in over : Below[h] \cap over = {h}]
Materialized == [g \in {h \in Folders : h \in DOMAIN Shown(h)} |-> Shown(g)[g]]

\* the measurement of f in t: logical bytes, and directories below it
Plus(x, y) == x + y
Logical(t, f) == FoldFunctionOnSet(Plus, 0, t, DOMAIN t \cap Below[f])
DirCount(t, f) == Cardinality((DOMAIN t \cap Below[f]) \ {f})

Less(x, y) == IF x < y THEN 0 ELSE x - y

\* _project_measurements: per overlay, the old measurement out, the new one in;
\* a directory the snapshot does not have counts itself as well
OldLogical(f) == IF f \in DOMAIN base THEN Logical(base, f) ELSE 0
OldDirs(f) == IF f \in DOMAIN base THEN DirCount(base, f) + 1 ELSE 0
Project(total, f) ==
  IF f = Top THEN [logical |-> Logical(overlays[f], f), dirs |-> DirCount(overlays[f], f)]
  ELSE [logical |-> Less(total.logical + Logical(overlays[f], f), OldLogical(f)),
        dirs |-> Less(total.dirs + DirCount(overlays[f], f) + 1, OldDirs(f))]
Projected ==
  MapThenFoldSet(LAMBDA f, total : Project(total, f),
                 [logical |-> Logical(base, Top), dirs |-> DirCount(base, Top)],
                 LAMBDA f : f, LAMBDA s : CHOOSE f \in s : TRUE, DOMAIN overlays)

-----------------------------------------------------------------------------
\* a full scan: a new snapshot, no overlay
Rebase ==
  /\ base' \in Readings(Top)
  /\ overlays' = <<>>
  /\ freshest' = base'

\* apply, of one rescanned subtree at a time; overlays grown too large are
\* refused, and the failure drops those there were
apply(f, found) ==
  /\ f # Top => Parent[f] \in DOMAIN freshest
  /\ LET laid == Merged(overlays, f, found)
     IN  IF Nodes(laid) > MaxNodes
         THEN overlays' = <<>> /\ freshest' = base
         ELSE overlays' = laid /\ freshest' = Replaced(freshest, f, found)
  /\ UNCHANGED base

OverlayNext == Rebase \/ \E f \in Folders : \E found \in Readings(f) : apply(f, found)

-----------------------------------------------------------------------------
(* Properties.                                                             *)

(* However subtrees were rescanned over and within each other, the tree    *)
(* shows of every directory what was read last, and the projected totals   *)
(* are the totals of that tree.                                            *)
OverlayShowsFreshest ==
  /\ Materialized = freshest
  /\ Projected = [logical |-> Logical(freshest, Top), dirs |-> DirCount(freshest, Top)]
=============================================================================
