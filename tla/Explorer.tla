------------------------------ MODULE Explorer ------------------------------
(***************************************************************************)
(* The screen that scans a directory and shows it (screens/explorer.py).   *)
(* Everything drawn is drawn on the interface thread; what it draws comes  *)
(* from threads that hand their results over when they have them: the run  *)
(* and its frames, the pass that finds what a directory mostly holds, the  *)
(* reader of past snapshots, the reader of a monitor's current tree.  An   *)
(* exclusive worker that is replaced before its thread began never runs;   *)
(* one that began cannot be stopped and still hands over what it found.    *)
(*                                                                         *)
(* A tree is told from another by where it comes from; which directory of   *)
(* it the user has gone into is left out.                                   *)
(***************************************************************************)
EXTENDS Naturals

CONSTANTS MaxScans,    \* bound: on scans of the screen
          MaxFrames,   \* bound: on frames of all scans
          MaxRequests, \* bound: on requests for past snapshots
          MaxLoads,    \* bound: on reads of the monitor's tree
          MaxRaises    \* bound: on handlers that raise

ASSUME ScreenAssumption ==
  /\ MaxScans \in Nat /\ MaxFrames \in Nat /\ MaxRequests \in Nat
  /\ MaxLoads \in Nat /\ MaxRaises \in Nat

NoTree == <<>>
Final(n) == <<"final", n>>
Frame(n, k) == <<"frame", n, k>>
Frames(n) == {Frame(n, k) : k \in 1..MaxFrames}
Projection(j) == <<"projection", j>>
ChangeView == <<"change">>             \* the frame of Diff mode
Trees_ == {NoTree} \cup {Final(n) : n \in 1..MaxScans}
            \cup {Projection(j) : j \in 1..MaxLoads}
            \cup {ChangeView} \cup UNION {Frames(n) : n \in 1..MaxScans}

VARIABLES
  screen,   \* what the screen remembers
  shown,    \* what its tree panel and its chart show, and the chart's tints
  walk,     \* the scan in progress or the last one, and whether it goes on
  kept,     \* runs that hold the tree they made
  rollup,   \* the pass over a tree: the gate, what to read, who is reading
  errands,  \* reads of snapshots and of the monitor's tree on their way
  settled   \* history: how the screen last came to rest

explorerVars == <<screen, shown, walk, kept, rollup, errands, settled>>

ExplorerTypeOK ==
  /\ screen \in [root : Trees_, current : Trees_, active : 0..MaxScans,
                 retiring : 0..MaxScans, busy : BOOLEAN, render : BOOLEAN,
                 live : Trees_, timer : BOOLEAN, diff : BOOLEAN,
                 context : BOOLEAN]
  /\ shown \in [tree : Trees_, chart : Trees_, tint : Trees_]
  /\ walk \in [no : 0..MaxScans, on : BOOLEAN, frames : 0..MaxFrames,
               raises : 0..MaxRaises]
  /\ kept \subseteq 1..MaxScans
  /\ rollup.running \in BOOLEAN /\ rollup.next \in Trees_
  /\ rollup.passes \subseteq [at : {"reading", "read"}, tree : Trees_]
  /\ errands \in [requests : 0..MaxRequests, asked : 0..MaxRequests,
                  loads : SUBSET (1..MaxLoads), loaded : 0..MaxLoads]
  /\ settled \in {"new", "fresh", "failed", "torn"}

\* what the bounds allow may be spent already
ExplorerInit ==
  /\ screen = [root |-> NoTree, current |-> NoTree, active |-> 0, retiring |-> 0,
               busy |-> FALSE, render |-> FALSE, live |-> NoTree, timer |-> FALSE,
               diff |-> FALSE, context |-> FALSE]
  /\ shown = [tree |-> NoTree, chart |-> NoTree, tint |-> NoTree]
  /\ \E raises \in 0..MaxRaises, frames \in 0..MaxFrames :
       walk = [no |-> 0, on |-> FALSE, frames |-> frames, raises |-> raises]
  /\ kept = {}
  /\ rollup = [running |-> FALSE, next |-> NoTree, passes |-> {}]
  /\ \E asked \in 0..MaxRequests, loaded \in 0..MaxLoads :
       errands = [requests |-> 0, asked |-> asked, loads |-> {}, loaded |-> loaded]
  /\ settled = "new"

-----------------------------------------------------------------------------
\* _build_category_index: the gate closes and a pass is started, in place of
\* one whose thread has not begun
Rollup(t) == [rollup EXCEPT !.running = TRUE, !.next = t]

\* _request_space_time_context
Requested_ == [errands EXCEPT !.asked = @ + 1, !.requests = @ + 1]

\* what every end of a scan does first
Quieted(s) == [s EXCEPT !.busy = FALSE, !.live = NoTree, !.timer = FALSE]

\* _settle_terminal_scan_ui, which runs whatever became of the handler
Settled_(s) == [Quieted(s) EXCEPT !.retiring = 0]

\* _release_retiring_run
Released == IF screen.retiring = screen.active THEN kept ELSE kept \ {screen.retiring}

\* the tree panel and the chart, for what the screen s remembers
Drawn(s) == IF s.diff /\ s.context THEN ChangeView ELSE s.current

Raises == walk.raises < MaxRaises

-----------------------------------------------------------------------------
\* _start_scan, which every caller refuses while a scan is in progress
ScanBegins(render) ==
  /\ ~screen.busy /\ walk.no < MaxScans
  /\ screen' = [screen EXCEPT !.active = walk.no + 1, !.retiring = screen.active,
                  !.busy = TRUE, !.render = render, !.live = NoTree, !.timer = FALSE,
                  !.diff = FALSE, !.context = FALSE]
  /\ shown' = [tree |-> IF render THEN NoTree ELSE shown.tree,
               chart |-> NoTree, tint |-> NoTree]
  /\ walk' = [walk EXCEPT !.no = @ + 1, !.on = TRUE]
  /\ rollup' = [rollup EXCEPT !.running = FALSE]
  /\ UNCHANGED <<kept, errands, settled>>

\* the widgets after a scan that failed or was refused
AfterFailure ==
  IF screen.current = NoTree THEN shown
  ELSE [shown EXCEPT !.tree = IF screen.root = NoTree THEN screen.current
                              ELSE screen.root,
                     !.chart = screen.current]

\* _start_scan, where create_run refuses the directory
ScanRefused ==
  /\ ~screen.busy
  /\ screen' = Settled_([screen EXCEPT !.diff = FALSE, !.context = FALSE])
  /\ shown' = AfterFailure
  /\ settled' = "failed"
  /\ UNCHANGED <<walk, kept, rollup, errands>>

\* _apply_live_ui
Draw == shown' = [shown EXCEPT !.tree = screen'.live, !.chart = screen'.live]

\* _apply_tree_snapshot: the first frame is drawn, a later one if the thread
\* is inside its budget; the tints are renewed if the last pass has paid off
FrameComes(draws, tints) ==
  /\ walk.on /\ screen.render /\ walk.frames < MaxFrames
  /\ shown.chart = NoTree => draws
  /\ tints => ~rollup.running
  /\ LET frame == Frame(walk.no, walk.frames + 1) IN
       /\ screen' = [screen EXCEPT !.live = frame, !.timer = ~draws]
       /\ rollup' = IF tints THEN Rollup(frame) ELSE rollup
  /\ IF draws THEN Draw ELSE shown' = shown
  /\ walk' = [walk EXCEPT !.frames = @ + 1]
  /\ UNCHANGED <<kept, errands, settled>>

FrameLost ==
  /\ walk.on /\ Raises
  /\ walk' = [walk EXCEPT !.raises = @ + 1]
  /\ UNCHANGED <<screen, shown, kept, rollup, errands, settled>>

\* _flush_live_ui
Flush ==
  /\ screen.timer /\ screen.busy
  /\ screen' = [screen EXCEPT !.timer = FALSE]
  /\ Draw
  /\ UNCHANGED <<walk, kept, rollup, errands, settled>>

\* _on_scan_complete, and what _apply_scan_event does after it
ScanCompletes ==
  /\ walk.on /\ errands.asked < MaxRequests
  /\ LET tree == Final(walk.no) IN
       /\ screen' = Settled_([screen EXCEPT !.root = tree, !.current = tree])
       /\ shown' = [shown EXCEPT !.tree = tree, !.chart = tree]
       /\ rollup' = Rollup(tree)
  /\ kept' = Released \cup {walk.no}
  /\ errands' = Requested_
  /\ walk' = [walk EXCEPT !.on = FALSE]
  /\ settled' = "fresh"

\* the same, where the handler raises before or after it has taken the tree
CompletionRaises(hasTree) ==
  /\ walk.on /\ Raises
  /\ LET tree == Final(walk.no) IN
       screen' = Settled_(IF ~hasTree THEN screen
                          ELSE [Quieted(screen) EXCEPT !.root = tree,
                                                       !.current = tree])
  /\ kept' = Released \cup {walk.no}
  /\ walk' = [walk EXCEPT !.on = FALSE, !.raises = @ + 1]
  /\ settled' = "torn"
  /\ UNCHANGED <<shown, rollup, errands>>

\* _on_scan_failed, for the event or for what execute raised; a cancelled run,
\* which only a quitting app asks for, ends the same way
ScanFails ==
  /\ walk.on
  /\ screen' = Settled_(screen)
  /\ shown' = AfterFailure
  /\ kept' = Released
  /\ walk' = [walk EXCEPT !.on = FALSE]
  /\ settled' = "failed"
  /\ UNCHANGED <<rollup, errands>>

-----------------------------------------------------------------------------
\* _category_index_worker reads what to read when its thread begins
PassBegins ==
  /\ rollup.next # NoTree
  /\ rollup' = [rollup EXCEPT !.next = NoTree,
                  !.passes = @ \cup {[at |-> "reading", tree |-> rollup.next]}]
  /\ UNCHANGED <<screen, shown, walk, kept, errands, settled>>

\* _settle_category_index
PassSettles ==
  \E p \in rollup.passes :
    /\ p.at = "reading"
    /\ rollup' = [rollup EXCEPT !.running = FALSE,
                    !.passes = (@ \ {p}) \cup {[p EXCEPT !.at = "read"]}]
    /\ UNCHANGED <<screen, shown, walk, kept, errands, settled>>

\* mutant: any pass tints the chart
TintedByAny(tree) == tree

\* _apply_category_index: only for the tree of the screen, or the newest frame
Tinted(tree) == IF tree \in {screen.root, screen.live} THEN tree ELSE shown.tint

PassApplies ==
  \E p \in rollup.passes :
    /\ p.at = "read"
    /\ rollup' = [rollup EXCEPT !.passes = @ \ {p}]
    /\ shown' = [shown EXCEPT !.tint = Tinted(p.tree)]
    /\ UNCHANGED <<screen, walk, kept, errands, settled>>

-----------------------------------------------------------------------------
\* mutant: a context is applied whenever it comes
DroppedNever == FALSE

\* _apply_space_time_context: nothing of a scan before is drawn over this one
Dropped == screen.busy

ContextLands(found) ==
  /\ errands.requests > 0
  /\ errands' = [errands EXCEPT !.requests = @ - 1]
  /\ LET after == [screen EXCEPT !.context = found, !.diff = @ /\ found]
     IN  IF Dropped THEN UNCHANGED <<screen, shown>>
         ELSE /\ screen' = after
              /\ shown' = IF screen.root = NoTree THEN shown
                          ELSE [shown EXCEPT !.tree = Drawn(after),
                                             !.chart = Drawn(after)]
  /\ UNCHANGED <<walk, kept, rollup, settled>>

\* action_toggle_diff; a cursor on a path the snapshots do not have asks anew
ToggleDiff(has) ==
  /\ screen.context
  /\ screen' = [screen EXCEPT !.diff = ~@]
  /\ IF ~screen.diff /\ ~has
     THEN errands.asked < MaxRequests /\ errands' = Requested_ /\ shown' = shown
     ELSE /\ shown' = [shown EXCEPT !.tree = Drawn(screen'), !.chart = Drawn(screen')]
          /\ errands' = errands
  /\ UNCHANGED <<walk, kept, rollup, settled>>

\* action_browse_snapshot_pair
BrowsePair ==
  /\ screen.context /\ errands.asked < MaxRequests
  /\ errands' = Requested_
  /\ UNCHANGED <<screen, shown, walk, kept, rollup, settled>>

\* _drill_into: where no scan has completed, into what the panel shows
GoInto ==
  /\ ~screen.busy /\ shown.tree # NoTree
  /\ screen' = [screen EXCEPT !.current = IF screen.root = NoTree THEN shown.tree
                                          ELSE screen.root]
  /\ shown' = [shown EXCEPT !.tree = IF screen.root = NoTree THEN @ ELSE Drawn(screen'),
                            !.chart = Drawn(screen')]
  /\ UNCHANGED <<walk, kept, rollup, errands, settled>>

\* on_tab_activated
SwitchTab ==
  /\ LET node == IF screen.busy THEN screen.live ELSE screen.current IN
       /\ node # NoTree
       /\ shown' = [shown EXCEPT !.chart = IF screen.busy THEN node ELSE Drawn(screen)]
  /\ UNCHANGED <<screen, walk, kept, rollup, errands, settled>>

\* _on_explorer_monitor_event, and the read it starts
MonitorTells ==
  /\ errands.loaded < MaxLoads
  /\ errands' = [errands EXCEPT !.loaded = @ + 1, !.loads = @ \cup {errands.loaded + 1}]
  /\ UNCHANGED <<screen, shown, walk, kept, rollup, settled>>

\* _apply_monitor_current
LoadLands(j) ==
  /\ j \in errands.loads
  /\ errands' = [errands EXCEPT !.loads = @ \ {j}]
  /\ IF screen.busy THEN UNCHANGED <<screen, shown, rollup, settled>>
     ELSE LET after == [screen EXCEPT !.root = Projection(j), !.current = Projection(j)]
          IN  /\ screen' = after
              /\ shown' = [shown EXCEPT !.tree = after.current, !.chart = Drawn(after)]
              /\ rollup' = Rollup(Projection(j))
              /\ settled' = "fresh"
  /\ UNCHANGED <<walk, kept>>

-----------------------------------------------------------------------------
ScanEnds == ScanCompletes \/ ScanFails \/ \E hasTree \in BOOLEAN : CompletionRaises(hasTree)

ExplorerNext ==
  \/ \E render \in BOOLEAN : ScanBegins(render)
  \/ ScanRefused
  \/ \E draws, tints \in BOOLEAN : FrameComes(draws, tints)
  \/ FrameLost \/ Flush \/ ScanEnds
  \/ PassBegins \/ PassSettles \/ PassApplies
  \/ \E found \in BOOLEAN : ContextLands(found)
  \/ \E has \in BOOLEAN : ToggleDiff(has)
  \/ BrowsePair
  \/ GoInto \/ SwitchTab \/ MonitorTells
  \/ \E j \in 1..MaxLoads : LoadLands(j)

-----------------------------------------------------------------------------
(* Properties.                                                             *)

(* While a scan is drawn as it goes, nothing older is drawn over it.        *)
OnlyItsFrames ==
  screen.busy =>
    /\ shown.chart \in {NoTree} \cup Frames(screen.active)
    /\ screen.render => shown.tree \in {NoTree} \cup Frames(screen.active)

(* Once the passes have ended after a scan or a new reading of the monitor, *)
(* the chart has the tints of the tree it shows.                            *)
TintsFollow ==
  (settled = "fresh" /\ ~screen.busy /\ rollup.next = NoTree /\ rollup.passes = {})
    => shown.tint = screen.root

(* No run but the last holds on to its tree when no scan is in progress.    *)
RetiredLetGo == ~screen.busy => kept \subseteq {screen.active}

(* The screen is in a scan only while the run goes on, even when a handler  *)
(* raised: rescan and navigation become possible again.                     *)
BusyWithTheRun == screen.busy => walk.on

(* The screen is of one scan: whatever lands late, from whichever thread,   *)
(* it shows only frames of the scan in progress, the tints of its own tree, *)
(* keeps no other run's tree alive, and is not left scanning by a handler   *)
(* that raised (screens/explorer.py:556, 684, 888, 1077).                   *)
ScreenIsOfOneScan == OnlyItsFrames /\ TintsFollow /\ RetiredLetGo /\ BusyWithTheRun
=============================================================================
