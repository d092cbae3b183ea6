------------------------------ MODULE GcPause ------------------------------
(***************************************************************************)
(* scanner/gcpause.py: one process-wide cyclic collector, switched off by  *)
(* every scan that is walking and pinned ("frozen") around finished trees. *)
(*                                                                         *)
(* A thread opens nested pause blocks: ScanService._execute_active opens   *)
(* one around the collector call and ScanEngine.scan opens another inside  *)
(* it, then freezes what the walk kept before closing its block.  Blocks   *)
(* of different threads overlap freely, because scans of different devices *)
(* run at the same time.                                                   *)
(*                                                                         *)
(* The module lock covers the counter and the remembered collector state.  *)
(* It covers neither the gc.enable() of the outermost exit nor any of the  *)
(* freezing, so those are steps of their own here.  A CPython thread may   *)
(* be switched out between any two of the calls into gc, including the     *)
(* isenabled()/disable() pair made while the lock is held.                 *)
(***************************************************************************)
EXTENDS Naturals, FiniteSets

CONSTANTS
  Threads,    \* threads that scan, or that own a finished tree
  MaxNest,    \* how deep one thread nests pause blocks (2 in the product)
  NoThread    \* the holder of a free lock

ASSUME ThreadsAssumption ==
  /\ IsFiniteSet(Threads)
  /\ NoThread \notin Threads
  /\ MaxNest \in Nat \ {0}

VARIABLES
  lock,        \* _lock: the thread holding it, or NoThread
  depth,       \* _depth
  wasEnabled,  \* _was_enabled
  gcOn,        \* gc.isenabled()
  open,        \* open[t]: pause blocks thread t is inside of
  pc,          \* pc[t]: where thread t is inside an operation of the module
  frozenByUs,  \* _frozen_by_us
  permanent,   \* who has objects in the permanent generation beyond the baseline
  initial,     \* history: the collector and freeze state the process started with
  overlapped   \* history: an outermost block opened while another was restoring

pauseVars  == <<lock, depth, wasEnabled, gcOn, open, overlapped>>
freezeVars == <<frozenByUs, permanent>>
vars == <<pauseVars, freezeVars, pc, initial>>

Owners == {"embedder", "scan"}
Places == {"run", "entering", "restoring", "freezing", "marking", "refreezing",
           "recollecting"}

TypeOK ==
  /\ lock \in Threads \cup {NoThread}
  /\ depth \in Nat
  /\ wasEnabled \in BOOLEAN
  /\ gcOn \in BOOLEAN
  /\ open \in [Threads -> 0..MaxNest]
  /\ pc \in [Threads -> Places]
  /\ frozenByUs \in BOOLEAN
  /\ permanent \in SUBSET Owners
  /\ initial \in [gcOn : BOOLEAN, frozen : BOOLEAN]
  /\ overlapped \in BOOLEAN

Init ==
  /\ initial \in [gcOn : BOOLEAN, frozen : BOOLEAN]
  /\ lock = NoThread
  /\ depth = 0
  /\ wasEnabled = TRUE
  /\ gcOn = initial.gcOn
  /\ open = [t \in Threads |-> 0]
  /\ pc = [t \in Threads |-> "run"]
  /\ frozenByUs = FALSE
  /\ permanent = IF initial.frozen THEN {"embedder"} ELSE {}
  /\ overlapped = FALSE

Goto(t, from, to) == pc[t] = from /\ pc' = [pc EXCEPT ![t] = to]

-----------------------------------------------------------------------------
(* collector_paused(): entry.                                              *)

\* The outermost entry reads gc.isenabled() with the lock held ...
EnterRead(t) ==
  /\ lock = NoThread /\ depth = 0 /\ open[t] < MaxNest
  /\ Goto(t, "run", "entering")
  /\ lock' = t
  /\ wasEnabled' = gcOn
  /\ overlapped' = (overlapped \/ \E u \in Threads : pc[u] = "restoring")
  /\ UNCHANGED <<depth, gcOn, open, freezeVars, initial>>

\* ... and disables the collector before it counts itself and lets go.
EnterDisable(t) ==
  /\ Goto(t, "entering", "run")
  /\ gcOn' = FALSE
  /\ depth' = depth + 1
  /\ open' = [open EXCEPT ![t] = @ + 1]
  /\ lock' = NoThread
  /\ UNCHANGED <<wasEnabled, overlapped, freezeVars, initial>>

\* Mutant: an entry that finds a block already open forgets to count itself.
EnterUncounted(t) ==
  /\ pc[t] = "run" /\ lock = NoThread /\ depth > 0 /\ open[t] < MaxNest
  /\ open' = [open EXCEPT ![t] = @ + 1]
  /\ UNCHANGED <<lock, depth, wasEnabled, gcOn, overlapped, pc, freezeVars, initial>>

\* An entry that finds a block already open only counts itself.
EnterNested(t) ==
  /\ pc[t] = "run" /\ lock = NoThread /\ depth > 0 /\ open[t] < MaxNest
  /\ depth' = depth + 1
  /\ open' = [open EXCEPT ![t] = @ + 1]
  /\ UNCHANGED <<lock, wasEnabled, gcOn, overlapped, pc, freezeVars, initial>>

ExitWith(t, count, restore) ==
  /\ pc[t] = "run" /\ lock = NoThread /\ open[t] > 0
  /\ depth' = count
  /\ open' = [open EXCEPT ![t] = @ - 1]
  /\ pc' = IF restore THEN [pc EXCEPT ![t] = "restoring"] ELSE pc
  /\ UNCHANGED <<lock, wasEnabled, gcOn, overlapped, freezeVars, initial>>

\* Mutants: one exit counted twice; every exit restores; the outermost exit
\* does not look at the remembered state.
ExitTwice(t)   == ExitWith(t, depth - 2, depth - 2 = 0 /\ wasEnabled)
ExitEach(t)    == ExitWith(t, depth - 1, wasEnabled)
ExitForgets(t) == ExitWith(t, depth - 1, depth - 1 = 0)

(* collector_paused(): the finally clause.  The decision is taken under    *)
(* the lock, the gc.enable() it may call for comes after the release.      *)
Exit(t) == ExitWith(t, depth - 1, depth - 1 = 0 /\ wasEnabled)

Restore(t) ==
  /\ Goto(t, "restoring", "run")
  /\ gcOn' = TRUE
  /\ UNCHANGED <<lock, depth, wasEnabled, open, overlapped, freezeVars, initial>>

-----------------------------------------------------------------------------
(* freeze_retained_tree(), called by ScanEngine.scan inside its block.     *)

\* The first freeze of the process: an embedder that froze first is left
\* alone (a collection is all that happens), otherwise go on to freeze.
FreezeFirst(t) ==
  /\ open[t] > 0 /\ ~frozenByUs
  /\ \/ permanent # {} /\ pc[t] = "run" /\ UNCHANGED pc
     \/ permanent = {} /\ Goto(t, "run", "freezing")
  /\ UNCHANGED <<pauseVars, freezeVars, initial>>

FreezePin(t) ==
  /\ Goto(t, "freezing", "marking")
  /\ permanent' = permanent \cup {"scan"}
  /\ UNCHANGED <<pauseVars, frozenByUs, initial>>

FreezeMark(t) ==
  /\ Goto(t, "marking", "run")
  /\ frozenByUs' = TRUE
  /\ UNCHANGED <<pauseVars, permanent, initial>>

\* Every later freeze hands the previous pin back first.
FreezeAgain(t) ==
  /\ open[t] > 0 /\ frozenByUs
  /\ Goto(t, "run", "refreezing")
  /\ permanent' = {}
  /\ UNCHANGED <<pauseVars, frozenByUs, initial>>

\* The collection in between reclaims dead cycles and changes nothing here.
Refreeze(t) ==
  /\ Goto(t, "refreezing", "run")
  /\ permanent' = permanent \cup {"scan"}
  /\ UNCHANGED <<pauseVars, frozenByUs, initial>>

(* recollect_retained(), for a thread that owns trees between scans.  Its  *)
(* test is made under the lock, its three collector calls are not.         *)
RecollectCheck(t) ==
  /\ lock = NoThread /\ frozenByUs /\ depth = 0
  /\ Goto(t, "run", "recollecting")
  /\ UNCHANGED <<pauseVars, freezeVars, initial>>

RecollectUnfreeze(t) ==
  /\ Goto(t, "recollecting", "refreezing")
  /\ permanent' = {}
  /\ UNCHANGED <<pauseVars, frozenByUs, initial>>

-----------------------------------------------------------------------------
PauseStep(t) ==
  EnterRead(t) \/ EnterDisable(t) \/ EnterNested(t) \/ Exit(t) \/ Restore(t)

FreezeStep(t) ==
  \/ FreezeFirst(t) \/ FreezePin(t) \/ FreezeMark(t)
  \/ FreezeAgain(t) \/ Refreeze(t)
  \/ RecollectCheck(t) \/ RecollectUnfreeze(t)

Next == \E t \in Threads : PauseStep(t) \/ FreezeStep(t)

Spec == Init /\ [][Next]_vars

-----------------------------------------------------------------------------
(* Properties.                                                             *)

OpenBlocks == {b \in Threads \X (1..MaxNest) : b[2] <= open[b[1]]}

Quiet ==
  \A t \in Threads : open[t] = 0 /\ pc[t] \notin {"entering", "restoring"}

\* What the module promises and its tests assert one thread at a time: once
\* no block is open and no exit is under way, the collector is as the process
\* had it.
CollectorRestored == Quiet => gcOn = initial.gcOn

\* The collector is off while any block is open and back as it was when all
\* are closed, in every history where no outermost block opened between an
\* outermost exit's release of the lock and its gc.enable().
PauseIsExact ==
  ~overlapped => /\ depth > 0 => ~gcOn
                 /\ CollectorRestored

\* Two threads cannot both believe theirs is the outermost block: the counter
\* is the number of blocks that are really open.
DepthCountsBlocks == depth = Cardinality(OpenBlocks)

\* An embedder that had switched the collector off, or frozen its heap, before
\* the first scan keeps it that way whatever scans overlap.
EmbedderPolicyKept ==
  /\ ~initial.gcOn => ~gcOn
  /\ initial.frozen => "embedder" \in permanent
=============================================================================
