----------------------------- MODULE WatchProofs -----------------------------
(***************************************************************************)
(* Proofs about who watches a tree, and about the watching, for any tree   *)
(* and any changes.                                                        *)
(* MonitorWatch: the types, and that a change the backend saw is never     *)
(* forgotten, with any limit on the dirty paths and any faults.            *)
(* NativeEvents: that the watches of the inotify backend follow the tree   *)
(* as long as nothing is renamed within it, with any depth and any length  *)
(* of the queue.                                                           *)
(* MonitorLeases: for any hosts, any lease and any requests and failures,  *)
(* the types, and that two hosts scan one monitor at once only after one   *)
(* of them lost its lease.                                                 *)
(***************************************************************************)
EXTENDS MonitorLeases, MonitorWatch, NativeEvents, FiniteSetTheorems,
        WellFoundedInduction, TLAPS

WatchSpec == WatchInit /\ [][WatchNext]_watchVars

-----------------------------------------------------------------------------
(* The dirty paths: an antichain of directories that covers all that was   *)
(* ever marked in it.                                                      *)

Antichain(paths) == \A d, e \in paths : d \in Under[e] => d = e

Trackers ==
  {t \in [paths : SUBSET Dirs, full : BOOLEAN, hot : BOOLEAN, on : BOOLEAN] :
     Antichain(t.paths) /\ (t.full => t.paths = {Root})}

LEMMA TreeOrder ==
  /\ Root \in Dirs /\ \A d \in Dirs : d \in Under[Root] /\ d \in Under[d]
  /\ \A d, e \in Dirs : d \in Under[e] /\ e \in Under[d] => d = e
  /\ \A d, e, x \in Dirs : d \in Under[e] /\ x \in Under[d] => x \in Under[e]
BY WatchAssumption

LEMMA RootCovers == \A d \in Dirs : Covers({Root}, d)
BY TreeOrder DEF Covers

LEMMA RootAlone == Antichain({Root}) /\ {Root} \in SUBSET Dirs
BY TreeOrder DEF Antichain

LEMMA MarkCovers ==
  ASSUME NEW A \in SUBSET Dirs, NEW B \in SUBSET Dirs, Antichain(A), Antichain(B)
  PROVE  /\ Mark(A, B) \in SUBSET Dirs /\ Antichain(Mark(A, B))
         /\ \A x \in Dirs : Covers(A, x) \/ Covers(B, x) => Covers(Mark(A, B), x)
<1>1. Mark(A, B) \in SUBSET Dirs /\ Antichain(Mark(A, B))
  BY DEF Mark, Antichain
<1>2. ASSUME NEW x \in Dirs, NEW P \in SUBSET Dirs, NEW Q \in SUBSET Dirs,
             Antichain(P), Antichain(Q), P \cup Q = A \cup B, NEW p \in P, x \in Under[p]
      PROVE  Covers(Mark(A, B), x)
  <2>1. CASE p \in Mark(A, B)
    BY <1>2, <2>1 DEF Covers
  <2>2. CASE p \notin Mark(A, B)
    <3>1. PICK e \in P \cup Q : p \in Under[e] /\ p # e
      BY <1>2, <2>2 DEF Mark
    <3>2. e \in Q
      BY <1>2, <3>1 DEF Antichain
    <3>3. e \in Mark(A, B)
      <4> SUFFICES ASSUME NEW f \in P \cup Q, e \in Under[f], e # f PROVE FALSE
        BY <1>2, <3>1 DEF Mark
      <4>1. f \in P
        BY <1>2, <3>2 DEF Antichain
      <4>2. p \in Under[f]
        BY <3>1, <3>2, <4>1, TreeOrder
      <4>3. p = f
        BY <1>2, <4>1, <4>2 DEF Antichain
      <4> QED BY <3>1, <3>2, <4>3, TreeOrder
    <3>4. x \in Under[e]
      BY <1>2, <3>1, <3>2, TreeOrder
    <3> QED BY <3>3, <3>4 DEF Covers
  <2> QED BY <2>1, <2>2
<1>3. \A x \in Dirs : Covers(A, x) \/ Covers(B, x) => Covers(Mark(A, B), x)
  <2> SUFFICES ASSUME NEW x \in Dirs, Covers(A, x) \/ Covers(B, x)
               PROVE  Covers(Mark(A, B), x)
    OBVIOUS
  <2>1. CASE Covers(A, x)
    <3>1. PICK p \in A : x \in Under[p]
      BY <2>1 DEF Covers
    <3> QED BY <1>2, <3>1
  <2>2. CASE Covers(B, x)
    <3>1. PICK p \in B : x \in Under[p]
      BY <2>2 DEF Covers
    <3> QED BY <1>2, <3>1
  <2> QED BY <2>1, <2>2
<1> QED BY <1>1, <1>3

LEMMA MarkRoot ==
  ASSUME NEW B \in SUBSET Dirs PROVE Mark({Root}, B) = {Root}
<1>1. \A x \in Mark({Root}, B) : x = Root
  BY TreeOrder DEF Mark
<1>2. Root \in Mark({Root}, B)
  BY TreeOrder DEF Mark
<1> QED BY <1>1, <1>2

LEMMA EscalateTracks ==
  ASSUME NEW t \in Trackers
  PROVE  /\ Escalate(t) \in Trackers /\ ForceFull(t) \in Trackers /\ RecordLoss(t) \in Trackers
         /\ Escalate(t).paths = {Root} /\ ForceFull(t).paths = {Root}
         /\ RecordLoss(t).paths = {Root}
         /\ Escalate(t).on = t.on /\ ForceFull(t).on = t.on /\ RecordLoss(t).on = t.on
BY RootAlone DEF Trackers, Escalate, ForceFull, RecordLoss

LEMMA MarkTracks ==
  ASSUME NEW t \in Trackers, NEW B \in SUBSET Dirs, Antichain(B), NEW hot \in BOOLEAN
  PROVE  [t EXCEPT !.paths = Mark(@, B), !.hot = hot] \in Trackers
<1>1. Mark(t.paths, B) \in SUBSET Dirs /\ Antichain(Mark(t.paths, B))
  BY MarkCovers DEF Trackers
<1>2. t.full => Mark(t.paths, B) = {Root}
  BY MarkRoot DEF Trackers
<1> QED BY <1>1, <1>2 DEF Trackers

LEMMA RecordTracks ==
  ASSUME NEW t \in Trackers, NEW d \in Dirs
  PROVE  /\ Record(t, d) \in Trackers /\ Record(t, d).on = t.on
         /\ \A x \in Dirs : Covers(t.paths, x) => Covers(Record(t, d).paths, x)
         /\ Covers(Record(t, d).paths, d)
<1> DEFINE marked == [t EXCEPT !.paths = Mark(@, {d}), !.hot = TRUE]
<1>1. {d} \in SUBSET Dirs /\ Antichain({d}) /\ Covers({d}, d)
  BY TreeOrder DEF Antichain, Covers
<1>2. marked \in Trackers /\ marked.on = t.on /\ marked.paths = Mark(t.paths, {d})
  BY <1>1, MarkTracks DEF Trackers
<1>3. \A x \in Dirs : Covers(t.paths, x) \/ Covers({d}, x) => Covers(marked.paths, x)
  BY <1>1, <1>2, MarkCovers DEF Trackers
<1> HIDE DEF marked
<1>4. Record(t, d) = marked \/ Record(t, d) = Escalate(marked)
  BY DEF Record, marked
<1>5. \A x \in Dirs : Covers(marked.paths, x) => Covers(Record(t, d).paths, x)
  BY <1>2, <1>4, EscalateTracks, RootCovers
<1>6. Record(t, d) \in Trackers /\ Record(t, d).on = t.on
  BY <1>2, <1>4, EscalateTracks
<1> QED BY <1>1, <1>3, <1>5, <1>6

LEMMA RestoreTracks ==
  ASSUME NEW t \in Trackers, NEW paths \in SUBSET Dirs, Antichain(paths), NEW full \in BOOLEAN
  PROVE  /\ Restore(t, paths, full) \in Trackers /\ Restore(t, paths, full).on = t.on
         /\ \A x \in Dirs : Covers(t.paths, x) \/ Covers(paths, x)
                              => Covers(Restore(t, paths, full).paths, x)
<1> DEFINE marked == [t EXCEPT !.paths = Mark(@, paths)]
           whole == IF full THEN Escalate(marked) ELSE marked
<1>1. marked = [t EXCEPT !.paths = Mark(@, paths), !.hot = t.hot] /\ t.hot \in BOOLEAN
  BY DEF Trackers
<1>2. marked \in Trackers
  BY <1>1, MarkTracks
<1>3. marked.on = t.on /\ marked.paths = Mark(t.paths, paths)
  BY DEF Trackers
<1>4. \A x \in Dirs : Covers(t.paths, x) \/ Covers(paths, x) => Covers(marked.paths, x)
  BY <1>3, MarkCovers DEF Trackers
<1> HIDE DEF marked
<1>5. /\ whole \in Trackers /\ whole.on = t.on
      /\ \A x \in Dirs : Covers(marked.paths, x) => Covers(whole.paths, x)
  BY <1>2, <1>3, EscalateTracks, RootCovers
<1>6. Restore(t, paths, full) = [whole EXCEPT !.hot = @ /\ whole.paths = {}]
  BY DEF Restore, marked
<1> HIDE DEF whole
<1>7. /\ Restore(t, paths, full) \in Trackers /\ Restore(t, paths, full).on = whole.on
      /\ Restore(t, paths, full).paths = whole.paths
  BY <1>5, <1>6 DEF Trackers
<1> QED BY <1>4, <1>5, <1>7

LEMMA DrainTracks ==
  ASSUME NEW t \in Trackers
  PROVE  Drain(t) \in Trackers /\ Drain(t).on = t.on
BY DEF Trackers, Drain, Antichain

-----------------------------------------------------------------------------
(* Types.                                                                  *)

Works == [kind : {"none", "full", "local"},
          at : {"", "begin", "scan", "read", "saved", "unsaved", "failing", "stopped", "apply"},
          paths : SUBSET Dirs, full : BOOLEAN, read : SUBSET Dirs]
Rows == [required : BOOLEAN, due : BOOLEAN]
Requests == [asked : BOOLEAN, deferred : BOOLEAN]
Sessions == [at : {"off", "loop", "look", "pop", "run", "exit"}, stop : BOOLEAN]
Backends == [on : BOOLEAN, running : BOOLEAN, fallback : BOOLEAN, retry : BOOLEAN]
Handlers == [at : {"idle", "status", "fall", "fell"}, full : BOOLEAN, severe : BOOLEAN]
Shown == [stale : SUBSET Dirs, overlaid : SUBSET Dirs, unseen : SUBSET Dirs,
          based : BOOLEAN, dropped : BOOLEAN]
Lefts == [changes : 0..MaxChanges, faults : 0..MaxFaults]

LEMMA TypesAre ==
  WatchTypeOK <=>
    /\ mode \in {"auto", "events", "periodic"}
    /\ backend \in Backends /\ tracker \in Trackers
    /\ events \subseteq Dirs \cup {"overflow", "error"}
    /\ handler \in Handlers /\ status \in Rows /\ pending \in Requests
    /\ session \in Sessions /\ work \in Works
    /\ control \in {"idle", "stop", "stopped", "clear", "lost", "loses", "mode", "moded"}
    /\ tree \in Shown /\ left \in Lefts
BY DEF WatchTypeOK, Backends, Trackers, Antichain, Handlers, Rows, Requests, Sessions,
       Works, Shown, Lefts

LEMMA TypesAreNext ==
  WatchTypeOK' <=>
    /\ mode' \in {"auto", "events", "periodic"}
    /\ backend' \in Backends /\ tracker' \in Trackers
    /\ events' \subseteq Dirs \cup {"overflow", "error"}
    /\ handler' \in Handlers /\ status' \in Rows /\ pending' \in Requests
    /\ session' \in Sessions /\ work' \in Works
    /\ control' \in {"idle", "stop", "stopped", "clear", "lost", "loses", "mode", "moded"}
    /\ tree' \in Shown /\ left' \in Lefts
BY DEF WatchTypeOK, Backends, Trackers, Antichain, Handlers, Rows, Requests, Sessions,
       Works, Shown, Lefts

LEMMA FaultTypes == left \in Lefts /\ Fault => left' \in Lefts
<1> SUFFICES ASSUME left \in Lefts, Fault PROVE left' \in Lefts
  OBVIOUS
<1>1. left.faults \in 0..MaxFaults /\ left.faults > 0
  BY DEF Fault, Lefts
<1>2. left.faults - 1 \in 0..MaxFaults
  BY <1>1, WatchAssumption
<1> QED BY <1>2 DEF Fault, Lefts

LEMMA InvalidatedTypes ==
  ASSUME NEW t \in Shown
  PROVE  /\ Invalidated(t) \in Shown /\ Invalidated(t).stale = t.stale \cup t.overlaid
         /\ Invalidated(t).overlaid = {} /\ Invalidated(t).unseen = t.unseen
         /\ Invalidated(t).dropped = t.dropped /\ Invalidated(t).based = t.based
BY DEF Invalidated, Shown

LEMMA StopSectionTypes ==
  ASSUME WatchTypeOK, NEW asks \in BOOLEAN, StopSection(asks)
  PROVE  tracker' \in Trackers /\ status' \in Rows /\ pending' \in Requests /\ tree' \in Shown
<1>1. tracker \in Trackers /\ status \in Rows /\ pending \in Requests /\ tree \in Shown
  BY TypesAre
<1>2. CASE UNCHANGED <<tracker, status, pending, tree>>
  BY <1>1, <1>2
<1>3. CASE /\ tracker' = IF tracker.on THEN ForceFull(tracker) ELSE tracker
           /\ status' = [status EXCEPT !.required = TRUE]
           /\ pending' = [asked |-> pending.asked \/ asks, deferred |-> FALSE]
           /\ tree' = Invalidated(tree)
  <2>1. tracker' \in Trackers
    BY <1>1, <1>3, EscalateTracks
  <2>2. status' \in Rows /\ pending' \in Requests
    BY <1>1, <1>3 DEF Rows, Requests
  <2>3. tree' \in Shown
    BY <1>1, <1>3, InvalidatedTypes
  <2> QED BY <2>1, <2>2, <2>3
<1> QED BY <1>2, <1>3 DEF StopSection

LEMMA FailureTypes ==
  ASSUME WatchTypeOK, NEW t \in Trackers, FailureMarked(t)
  PROVE  tracker' \in Trackers /\ status' \in Rows /\ tree' \in Shown
BY TypesAre, EscalateTracks, InvalidatedTypes DEF FailureMarked, Rows

LEMMA RestoredTypes ==
  ASSUME WatchTypeOK, Antichain(work.paths)
  PROVE  /\ Restored \in Trackers /\ Restored.on = tracker.on
         /\ \A x \in Dirs : Covers(tracker.paths, x) \/ Covers(work.paths, x)
                              => Covers(Restored.paths, x)
BY TypesAre, RestoreTracks DEF Restored, Works, Covers

LEMMA GoTypes ==
  /\ \A there \in {"off", "loop", "look", "pop", "run", "exit"} :
       session \in Sessions /\ LoopGoes(there) =>
         session' \in Sessions /\ session'.at = there /\ session'.stop = session.stop
  /\ \A there \in {"read", "saved", "unsaved", "failing", "stopped", "apply"} :
       work \in Works /\ WorkGoes(there) =>
         /\ work' \in Works /\ work'.at = there /\ work'.kind = work.kind
         /\ work'.paths = work.paths /\ work'.read = work.read
  /\ NoWork \in Works /\ FullWork \in Works /\ NoTracker \in Trackers
  /\ NoWork.kind = "none" /\ NoWork.paths = {} /\ NoWork.read = {} /\ NoWork.at = ""
  /\ FullWork.kind = "full" /\ FullWork.at = "begin" /\ FullWork.paths = {}
  /\ FullWork.read = {}
BY DEF LoopGoes, WorkGoes, Sessions, Works, NoWork, FullWork, NoTracker, Trackers, Antichain

\* The work belongs to a session that runs it; the session is stopped when a
\* stop is being carried out; and no event was missed before there was a tracker.
Structure ==
  /\ session.at = "run" <=> work.kind # "none"
  /\ work.kind = "full" =>
       work.at \in {"begin", "scan", "read", "saved", "unsaved", "failing", "stopped"}
  /\ work.kind = "local" => work.at \in {"scan", "read", "apply", "failing"}
  /\ work.kind = "local" => \A d \in work.read : Covers(work.paths, d)
  /\ Antichain(work.paths)
  /\ ~tracker.on => ~backend.on /\ tree.unseen = Dirs
  /\ control \in {"stop", "stopped", "clear"} => session.stop

TypeInv == WatchTypeOK /\ Structure

LEMMA InitTypes == WatchInit => TypeInv
<1> SUFFICES ASSUME WatchInit PROVE TypeInv
  OBVIOUS
<1>1. WatchTypeOK
  BY GoTypes, TypesAre DEF WatchInit, Backends, Handlers, Rows, Requests, Sessions, Shown, Lefts
<1>2. Structure
  BY GoTypes DEF WatchInit, Structure, NoTracker, Antichain
<1> QED BY <1>1, <1>2 DEF TypeInv

LEMMA EnsureTypes ==
  ASSUME TypeInv,
         \/ EnsureSkip \/ EnsureStop \/ EnsurePeriodic \/ EnsureStart
         \/ EnsureFails \/ EnsureDegrades
  PROVE  TypeInv'
<1>0. /\ mode \in {"auto", "events", "periodic"}
      /\ backend \in Backends /\ tracker \in Trackers
      /\ events \subseteq Dirs \cup {"overflow", "error"}
      /\ handler \in Handlers /\ status \in Rows /\ pending \in Requests
      /\ session \in Sessions /\ work \in Works
      /\ control \in {"idle", "stop", "stopped", "clear", "lost", "loses", "mode", "moded"}
      /\ tree \in Shown /\ left \in Lefts
  BY TypesAre DEF TypeInv
<1>1. Structure /\ session.at = "loop"
  BY DEF TypeInv, EnsureSkip, EnsureStop, EnsurePeriodic, EnsureStart, EnsureFails,
         EnsureDegrades, MayStart, AtTop
<1>2. [tracker EXCEPT !.on = TRUE] \in Trackers /\ [tracker EXCEPT !.on = TRUE].on
  BY <1>0 DEF Trackers
<1>3. CASE EnsureSkip
  BY <1>0, <1>1, <1>3, GoTypes, TypesAreNext DEF EnsureSkip, Structure, TypeInv
<1>4. CASE EnsureStop
  <2>1. tracker' \in Trackers /\ status' \in Rows /\ pending' \in Requests /\ tree' \in Shown
    BY <1>4, StopSectionTypes DEF EnsureStop, TypeInv
  <2>2. backend' \in Backends /\ ~backend'.on
    BY <1>0, <1>4 DEF EnsureStop, Backends
  <2>3. tracker'.on = tracker.on /\ tree'.unseen = tree.unseen
    BY <1>0, <1>4, EscalateTracks, InvalidatedTypes DEF EnsureStop, StopSection
  <2> QED BY <1>0, <1>1, <1>4, <2>1, <2>2, <2>3, TypesAreNext DEF EnsureStop, Structure, TypeInv
<1>5. CASE EnsurePeriodic
  <2>1. pending' \in Requests
    BY <1>0, <1>5 DEF EnsurePeriodic, Requests, Rows
  <2> QED BY <1>0, <1>1, <1>5, <2>1, GoTypes, TypesAreNext DEF EnsurePeriodic, Structure, TypeInv
<1>6. CASE EnsureStart
  <2>1. tracker' \in Trackers /\ tracker'.on
    BY <1>2, <1>6, EscalateTracks DEF EnsureStart
  <2>2. backend' \in Backends /\ pending' \in Requests /\ status' \in Rows
    BY <1>0, <1>6 DEF EnsureStart, Backends, Requests, Rows
  <2>3. tree' \in Shown
    BY <1>0, <1>6, InvalidatedTypes DEF EnsureStart, Shown
  <2> QED BY <1>0, <1>1, <1>6, <2>1, <2>2, <2>3, GoTypes, TypesAreNext
          DEF EnsureStart, Structure, TypeInv
<1>7. CASE EnsureFails
  <2>1. tracker' \in Trackers /\ tracker'.on
    <3>1. {} \in SUBSET Dirs /\ Antichain({}) /\ status.required \in BOOLEAN
      BY <1>0 DEF Antichain, Rows
    <3> QED BY <1>0, <1>2, <1>7, <3>1, RestoreTracks DEF EnsureFails
  <2>2. backend' \in Backends /\ pending' \in Requests /\ status' \in Rows
    BY <1>0, <1>7 DEF EnsureFails, Backends, Requests, Rows
  <2>3. tree' \in Shown /\ left' \in Lefts
    BY <1>0, <1>7, InvalidatedTypes, FaultTypes DEF EnsureFails
  <2> QED BY <1>0, <1>1, <1>7, <2>1, <2>2, <2>3, GoTypes, TypesAreNext
          DEF EnsureFails, Structure, TypeInv
<1>8. CASE EnsureDegrades
  <2>1. tracker' \in Trackers /\ tracker'.on
    BY <1>2, <1>8, EscalateTracks DEF EnsureDegrades
  <2>2. backend' \in Backends /\ pending' \in Requests /\ status' \in Rows
    BY <1>0, <1>8 DEF EnsureDegrades, Backends, Requests, Rows
  <2>3. tree' \in Shown /\ left' \in Lefts
    BY <1>0, <1>8, InvalidatedTypes, FaultTypes DEF EnsureDegrades
  <2> QED BY <1>0, <1>1, <1>8, <2>1, <2>2, <2>3, GoTypes, TypesAreNext
          DEF EnsureDegrades, Structure, TypeInv
<1> QED BY <1>3, <1>4, <1>5, <1>6, <1>7, <1>8

LEMMA ChooseTypes ==
  ASSUME TypeInv, Choose \/ Pop \/ LoopEnds \/ LoopExit \/ WorkBreaks
  PROVE  TypeInv'
<1>0. /\ mode \in {"auto", "events", "periodic"}
      /\ backend \in Backends /\ tracker \in Trackers
      /\ events \subseteq Dirs \cup {"overflow", "error"}
      /\ handler \in Handlers /\ status \in Rows /\ pending \in Requests
      /\ session \in Sessions /\ work \in Works
      /\ control \in {"idle", "stop", "stopped", "clear", "lost", "loses", "mode", "moded"}
      /\ tree \in Shown /\ left \in Lefts /\ Structure
  BY TypesAre DEF TypeInv
<1>1. CASE Choose
  <2>1. session' \in Sessions /\ session'.stop = session.stop /\ session.at = "look"
        /\ (session'.at = "run" <=> work' = FullWork)
        /\ (session'.at # "run" => work' = work) /\ work.kind = "none"
    BY <1>0, <1>1, GoTypes DEF Choose, Structure
  <2>2. pending' \in Requests
    BY <1>0, <1>1 DEF Choose, Requests
  <2>3. Antichain(FullWork.paths)
    BY GoTypes DEF Antichain
  <2> QED BY <1>0, <1>1, <2>1, <2>2, <2>3, GoTypes, TypesAreNext DEF Choose, Structure, TypeInv
<1>2. CASE Pop
  <2>1. CASE Ready(tracker)
    <3>1. /\ work' = [NoWork EXCEPT !.kind = "local", !.at = "scan",
                        !.paths = tracker.paths, !.full = tracker.full]
          /\ tracker' = Drain(tracker) /\ LoopGoes("run")
      BY <1>2, <2>1 DEF Pop
    <3>2. work' \in Works /\ work'.kind = "local" /\ work'.at = "scan" /\ work'.read = {}
          /\ Antichain(work'.paths)
      BY <1>0, <3>1 DEF Works, NoWork, Trackers
    <3> QED BY <1>0, <1>2, <3>1, <3>2, DrainTracks, GoTypes, TypesAreNext
            DEF Pop, Structure, TypeInv
  <2>2. CASE ~Ready(tracker)
    BY <1>0, <1>2, <2>2, GoTypes, TypesAreNext DEF Pop, Structure, TypeInv
  <2> QED BY <2>1, <2>2
<1>3. CASE LoopEnds
  BY <1>0, <1>3, GoTypes, TypesAreNext DEF LoopEnds, Structure, TypeInv
<1>4. CASE LoopExit
  <2>1. tracker' \in Trackers /\ status' \in Rows /\ pending' \in Requests /\ tree' \in Shown
    BY <1>4, StopSectionTypes DEF LoopExit, TypeInv
  <2>2. backend' \in Backends /\ ~backend'.on
    BY <1>0, <1>4 DEF LoopExit, Backends
  <2>3. tracker'.on = tracker.on /\ tree'.unseen = tree.unseen
    BY <1>0, <1>4, EscalateTracks, InvalidatedTypes DEF LoopExit, StopSection
  <2> QED BY <1>0, <1>4, <2>1, <2>2, <2>3, GoTypes, TypesAreNext DEF LoopExit, Structure, TypeInv
<1>5. CASE WorkBreaks
  <2>1. Antichain(NoWork.paths)
    BY GoTypes DEF Antichain
  <2> QED BY <1>0, <1>5, <2>1, GoTypes, FaultTypes, TypesAreNext
          DEF WorkBreaks, Structure, TypeInv
<1> QED BY <1>1, <1>2, <1>3, <1>4, <1>5

\* A reconciliation that returns.
LEMMA ReturnTypes ==
  ASSUME TypeInv, WorkReturns
  PROVE  /\ session' \in Sessions /\ session'.at = "loop" /\ session'.stop = session.stop
         /\ work' \in Works /\ work'.kind = "none" /\ Antichain(work'.paths)
BY TypesAre, GoTypes DEF TypeInv, WorkReturns, Antichain

LEMMA FullTypes ==
  ASSUME TypeInv,
         \/ FullDrain \/ FullRefused \/ FullRead \/ FullFails \/ FullFailed \/ FullStopped
         \/ FullSaves \/ FullUnsaved \/ FullDone
  PROVE  TypeInv'
<1>0. /\ mode \in {"auto", "events", "periodic"}
      /\ backend \in Backends /\ tracker \in Trackers
      /\ events \subseteq Dirs \cup {"overflow", "error"}
      /\ handler \in Handlers /\ status \in Rows /\ pending \in Requests
      /\ session \in Sessions /\ work \in Works
      /\ control \in {"idle", "stop", "stopped", "clear", "lost", "loses", "mode", "moded"}
      /\ tree \in Shown /\ left \in Lefts /\ Structure
  BY TypesAre DEF TypeInv
<1>1. CASE FullDrain
  <2>1. work' \in Works /\ work'.kind = "full" /\ work'.at = "scan" /\ Antichain(work'.paths)
    BY <1>0, <1>1 DEF FullDrain, WorkAt, Works, Trackers
  <2>2. status' \in Rows
    BY <1>0, <1>1 DEF FullDrain, Rows
  <2> QED BY <1>0, <1>1, <2>1, <2>2, DrainTracks, TypesAreNext
          DEF FullDrain, WorkAt, Structure, TypeInv
<1>2. CASE FullRefused
  <2>1. Restored \in Trackers /\ Restored.on = tracker.on
    BY <1>0, RestoredTypes DEF TypeInv, Structure
  <2>2. tracker' \in Trackers /\ status' \in Rows /\ tree' \in Shown
    BY <1>2, <2>1, FailureTypes DEF FullRefused, TypeInv
  <2>3. tracker'.on = tracker.on /\ tree'.unseen = tree.unseen
    BY <1>0, <1>2, <2>1, EscalateTracks, InvalidatedTypes DEF FullRefused, FailureMarked
  <2>4. pending' \in Requests
    BY <1>0, <1>2 DEF FullRefused, Requests
  <2>5. left' \in Lefts
    BY <1>0, <1>2, FaultTypes DEF FullRefused
  <2>6. WorkReturns
    BY <1>2 DEF FullRefused
  <2> QED BY <1>0, <1>2, <2>2, <2>3, <2>4, <2>5, <2>6, ReturnTypes, TypesAreNext
          DEF FullRefused, Structure, TypeInv
<1>3. CASE FullRead
  <2>1. work' \in Works /\ work'.kind = "full" /\ work'.at = "read" /\ Antichain(work'.paths)
    BY <1>0, <1>3 DEF FullRead, WorkAt, Works, Structure
  <2> QED BY <1>0, <1>3, <2>1, TypesAreNext DEF FullRead, WorkAt, Structure, TypeInv
<1>4. CASE FullFails
  <2>1. Restored \in Trackers /\ Restored.on = tracker.on
    BY <1>0, RestoredTypes DEF TypeInv, Structure
  <2>2. /\ work' \in Works /\ work'.kind = "full" /\ work'.at \in {"stopped", "failing"}
        /\ work'.paths = work.paths
    BY <1>0, <1>4, GoTypes DEF FullFails
  <2>3. pending' \in Requests /\ left' \in Lefts
    BY <1>0, <1>4, FaultTypes DEF FullFails, Requests
  <2> QED BY <1>0, <1>4, <2>1, <2>2, <2>3, TypesAreNext DEF FullFails, Structure, TypeInv
<1>5. CASE FullFailed
  <2>1. tracker' \in Trackers /\ status' \in Rows /\ tree' \in Shown
    BY <1>0, <1>5, FailureTypes DEF FullFailed, TypeInv
  <2>2. tracker'.on = tracker.on /\ tree'.unseen = tree.unseen
    BY <1>0, <1>5, EscalateTracks, InvalidatedTypes DEF FullFailed, FailureMarked
  <2>3. WorkReturns
    BY <1>5 DEF FullFailed
  <2> QED BY <1>0, <1>5, <2>1, <2>2, <2>3, ReturnTypes, TypesAreNext
          DEF FullFailed, Structure, TypeInv
<1>6. CASE FullStopped
  <2>1. WorkReturns
    BY <1>6 DEF FullStopped
  <2> QED BY <1>0, <1>6, <2>1, ReturnTypes, TypesAreNext DEF FullStopped, Structure, TypeInv
<1>7. CASE FullSaves
  <2>1. tree' \in Shown /\ tree'.unseen = tree.unseen
    BY <1>0, <1>7 DEF FullSaves, Shown
  <2> QED BY <1>0, <1>7, <2>1, GoTypes, TypesAreNext DEF FullSaves, WorkAt, Structure, TypeInv
<1>8. CASE FullUnsaved
  BY <1>0, <1>8, GoTypes, FaultTypes, TypesAreNext DEF FullUnsaved, WorkAt, Structure, TypeInv
<1>9. CASE FullDone
  <2>1. tree' \in Shown /\ tree'.unseen = tree.unseen
    BY <1>0, <1>9, InvalidatedTypes DEF FullDone, Shown
  <2>2. status' \in Rows /\ pending' \in Requests
    BY <1>0, <1>9 DEF FullDone, Rows, Requests, Trackers
  <2>3. WorkReturns
    BY <1>9 DEF FullDone
  <2> QED BY <1>0, <1>9, <2>1, <2>2, <2>3, ReturnTypes, TypesAreNext DEF FullDone, Structure, TypeInv
<1> QED BY <1>1, <1>2, <1>3, <1>4, <1>5, <1>6, <1>7, <1>8, <1>9

LEMMA LocalTypes ==
  ASSUME TypeInv,
         \/ LocalBlocked \/ LocalRead \/ LocalFails \/ LocalLooks \/ LocalApplies \/ LocalFailed
  PROVE  TypeInv'
<1>0. /\ mode \in {"auto", "events", "periodic"}
      /\ backend \in Backends /\ tracker \in Trackers
      /\ events \subseteq Dirs \cup {"overflow", "error"}
      /\ handler \in Handlers /\ status \in Rows /\ pending \in Requests
      /\ session \in Sessions /\ work \in Works
      /\ control \in {"idle", "stop", "stopped", "clear", "lost", "loses", "mode", "moded"}
      /\ tree \in Shown /\ left \in Lefts /\ Structure
  BY TypesAre DEF TypeInv
<1>1. CASE LocalBlocked \/ LocalFailed
  <2> DEFINE t == Restore(tracker, work.paths, TRUE)
  <2>1. t \in Trackers /\ t.on = tracker.on
    BY <1>0, RestoreTracks DEF Structure, Works
  <2>2. FailureMarked(t) /\ WorkReturns
        /\ UNCHANGED <<mode, backend, events, handler, pending, left, control>>
    BY <1>1 DEF LocalBlocked, LocalFailed
  <2> HIDE DEF t
  <2>3. tracker' \in Trackers /\ status' \in Rows /\ tree' \in Shown
    BY <2>1, <2>2, FailureTypes DEF TypeInv
  <2>4. tracker'.on = tracker.on /\ tree'.unseen = tree.unseen
    BY <1>0, <2>1, <2>2, EscalateTracks, InvalidatedTypes DEF FailureMarked
  <2> QED BY <1>0, <2>2, <2>3, <2>4, ReturnTypes, TypesAreNext DEF Structure, TypeInv
<1>2. CASE LocalRead
  <2>1. /\ work.kind = "local" /\ work.paths \subseteq Dirs
        /\ work' = [work EXCEPT !.at = "read", !.read = UNION {Under[d] : d \in work.paths}]
    BY <1>0, <1>2 DEF LocalRead, WorkAt, Works
  <2>2. UNION {Under[d] : d \in work.paths} \in SUBSET Dirs
    BY <2>1, WatchAssumption
  <2>3. /\ work' \in Works /\ work'.kind = "local" /\ work'.at = "read"
        /\ work'.paths = work.paths /\ work'.read = UNION {Under[d] : d \in work.paths}
    <3>1. work' \in Works
      BY <1>0, <2>1, <2>2 DEF Works
    <3> QED BY <1>0, <2>1, <3>1 DEF Works
  <2>4. \A d \in work'.read : Covers(work'.paths, d)
    BY <2>3 DEF Covers
  <2> QED BY <1>0, <1>2, <2>1, <2>3, <2>4, TypesAreNext DEF LocalRead, Structure, TypeInv
<1>3. CASE LocalFails \/ LocalLooks
  <2>1. /\ work' \in Works /\ work'.kind = work.kind /\ work'.at \in {"failing", "apply"}
        /\ work'.paths = work.paths /\ work'.read = work.read /\ work.kind = "local"
        /\ left' \in Lefts
    BY <1>0, <1>3, GoTypes, FaultTypes DEF LocalFails, LocalLooks, WorkAt
  <2> QED BY <1>0, <1>3, <2>1, TypesAreNext DEF LocalFails, LocalLooks, Structure, TypeInv
<1>4. CASE LocalApplies
  <2>1. tree' \in Shown /\ tree'.unseen = tree.unseen
    BY <1>0, <1>4 DEF LocalApplies, Shown
  <2>2. status' \in Rows /\ WorkReturns
    BY <1>0, <1>4 DEF LocalApplies, Rows
  <2> QED BY <1>0, <1>4, <2>1, <2>2, ReturnTypes, TypesAreNext DEF LocalApplies, Structure, TypeInv
<1> QED BY <1>1, <1>2, <1>3, <1>4

LEMMA HandlerTypes ==
  ASSUME TypeInv, HandlerAdvances
  PROVE  TypeInv'
<1>0. /\ mode \in {"auto", "events", "periodic"}
      /\ backend \in Backends /\ tracker \in Trackers
      /\ events \subseteq Dirs \cup {"overflow", "error"}
      /\ handler \in Handlers /\ status \in Rows /\ pending \in Requests
      /\ session \in Sessions /\ work \in Works
      /\ control \in {"idle", "stop", "stopped", "clear", "lost", "loses", "mode", "moded"}
      /\ tree \in Shown /\ left \in Lefts /\ Structure
  BY TypesAre DEF TypeInv
<1>1. CASE Deliver
  <2>1. PICK e \in events :
          /\ events' = events \ {e}
          /\ tracker' = IF e \in Dirs THEN Record(tracker, e) ELSE RecordLoss(tracker)
          /\ handler' \in
               [at : IF e # "error" THEN {"status"}
                     ELSE IF mode = "auto" THEN {"fall"} ELSE {"status", "fall"},
                full : {tracker'.full}, severe : {e \notin Dirs}]
    BY <1>1 DEF Deliver
  <2>2. tracker' \in Trackers /\ tracker'.on = tracker.on
    BY <1>0, <2>1, RecordTracks, EscalateTracks
  <2>3. handler' \in Handlers
    BY <2>1, <2>2 DEF Handlers, Trackers
  <2> QED BY <1>0, <1>1, <2>1, <2>2, <2>3, TypesAreNext DEF Deliver, Structure, TypeInv
<1>2. CASE HandleStatus
  <2>1. handler' \in Handlers
    BY <1>0, <1>2 DEF HandleStatus, Handlers
  <2>2. pending' \in Requests /\ status' \in Rows
    BY <1>0, <1>2 DEF HandleStatus, Requests, Rows, Handlers
  <2>3. tree' \in Shown /\ tree'.unseen = tree.unseen
    <3>1. ASSUME NEW b \in BOOLEAN
          PROVE  /\ [Invalidated(tree) EXCEPT !.dropped = @ \/ b] \in Shown
                 /\ [Invalidated(tree) EXCEPT !.dropped = @ \/ b].unseen = tree.unseen
      BY <1>0, InvalidatedTypes DEF Shown
    <3>2. (tree.overlaid # {} /\ ~tracker.full) \in BOOLEAN
      OBVIOUS
    <3>3. \/ tree' = tree
          \/ tree' = [Invalidated(tree) EXCEPT
                         !.dropped = @ \/ (tree.overlaid # {} /\ ~tracker.full)]
      BY <1>2 DEF HandleStatus
    <3> QED BY <1>0, <3>1, <3>2, <3>3
  <2> QED BY <1>0, <1>2, <2>1, <2>2, <2>3, TypesAreNext DEF HandleStatus, Structure, TypeInv
<1>3. CASE HandleFall
  <2>1. handler' \in Handlers /\ backend' \in Backends /\ ~backend'.on
    BY <1>0, <1>3 DEF HandleFall, Handlers, Backends
  <2> QED BY <1>0, <1>3, <2>1, TypesAreNext DEF HandleFall, Structure, TypeInv
<1>4. CASE HandleFell
  <2>1. tracker' \in Trackers /\ status' \in Rows /\ pending' \in Requests /\ tree' \in Shown
    BY <1>0, <1>4, StopSectionTypes DEF HandleFell, TypeInv, Sessions
  <2>2. tracker'.on = tracker.on /\ tree'.unseen = tree.unseen
    BY <1>0, <1>4, EscalateTracks, InvalidatedTypes DEF HandleFell, StopSection
  <2>3. handler' \in Handlers
    BY <1>0, <1>4 DEF HandleFell, Handlers
  <2> QED BY <1>0, <1>4, <2>1, <2>2, <2>3, TypesAreNext DEF HandleFell, Structure, TypeInv
<1> QED BY <1>1, <1>2, <1>3, <1>4 DEF HandlerAdvances

LEMMA ControlTypes ==
  ASSUME TypeInv, ControlAdvances \/ Requested
  PROVE  TypeInv'
<1>0. /\ mode \in {"auto", "events", "periodic"}
      /\ backend \in Backends /\ tracker \in Trackers
      /\ events \subseteq Dirs \cup {"overflow", "error"}
      /\ handler \in Handlers /\ status \in Rows /\ pending \in Requests
      /\ session \in Sessions /\ work \in Works
      /\ control \in {"idle", "stop", "stopped", "clear", "lost", "loses", "mode", "moded"}
      /\ tree \in Shown /\ left \in Lefts /\ Structure
  BY TypesAre DEF TypeInv
<1>1. CASE ControlPops
  <2>1. backend' \in Backends /\ ~backend'.on
    BY <1>0, <1>1 DEF ControlPops, Backends
  <2>2. /\ control = "stop" => control' = "stopped"
        /\ control = "lost" => control' = "loses"
        /\ control = "mode" => control' = "moded"
    BY <1>1 DEF ControlPops
  <2> QED BY <1>0, <1>1, <2>1, <2>2, TypesAreNext DEF ControlPops, Structure, TypeInv
<1>2. CASE ControlSection
  <2>1. tracker' \in Trackers /\ status' \in Rows /\ pending' \in Requests /\ tree' \in Shown
    <3>1. (control = "moded" /\ ~session.stop) \in BOOLEAN
      BY <1>0 DEF Sessions
    <3> QED BY <1>2, <3>1, StopSectionTypes DEF ControlSection, TypeInv
  <2>2. tracker'.on = tracker.on /\ tree'.unseen = tree.unseen
    BY <1>0, <1>2, EscalateTracks, InvalidatedTypes DEF ControlSection, StopSection
  <2> QED BY <1>0, <1>2, <2>1, <2>2, TypesAreNext DEF ControlSection, Structure, TypeInv
<1>3. CASE ControlClears
  BY <1>0, <1>3, TypesAreNext DEF ControlClears, Requests, Structure, TypeInv
<1>4. CASE stop_session
  BY <1>0, <1>4, FaultTypes, TypesAreNext DEF stop_session, ControlBegins, Sessions, Structure, TypeInv
<1>5. CASE start_session
  BY <1>0, <1>5, TypesAreNext DEF start_session, Sessions, Requests, Backends, Structure, TypeInv
<1>6. CASE LeaseLost
  BY <1>0, <1>6, FaultTypes, TypesAreNext DEF LeaseLost, ControlBegins, Structure, TypeInv
<1>7. CASE set_event_mode
  BY <1>0, <1>7, FaultTypes, TypesAreNext
     DEF set_event_mode, ControlBegins, Backends, Structure, TypeInv
<1>8. CASE reconcile_monitor
  BY <1>0, <1>8, FaultTypes, TypesAreNext
     DEF reconcile_monitor, Requests, Rows, Structure, TypeInv
<1> QED BY <1>1, <1>2, <1>3, <1>4, <1>5, <1>6, <1>7, <1>8 DEF ControlAdvances, Requested

LEMMA WorldTypes ==
  ASSUME TypeInv,
         Overflow \/ BackendDies \/ Elapse \/ FallsDue \/ \E d \in Writable : Change(d)
  PROVE  TypeInv'
<1>0. /\ mode \in {"auto", "events", "periodic"}
      /\ backend \in Backends /\ tracker \in Trackers
      /\ events \subseteq Dirs \cup {"overflow", "error"}
      /\ handler \in Handlers /\ status \in Rows /\ pending \in Requests
      /\ session \in Sessions /\ work \in Works
      /\ control \in {"idle", "stop", "stopped", "clear", "lost", "loses", "mode", "moded"}
      /\ tree \in Shown /\ left \in Lefts /\ Structure
  BY TypesAre DEF TypeInv
<1>1. CASE Overflow
  BY <1>0, <1>1, FaultTypes, TypesAreNext DEF Overflow, Structure, TypeInv
<1>2. CASE BackendDies
  BY <1>0, <1>2, FaultTypes, TypesAreNext DEF BackendDies, Watched, Backends, Structure, TypeInv
<1>3. CASE Elapse
  <2>1. tracker' \in Trackers /\ tracker'.on = tracker.on
    BY <1>0, <1>3 DEF Elapse, Trackers
  <2>2. pending' \in Requests /\ backend' \in Backends /\ backend'.on = backend.on
    BY <1>0, <1>3 DEF Elapse, Requests, Backends
  <2> QED BY <1>0, <1>3, <2>1, <2>2, TypesAreNext DEF Elapse, Structure, TypeInv
<1>4. CASE FallsDue
  BY <1>0, <1>4, TypesAreNext DEF FallsDue, Rows, Structure, TypeInv
<1>5. ASSUME NEW d \in Writable, Change(d) PROVE TypeInv'
  <2>1. d \in Dirs
    BY WatchAssumption
  <2>2. left' \in Lefts
    <3>1. left.changes \in 0..MaxChanges /\ left.changes > 0
      BY <1>0, <1>5 DEF Change, Lefts
    <3>2. left.changes - 1 \in 0..MaxChanges
      BY <3>1, WatchAssumption
    <3> QED BY <1>0, <1>5, <3>2 DEF Change, Lefts
  <2>3. tree' \in Shown /\ tree'.unseen = IF Watched THEN tree.unseen \ {d} ELSE tree.unseen \cup {d}
    BY <1>0, <1>5, <2>1 DEF Change, Shown
  <2>4. /\ work' \in Works /\ work'.kind = work.kind /\ work'.at = work.at
        /\ work'.paths = work.paths /\ work'.read \subseteq work.read
    BY <1>0, <1>5 DEF Change, Works
  <2>5. events' \subseteq Dirs \cup {"overflow", "error"}
    BY <1>0, <1>5, <2>1 DEF Change
  <2>6. ~tracker.on => tree'.unseen = Dirs
    BY <1>0, <2>1, <2>3 DEF Structure, Watched
  <2> QED BY <1>0, <1>5, <2>2, <2>3, <2>4, <2>5, <2>6, TypesAreNext DEF Change, Structure, TypeInv
<1> QED BY <1>1, <1>2, <1>3, <1>4, <1>5

LEMMA NextTypes == TypeInv /\ [WatchNext]_watchVars => TypeInv'
<1> SUFFICES ASSUME TypeInv, [WatchNext]_watchVars PROVE TypeInv'
  OBVIOUS
<1>1. CASE UNCHANGED watchVars
  BY <1>1, TypesAre, TypesAreNext DEF watchVars, TypeInv, Structure
<1> QED BY <1>1, EnsureTypes, ChooseTypes, FullTypes, LocalTypes, HandlerTypes, ControlTypes,
           WorldTypes
        DEF WatchNext, SessionAdvances, SessionErrs

\* Type correctness; the dirty paths never cover one another, and after an
\* escalation they are the root alone.
THEOREM WatchTypesCorrect == WatchSpec => []WatchTypeOK
<1>1. WatchSpec => []TypeInv
  BY InitTypes, NextTypes, PTL DEF WatchSpec
<1>2. TypeInv => WatchTypeOK
  BY DEF TypeInv
<1> QED BY <1>1, <1>2, PTL

-----------------------------------------------------------------------------
(* A change is never forgotten.  Of each change that is seen and not shown *)
(* somebody other than the session's loop knows, or the work in progress   *)
(* holds it, or the row demands a full scan that is in someone's hands.    *)

Announced(d) ==
  \/ events \cap {d, "overflow", "error"} # {}
  \/ Covers(tracker.paths, d) \/ FullToCome

Traced(d) == Announced(d) \/ tree.dropped

\* In the hands of the work under way, that gives it back or shows it.
Held(d) ==
  \/ WorkAt("full", "unsaved") /\ d \in work.read
  \/ work.kind = "full" /\ work.at \in {"scan", "read"} /\ Covers(work.paths, d)
  \/ work.kind = "local" /\ work.at \in {"scan", "failing"} /\ Covers(work.paths, d)
  \/ work.kind = "local" /\ work.at \in {"read", "apply"} /\ d \in work.read

\* The row demands a full scan and nobody has been told to forget it: it is
\* asked of the session, or in a full scan's hands, or the section of the stop
\* that cancelled it is to come.
Demanded ==
  /\ status.required /\ (session.stop => control = "stop")
  /\ \/ session.at \in {"loop", "look"} /\ pending.asked
     \/ session.at \in {"loop", "off"} /\ session.stop
     \/ work.kind = "full" /\ work.at \in {"begin", "scan", "read", "failing"}
     \/ WorkAt("full", "stopped") /\ session.stop

\* What a full scan that ends has not read, somebody else knows of.
ReadOrKnown ==
  \A d \in (tree.stale \cup tree.overlaid) \ tree.unseen :
    /\ WorkAt("full", "saved") => Announced(d)
    /\ work.kind = "full" /\ work.at \in {"read", "unsaved"} => d \in work.read \/ Announced(d)

EachKept == \A d \in tree.stale \ tree.unseen : Traced(d) \/ Held(d) \/ Demanded

WatchInv == TypeInv /\ ReadOrKnown /\ EachKept

\* A step after which everything is to be scanned, or nothing was seen.
LEMMA AllKnown ==
  ASSUME TypeInv',
         \/ tracker'.paths = {Root} \/ tree'.unseen = Dirs \/ FullToCome'
         \/ events' \cap {"overflow", "error"} # {}
  PROVE  ReadOrKnown' /\ EachKept'
<1>1. \A d \in Dirs : d \in tree'.unseen \/ Announced(d)'
  BY RootCovers DEF Announced
<1>2. tree'.stale \in SUBSET Dirs /\ tree'.overlaid \in SUBSET Dirs
  BY TypesAreNext DEF TypeInv, Shown
<1> QED BY <1>1, <1>2 DEF ReadOrKnown, EachKept, Traced

\* A step that takes nothing from anyone's hands.
LEMMA StillKept ==
  ASSUME WatchInv, UNCHANGED <<work, tree>>,
         \A d \in Dirs : Announced(d) => Announced(d)',
         Demanded => Demanded'
  PROVE  ReadOrKnown' /\ EachKept'
<1>1. tree.stale \in SUBSET Dirs /\ tree.overlaid \in SUBSET Dirs
  BY TypesAre DEF WatchInv, TypeInv, Shown
<1>2. ReadOrKnown'
  BY <1>1 DEF WatchInv, ReadOrKnown, WorkAt
<1>3. EachKept'
  BY <1>1 DEF WatchInv, EachKept, Traced, Held, WorkAt
<1> QED BY <1>2, <1>3

\* The section that stops a backend leaves a full scan to be done.
LEMMA StopSectionKeeps ==
  ASSUME TypeInv, TypeInv', NEW asks \in BOOLEAN, StopSection(asks)
  PROVE  ReadOrKnown' /\ EachKept'
<1>1. tracker \in Trackers /\ tree \in Shown /\ (~tracker.on => ~backend.on /\ tree.unseen = Dirs)
  BY TypesAre DEF TypeInv, Structure
<1>2. tracker'.paths = {Root} \/ tree'.unseen = Dirs
  BY <1>1, EscalateTracks, InvalidatedTypes DEF StopSection
<1> QED BY <1>2, AllKnown

LEMMA FailureKeeps ==
  ASSUME TypeInv, TypeInv', NEW t \in Trackers, t.on = tracker.on, FailureMarked(t)
  PROVE  ReadOrKnown' /\ EachKept'
<1>1. tree \in Shown /\ (~tracker.on => tree.unseen = Dirs)
  BY TypesAre DEF TypeInv, Structure
<1>2. tracker'.paths = {Root} \/ tree'.unseen = Dirs
  BY <1>1, EscalateTracks, InvalidatedTypes DEF FailureMarked
<1> QED BY <1>2, AllKnown

LEMMA EnsureKeeps ==
  ASSUME WatchInv, TypeInv',
         \/ EnsureSkip \/ EnsureStop \/ EnsurePeriodic \/ EnsureStart
         \/ EnsureFails \/ EnsureDegrades
  PROVE  ReadOrKnown' /\ EachKept'
<1>1. /\ tracker \in Trackers /\ tree \in Shown /\ session \in Sessions /\ pending \in Requests
      /\ status \in Rows
      /\ Structure /\ TypeInv
  BY TypesAre DEF WatchInv, TypeInv
<1>2. session.at = "loop" /\ ~session.stop /\ work.kind = "none"
  BY <1>1 DEF EnsureSkip, EnsureStop, EnsurePeriodic, EnsureStart, EnsureFails, EnsureDegrades,
              MayStart, AtTop, Structure
<1>3. CASE EnsureSkip \/ EnsurePeriodic
  <2>1. /\ UNCHANGED <<work, tree, tracker, events, handler, control, status>>
        /\ session'.at = "look" /\ session'.stop = session.stop
        /\ pending.asked => pending'.asked
    BY <1>1, <1>3, GoTypes DEF EnsureSkip, EnsurePeriodic, Requests
  <2>2. \A d \in Dirs : Announced(d) => Announced(d)'
    BY <1>2, <2>1 DEF Announced, FullToCome
  <2>3. Demanded => Demanded'
    BY <1>2, <2>1 DEF Demanded, WorkAt
  <2> QED BY <2>1, <2>2, <2>3, StillKept
<1>4. CASE EnsureStop
  BY <1>1, <1>4, StopSectionKeeps DEF EnsureStop
<1>5. CASE EnsureStart \/ EnsureDegrades
  <2>1. [tracker EXCEPT !.on = TRUE] \in Trackers
    BY <1>1 DEF Trackers
  <2>2. tracker'.paths = {Root}
    BY <1>5, <2>1, EscalateTracks DEF EnsureStart, EnsureDegrades
  <2> QED BY <2>2, AllKnown
<1>6. CASE EnsureFails
  <2>1. CASE ~tracker.on
    <3>1. tree'.unseen = Dirs
      BY <1>1, <1>6, <2>1, InvalidatedTypes DEF EnsureFails, Structure
    <3> QED BY <3>1, AllKnown
  <2>2. CASE tracker.on
    <3>1. /\ session'.at = "look" /\ ~session'.stop /\ pending'.asked /\ status'.required
          /\ work' = work
      BY <1>1, <1>2, <1>6, GoTypes DEF EnsureFails, Requests, Rows
    <3> QED BY <1>2, <3>1 DEF ReadOrKnown, EachKept, Demanded, WorkAt
  <2> QED BY <2>1, <2>2
<1> QED BY <1>3, <1>4, <1>5, <1>6

LEMMA ChooseKeeps ==
  ASSUME WatchInv, TypeInv', Choose \/ Pop
  PROVE  ReadOrKnown' /\ EachKept'
<1>1. /\ tracker \in Trackers /\ tree \in Shown /\ session \in Sessions /\ pending \in Requests
      /\ status \in Rows /\ Structure /\ TypeInv /\ EachKept
      /\ UNCHANGED <<events, handler, control, status, tree>>
  BY TypesAre DEF WatchInv, TypeInv, Choose, Pop
<1>2. session.at \in {"look", "pop"} /\ work.kind = "none" /\ tree.stale \subseteq Dirs
  BY <1>1 DEF Choose, Pop, Structure, Shown
<1>3. \A d \in tree.stale \ tree.unseen : ~Held(d)
  BY <1>2 DEF Held, WorkAt
<1>4. Demanded => session.at = "look" /\ pending.asked
  BY <1>2 DEF Demanded, WorkAt
<1>5. session'.at \in {"loop", "pop", "run"} /\ session'.stop = session.stop
  BY <1>1, GoTypes DEF Choose, Pop
<1>6. work' = work \/ work' = FullWork \/ (work'.kind = "local" /\ work'.at = "scan")
  BY DEF Choose, Pop, NoWork
<1>7. ReadOrKnown'
  BY <1>2, <1>6, GoTypes DEF ReadOrKnown, WorkAt
<1>8. CASE Choose
  <2>1. tracker' = tracker
    BY <1>8 DEF Choose
  <2>2. \A d : Traced(d) => Traced(d)'
    BY <1>1, <1>2, <2>1 DEF Traced, Announced, FullToCome
  <2>3. CASE Demanded
    <3>1. FullDirty \/ work' = FullWork
      BY <1>4, <1>8, <2>3 DEF Choose
    <3>2. CASE FullDirty
      <4>1. tracker'.paths = {Root}
        BY <1>1, <2>1, <3>2 DEF FullDirty, Trackers
      <4> QED BY <4>1, AllKnown
    <3>3. CASE work' = FullWork
      <4>1. Demanded'
        BY <1>1, <1>5, <2>3, <3>3, GoTypes DEF Demanded, WorkAt
      <4> QED BY <1>7, <4>1 DEF EachKept
    <3> QED BY <3>1, <3>2, <3>3
  <2>4. CASE ~Demanded
    BY <1>1, <1>3, <1>7, <2>2, <2>4 DEF EachKept
  <2> QED BY <2>3, <2>4
<1>9. CASE Pop
  <2>1. ~Demanded
    BY <1>4, <1>9 DEF Pop
  <2>2. ASSUME NEW d \in tree.stale \ tree.unseen
        PROVE  Traced(d)' \/ Held(d)'
    <3>1. Traced(d)
      BY <1>1, <1>3, <2>1, <2>2 DEF EachKept
    <3>2. CASE UNCHANGED <<work, tracker>>
      BY <1>1, <1>2, <3>1, <3>2 DEF Traced, Announced, FullToCome
    <3>3. CASE work' = [NoWork EXCEPT !.kind = "local", !.at = "scan", !.paths = tracker.paths,
                                      !.full = tracker.full]
      <4>1. work'.kind = "local" /\ work'.at = "scan" /\ work'.paths = tracker.paths
        BY <3>3 DEF NoWork
      <4>2. CASE Covers(tracker.paths, d)
        BY <4>1, <4>2 DEF Held
      <4>3. CASE ~Covers(tracker.paths, d)
        BY <1>1, <1>2, <3>1, <4>3 DEF Traced, Announced, FullToCome
      <4> QED BY <4>2, <4>3
    <3> QED BY <1>9, <3>2, <3>3 DEF Pop
  <2> QED BY <1>1, <1>7, <2>2 DEF EachKept
<1> QED BY <1>8, <1>9

LEMMA LoopKeeps ==
  ASSUME WatchInv, TypeInv', WorkBreaks \/ LoopEnds \/ LoopExit
  PROVE  ReadOrKnown' /\ EachKept'
<1>1. session \in Sessions /\ Structure /\ TypeInv
  BY TypesAre DEF WatchInv, TypeInv
<1>2. CASE WorkBreaks
  <2>1. session'.at = "exit"
    BY <1>1, <1>2, GoTypes DEF WorkBreaks
  <2> QED BY <2>1, AllKnown DEF FullToCome
<1>3. CASE LoopEnds
  <2>1. /\ session.at = "loop" /\ session.stop /\ session'.at = "off" /\ session'.stop
        /\ UNCHANGED <<work, tree, tracker, events, handler, control, status>>
    BY <1>1, <1>3, GoTypes DEF LoopEnds
  <2>2. \A d \in Dirs : Announced(d) => Announced(d)'
    BY <2>1 DEF Announced, FullToCome
  <2>3. Demanded => Demanded'
    BY <2>1 DEF Demanded, WorkAt
  <2> QED BY <2>1, <2>2, <2>3, StillKept
<1>4. CASE LoopExit
  BY <1>1, <1>4, StopSectionKeeps DEF LoopExit
<1> QED BY <1>2, <1>3, <1>4

LEMMA FullKeeps ==
  ASSUME WatchInv, TypeInv',
         \/ FullDrain \/ FullRefused \/ FullRead \/ FullFails \/ FullFailed \/ FullStopped
         \/ FullSaves \/ FullUnsaved \/ FullDone
  PROVE  ReadOrKnown' /\ EachKept'
<1>1. /\ tracker \in Trackers /\ tree \in Shown /\ session \in Sessions /\ work \in Works
      /\ status \in Rows /\ Structure /\ TypeInv /\ EachKept /\ ReadOrKnown
  BY TypesAre DEF WatchInv, TypeInv
<1>2. /\ tree.stale \subseteq Dirs /\ tree.overlaid \subseteq Dirs
      /\ work.kind = "full" /\ session.at = "run"
  BY <1>1 DEF Shown, FullDrain, FullRefused, FullRead, FullFails, FullFailed, FullStopped,
              FullSaves, FullUnsaved, FullDone, WorkAt, Structure
<1>3. CASE FullDrain
  <2>1. /\ work.at = "begin" /\ work'.kind = "full" /\ work'.at = "scan"
        /\ work'.paths = tracker.paths /\ status'.required = status.required
        /\ UNCHANGED <<events, handler, pending, session, tree, control>>
    BY <1>1, <1>3 DEF FullDrain, WorkAt, Works, Rows
  <2>2. Demanded => Demanded'
    BY <1>2, <2>1 DEF Demanded, WorkAt
  <2>3. ASSUME NEW d \in tree.stale \ tree.unseen
        PROVE  Traced(d)' \/ Held(d)' \/ Demanded'
    <3>1. Traced(d) \/ Demanded
      BY <1>1, <2>1 DEF EachKept, Held, WorkAt
    <3>2. CASE Covers(tracker.paths, d)
      BY <2>1, <3>2 DEF Held
    <3>3. CASE ~Covers(tracker.paths, d)
      BY <2>1, <2>2, <3>1, <3>3 DEF Traced, Announced, FullToCome
    <3> QED BY <3>2, <3>3
  <2> QED BY <2>1, <2>3 DEF ReadOrKnown, EachKept, WorkAt
<1>4. CASE FullRefused
  <2>1. Restored \in Trackers /\ Restored.on = tracker.on
    BY <1>1, RestoredTypes DEF TypeInv, Structure
  <2> QED BY <1>1, <1>4, <2>1, FailureKeeps DEF FullRefused
<1>5. CASE FullRead
  <2>1. /\ work.at = "scan" /\ work'.kind = "full" /\ work'.at = "read" /\ work'.read = Dirs
        /\ work'.paths = work.paths
        /\ UNCHANGED <<tracker, events, handler, status, pending, session, tree, control>>
    BY <1>1, <1>5 DEF FullRead, WorkAt, Works
  <2>2. ReadOrKnown'
    BY <1>2, <2>1 DEF ReadOrKnown, WorkAt
  <2>3. \A d : Held(d) => Held(d)'
    BY <1>2, <2>1 DEF Held, WorkAt
  <2>4. Demanded => Demanded'
    BY <1>2, <2>1 DEF Demanded, WorkAt
  <2>5. EachKept'
    BY <1>1, <2>1, <2>3, <2>4 DEF EachKept, Traced, Announced, FullToCome
  <2> QED BY <2>2, <2>5
<1>6. CASE FullFails
  <2>1. /\ work.at \in {"scan", "read"} /\ work'.kind = "full"
        /\ work'.at = "failing" \/ (work'.at = "stopped" /\ session.stop)
        /\ tracker' = Restored
        /\ UNCHANGED <<events, handler, status, session, tree, control>>
    BY <1>1, <1>6, GoTypes DEF FullFails
  <2>2. \A x \in Dirs : Covers(tracker.paths, x) \/ Covers(work.paths, x)
                          => Covers(tracker'.paths, x)
    BY <1>1, <2>1, RestoredTypes DEF TypeInv, Structure
  <2>3. Demanded => Demanded'
    BY <1>2, <2>1 DEF Demanded, WorkAt
  <2>4. ASSUME NEW d \in tree.stale \ tree.unseen
        PROVE  Traced(d)' \/ Demanded'
    <3>1. Traced(d) \/ Covers(work.paths, d) \/ Demanded
      BY <1>1, <1>2, <2>1, <2>4 DEF EachKept, Held, WorkAt
    <3> QED BY <1>2, <2>1, <2>2, <2>3, <3>1 DEF Traced, Announced, FullToCome
  <2> QED BY <2>1, <2>4 DEF ReadOrKnown, EachKept, WorkAt
<1>7. CASE FullFailed
  BY <1>1, <1>7, FailureKeeps DEF FullFailed
<1>8. CASE FullStopped
  <2>1. /\ work.at = "stopped" /\ work'.kind = "none" /\ session'.at = "loop"
        /\ session'.stop = session.stop
        /\ UNCHANGED <<tracker, events, handler, status, tree, control>>
    BY <1>1, <1>8, ReturnTypes DEF FullStopped, WorkAt
  <2>2. Demanded => Demanded'
    BY <1>2, <2>1 DEF Demanded, WorkAt
  <2>3. ASSUME NEW d \in tree.stale \ tree.unseen
        PROVE  Traced(d)' \/ Demanded'
    BY <1>1, <1>2, <2>1, <2>2 DEF EachKept, Held, WorkAt, Traced, Announced, FullToCome
  <2> QED BY <2>1, <2>3 DEF ReadOrKnown, EachKept, WorkAt
<1>9. CASE FullSaves
  <2>1. /\ work.at = "read" /\ work'.kind = "full" /\ work'.at = "saved"
        /\ tree'.stale = tree.stale \ work.read /\ tree'.overlaid = tree.overlaid \ work.read
        /\ tree'.unseen = tree.unseen
        /\ UNCHANGED <<tracker, events, handler, status, session, control>>
    BY <1>1, <1>9, GoTypes DEF FullSaves, WorkAt, Shown
  <2>2. \A d \in (tree'.stale \cup tree'.overlaid) \ tree'.unseen : Announced(d)'
    BY <1>1, <1>2, <2>1 DEF ReadOrKnown, Announced, FullToCome
  <2> QED BY <2>1, <2>2 DEF ReadOrKnown, EachKept, Traced, WorkAt
<1>10. CASE FullUnsaved
  <2>1. /\ work.at = "read" /\ work'.kind = "full" /\ work'.at = "unsaved"
        /\ work'.read = work.read
        /\ UNCHANGED <<tracker, events, handler, status, session, tree, control>>
    BY <1>1, <1>10, GoTypes DEF FullUnsaved, WorkAt
  <2>2. \A d \in (tree.stale \cup tree.overlaid) \ tree.unseen : d \in work'.read \/ Announced(d)'
    BY <1>1, <1>2, <2>1 DEF ReadOrKnown, Announced, FullToCome
  <2> QED BY <2>1, <2>2 DEF ReadOrKnown, EachKept, Traced, Held, WorkAt
<1>11. CASE FullDone
  <2>1. /\ work.at \in {"saved", "unsaved"} /\ work'.kind = "none" /\ session'.at = "loop"
        /\ UNCHANGED <<tracker, events, handler, control>>
    BY <1>1, <1>11, ReturnTypes DEF FullDone, WorkAt
  <2>2. /\ tree'.stale = tree.stale \cup tree.overlaid /\ tree'.unseen = tree.unseen
        /\ work.at = "unsaved" => tree'.dropped
    BY <1>1, <1>11, InvalidatedTypes DEF FullDone, Shown
  <2>3. \A d \in tree'.stale \ tree'.unseen : Traced(d)'
    BY <1>1, <1>2, <2>1, <2>2 DEF ReadOrKnown, Traced, Announced, FullToCome, WorkAt
  <2> QED BY <2>1, <2>3 DEF ReadOrKnown, EachKept, WorkAt
<1> QED BY <1>3, <1>4, <1>5, <1>6, <1>7, <1>8, <1>9, <1>10, <1>11

LEMMA LocalKeeps ==
  ASSUME WatchInv, TypeInv',
         \/ LocalBlocked \/ LocalRead \/ LocalFails \/ LocalLooks \/ LocalApplies \/ LocalFailed
  PROVE  ReadOrKnown' /\ EachKept'
<1>1. /\ tracker \in Trackers /\ tree \in Shown /\ session \in Sessions /\ work \in Works
      /\ Structure /\ TypeInv /\ EachKept
  BY TypesAre DEF WatchInv, TypeInv
<1>2. /\ tree.stale \subseteq Dirs /\ work.kind = "local" /\ session.at = "run"
  BY <1>1 DEF Shown, LocalBlocked, LocalRead, LocalFails, LocalLooks, LocalApplies, LocalFailed,
              WorkAt, Structure
<1>3. ~Demanded
  BY <1>2 DEF Demanded, WorkAt
<1>4. CASE LocalBlocked \/ LocalFailed
  <2> DEFINE t == Restore(tracker, work.paths, TRUE)
  <2>1. t \in Trackers /\ t.on = tracker.on
    BY <1>1, RestoreTracks DEF Structure, Works
  <2>2. FailureMarked(t)
    BY <1>4 DEF LocalBlocked, LocalFailed
  <2> HIDE DEF t
  <2> QED BY <1>1, <2>1, <2>2, FailureKeeps
<1>5. CASE LocalRead
  <2>1. /\ work.at = "scan" /\ work'.kind = "local" /\ work'.at = "read"
        /\ work'.read = UNION {Under[d] : d \in work.paths}
        /\ UNCHANGED <<tracker, events, handler, session, tree, control>>
    BY <1>1, <1>5 DEF LocalRead, WorkAt, Works
  <2>2. \A d : Held(d) => Held(d)'
    BY <1>2, <2>1 DEF Held, WorkAt, Covers
  <2> QED BY <1>1, <1>3, <2>1, <2>2
          DEF ReadOrKnown, EachKept, Traced, Announced, FullToCome, WorkAt
<1>6. CASE LocalFails \/ LocalLooks
  <2>1. /\ work.at \in {"scan", "read"} /\ work'.kind = "local"
        /\ work'.paths = work.paths /\ work'.read = work.read
        /\ work'.at = "failing" \/ (work.at = "read" /\ work'.at = "apply")
        /\ UNCHANGED <<tracker, events, handler, session, tree, control>>
    BY <1>1, <1>6, GoTypes DEF LocalFails, LocalLooks, WorkAt
  <2>2. \A d : Held(d) => Held(d)'
    BY <1>1, <1>2, <2>1 DEF Held, WorkAt, Structure
  <2> QED BY <1>1, <1>3, <2>1, <2>2
          DEF ReadOrKnown, EachKept, Traced, Announced, FullToCome, WorkAt
<1>7. CASE LocalApplies
  <2>1. /\ work.at = "apply" /\ work'.kind = "none" /\ session'.at = "loop"
        /\ UNCHANGED <<tracker, events, handler, control>>
    BY <1>1, <1>7, ReturnTypes DEF LocalApplies, WorkAt
  <2>2. /\ tree'.stale = tree.stale \ work.read /\ tree'.unseen = tree.unseen
        /\ tree'.dropped = tree.dropped
    BY <1>1, <1>7 DEF LocalApplies, Shown
  <2>3. \A d \in tree'.stale \ tree'.unseen : Traced(d)'
    BY <1>1, <1>2, <1>3, <2>1, <2>2 DEF EachKept, Held, Traced, Announced, FullToCome, WorkAt
  <2> QED BY <2>1, <2>3 DEF ReadOrKnown, EachKept, WorkAt
<1> QED BY <1>4, <1>5, <1>6, <1>7

LEMMA HandlerKeeps ==
  ASSUME WatchInv, TypeInv', HandlerAdvances
  PROVE  ReadOrKnown' /\ EachKept'
<1>1. /\ tracker \in Trackers /\ tree \in Shown /\ session \in Sessions /\ handler \in Handlers
      /\ events \subseteq Dirs \cup {"overflow", "error"}
      /\ status \in Rows /\ pending \in Requests /\ Structure /\ TypeInv
      /\ EachKept /\ ReadOrKnown
  BY TypesAre DEF WatchInv, TypeInv
<1>2. CASE Deliver
  <2>1. PICK e \in events :
          /\ events' = events \ {e}
          /\ tracker' = IF e \in Dirs THEN Record(tracker, e) ELSE RecordLoss(tracker)
    BY <1>2 DEF Deliver
  <2>2. UNCHANGED <<work, tree, status, pending, session, control>> /\ handler.at = "idle"
    BY <1>2 DEF Deliver
  <2>3. CASE e \in Dirs
    <3>1. Covers(tracker'.paths, e)
          /\ \A x \in Dirs : Covers(tracker.paths, x) => Covers(tracker'.paths, x)
      BY <1>1, <2>1, <2>3, RecordTracks
    <3>2. e \notin {"overflow", "error"}
      BY <2>3, WatchAssumption
    <3>3. \A d \in Dirs : Announced(d) => Announced(d)'
      BY <2>1, <2>2, <3>1, <3>2 DEF Announced, FullToCome
    <3>4. Demanded => Demanded'
      BY <2>2 DEF Demanded, WorkAt
    <3> QED BY <2>2, <3>3, <3>4, StillKept
  <2>4. CASE e \notin Dirs
    <3>1. tracker'.paths = {Root}
      BY <1>1, <2>1, <2>4, EscalateTracks
    <3> QED BY <3>1, AllKnown
  <2> QED BY <2>3, <2>4
<1>3. CASE HandleStatus
  <2>1. /\ handler.at = "status" /\ handler'.at = "idle"
        /\ UNCHANGED <<events, tracker, session, work, control>>
        /\ pending'.asked = pending.asked /\ (status.required => status'.required)
    BY <1>1, <1>3 DEF HandleStatus, Handlers, Requests, Rows
  <2>2. Demanded => Demanded'
    BY <2>1 DEF Demanded, WorkAt
  <2>3. \A d : Announced(d) => Announced(d)'
    BY <2>1 DEF Announced, FullToCome
  <2>4. CASE tree' = tree
    BY <2>1, <2>2, <2>3, <2>4, StillKept
  <2>5. CASE tree' = [Invalidated(tree) EXCEPT
                        !.dropped = @ \/ (tree.overlaid # {} /\ ~tracker.full)]
    <3>1. CASE tracker.full
      <4>1. tracker'.paths = {Root}
        BY <1>1, <2>1, <3>1 DEF Trackers
      <4> QED BY <4>1, AllKnown
    <3>2. CASE ~tracker.full
      <4>1. /\ tree'.stale = tree.stale \cup tree.overlaid /\ tree'.overlaid = {}
            /\ tree'.unseen = tree.unseen
            /\ tree'.dropped = (tree.dropped \/ tree.overlaid # {})
        BY <1>1, <2>5, <3>2, InvalidatedTypes DEF Shown
      <4>2. ReadOrKnown'
        BY <1>1, <2>1, <2>3, <4>1 DEF ReadOrKnown, WorkAt
      <4>3. CASE tree.overlaid = {}
        BY <1>1, <2>1, <2>2, <2>3, <4>1, <4>2, <4>3 DEF EachKept, Traced, Held, WorkAt
      <4>4. CASE tree.overlaid # {}
        BY <4>1, <4>2, <4>4 DEF EachKept, Traced
      <4> QED BY <4>3, <4>4
    <3> QED BY <3>1, <3>2
  <2> QED BY <1>3, <2>4, <2>5 DEF HandleStatus
<1>4. CASE HandleFall
  <2>1. handler'.at = "fell"
    BY <1>1, <1>4 DEF HandleFall, Handlers
  <2> QED BY <2>1, AllKnown DEF FullToCome
<1>5. CASE HandleFell
  BY <1>1, <1>5, StopSectionKeeps DEF HandleFell, Sessions
<1> QED BY <1>2, <1>3, <1>4, <1>5 DEF HandlerAdvances

LEMMA ControlKeeps ==
  ASSUME WatchInv, TypeInv', ControlAdvances \/ Requested
  PROVE  ReadOrKnown' /\ EachKept'
<1>1. /\ session \in Sessions /\ pending \in Requests /\ status \in Rows
      /\ control \in {"idle", "stop", "stopped", "clear", "lost", "loses", "mode", "moded"}
      /\ Structure /\ TypeInv
  BY TypesAre DEF WatchInv, TypeInv
<1>2. CASE ControlPops
  <2>1. control' \in {"stopped", "loses", "moded"}
    BY <1>2 DEF ControlPops
  <2> QED BY <2>1, AllKnown DEF FullToCome
<1>3. CASE ControlSection
  <2>1. (control = "moded" /\ ~session.stop) \in BOOLEAN
    BY <1>1 DEF Sessions
  <2> QED BY <1>1, <1>3, <2>1, StopSectionKeeps DEF ControlSection
<1>4. CASE ControlClears
  <2>1. ~Demanded
    BY <1>1, <1>4 DEF ControlClears, Demanded, Structure
  <2>2. \A d \in Dirs : Announced(d) => Announced(d)'
    BY <1>4 DEF ControlClears, Announced, FullToCome
  <2> QED BY <1>4, <2>1, <2>2, StillKept DEF ControlClears
<1>5. CASE start_session
  <2>1. ~Demanded
    BY <1>5 DEF start_session, Demanded
  <2>2. \A d \in Dirs : Announced(d) => Announced(d)'
    BY <1>5 DEF start_session, Announced, FullToCome
  <2> QED BY <1>5, <2>1, <2>2, StillKept DEF start_session
<1>6. CASE stop_session \/ LeaseLost \/ set_event_mode
  <2>1. /\ UNCHANGED <<work, tree, tracker, events, handler, status, pending>>
        /\ control = "idle" /\ session'.at = session.at
        /\ session'.stop => session.stop \/ control' = "stop"
        /\ session.stop => session'.stop
    BY <1>1, <1>6 DEF stop_session, LeaseLost, set_event_mode, ControlBegins, Sessions
  <2>2. \A d \in Dirs : Announced(d) => Announced(d)'
    BY <2>1 DEF Announced, FullToCome
  <2>3. Demanded => Demanded'
    BY <2>1 DEF Demanded, WorkAt
  <2> QED BY <2>1, <2>2, <2>3, StillKept
<1>7. CASE reconcile_monitor
  <2>1. \A d \in Dirs : Announced(d) => Announced(d)'
    BY <1>7 DEF reconcile_monitor, Announced, FullToCome
  <2>2. Demanded => Demanded'
    BY <1>1, <1>7 DEF reconcile_monitor, Demanded, WorkAt, Rows
  <2> QED BY <1>7, <2>1, <2>2, StillKept DEF reconcile_monitor
<1> QED BY <1>2, <1>3, <1>4, <1>5, <1>6, <1>7 DEF ControlAdvances, Requested

LEMMA WorldKeeps ==
  ASSUME WatchInv, TypeInv',
         Overflow \/ BackendDies \/ Elapse \/ FallsDue \/ \E d \in Writable : Change(d)
  PROVE  ReadOrKnown' /\ EachKept'
<1>1. /\ tracker \in Trackers /\ tree \in Shown /\ work \in Works
      /\ pending \in Requests /\ status \in Rows /\ Structure /\ TypeInv
      /\ EachKept /\ ReadOrKnown
  BY TypesAre DEF WatchInv, TypeInv
<1>2. CASE Overflow \/ BackendDies
  <2>1. events' \cap {"overflow", "error"} # {}
    BY <1>2 DEF Overflow, BackendDies
  <2> QED BY <2>1, AllKnown
<1>3. CASE Elapse \/ FallsDue
  <2>1. /\ UNCHANGED <<work, tree, events, handler, session, control>>
        /\ tracker'.paths = tracker.paths /\ pending'.asked = pending.asked
        /\ status'.required = status.required
    BY <1>1, <1>3 DEF Elapse, FallsDue, Trackers, Requests, Rows
  <2>2. \A d \in Dirs : Announced(d) => Announced(d)'
    BY <2>1 DEF Announced, FullToCome
  <2>3. Demanded => Demanded'
    BY <2>1 DEF Demanded, WorkAt
  <2> QED BY <2>1, <2>2, <2>3, StillKept
<1>4. ASSUME NEW d \in Writable, Change(d) PROVE ReadOrKnown' /\ EachKept'
  <2>1. /\ tree'.stale = tree.stale \cup {d} /\ tree'.overlaid = tree.overlaid \ {d}
        /\ tree'.unseen = IF Watched THEN tree.unseen \ {d} ELSE tree.unseen \cup {d}
        /\ tree'.dropped = tree.dropped
        /\ work'.kind = work.kind /\ work'.at = work.at /\ work'.paths = work.paths
        /\ work'.read = work.read \ {d}
        /\ UNCHANGED <<tracker, handler, status, pending, session, control>>
    BY <1>1, <1>4 DEF Change, Shown, Works
  <2>2. events \subseteq events' /\ (Watched => d \in events')
    BY <1>4 DEF Change
  <2>3. \A x : Announced(x) => Announced(x)'
    BY <2>1, <2>2 DEF Announced, FullToCome
  <2>4. d \notin tree'.unseen => Announced(d)'
    BY <2>1, <2>2 DEF Announced
  <2>5. Demanded => Demanded'
    BY <2>1 DEF Demanded, WorkAt
  <2>6. \A x : x # d /\ Held(x) => Held(x)'
    BY <2>1 DEF Held, WorkAt
  <2>7. ReadOrKnown'
    BY <1>1, <2>1, <2>3, <2>4 DEF ReadOrKnown, WorkAt
  <2>8. EachKept'
    BY <1>1, <2>1, <2>3, <2>4, <2>5, <2>6 DEF EachKept, Traced
  <2> QED BY <2>7, <2>8
<1> QED BY <1>2, <1>3, <1>4

LEMMA NextKeeps == WatchInv /\ [WatchNext]_watchVars => WatchInv'
<1> SUFFICES ASSUME WatchInv, [WatchNext]_watchVars PROVE WatchInv'
  OBVIOUS
<1>1. TypeInv'
  BY NextTypes DEF WatchInv
<1>2. CASE UNCHANGED watchVars
  <2>1. \A d \in Dirs : Announced(d) => Announced(d)'
    BY <1>2 DEF watchVars, Announced, FullToCome
  <2>2. Demanded => Demanded'
    BY <1>2 DEF watchVars, Demanded, WorkAt
  <2> QED BY <1>1, <1>2, <2>1, <2>2, StillKept DEF watchVars, WatchInv
<1>3. CASE WatchNext
  BY <1>1, <1>3, EnsureKeeps, ChooseKeeps, LoopKeeps, FullKeeps, LocalKeeps, HandlerKeeps,
     ControlKeeps, WorldKeeps
     DEF WatchNext, SessionAdvances, SessionErrs, WatchInv
<1> QED BY <1>2, <1>3

LEMMA InitKeeps == WatchInit => WatchInv
<1> SUFFICES ASSUME WatchInit PROVE WatchInv
  OBVIOUS
<1>1. tree.stale = Dirs /\ tree.overlaid = {} /\ tree.unseen = Dirs
  BY DEF WatchInit
<1> QED BY <1>1, InitTypes DEF WatchInv, ReadOrKnown, EachKept

\* A change that a running backend saw is on its way to a snapshot or to the
\* overlay, whatever fails, is cancelled, overflows or is stopped, and
\* whichever thread comes first: every exit of a run gives back the dirty
\* paths it drained, or demands a full scan in their place.
THEOREM NothingIsForgotten == WatchSpec => []NothingForgotten
<1>1. WatchSpec => []WatchInv
  BY InitKeeps, NextKeeps, PTL DEF WatchSpec
<1>2. WatchInv => NothingForgotten
  <2> SUFFICES ASSUME WatchInv, NEW d \in tree.stale \ tree.unseen
               PROVE  \/ events \cap {d, "overflow", "error"} # {}
                      \/ Covers(tracker.paths, d) \/ BeingDone(d)
                      \/ status.required \/ pending.asked \/ FullToCome
                      \/ tree.dropped
    BY DEF NothingForgotten
  <2>1. CASE Traced(d)
    BY <2>1 DEF Traced, Announced
  <2>2. CASE Demanded
    BY <2>2 DEF Demanded
  <2>3. CASE Held(d)
    BY <2>3 DEF WatchInv, ReadOrKnown, Held, BeingDone, Announced, WorkAt
  <2> QED BY <2>1, <2>2, <2>3 DEF WatchInv, EachKept
<1> QED BY <1>1, <1>2, PTL

-----------------------------------------------------------------------------
(* NativeEvents.                                                           *)

LEMMA LeastOf ==
  ASSUME NEW S \in SUBSET Nat, S # {}
  PROVE  \E m \in S : \A x \in S : m <= x
<1>1. PICK m \in S : \A x \in S : ~ (<<x, m>> \in OpToRel(<, Nat))
  BY NatLessThanWellFounded, WFMin
<1>2. ASSUME NEW x \in S PROVE m <= x
  <2> SUFFICES ASSUME x < m PROVE FALSE
    OBVIOUS
  <2>1. <<x, m>> \in Nat \X Nat
    OBVIOUS
  <2>2. <<x, m>> \in OpToRel(<, Nat)
    BY <2>1 DEF OpToRel
  <2> QED BY <2>2, <1>1
<1> QED BY <1>2

-----------------------------------------------------------------------------
(* Paths of names.                                                         *)

Paths == Seq(Names)

LEMMA WithinMeans ==
  ASSUME NEW p \in Paths, NEW q \in Paths
  PROVE  Within(p, q) <=> Len(q) <= Len(p) /\ \A i \in 1..Len(q) : p[i] = q[i]
<1>1. CASE Len(q) <= Len(p)
  <2>1. SubSeq(q, 1, Len(q)) = q
    BY DEF Paths
  <2>2. SubSeq(p, 1, Len(q)) = [i \in 1..Len(q) |-> p[i]]
    BY <1>1 DEF Paths
  <2>3. q = [i \in 1..Len(q) |-> q[i]]
    BY DEF Paths
  <2> QED BY <1>1, <2>1, <2>2, <2>3 DEF Within, IsPrefix
<1>2. CASE ~ (Len(q) <= Len(p))
  BY <1>2 DEF Within, IsPrefix
<1> QED BY <1>1, <1>2

LEMMA Beginning ==
  ASSUME NEW p \in Paths, NEW n \in Nat, n <= Len(p)
  PROVE  /\ SubSeq(p, 1, n) \in Paths /\ Len(SubSeq(p, 1, n)) = n
         /\ \A i \in 1..n : SubSeq(p, 1, n)[i] = p[i]
BY DEF Paths

LEMMA AboveRest ==
  ASSUME NEW p \in Paths, p # TheRoot
  PROVE  /\ Front(p) \in Paths /\ Last(p) \in Names /\ Len(p) \in Nat \ {0}
         /\ Len(Front(p)) = Len(p) - 1 /\ \A i \in 1..Len(p) - 1 : Front(p)[i] = p[i]
         /\ Last(p) = p[Len(p)]
<1>1. Len(p) \in Nat \ {0} /\ \A i \in 1..Len(p) : p[i] \in Names
  BY DEF Paths, TheRoot
<1> DEFINE n == Len(p) - 1
<1>2. n \in Nat /\ n <= Len(p)
  BY <1>1
<1>3. /\ SubSeq(p, 1, n) \in Paths /\ Len(SubSeq(p, 1, n)) = n
      /\ \A i \in 1..n : SubSeq(p, 1, n)[i] = p[i]
  BY <1>2, Beginning
<1> QED BY <1>1, <1>3 DEF Front, Last

LEMMA SamePath ==
  ASSUME NEW p \in Paths, NEW q \in Paths, Len(p) = Len(q), \A i \in 1..Len(p) : p[i] = q[i]
  PROVE  p = q
BY DEF Paths

LEMMA WithinItself ==
  ASSUME NEW p \in Paths
  PROVE  Within(p, p) /\ Within(p, TheRoot) /\ (Within(TheRoot, p) => p = TheRoot)
<1>1. TheRoot \in Paths /\ Len(TheRoot) = 0
  BY DEF TheRoot, Paths
<1>2. Len(p) = 0 => p = TheRoot
  BY DEF TheRoot, Paths
<1>3. Len(p) \in Nat
  BY DEF Paths
<1>4. Within(p, p)
  BY <1>3, WithinMeans
<1>5. Within(p, TheRoot)
  BY <1>1, <1>3, WithinMeans
<1>6. Within(TheRoot, p) => p = TheRoot
  BY <1>1, <1>2, <1>3, WithinMeans
<1> QED BY <1>4, <1>5, <1>6

LEMMA WithinAbove ==
  ASSUME NEW p \in Paths, p # TheRoot, NEW q \in Paths
  PROVE  /\ Within(p, q) /\ p # q => Within(Front(p), q)
         /\ Within(Front(p), q) => Within(p, q) /\ p # q
<1>1. /\ Front(p) \in Paths /\ Len(p) \in Nat \ {0} /\ Len(q) \in Nat
      /\ Len(Front(p)) = Len(p) - 1 /\ \A i \in 1..Len(p) - 1 : Front(p)[i] = p[i]
  BY AboveRest DEF Paths
<1>2. ASSUME Within(p, q), p # q PROVE Within(Front(p), q)
  <2>1. Len(q) # Len(p)
    BY <1>2, WithinMeans, SamePath
  <2>2. Len(q) <= Len(p) /\ \A i \in 1..Len(q) : p[i] = q[i]
    BY <1>2, WithinMeans
  <2>3. Len(q) <= Len(Front(p)) /\ \A i \in 1..Len(q) : Front(p)[i] = q[i]
    BY <1>1, <2>1, <2>2
  <2> QED BY <1>1, <2>3, WithinMeans
<1>3. ASSUME Within(Front(p), q) PROVE Within(p, q) /\ p # q
  BY <1>1, <1>3, WithinMeans
<1> QED BY <1>2, <1>3

LEMMA PathJoined ==
  ASSUME NEW q \in Paths, NEW n \in Names
  PROVE  /\ Append(q, n) \in Paths \ {TheRoot}
         /\ Front(Append(q, n)) = q /\ Last(Append(q, n)) = n
<1>1. /\ Append(q, n) \in Paths /\ Len(Append(q, n)) = Len(q) + 1 /\ Len(q) \in Nat
      /\ \A i \in 1..Len(q) : Append(q, n)[i] = q[i]
      /\ Append(q, n)[Len(q) + 1] = n
  BY DEF Paths
<1>2. Append(q, n) # TheRoot
  BY <1>1 DEF TheRoot
<1> DEFINE p == Append(q, n)
<1>3. /\ Front(p) \in Paths /\ Len(Front(p)) = Len(p) - 1 /\ Last(p) = p[Len(p)]
      /\ \A i \in 1..Len(p) - 1 : Front(p)[i] = p[i]
  BY <1>1, <1>2, AboveRest
<1> HIDE DEF p
<1>4. Len(Front(p)) = Len(q) /\ \A i \in 1..Len(q) : Front(p)[i] = q[i]
  BY <1>1, <1>3 DEF p
<1>5. Front(p) = q
  BY <1>3, <1>4, SamePath
<1> QED BY <1>1, <1>2, <1>3, <1>5 DEF p

LEMMA PathParted ==
  ASSUME NEW p \in Paths, p # TheRoot, NEW q \in Paths, q # TheRoot,
         Front(p) = Front(q), Last(p) = Last(q)
  PROVE  p = q
<1>1. Len(p) = Len(q)
  BY AboveRest
<1>2. ASSUME NEW i \in 1..Len(p) PROVE p[i] = q[i]
  <2>1. CASE i = Len(p)
    BY <1>1, <2>1, AboveRest
  <2>2. CASE i # Len(p)
    <3>1. i \in 1..Len(p) - 1
      BY <2>2, AboveRest
    <3> QED BY <1>1, <3>1, AboveRest
  <2> QED BY <2>1, <2>2
<1> QED BY <1>1, <1>2, SamePath

\* A set of paths that has what is above each.
Rooted(D) ==
  /\ D \subseteq Paths /\ TheRoot \in D
  /\ \A p \in D \ {TheRoot} : Front(p) \in D

LEMMA AncestorsThere ==
  ASSUME NEW D, Rooted(D), NEW p \in D, NEW q \in Paths, Within(p, q)
  PROVE  q \in D
<1> DEFINE at(n) == SubSeq(p, 1, n)
           S == {n \in Nat : Len(q) <= n /\ n <= Len(p) /\ at(n) \in D}
<1>1. p \in Paths /\ Len(p) \in Nat /\ Len(q) \in Nat
      /\ Len(q) <= Len(p) /\ \A i \in 1..Len(q) : p[i] = q[i]
  BY WithinMeans DEF Rooted, Paths
<1>2. at(Len(p)) = p
  BY <1>1 DEF Paths
<1>3. Len(p) \in S
  <2>1. Len(p) <= Len(p)
    BY <1>1
  <2> HIDE DEF at
  <2> QED BY <1>1, <1>2, <2>1
<1>4. PICK m \in S : \A x \in S : m <= x
  BY <1>3, LeastOf
<1>5. m = Len(q)
  <2> SUFFICES ASSUME m # Len(q) PROVE FALSE
    OBVIOUS
  <2>1. /\ m \in Nat \ {0} /\ Len(q) <= m - 1 /\ m - 1 \in Nat /\ m <= Len(p)
        /\ at(m) \in D
    BY <1>1
  <2>2. /\ at(m) \in Paths /\ Len(at(m)) = m /\ at(m - 1) \in Paths /\ Len(at(m - 1)) = m - 1
        /\ \A i \in 1..m : at(m)[i] = p[i]
        /\ \A i \in 1..m - 1 : at(m - 1)[i] = p[i]
    BY <1>1, <2>1, Beginning
  <2> HIDE DEF at
  <2>3. at(m) # TheRoot
    BY <2>1, <2>2 DEF TheRoot
  <2>4. Front(at(m)) = at(m - 1)
    <3>1. /\ Front(at(m)) \in Paths /\ Len(Front(at(m))) = m - 1
          /\ \A i \in 1..m - 1 : Front(at(m))[i] = at(m)[i]
      BY <2>2, <2>3, AboveRest
    <3>2. \A i \in 1..m - 1 : Front(at(m))[i] = at(m - 1)[i]
      BY <2>1, <2>2, <3>1
    <3> QED BY <2>2, <3>1, <3>2, SamePath
  <2>5. at(m - 1) \in D
    BY <2>1, <2>3, <2>4 DEF Rooted
  <2>6. m - 1 \in S
    BY <2>1, <2>5
  <2> QED BY <1>4, <2>1, <2>6
<1>6. at(Len(q)) = q
  <2>1. /\ at(Len(q)) \in Paths /\ Len(at(Len(q))) = Len(q)
        /\ \A i \in 1..Len(q) : at(Len(q))[i] = p[i]
    BY <1>1, Beginning
  <2>2. \A i \in 1..Len(q) : at(Len(q))[i] = q[i]
    BY <1>1, <2>1
  <2> QED BY <2>1, <2>2, SamePath
<1> QED BY <1>5, <1>6

\* Between a directory and one below it is one of its children.
LEMMA StepDown ==
  ASSUME NEW D, Rooted(D), NEW p \in D, NEW q \in Paths, Within(p, q), p # q
  PROVE  \E c \in D : c # TheRoot /\ Front(c) = q /\ Within(p, c)
<1> DEFINE n == Len(q) + 1
           c == SubSeq(p, 1, n)
<1>1. p \in Paths /\ Len(p) \in Nat /\ Len(q) \in Nat
      /\ Len(q) <= Len(p) /\ \A i \in 1..Len(q) : p[i] = q[i]
  BY WithinMeans DEF Rooted, Paths
<1>2. Len(q) # Len(p)
  BY <1>1, SamePath
<1>3. n \in Nat \ {0} /\ n <= Len(p) /\ Len(q) = n - 1
  BY <1>1, <1>2
<1> HIDE DEF n
<1>4. c \in Paths /\ Len(c) = n /\ \A i \in 1..n : c[i] = p[i]
  BY <1>1, <1>3, Beginning
<1> HIDE DEF c
<1>5. Within(p, c)
  BY <1>1, <1>3, <1>4, WithinMeans
<1>6. c # TheRoot
  BY <1>3, <1>4 DEF TheRoot
<1>7. Front(c) = q
  <2>1. /\ Front(c) \in Paths /\ Len(Front(c)) = n - 1
        /\ \A i \in 1..n - 1 : Front(c)[i] = c[i]
    BY <1>4, <1>6, AboveRest
  <2>2. \A i \in 1..n - 1 : Front(c)[i] = q[i]
    BY <1>1, <1>3, <1>4, <2>1
  <2> QED BY <1>3, <2>1, <2>2, SamePath
<1>8. c \in D
  BY <1>4, <1>5, AncestorsThere
<1> QED BY <1>5, <1>6, <1>7, <1>8

-----------------------------------------------------------------------------
(* The event queue.                                                        *)

Removals == {"delete_self", "ignored", "move_self"}
EventKinds == {"create", "to", "from", "delete", "overflow"} \cup Removals
RawEvents == [wd : Nat, kind : EventKinds, name : Names \cup {""}, cookie : Nat]

\* r is q and then news of E.
Lengthened(r, q, E) ==
  /\ r \in Seq(RawEvents) /\ Len(q) <= Len(r)
  /\ \A i \in 1..Len(q) : r[i] = q[i]
  /\ \A i \in 1..Len(r) : i > Len(q) => r[i] \in E

\* What is queued is what is told or that it does not fit.
LEMMA QueuedLengthens ==
  ASSUME NEW q \in Seq(RawEvents), NEW news \in Seq(RawEvents),
         NEW E, Overflowed \in E, \A j \in 1..Len(news) : news[j] \in E
  PROVE  Lengthened(Queued(q, news), q, E)
<1> DEFINE all == q \o news
           m == IF Len(q) > MaxQueue THEN Len(q) ELSE MaxQueue
           kept == SubSeq(all, 1, m)
<1>1. /\ all \in Seq(RawEvents) /\ Len(all) = Len(q) + Len(news)
      /\ \A i \in 1..Len(q) : all[i] = q[i]
      /\ \A i \in 1..Len(all) : i > Len(q) => all[i] = news[i - Len(q)]
      /\ Len(q) \in Nat /\ Len(news) \in Nat
  OBVIOUS
<1>2. \A i \in 1..Len(all) : i > Len(q) => all[i] \in E
  BY <1>1
<1>3. MaxQueue \in Nat /\ Overflowed \in RawEvents
  BY NativeAssumption DEF NativeAssumption, Overflowed, Raw, RawEvents, EventKinds
<1> HIDE DEF all
<1>4. CASE Len(q) + Len(news) <= MaxQueue
  <2>1. Queued(q, news) = all
    BY <1>4 DEF Queued, all
  <2> QED BY <1>1, <1>2, <2>1 DEF Lengthened
<1>5. CASE ~ (Len(q) + Len(news) <= MaxQueue)
  <2>1. m \in Nat /\ m <= Len(all) /\ Len(q) <= m
    BY <1>1, <1>3, <1>5
  <2> HIDE DEF m
  <2>2. kept \in Seq(RawEvents) /\ Len(kept) = m /\ \A i \in 1..m : kept[i] = all[i]
    BY <1>1, <2>1
  <2>3. Queued(q, news) = IF Contains(kept, Overflowed) THEN kept ELSE Append(kept, Overflowed)
    BY <1>5 DEF Queued, all, kept, m
  <2> HIDE DEF kept
  <2>4. Lengthened(kept, q, E)
    BY <1>1, <1>2, <2>1, <2>2 DEF Lengthened
  <2> DEFINE more == Append(kept, Overflowed)
  <2>5. /\ more \in Seq(RawEvents) /\ Len(more) = m + 1 /\ more[m + 1] = Overflowed
        /\ \A i \in 1..m : more[i] = kept[i]
    BY <1>3, <2>1, <2>2
  <2> HIDE DEF more
  <2>6. \A i \in 1..m + 1 : i > Len(q) => more[i] \in E
    <3> SUFFICES ASSUME NEW i \in 1..m + 1, i > Len(q) PROVE more[i] \in E
      OBVIOUS
    <3>1. CASE i = m + 1
      BY <2>5, <3>1
    <3>2. CASE i # m + 1
      BY <2>1, <2>2, <2>4, <2>5, <3>2 DEF Lengthened
    <3> QED BY <3>1, <3>2
  <2>7. Lengthened(more, q, E)
    BY <1>1, <2>1, <2>2, <2>4, <2>5, <2>6 DEF Lengthened
  <2> QED BY <2>3, <2>4, <2>7 DEF more
<1> QED BY <1>4, <1>5

\* One event is queued, or an overflow after it, or one was queued before.
LEMMA QueuedOne ==
  ASSUME NEW q \in Seq(RawEvents), NEW e \in RawEvents
  PROVE  \/ Len(q) >= MaxQueue /\ Contains(q, Overflowed)
         \/ /\ Len(Queued(q, <<e>>)) = Len(q) + 1
            /\ Queued(q, <<e>>)[Len(q) + 1] \in {e, Overflowed}
<1>1. /\ MaxQueue \in Nat /\ Len(q) \in Nat /\ Len(<<e>>) = 1 /\ q \o <<e>> = Append(q, e)
      /\ Len(Append(q, e)) = Len(q) + 1 /\ Append(q, e)[Len(q) + 1] = e
      /\ Len(Append(q, Overflowed)) = Len(q) + 1
      /\ Append(q, Overflowed)[Len(q) + 1] = Overflowed
  <2>1. Overflowed \in RawEvents
    BY DEF Overflowed, Raw, RawEvents, EventKinds
  <2>2. q \o <<e>> = Append(q, e)
    OBVIOUS
  <2>3. Len(Append(q, e)) = Len(q) + 1 /\ Append(q, e)[Len(q) + 1] = e
    OBVIOUS
  <2>4. Len(Append(q, Overflowed)) = Len(q) + 1 /\ Append(q, Overflowed)[Len(q) + 1] = Overflowed
    BY <2>1
  <2>5. MaxQueue \in Nat
    BY NativeAssumption DEF NativeAssumption
  <2>6. Len(q) \in Nat /\ Len(<<e>>) = 1
    OBVIOUS
  <2> QED BY <2>2, <2>3, <2>4, <2>5, <2>6
<1>2. CASE Len(q) + 1 <= MaxQueue
  <2>1. Queued(q, <<e>>) = Append(q, e)
    BY <1>1, <1>2 DEF Queued
  <2> QED BY <1>1, <2>1
<1>3. CASE ~ (Len(q) + 1 <= MaxQueue)
  <2> DEFINE m == IF Len(q) > MaxQueue THEN Len(q) ELSE MaxQueue
  <2>1. m = Len(q) /\ Len(q) >= MaxQueue
    BY <1>1, <1>3
  <2>2. SubSeq(q \o <<e>>, 1, m) = q
    BY <2>1
  <2>3. Queued(q, <<e>>) = IF Contains(q, Overflowed) THEN q ELSE Append(q, Overflowed)
    BY <1>1, <1>3, <2>2 DEF Queued
  <2> QED BY <1>1, <2>1, <2>3
<1> QED BY <1>2, <1>3

Announces(ev, w, n) == ev.wd = w /\ ev.kind \in {"create", "to"} /\ ev.name = n
Removes(ev, w, n) == ev.wd = w /\ ev.kind = "delete" /\ ev.name = n

\* Nothing behind place k says that name n is gone from the directory that w watches.
Unrefuted(q, k, w, n) == \A j \in 1..Len(q) : j > k => ~Removes(q[j], w, n)

\* An event makes the reader look at it again, and nothing behind undoes that.
Heard(q, w, n) ==
  \E k \in 1..Len(q) : (q[k] = Overflowed \/ Announces(q[k], w, n)) /\ Unrefuted(q, k, w, n)

LEMMA QueueGrows ==
  ASSUME NEW q \in Seq(RawEvents), NEW r, NEW E, Lengthened(r, q, E), NEW w, NEW n,
         \A ev \in E : ~Removes(ev, w, n)
  PROVE  (Heard(q, w, n) => Heard(r, w, n)) /\ (Unrefuted(q, 0, w, n) => Unrefuted(r, 0, w, n))
<1>1. ASSUME NEW k \in Nat, Unrefuted(q, k, w, n) PROVE Unrefuted(r, k, w, n)
  <2> SUFFICES ASSUME NEW j \in 1..Len(r), j > k PROVE ~Removes(r[j], w, n)
    BY DEF Unrefuted
  <2>1. CASE j > Len(q)
    BY <2>1 DEF Lengthened
  <2>2. CASE ~ (j > Len(q))
    <3>1. j \in 1..Len(q) /\ r[j] = q[j]
      BY <2>2 DEF Lengthened
    <3> QED BY <1>1, <3>1 DEF Unrefuted
  <2> QED BY <2>1, <2>2
<1>2. ASSUME NEW k \in 1..Len(q), q[k] = Overflowed \/ Announces(q[k], w, n), Unrefuted(q, k, w, n)
      PROVE  Heard(r, w, n)
  <2>1. k \in 1..Len(r) /\ r[k] = q[k] /\ k \in Nat
    BY DEF Lengthened
  <2>2. Unrefuted(r, k, w, n)
    BY <1>1, <1>2, <2>1
  <2> QED BY <1>2, <2>1, <2>2 DEF Heard
<1> QED BY <1>1, <1>2 DEF Heard

LEMMA QueueRead ==
  ASSUME NEW q \in Seq(RawEvents), q # <<>>, NEW w, NEW n
  PROVE  /\ Head(q) \in RawEvents /\ Tail(q) \in Seq(RawEvents)
         /\ Head(q) = q[1] /\ 1 \in 1..Len(q) /\ Len(Tail(q)) = Len(q) - 1
         /\ \A i \in 1..Len(Tail(q)) : Tail(q)[i] = q[i + 1] /\ i + 1 \in 1..Len(q)
         /\ Unrefuted(q, 0, w, n) => Unrefuted(Tail(q), 0, w, n) /\ ~Removes(Head(q), w, n)
         /\ Heard(q, w, n) =>
              \/ Heard(Tail(q), w, n)
              \/ /\ Head(q) = Overflowed \/ Announces(Head(q), w, n)
                 /\ Unrefuted(Tail(q), 0, w, n)
<1>1. /\ Head(q) \in RawEvents /\ Tail(q) \in Seq(RawEvents)
      /\ Head(q) = q[1] /\ 1 \in 1..Len(q) /\ Len(Tail(q)) = Len(q) - 1
      /\ \A i \in 1..Len(Tail(q)) : Tail(q)[i] = q[i + 1] /\ i + 1 \in 1..Len(q)
      /\ Len(q) \in Nat \ {0}
  OBVIOUS
<1>2. ASSUME NEW k \in 1..Len(q), Unrefuted(q, k, w, n) PROVE Unrefuted(Tail(q), k - 1, w, n)
  BY <1>1, <1>2 DEF Unrefuted
<1>3. ASSUME Unrefuted(q, 0, w, n) PROVE Unrefuted(Tail(q), 0, w, n) /\ ~Removes(Head(q), w, n)
  BY <1>1, <1>3 DEF Unrefuted
<1>4. ASSUME NEW k \in 1..Len(q), q[k] = Overflowed \/ Announces(q[k], w, n), Unrefuted(q, k, w, n)
      PROVE  \/ Heard(Tail(q), w, n)
             \/ /\ Head(q) = Overflowed \/ Announces(Head(q), w, n)
                /\ Unrefuted(Tail(q), 0, w, n)
  <2>1. Unrefuted(Tail(q), k - 1, w, n)
    BY <1>2, <1>4
  <2>2. CASE k = 1
    BY <1>1, <1>4, <2>1, <2>2
  <2>3. CASE k # 1
    <3>1. k - 1 \in 1..Len(Tail(q)) /\ Tail(q)[k - 1] = q[k]
      BY <1>1, <2>3
    <3> QED BY <1>4, <2>1, <3>1 DEF Heard
  <2> QED BY <2>2, <2>3
<1> QED BY <1>1, <1>3, <1>4 DEF Heard

\* What an event of the queue says, whatever happened since.
EventSound(ev, watches, dirs, last) ==
  \/ ev = Overflowed
  \/ /\ ev.wd \in 1..last /\ ev.kind # "overflow"
     /\ ev.kind \in Removals => ev.name = ""
     /\ ev.kind \in {"delete_self", "ignored"} => ev.wd \notin DOMAIN watches
     /\ ev.kind = "move_self" /\ ev.wd \in DOMAIN watches =>
          \A p \in DOMAIN dirs : dirs[p] # watches[ev.wd]
     /\ ev.kind \notin Removals => ev.name \in Names
     /\ ev.kind = "to" => ev.cookie = 0
     /\ ev.kind = "from" => ev.cookie # 0
QueueSound(q, watches, dirs, last) ==
  \A i \in 1..Len(q) : EventSound(q[i], watches, dirs, last)

\* Watches go and are not made again under their number, and what went out of the
\* tree does not come back.
LEMMA QueueStays ==
  ASSUME NEW q, NEW watches, NEW dirs, NEW last \in Nat, QueueSound(q, watches, dirs, last),
         NEW kept, NEW found, NEW newest \in Nat, last <= newest,
         \A x \in DOMAIN kept : x \notin 1..last \/ (x \in DOMAIN watches /\ kept[x] = watches[x]),
         \A p \in DOMAIN found :
           \/ p \in DOMAIN dirs /\ found[p] = dirs[p]
           \/ \A x \in DOMAIN watches : watches[x] # found[p]
  PROVE  QueueSound(q, kept, found, newest)
<1> SUFFICES ASSUME NEW i \in 1..Len(q) PROVE EventSound(q[i], kept, found, newest)
  BY DEF QueueSound
<1> DEFINE ev == q[i]
<1>1. EventSound(ev, watches, dirs, last)
  BY DEF QueueSound
<1> HIDE DEF ev
<1>2. CASE ev = Overflowed
  BY <1>2 DEF EventSound, ev
<1>3. CASE ev # Overflowed
  <2>1. ev.wd \in 1..last /\ ev.wd \in 1..newest
    <3>1. ev.wd \in 1..last
      BY <1>1, <1>3 DEF EventSound
    <3> QED BY <3>1
  <2>2. ev.wd \in DOMAIN kept => ev.wd \in DOMAIN watches /\ kept[ev.wd] = watches[ev.wd]
    BY <2>1
  <2>3. ev.kind = "move_self" /\ ev.wd \in DOMAIN kept =>
          \A p \in DOMAIN found : found[p] # kept[ev.wd]
    <3> SUFFICES ASSUME ev.kind = "move_self", ev.wd \in DOMAIN kept, NEW p \in DOMAIN found
                 PROVE  found[p] # watches[ev.wd]
      BY <2>2
    <3>1. ev.wd \in DOMAIN watches
      BY <2>2
    <3>2. \A d \in DOMAIN dirs : dirs[d] # watches[ev.wd]
      <4> HIDE DEF QueueSound
      <4> QED BY <1>1, <1>3, <3>1 DEF EventSound
    <3> QED BY <3>1, <3>2
  <2> QED BY <1>1, <1>3, <2>1, <2>2, <2>3 DEF EventSound, ev
<1> QED BY <1>2, <1>3

LEMMA QueueSoundGrows ==
  ASSUME NEW q \in Seq(RawEvents), NEW r, NEW E, Lengthened(r, q, E),
         NEW watches, NEW dirs, NEW last, QueueSound(q, watches, dirs, last),
         \A ev \in E : EventSound(ev, watches, dirs, last)
  PROVE  QueueSound(r, watches, dirs, last)
<1> SUFFICES ASSUME NEW i \in 1..Len(r) PROVE EventSound(r[i], watches, dirs, last)
  BY DEF QueueSound
<1>1. CASE i > Len(q)
  BY <1>1 DEF Lengthened
<1>2. CASE ~ (i > Len(q))
  BY <1>2 DEF Lengthened, QueueSound
<1> QED BY <1>1, <1>2

-----------------------------------------------------------------------------
(* Who leads to a directory that is not watched yet.                       *)

NativeSpec == NativeInit /\ [][NativeNext]_nativeVars

Walks == [todo : SUBSET Paths, open : SUBSET Paths]

NativeTyped ==
  /\ Rooted(DOMAIN disk) /\ IsInjective(disk) /\ \A p \in DOMAIN disk : disk[p] \in 0..spent.dirs
  /\ spent \in [dirs : Nat, moves : Nat, removals : Nat, watches : Nat]
  /\ IsInjective(wds) /\ \A w \in DOMAIN wds : wds[w] \in 0..spent.dirs
  /\ DOMAIN known \subseteq 1..spent.watches /\ \A w \in DOMAIN known : known[w] \in Paths
  /\ queue \in Seq(RawEvents) /\ reader \in Walks /\ scan \in Walks
  /\ DOMAIN unpaired \subseteq Nat \ {0}
  /\ \A c \in DOMAIN unpaired : unpaired[c] \in Paths \ {TheRoot}

\* The two maps are each other's inverse, and a watched directory of the tree is
\* known by its path.
PathsKept ==
  /\ 1 \in DOMAIN wds /\ wds[1] = disk[TheRoot] /\ DOMAIN wds \subseteq DOMAIN known
  /\ \A p \in DOMAIN byPath : byPath[p] \in DOMAIN known /\ known[byPath[p]] = p
  /\ \A w \in DOMAIN known : known[w] \in DOMAIN byPath /\ byPath[known[w]] = w
  /\ \A w \in DOMAIN wds, p \in DOMAIN disk : wds[w] = disk[p] => known[w] = p

QueueKept == QueueSound(queue, wds, disk, spent.watches)

OwedKept == owed = "no" => scan = NoWalk

\* A walk will come to p.
Toured(walk, p) ==
  \/ \E q \in walk.todo : Within(p, q)
  \/ \E q \in walk.open : Within(p, q) /\ p # q

\* An event leads to p, or nothing in the queue says that it is gone and it is
\* watched or a scan or the reader will come to it.
InSight(p, w) ==
  \/ Heard(queue, w, Last(p))
  \/ /\ Unrefuted(queue, 0, w, Last(p))
     /\ owed = "yes" \/ Toured(scan, p) \/ Toured(reader, p) \/ p \in Followed

\* w watches the directory of p, and p is none of the exceptions.
Owes(p, w) ==
  /\ p \in DOMAIN disk \ {TheRoot} /\ w \in DOMAIN wds
  /\ wds[w] = disk[Front(p)] /\ disk[p] \notin slipped

Sight == \A p \in DOMAIN disk, w \in DOMAIN wds : Owes(p, w) => InSight(p, w)

NativeInv == NativeTyped /\ PathsKept /\ QueueKept /\ OwedKept /\ Sight

LEMMA FollowedMeans ==
  ASSUME PathsKept, NEW p \in DOMAIN disk
  PROVE  p \in Followed <=> \E w \in DOMAIN wds : wds[w] = disk[p]
<1>1. ASSUME NEW w \in DOMAIN wds, wds[w] = disk[p] PROVE p \in Followed
  <2>1. known[w] = p /\ w \in DOMAIN known
    BY <1>1 DEF PathsKept
  <2>2. p \in DOMAIN byPath /\ byPath[p] = w
    BY <2>1 DEF PathsKept
  <2> QED BY <1>1, <2>1, <2>2 DEF Followed
<1> QED BY <1>1 DEF Followed

LEMMA FollowedNext ==
  ASSUME PathsKept', NEW p \in DOMAIN disk'
  PROVE  p \in Followed' <=> \E w \in DOMAIN wds' : wds'[w] = disk'[p]
<1>1. ASSUME NEW w \in DOMAIN wds', wds'[w] = disk'[p] PROVE p \in Followed'
  <2>1. known'[w] = p /\ w \in DOMAIN known'
    BY <1>1 DEF PathsKept
  <2>2. p \in DOMAIN byPath' /\ byPath'[p] = w
    BY <2>1 DEF PathsKept
  <2> QED BY <1>1, <2>1, <2>2 DEF Followed
<1> QED BY <1>1 DEF Followed

\* Once the reader has caught up only the watches are left to lead anywhere.
LEMMA SightFollows ==
  ASSUME NativeInv
  PROVE  WatchesFollowTheTree
<1> SUFFICES ASSUME CaughtUp
             PROVE  /\ TheRoot \in Followed
                    /\ \A p \in DOMAIN disk \ {TheRoot} :
                         Front(p) \in Followed => p \in Followed \/ disk[p] \in slipped
  BY DEF WatchesFollowTheTree
<1>1. TheRoot \in Followed
  BY FollowedMeans DEF NativeInv, PathsKept, NativeTyped, Rooted
<1>2. ASSUME NEW p \in DOMAIN disk \ {TheRoot}, Front(p) \in Followed, disk[p] \notin slipped
      PROVE  p \in Followed
  <2>1. PICK w \in DOMAIN wds : wds[w] = disk[Front(p)]
    BY <1>2, FollowedMeans DEF NativeInv, NativeTyped, Rooted
  <2>2. InSight(p, w)
    BY <1>2, <2>1 DEF NativeInv, Sight, Owes
  <2>3. Len(queue) = 0 /\ owed = "no" /\ scan = NoWalk /\ reader = NoWalk
    BY DEF CaughtUp, NativeInv, OwedKept
  <2>4. ~Heard(queue, w, Last(p))
    BY <2>3 DEF Heard
  <2>5. ~Toured(scan, p) /\ ~Toured(reader, p)
    BY <2>3 DEF Toured, NoWalk
  <2> QED BY <2>2, <2>3, <2>4, <2>5 DEF InSight
<1> QED BY <1>1, <1>2

LEMMA WatchNumbers ==
  ASSUME NativeTyped, PathsKept
  PROVE  /\ spent.watches \in Nat /\ spent.dirs \in Nat
         /\ DOMAIN wds \subseteq 1..spent.watches
         /\ \A w \in DOMAIN known : w \in Nat /\ w <= spent.watches /\ w >= 1
         /\ \A w \in DOMAIN wds : w \in Nat /\ w <= spent.watches /\ w >= 1
<1>1. spent.watches \in Nat /\ spent.dirs \in Nat
  BY DEF NativeTyped
<1>2. DOMAIN wds \subseteq DOMAIN known /\ DOMAIN known \subseteq 1..spent.watches
  BY DEF NativeTyped, PathsKept
<1> QED BY <1>1, <1>2

LEMMA OneEvent ==
  /\ \A S : <<>> \in Seq(S) /\ \A e \in S : <<e>> \in Seq(S)
  /\ Len(<<>>) = 0 /\ \A j \in 1..Len(<<>>) : FALSE
  /\ \A e : Len(<<e>>) = 1 /\ \A j \in 1..Len(<<e>>) : <<e>>[j] = e
<1>1. \A S : <<>> \in Seq(S) /\ \A e \in S : <<e>> \in Seq(S)
  OBVIOUS
<1>2. Len(<<>>) = 0
  OBVIOUS
<1>3. ASSUME NEW e PROVE Len(<<e>>) = 1 /\ \A j \in 1..Len(<<e>>) : <<e>>[j] = e
  <2>1. Len(<<e>>) = 1
    OBVIOUS
  <2>2. \A j \in 1..1 : j = 1
    OBVIOUS
  <2> QED BY <2>1, <2>2
<1> QED BY <1>1, <1>2, <1>3

LEMMA ToldMeans ==
  ASSUME NativeTyped, NEW d, NEW kind, NEW name, NEW cookie
  PROVE  /\ Told(d, kind, name, cookie) = <<>> \/ \E w \in DOMAIN wds :
              wds[w] = d /\ Told(d, kind, name, cookie) = <<Raw(w, kind, name, cookie)>>
         /\ \A w \in DOMAIN wds : wds[w] = d =>
              Told(d, kind, name, cookie) = <<Raw(w, kind, name, cookie)>>
<1> DEFINE news == Told(d, kind, name, cookie)
<1>1. CASE d \in Range(wds)
  <2>1. PICK w \in DOMAIN wds : wds[w] = d
    BY <1>1 DEF Range
  <2>2. \A v \in DOMAIN wds : wds[v] = d => v = w
    BY <2>1 DEF NativeTyped, IsInjective
  <2>3. Inverse(wds, DOMAIN wds, Range(wds))[d] = w
    BY <1>1, <2>1, <2>2 DEF Inverse
  <2>4. news = <<Raw(w, kind, name, cookie)>>
    BY <1>1, <2>3 DEF Told
  <2> HIDE DEF news
  <2> QED BY <2>1, <2>2, <2>4 DEF news
<1>2. CASE d \notin Range(wds)
  <2>1. news = <<>>
    BY <1>2 DEF Told
  <2>2. \A w \in DOMAIN wds : wds[w] # d
    BY <1>2 DEF Range
  <2> HIDE DEF news
  <2> QED BY <2>1, <2>2 DEF news
<1> QED BY <1>1, <1>2

EventsIn(s, E) == s \in Seq(RawEvents) /\ \A j \in 1..Len(s) : s[j] \in E

LEMMA EventsJoined ==
  ASSUME NEW E, NEW s, NEW t, EventsIn(s, E), EventsIn(t, E)
  PROVE  EventsIn(s \o t, E)
<1>1. s \in Seq(RawEvents) /\ t \in Seq(RawEvents)
  BY DEF EventsIn
<1>2. /\ s \o t \in Seq(RawEvents) /\ Len(s \o t) = Len(s) + Len(t)
      /\ Len(s) \in Nat /\ Len(t) \in Nat
      /\ \A j \in 1..Len(s) + Len(t) : (s \o t)[j] = IF j <= Len(s) THEN s[j] ELSE t[j - Len(s)]
  BY <1>1
<1> SUFFICES ASSUME NEW j \in 1..Len(s) + Len(t) PROVE (s \o t)[j] \in E
  BY <1>2 DEF EventsIn
<1>3. CASE j <= Len(s)
  BY <1>2, <1>3 DEF EventsIn
<1>4. CASE ~ (j <= Len(s))
  <2>1. j - Len(s) \in 1..Len(t)
    BY <1>2, <1>4
  <2> QED BY <1>2, <1>4, <2>1 DEF EventsIn
<1> QED BY <1>3, <1>4

LEMMA EventsOne ==
  ASSUME NEW E, NEW e \in RawEvents, e \in E
  PROVE  EventsIn(<<>>, E) /\ EventsIn(<<e>>, E)
<1>1. EventsIn(<<>>, E)
  BY OneEvent DEF EventsIn
<1>2. <<e>> \in Seq(RawEvents)
  BY OneEvent
<1>3. \A j \in 1..Len(<<e>>) : <<e>>[j] \in E
  BY OneEvent
<1> QED BY <1>1, <1>2, <1>3 DEF EventsIn

LEMMA ToldOne ==
  ASSUME NativeTyped, NEW d, NEW kind, NEW name, NEW cookie, NEW E,
         \A w \in DOMAIN wds : wds[w] = d => Raw(w, kind, name, cookie) \in RawEvents \cap E
  PROVE  EventsIn(Told(d, kind, name, cookie), E)
<1>1. CASE Told(d, kind, name, cookie) = <<>>
  BY <1>1, OneEvent DEF EventsIn
<1>2. ASSUME NEW w \in DOMAIN wds, wds[w] = d,
             Told(d, kind, name, cookie) = <<Raw(w, kind, name, cookie)>>
      PROVE  EventsIn(Told(d, kind, name, cookie), E)
  <2>1. Raw(w, kind, name, cookie) \in RawEvents \cap E
    BY <1>2
  <2>2. EventsIn(<<Raw(w, kind, name, cookie)>>, E)
    BY <2>1, EventsOne
  <2> QED BY <1>2, <2>2
<1> QED BY <1>1, <1>2, ToldMeans

LEMMA ToldIn ==
  ASSUME NativeTyped, PathsKept, NEW d, NEW kind \in EventKinds, NEW name \in Names \cup {""},
         NEW cookie \in Nat, NEW E,
         \A w \in DOMAIN wds :
           wds[w] = d /\ Raw(w, kind, name, cookie) \in RawEvents => Raw(w, kind, name, cookie) \in E
  PROVE  EventsIn(Told(d, kind, name, cookie), E)
<1>1. ASSUME NEW w \in DOMAIN wds PROVE Raw(w, kind, name, cookie) \in RawEvents
  <2>1. w \in Nat
    BY WatchNumbers
  <2> QED BY <2>1 DEF Raw, RawEvents
<1>2. /\ \A w \in DOMAIN wds : wds[w] = d => Raw(w, kind, name, cookie) \in RawEvents \cap E
      /\ NativeTyped
  BY <1>1
<1> QED BY ONLY <1>2, ToldOne

\* What the kernel says of the watches that were taken out.
LEMMA IgnoredSound ==
  ASSUME NEW S, IsFiniteSet(S), S \subseteq Nat
  PROVE  LET news == [n \in 1..Cardinality(S) |-> Raw(SetToSeq(S)[n], "ignored", "", 0)]
         IN  /\ news \in Seq(RawEvents)
             /\ \A j \in 1..Len(news) : \E w \in S : news[j] = Raw(w, "ignored", "", 0)
<1> DEFINE c == Cardinality(S)
           f == SetToSeq(S)
           news == [n \in 1..c |-> Raw(f[n], "ignored", "", 0)]
<1>1. PICK g : g \in [1..c -> S] /\ IsInjective(g)
  <2>1. PICK n \in Nat : ExistsBijection(1..n, S)
    BY FS_NatBijection
  <2>2. c = n
    BY <2>1, FS_CountingElements
  <2>3. \E g : g \in Bijection(1..c, S)
    BY <2>1, <2>2 DEF ExistsBijection
  <2> QED BY <2>3 DEF Bijection, Injection
<1>2. f \in [1..c -> S]
  BY <1>1 DEF SetToSeq
<1>3. c \in Nat
  BY FS_CardinalityType
<1> HIDE DEF c, f
<1>4. \A n \in 1..c : news[n] = Raw(f[n], "ignored", "", 0) /\ f[n] \in S
  BY <1>2
<1>5. \A w \in S : Raw(w, "ignored", "", 0) \in RawEvents
  BY DEF Raw, RawEvents, EventKinds, Removals
<1>6. news \in [1..c -> RawEvents]
  BY <1>4, <1>5
<1>7. news \in Seq(RawEvents) /\ Len(news) = c
  <2> HIDE DEF news
  <2> QED BY <1>3, <1>6
<1> QED BY <1>4, <1>7 DEF c, f

-----------------------------------------------------------------------------
(* What the kernel does.                                                   *)

LEMMA AllArePaths == AllPaths \subseteq Paths
<1> SUFFICES ASSUME NEW n \in 0..MaxDepth, NEW p \in [1..n -> Names] PROVE p \in Paths
  BY DEF AllPaths
<1>1. MaxDepth \in Nat
  BY NativeAssumption DEF NativeAssumption
<1>2. n \in Nat
  BY <1>1
<1> QED BY <1>2 DEF Paths

\* Nothing else can leave p out of sight while the queue only grows.
LEMMA StaysInSight ==
  ASSUME NEW p, NEW w, InSight(p, w), queue \in Seq(RawEvents),
         NEW E, Lengthened(queue', queue, E), \A ev \in E : ~Removes(ev, w, Last(p)),
         owed = "yes" => owed' = "yes", Toured(scan, p) => Toured(scan', p),
         Toured(reader, p) => Toured(reader', p), p \in Followed => p \in Followed'
  PROVE  InSight(p, w)'
<1>1. /\ Heard(queue, w, Last(p)) => Heard(queue', w, Last(p))
      /\ Unrefuted(queue, 0, w, Last(p)) => Unrefuted(queue', 0, w, Last(p))
  BY QueueGrows
<1> QED BY <1>1 DEF InSight

LEMMA SameQueue ==
  ASSUME NEW q \in Seq(RawEvents)
  PROVE  Lengthened(q, q, {})
BY DEF Lengthened

LEMMA AppearKeeps ==
  ASSUME NativeInv, NEW p \in AllPaths, NEW kind \in {"create", "to"}, Appear(p, kind)
  PROVE  NativeInv'
<1> USE DEF NativeInv
<1> DEFINE d == spent.dirs + 1
           news == Told(disk[Front(p)], kind, Last(p), 0)
           E == {Overflowed} \cup {ev \in RawEvents : \E w \in DOMAIN wds :
                    wds[w] = disk[Front(p)] /\ ev = Raw(w, kind, Last(p), 0)}
<1>1. /\ p \in Paths /\ p \notin DOMAIN disk /\ Front(p) \in DOMAIN disk /\ p # TheRoot
      /\ Front(p) \in Paths /\ Last(p) \in Names /\ TheRoot \in DOMAIN disk
  BY AllArePaths, AboveRest DEF Appear, NativeTyped, Rooted
<1>2. /\ DOMAIN disk' = DOMAIN disk \cup {p} /\ disk'[p] = d
      /\ \A q \in DOMAIN disk : disk'[q] = disk[q]
  BY <1>1 DEF Appear, Entered
<1>3. /\ spent' = [spent EXCEPT !.dirs = d]
      /\ d \in Nat /\ \A q \in DOMAIN disk : disk[q] # d /\ \A w \in DOMAIN wds : wds[w] # d
      /\ \A w \in DOMAIN wds : wds[w] # d
  BY <1>1 DEF Appear, NativeTyped
<1>4. /\ wds' = wds /\ known' = known /\ byPath' = byPath /\ unpaired' = unpaired
      /\ reader' = reader /\ scan' = scan /\ owed' = owed
      /\ queue' = Queued(queue, news)
      /\ slipped' = IF Unheard(news) THEN slipped \cup {d} ELSE slipped
  BY DEF Appear, Happens
<1>5. /\ EventsIn(news, E)
      /\ \A w \in DOMAIN wds : wds[w] = disk[Front(p)] => news = <<Raw(w, kind, Last(p), 0)>>
  <2>1. kind \in EventKinds /\ Last(p) \in Names \cup {""} /\ 0 \in Nat
    BY <1>1 DEF EventKinds
  <2>2. \A w \in DOMAIN wds : wds[w] = disk[Front(p)] /\ Raw(w, kind, Last(p), 0) \in RawEvents
          => Raw(w, kind, Last(p), 0) \in E
    OBVIOUS
  <2> HIDE DEF E
  <2>3. NativeTyped /\ PathsKept
    OBVIOUS
  <2>4. EventsIn(news, E)
    BY ONLY <2>1, <2>2, <2>3, ToldIn
  <2>5. \A w \in DOMAIN wds : wds[w] = disk[Front(p)] => news = <<Raw(w, kind, Last(p), 0)>>
    BY ONLY <2>3, ToldMeans
  <2> QED BY <2>4, <2>5
<1> HIDE DEF news, d
<1>6. Lengthened(queue', queue, E)
  <2>1. Overflowed \in E /\ queue \in Seq(RawEvents)
    BY DEF E, NativeTyped
  <2> QED BY <1>4, <1>5, <2>1, QueuedLengthens DEF EventsIn
<1>7. NativeTyped'
  <2>1. Rooted(DOMAIN disk')
    BY <1>1, <1>2 DEF NativeTyped, Rooted
  <2>2. IsInjective(disk')
    BY <1>1, <1>2, <1>3 DEF NativeTyped, IsInjective
  <2>3. /\ spent' \in [dirs : Nat, moves : Nat, removals : Nat, watches : Nat]
        /\ spent'.dirs = spent.dirs + 1 /\ spent'.watches = spent.watches /\ spent.dirs \in Nat
    BY <1>3 DEF NativeTyped, d
  <2>4. \A q \in DOMAIN disk' : disk'[q] \in 0..spent'.dirs
    BY <1>2, <2>3 DEF NativeTyped, d
  <2>5. \A w \in DOMAIN wds' : wds'[w] \in 0..spent'.dirs
    BY <1>4, <2>3 DEF NativeTyped
  <2>6. queue' \in Seq(RawEvents)
    BY <1>6 DEF Lengthened
  <2> QED BY <1>4, <2>1, <2>2, <2>3, <2>4, <2>5, <2>6 DEF NativeTyped
<1>8. PathsKept'
  BY <1>1, <1>2, <1>3, <1>4 DEF PathsKept
<1>9. QueueKept'
  <2>1. QueueSound(queue, wds', disk', spent'.watches)
    <3>1. spent'.watches = spent.watches /\ spent.watches \in Nat
      BY <1>3 DEF NativeTyped
    <3> QED BY <1>2, <1>3, <1>4, <3>1, QueueStays DEF QueueKept
  <2>2. \A ev \in E : EventSound(ev, wds', disk', spent'.watches)
    <3>1. spent'.watches = spent.watches /\ DOMAIN wds \subseteq 1..spent.watches
      BY <1>3, WatchNumbers DEF NativeTyped
    <3>2. ASSUME NEW w \in DOMAIN wds
          PROVE  EventSound(Raw(w, kind, Last(p), 0), wds', disk', spent'.watches)
      BY <1>1, <3>1 DEF EventSound, Raw, Removals
    <3> QED BY <3>2 DEF EventSound
  <2> HIDE DEF E
  <2> QED BY <1>6, <2>1, <2>2, QueueSoundGrows DEF QueueKept, NativeTyped
<1>10. OwedKept'
  BY <1>4 DEF OwedKept
<1>11. Sight'
  <2> SUFFICES ASSUME NEW q \in DOMAIN disk', NEW w \in DOMAIN wds', Owes(q, w)'
               PROVE  InSight(q, w)'
    BY DEF Sight
  <2>1. /\ q # TheRoot /\ w \in DOMAIN wds /\ wds[w] = disk'[Front(q)] /\ disk'[q] \notin slipped'
    BY <1>4 DEF Owes
  <2>2. CASE q \in DOMAIN disk
    <3>1. Front(q) \in DOMAIN disk
      BY <2>1, <2>2 DEF NativeTyped, Rooted
    <3>2. Owes(q, w)
      BY <1>2, <1>4, <2>1, <2>2, <3>1 DEF Owes
    <3>3. InSight(q, w)
      BY <2>1, <2>2, <3>2 DEF Sight
    <3>4. q \in Followed => q \in Followed'
      BY <1>2, <1>4, <1>8, <2>2, FollowedMeans, FollowedNext
    <3>5. ASSUME NEW ev \in E PROVE ~Removes(ev, w, Last(q))
      <4>1. ev = Overflowed \/ \E x \in DOMAIN wds : ev = Raw(x, kind, Last(p), 0)
        OBVIOUS
      <4>2. \A x : Raw(x, kind, Last(p), 0).kind = kind
        BY DEF Raw
      <4>3. Overflowed.kind = "overflow"
        BY DEF Overflowed, Raw
      <4>4. ev.kind \in {"overflow", "create", "to"}
        BY <4>1, <4>2, <4>3
      <4> QED BY <4>4 DEF Removes
    <3> HIDE DEF E
    <3> QED BY <1>4, <1>6, <3>3, <3>4, <3>5, StaysInSight DEF NativeTyped
  <2>3. CASE q = p
    <3> DEFINE e == Raw(w, kind, Last(p), 0)
    <3>1. wds[w] = disk[Front(p)]
      BY <1>1, <1>2, <2>1, <2>3
    <3>2. news = <<e>> /\ ~Unheard(news)
      BY <1>2, <1>4, <1>5, <2>1, <2>3, <3>1
    <3>3. e \in RawEvents
      <4>1. w \in Nat
        BY <1>4, WatchNumbers
      <4> QED BY <1>1, <4>1 DEF Raw, RawEvents, EventKinds
    <3>4. /\ Len(queue') = Len(queue) + 1
          /\ queue'[Len(queue) + 1] \in {e, Overflowed}
      <4>1. <<e>> # <<>>
        BY OneEvent
      <4>2. ~(Len(queue) >= MaxQueue /\ Contains(queue, Overflowed))
        BY <3>2, <4>1 DEF Unheard
      <4> HIDE DEF e
      <4> QED BY <1>4, <3>2, <3>3, <4>2, QueuedOne DEF NativeTyped
    <3>5. Len(queue) \in Nat
      BY DEF NativeTyped
    <3>6. Announces(e, w, Last(p))
      BY DEF Announces, Raw
    <3>7. Heard(queue', w, Last(q))
      <4> DEFINE k == Len(queue) + 1
      <4>1. k \in 1..Len(queue') /\ (queue'[k] = Overflowed \/ Announces(queue'[k], w, Last(p)))
        BY <3>4, <3>5, <3>6
      <4>2. Unrefuted(queue', k, w, Last(p))
        BY <3>4, <3>5 DEF Unrefuted
      <4> QED BY <2>3, <4>1, <4>2 DEF Heard
    <3> QED BY <3>7 DEF InSight
  <2> QED BY <1>2, <2>2, <2>3
<1> QED BY <1>7, <1>8, <1>9, <1>10, <1>11

\* A part of the tree that has what is above each of its directories.
LEMMA TreeShrinks ==
  ASSUME NativeTyped, NEW D \in SUBSET DOMAIN disk, Rooted(D), disk' = Restrict(disk, D)
  PROVE  /\ DOMAIN disk' = D /\ \A q \in D : disk'[q] = disk[q]
         /\ IsInjective(disk') /\ Rooted(DOMAIN disk')
         /\ \A q \in D \ {TheRoot} : Front(q) \in D
<1>1. DOMAIN disk' = D /\ \A q \in D : disk'[q] = disk[q]
  BY DEF Restrict
<1>2. IsInjective(disk')
  BY <1>1 DEF NativeTyped, IsInjective
<1> QED BY <1>1, <1>2 DEF Rooted

LEMMA RmdirKeeps ==
  ASSUME NativeInv, NEW p \in DOMAIN disk, Rmdir(p)
  PROVE  NativeInv'
<1> USE DEF NativeInv
<1> DEFINE d == disk[p]
           news == Told(d, "delete_self", "", 0) \o Told(d, "ignored", "", 0)
                   \o Told(disk[Front(p)], "delete", Last(p), 0)
           E == {Overflowed} \cup {ev \in RawEvents : \E w \in DOMAIN wds :
                    \/ wds[w] = d /\ ev \in {Raw(w, "delete_self", "", 0), Raw(w, "ignored", "", 0)}
                    \/ wds[w] = disk[Front(p)] /\ ev = Raw(w, "delete", Last(p), 0)}
           D == DOMAIN disk \ {p}
           W == {w \in DOMAIN wds : wds[w] # d}
<1>1. /\ p \in Paths /\ p # TheRoot /\ TheRoot \in DOMAIN disk
      /\ Front(p) \in DOMAIN disk /\ Front(p) \in Paths /\ Last(p) \in Names
  BY AboveRest DEF Rmdir, NativeTyped, Rooted
<1>2. \A q \in DOMAIN disk \ {TheRoot} : Front(q) \in D
  BY DEF Rmdir, Children, NativeTyped, Rooted
<1>3. Rooted(D) /\ disk' = Restrict(disk, D)
  BY <1>1, <1>2 DEF Rmdir, NativeTyped, Rooted
<1>4. /\ DOMAIN disk' = D /\ \A q \in D : disk'[q] = disk[q]
      /\ IsInjective(disk') /\ Rooted(DOMAIN disk')
  BY <1>3, TreeShrinks
<1>5. DOMAIN wds' = W /\ \A w \in W : wds'[w] = wds[w]
  BY DEF Rmdir, RestrictValues, Restrict
<1>6. /\ known' = known /\ byPath' = byPath /\ unpaired' = unpaired
      /\ reader' = reader /\ scan' = scan /\ owed' = owed /\ slipped' = slipped
      /\ queue' = Queued(queue, news)
      /\ spent' = [spent EXCEPT !.removals = @ + 1]
  BY DEF Rmdir, Happens, UntouchedBackend
<1>7. EventsIn(news, E)
  <2>1. ASSUME NEW kind \in {"delete_self", "ignored"} PROVE EventsIn(Told(d, kind, "", 0), E)
    <3>1. kind \in EventKinds /\ "" \in Names \cup {""} /\ 0 \in Nat
      BY DEF EventKinds, Removals
    <3>2. \A w \in DOMAIN wds : wds[w] = d /\ Raw(w, kind, "", 0) \in RawEvents => Raw(w, kind, "", 0) \in E
      OBVIOUS
    <3> HIDE DEF E
    <3> QED BY <3>1, <3>2, ToldIn
  <2>2. EventsIn(Told(disk[Front(p)], "delete", Last(p), 0), E)
    <3>1. "delete" \in EventKinds /\ Last(p) \in Names \cup {""} /\ 0 \in Nat
      BY <1>1 DEF EventKinds
    <3>2. \A w \in DOMAIN wds : wds[w] = disk[Front(p)] /\ Raw(w, "delete", Last(p), 0) \in RawEvents
            => Raw(w, "delete", Last(p), 0) \in E
      OBVIOUS
    <3> HIDE DEF E
    <3> QED BY <3>1, <3>2, ToldIn
  <2> HIDE DEF E, d
  <2> QED BY <2>1, <2>2, EventsJoined
<1> HIDE DEF news
<1>8. Lengthened(queue', queue, E)
  <2>1. Overflowed \in E /\ queue \in Seq(RawEvents)
    BY DEF NativeTyped
  <2> HIDE DEF E
  <2> QED BY <1>6, <1>7, <2>1, QueuedLengthens DEF EventsIn
<1>9. /\ spent' \in [dirs : Nat, moves : Nat, removals : Nat, watches : Nat]
      /\ spent'.dirs = spent.dirs /\ spent'.watches = spent.watches /\ spent.watches \in Nat
  BY <1>6 DEF NativeTyped
<1>10. NativeTyped'
  <2>1. queue' \in Seq(RawEvents)
    BY <1>8 DEF Lengthened
  <2>2. IsInjective(wds') /\ \A w \in DOMAIN wds' : wds'[w] \in 0..spent'.dirs
    BY <1>5, <1>9 DEF NativeTyped, IsInjective
  <2>3. \A q \in DOMAIN disk' : disk'[q] \in 0..spent'.dirs
    BY <1>4, <1>9 DEF NativeTyped
  <2> QED BY <1>4, <1>6, <1>9, <2>1, <2>2, <2>3 DEF NativeTyped
<1>11. PathsKept'
  <2>1. disk[TheRoot] # d
    BY <1>1 DEF NativeTyped, IsInjective
  <2> QED BY <1>1, <1>4, <1>5, <1>6, <2>1 DEF PathsKept
<1>12. QueueKept'
  <2>1. QueueSound(queue, wds', disk', spent'.watches)
    BY <1>4, <1>5, <1>9, QueueStays DEF QueueKept
  <2>2. ASSUME NEW ev \in E PROVE EventSound(ev, wds', disk', spent'.watches)
    <3>1. CASE ev = Overflowed
      BY <3>1 DEF EventSound
    <3>2. ASSUME NEW w \in DOMAIN wds, wds[w] = d,
                 ev \in {Raw(w, "delete_self", "", 0), Raw(w, "ignored", "", 0)}
          PROVE  EventSound(ev, wds', disk', spent'.watches)
      <4>1. w \in 1..spent'.watches /\ w \notin DOMAIN wds'
        BY <1>5, <1>9, <3>2, WatchNumbers
      <4>2. ev.wd = w /\ ev.kind \in {"delete_self", "ignored"} /\ ev.name = ""
        <5>1. CASE ev = Raw(w, "delete_self", "", 0)
          BY <5>1 DEF Raw
        <5>2. CASE ev = Raw(w, "ignored", "", 0)
          BY <5>2 DEF Raw
        <5> QED BY <3>2, <5>1, <5>2
      <4> QED BY <4>1, <4>2 DEF EventSound, Removals
    <3>3. ASSUME NEW w \in DOMAIN wds, ev = Raw(w, "delete", Last(p), 0)
          PROVE  EventSound(ev, wds', disk', spent'.watches)
      <4>1. w \in 1..spent'.watches
        BY <1>9, WatchNumbers
      <4> QED BY <1>1, <3>3, <4>1 DEF EventSound, Raw, Removals
    <3> QED BY <3>1, <3>2, <3>3
  <2> HIDE DEF E
  <2> QED BY <1>8, <2>1, <2>2, QueueSoundGrows DEF QueueKept, NativeTyped
<1>13. OwedKept'
  BY <1>6 DEF OwedKept
<1>14. Sight'
  <2> SUFFICES ASSUME NEW q \in DOMAIN disk', NEW w \in DOMAIN wds', Owes(q, w)'
               PROVE  InSight(q, w)'
    BY DEF Sight
  <2>1. /\ q # TheRoot /\ q \in D /\ Front(q) \in D /\ w \in DOMAIN wds /\ q \in Paths
        /\ wds[w] = disk[Front(q)] /\ disk[q] \notin slipped
    BY <1>2, <1>4, <1>5, <1>6 DEF Owes, NativeTyped, Rooted
  <2>2. InSight(q, w)
    BY <2>1 DEF Sight, Owes
  <2>3. q \in Followed => q \in Followed'
    <3>1. \A v \in DOMAIN wds : wds[v] = disk[q] => v \in DOMAIN wds'
      BY <1>5, <2>1 DEF NativeTyped, IsInjective
    <3> QED BY <1>4, <1>5, <1>11, <2>1, <3>1, FollowedMeans, FollowedNext
  <2>4. ASSUME NEW ev \in E PROVE ~Removes(ev, w, Last(q))
    <3>1. CASE ev = Overflowed
      BY <3>1 DEF Removes, Overflowed, Raw
    <3>2. ASSUME NEW x \in DOMAIN wds,
                 ev \in {Raw(x, "delete_self", "", 0), Raw(x, "ignored", "", 0)}
          PROVE  ~Removes(ev, w, Last(q))
      <4>1. ev.kind \in {"delete_self", "ignored"}
        <5>1. CASE ev = Raw(x, "delete_self", "", 0)
          BY <5>1 DEF Raw
        <5>2. CASE ev = Raw(x, "ignored", "", 0)
          BY <5>2 DEF Raw
        <5> QED BY <3>2, <5>1, <5>2
      <4> QED BY <4>1 DEF Removes
    <3>3. ASSUME NEW x \in DOMAIN wds, wds[x] = disk[Front(p)], ev = Raw(x, "delete", Last(p), 0),
                 Removes(ev, w, Last(q))
          PROVE  FALSE
      <4>1. x = w /\ Last(p) = Last(q)
        BY <3>3 DEF Removes, Raw
      <4>2. Front(p) = Front(q)
        BY <1>1, <2>1, <3>3, <4>1 DEF NativeTyped, IsInjective
      <4> QED BY <1>1, <2>1, <4>1, <4>2, PathParted
    <3> QED BY <3>1, <3>2, <3>3
  <2> HIDE DEF E
  <2> QED BY <1>6, <1>8, <2>2, <2>3, <2>4, StaysInSight DEF NativeTyped
<1> QED BY <1>10, <1>11, <1>12, <1>13, <1>14

LEMMA MoveOutKeeps ==
  ASSUME NativeInv, NEW p \in DOMAIN disk, MoveOut(p)
  PROVE  NativeInv'
<1> USE DEF NativeInv
<1> DEFINE d == disk[p]
           cookie == MaxRenames + spent.removals + 1
           from == Told(disk[Front(p)], "from", Last(p), cookie)
           self == Told(d, "move_self", "", 0)
           E == {Overflowed} \cup {ev \in RawEvents : \E w \in DOMAIN wds :
                    \/ wds[w] = d /\ ev = Raw(w, "move_self", "", 0)
                    \/ ev = Raw(w, "from", Last(p), cookie)}
           D == {q \in DOMAIN disk : ~Within(q, p)}
<1>1. /\ p \in Paths /\ p # TheRoot /\ TheRoot \in DOMAIN disk /\ DOMAIN disk \subseteq Paths
      /\ Front(p) \in DOMAIN disk /\ Front(p) \in Paths /\ Last(p) \in Names
  BY AboveRest DEF MoveOut, NativeTyped, Rooted
<1>2. TheRoot \in D /\ p \notin D
  BY <1>1, WithinItself
<1>3. \A q \in D \ {TheRoot} : Front(q) \in D
  BY <1>1, WithinAbove DEF NativeTyped, Rooted
<1>4. Rooted(D) /\ disk' = Restrict(disk, D) /\ D \in SUBSET DOMAIN disk
  BY <1>1, <1>2, <1>3 DEF MoveOut, Rooted
<1> HIDE DEF D
<1>5. /\ DOMAIN disk' = D /\ \A q \in D : disk'[q] = disk[q]
      /\ IsInjective(disk') /\ Rooted(DOMAIN disk')
  BY <1>4, TreeShrinks
<1>6. /\ wds' = wds /\ known' = known /\ byPath' = byPath /\ unpaired' = unpaired
      /\ reader' = reader /\ scan' = scan /\ owed' = owed /\ slipped' = slipped
      /\ queue' = Queued(queue, from \o self)
      /\ spent' = [spent EXCEPT !.removals = @ + 1]
  BY DEF MoveOut, Happens, UntouchedBackend
<1>7. /\ spent' \in [dirs : Nat, moves : Nat, removals : Nat, watches : Nat]
      /\ spent'.dirs = spent.dirs /\ spent'.watches = spent.watches /\ spent.watches \in Nat
      /\ cookie \in Nat /\ cookie # 0
  <2>1. MaxRenames \in Nat
    BY NativeAssumption DEF NativeAssumption
  <2>2. spent.removals \in Nat
    BY DEF NativeTyped
  <2>3. cookie \in Nat /\ cookie # 0
    BY <2>1, <2>2
  <2>4. /\ spent' \in [dirs : Nat, moves : Nat, removals : Nat, watches : Nat]
        /\ spent'.dirs = spent.dirs /\ spent'.watches = spent.watches /\ spent.watches \in Nat
    <3>1. spent' = [spent EXCEPT !.removals = @ + 1]
      BY <1>6
    <3> HIDE DEF cookie, from, self
    <3> QED BY <3>1 DEF NativeTyped
  <2> QED BY <2>3, <2>4
<1> HIDE DEF cookie
<1>8. NativeTyped /\ PathsKept
  OBVIOUS
<1>9. EventsIn(from, E)
  <2>1. "from" \in EventKinds /\ Last(p) \in Names \cup {""} /\ cookie \in Nat
    BY <1>1, <1>7 DEF EventKinds
  <2>2. \A w \in DOMAIN wds : wds[w] = disk[Front(p)] /\ Raw(w, "from", Last(p), cookie) \in RawEvents
          => Raw(w, "from", Last(p), cookie) \in E
    OBVIOUS
  <2> HIDE DEF E
  <2> QED BY ONLY <1>8, <2>1, <2>2, ToldIn
<1>10. EventsIn(self, E)
  <2>1. "move_self" \in EventKinds /\ "" \in Names \cup {""} /\ 0 \in Nat
    BY DEF EventKinds, Removals
  <2>2. \A w \in DOMAIN wds : wds[w] = d /\ Raw(w, "move_self", "", 0) \in RawEvents
          => Raw(w, "move_self", "", 0) \in E
    OBVIOUS
  <2> HIDE DEF E, d
  <2> QED BY <1>8, <2>1, <2>2, ToldIn
<1> HIDE DEF from, self
<1>11. Lengthened(queue', queue, E)
  <2>1. Overflowed \in E /\ queue \in Seq(RawEvents)
    BY DEF NativeTyped
  <2> HIDE DEF E
  <2>2. EventsIn(from \o self, E)
    BY <1>9, <1>10, EventsJoined
  <2> QED BY <1>6, <2>1, <2>2, QueuedLengthens DEF EventsIn
<1>12. NativeTyped'
  <2>1. queue' \in Seq(RawEvents)
    BY <1>11 DEF Lengthened
  <2>2. \A q \in DOMAIN disk' : disk'[q] \in 0..spent'.dirs
    BY <1>4, <1>5, <1>7 DEF NativeTyped
  <2> QED BY <1>5, <1>6, <1>7, <2>1, <2>2 DEF NativeTyped
<1>13. PathsKept'
  BY <1>2, <1>4, <1>5, <1>6 DEF PathsKept
<1>14. QueueKept'
  <2>1. QueueSound(queue, wds', disk', spent'.watches)
    BY <1>4, <1>5, <1>6, <1>7, QueueStays DEF QueueKept
  <2>2. ASSUME NEW ev \in E PROVE EventSound(ev, wds', disk', spent'.watches)
    <3>1. CASE ev = Overflowed
      BY <3>1 DEF EventSound
    <3>2. ASSUME NEW w \in DOMAIN wds, wds[w] = d, ev = Raw(w, "move_self", "", 0)
          PROVE  EventSound(ev, wds', disk', spent'.watches)
      <4>1. w \in 1..spent'.watches
        BY <1>7, WatchNumbers
      <4>2. \A q \in DOMAIN disk' : disk'[q] # wds'[w]
        BY <1>2, <1>4, <1>5, <1>6, <3>2 DEF NativeTyped, IsInjective
      <4>3. ev.wd = w /\ ev.kind = "move_self" /\ ev.name = ""
        BY <3>2 DEF Raw
      <4> QED BY <4>1, <4>2, <4>3 DEF EventSound, Removals
    <3>3. ASSUME NEW w \in DOMAIN wds, ev = Raw(w, "from", Last(p), cookie)
          PROVE  EventSound(ev, wds', disk', spent'.watches)
      <4>1. w \in 1..spent'.watches
        BY <1>7, WatchNumbers
      <4>2. ev.wd = w /\ ev.kind = "from" /\ ev.name \in Names /\ ev.cookie # 0
        BY <1>1, <1>7, <3>3 DEF Raw
      <4> QED BY <4>1, <4>2 DEF EventSound, Removals
    <3> QED BY <3>1, <3>2, <3>3
  <2> HIDE DEF E
  <2> QED BY <1>11, <2>1, <2>2, QueueSoundGrows DEF QueueKept, NativeTyped
<1>15. OwedKept'
  BY <1>6 DEF OwedKept
<1>16. Sight'
  <2> SUFFICES ASSUME NEW q \in DOMAIN disk', NEW w \in DOMAIN wds', Owes(q, w)'
               PROVE  InSight(q, w)'
    BY DEF Sight
  <2>1. /\ q # TheRoot /\ q \in D /\ Front(q) \in D /\ w \in DOMAIN wds /\ q \in DOMAIN disk
        /\ wds[w] = disk[Front(q)] /\ disk[q] \notin slipped
    BY <1>3, <1>4, <1>5, <1>6 DEF Owes
  <2>2. InSight(q, w)
    BY <2>1 DEF Sight, Owes
  <2>3. q \in Followed => q \in Followed'
    BY <1>5, <1>6, <1>13, <2>1, FollowedMeans, FollowedNext
  <2>4. ASSUME NEW ev \in E PROVE ~Removes(ev, w, Last(q))
    <3>1. CASE ev = Overflowed
      BY <3>1 DEF Removes, Overflowed, Raw
    <3>2. ASSUME NEW x \in DOMAIN wds, ev = Raw(x, "move_self", "", 0)
          PROVE  ~Removes(ev, w, Last(q))
      BY <3>2 DEF Removes, Raw
    <3>3. ASSUME NEW x \in DOMAIN wds, ev = Raw(x, "from", Last(p), cookie)
          PROVE  ~Removes(ev, w, Last(q))
      BY <3>3 DEF Removes, Raw
    <3> QED BY <3>1, <3>2, <3>3
  <2> HIDE DEF E
  <2> QED BY <1>6, <1>11, <2>2, <2>3, <2>4, StaysInSight DEF NativeTyped
<1> QED BY <1>12, <1>13, <1>14, <1>15, <1>16

-----------------------------------------------------------------------------
(* Adding watches.                                                         *)

LEMMA TouredOpened ==
  ASSUME Rooted(DOMAIN disk), NEW walk \in Walks, walk.open = {}, NEW p \in walk.todo
  PROVE  /\ Opened(walk, p) \in Walks /\ p \in Paths
         /\ p \in DOMAIN disk => p \in Opened(walk, p).open
         /\ \A q \in DOMAIN disk : q # p /\ Toured(walk, q) => Toured(Opened(walk, p), q)
<1>1. p \in Paths /\ walk.todo \subseteq Paths
  BY DEF Walks
<1>2. Opened(walk, p).todo = walk.todo \ {p} /\ Opened(walk, p).open = {p} \cap DOMAIN disk
  BY DEF Opened
<1>3. Opened(walk, p) \in Walks
  BY <1>1 DEF Opened, Walks
<1>4. ASSUME NEW q \in DOMAIN disk, q # p, Toured(walk, q) PROVE Toured(Opened(walk, p), q)
  <2>1. PICK r \in walk.todo : Within(q, r)
    BY <1>4 DEF Toured
  <2>2. CASE r = p
    <3>1. p \in DOMAIN disk
      BY <1>1, <2>1, <2>2, AncestorsThere
    <3> QED BY <1>2, <1>4, <2>1, <2>2, <3>1 DEF Toured
  <2>3. CASE r # p
    BY <1>2, <2>1, <2>3 DEF Toured
  <2> QED BY <2>2, <2>3
<1> QED BY <1>1, <1>2, <1>3, <1>4

LEMMA TouredListed ==
  ASSUME Rooted(DOMAIN disk), NEW walk \in Walks
  PROVE  /\ Listed(walk) \in Walks
         /\ \A q \in DOMAIN disk : Toured(walk, q) => Toured(Listed(walk), q)
<1>1. /\ Listed(walk).todo = walk.todo \cup UNION {Children(p) : p \in walk.open}
      /\ Listed(walk).open = {}
  BY DEF Listed
<1>2. \A p : Children(p) \subseteq Paths
  BY DEF Children, Rooted
<1>3. Listed(walk) \in Walks
  BY <1>2 DEF Listed, Walks
<1>4. ASSUME NEW q \in DOMAIN disk, Toured(walk, q) PROVE Toured(Listed(walk), q)
  <2>1. CASE \E r \in walk.todo : Within(q, r)
    BY <1>1, <2>1 DEF Toured
  <2>2. ASSUME NEW r \in walk.open, Within(q, r), q # r PROVE Toured(Listed(walk), q)
    <3>1. r \in Paths
      BY DEF Walks
    <3>2. PICK c \in DOMAIN disk : c # TheRoot /\ Front(c) = r /\ Within(q, c)
      BY <2>2, <3>1, StepDown
    <3>3. c \in Listed(walk).todo
      BY <1>1, <3>2 DEF Children
    <3> QED BY <3>2, <3>3 DEF Toured
  <2> QED BY <1>4, <2>1, <2>2 DEF Toured
<1> QED BY <1>3, <1>4

LEMMA OverflowRemovesNone == \A w, n : ~Removes(Overflowed, w, n)
<1>1. Overflowed.kind = "overflow"
  BY DEF Overflowed, Raw
<1> QED BY <1>1 DEF Removes

\* What a watch that is added brings: its directory is followed, and only what is
\* in it is owed anew.
LEMMA AddOneKeeps ==
  ASSUME NativeInv, NEW p \in Paths, _add_one(p), disk' = disk, queue' = queue,
         unpaired' = unpaired, reader' \in Walks, scan' \in Walks
  PROVE  /\ NativeTyped' /\ PathsKept' /\ QueueKept'
         /\ \A q \in DOMAIN disk : q \in Followed => q \in Followed'
         /\ p \in DOMAIN disk /\ disk[p] \notin slipped' => p \in Followed'
         /\ \A q \in DOMAIN disk, w \in DOMAIN wds' : Owes(q, w)' =>
              \/ Owes(q, w)
              \/ /\ Unrefuted(queue, 0, w, Last(q))
                 /\ q = p \/ (p \in DOMAIN disk /\ Front(q) = p)
<1> USE DEF NativeInv
<1>1. CASE p \in DOMAIN byPath \/ p \notin DOMAIN disk
  <2>1. /\ wds' = wds /\ known' = known /\ byPath' = byPath /\ spent' = spent
        /\ slipped' = slipped \cup {disk[q] : q \in ({p} \cap DOMAIN disk) \ Followed}
    BY <1>1 DEF _add_one
  <2>2. NativeTyped' /\ PathsKept' /\ QueueKept'
    BY <2>1 DEF NativeTyped, PathsKept, QueueKept
  <2>3. Followed' = Followed
    BY <2>1 DEF Followed
  <2>4. p \in DOMAIN disk /\ disk[p] \notin slipped' => p \in Followed'
    BY <2>1, <2>3
  <2>5. \A q, w : Owes(q, w)' => Owes(q, w)
    BY <2>1 DEF Owes
  <2> QED BY <2>2, <2>3, <2>4, <2>5
<1>2. CASE ~ (p \in DOMAIN byPath \/ p \notin DOMAIN disk)
  <2> DEFINE d == disk[p]
             n == spent.watches + 1
  <2>1. p \in DOMAIN disk /\ p \notin DOMAIN byPath
    BY <1>2
  <2>2. \A w \in DOMAIN wds : wds[w] # d
    <3>1. p \notin Followed
      BY <2>1 DEF Followed
    <3> QED BY <2>1, <3>1, FollowedMeans
  <2>3. /\ wds' = Entered(wds, n, d) /\ known' = Entered(known, n, p)
        /\ byPath' = Entered(byPath, p, n)
        /\ slipped' = IF queue = <<>> /\ unpaired = <<>> THEN slipped \ {d} ELSE slipped
        /\ spent' = [spent EXCEPT !.watches = IF n > @ THEN n ELSE @]
    <3>1. {wd \in DOMAIN wds : wds[wd] = d} = {}
      BY <2>2
    <3> QED BY <1>2, <3>1 DEF _add_one
  <2>4. /\ spent.watches \in Nat /\ spent.dirs \in Nat /\ d \in 0..spent.dirs
        /\ n \in Nat /\ n \notin DOMAIN wds /\ n \notin DOMAIN known /\ n \notin 1..spent.watches
        /\ n \in 1..n
    <3>1. spent.watches \in Nat /\ spent.dirs \in Nat
      BY WatchNumbers
    <3>2. d \in 0..spent.dirs
      BY <2>1 DEF NativeTyped
    <3>3. DOMAIN wds \subseteq 1..spent.watches /\ DOMAIN known \subseteq 1..spent.watches
      BY WatchNumbers DEF NativeTyped
    <3>4. n \in Nat /\ n \notin 1..spent.watches /\ n \in 1..n
      BY <3>1
    <3> HIDE DEF n, d
    <3> QED BY <3>1, <3>2, <3>3, <3>4
  <2>5. /\ spent' \in [dirs : Nat, moves : Nat, removals : Nat, watches : Nat]
        /\ spent'.dirs = spent.dirs /\ spent'.watches = n
    <3>1. spent' = [spent EXCEPT !.watches = n]
      BY <2>3, <2>4
    <3>2. n \in Nat /\ spent \in [dirs : Nat, moves : Nat, removals : Nat, watches : Nat]
      BY <2>4 DEF NativeTyped
    <3> HIDE DEF n
    <3> QED BY <3>1, <3>2
  <2>6. 1..spent.watches \subseteq 1..n /\ spent.watches <= n
    BY <2>4
  <2> HIDE DEF n, d
  <2>7. /\ DOMAIN wds' = DOMAIN wds \cup {n} /\ wds'[n] = d
        /\ \A w \in DOMAIN wds : wds'[w] = wds[w]
        /\ DOMAIN known' = DOMAIN known \cup {n} /\ known'[n] = p
        /\ \A w \in DOMAIN known : known'[w] = known[w]
        /\ DOMAIN byPath' = DOMAIN byPath \cup {p} /\ byPath'[p] = n
        /\ \A q \in DOMAIN byPath : byPath'[q] = byPath[q]
    BY <2>1, <2>3, <2>4 DEF Entered
  <2>8. NativeTyped'
    <3>1. IsInjective(wds')
      BY <2>2, <2>4, <2>7 DEF NativeTyped, IsInjective
    <3>2. \A w \in DOMAIN wds' : wds'[w] \in 0..spent'.dirs
      BY <2>4, <2>5, <2>7 DEF NativeTyped
    <3>3. DOMAIN known' \subseteq 1..spent'.watches /\ \A w \in DOMAIN known' : known'[w] \in Paths
      BY <2>4, <2>5, <2>6, <2>7 DEF NativeTyped
    <3>4. \A q \in DOMAIN disk' : disk'[q] \in 0..spent'.dirs
      BY <2>5 DEF NativeTyped
    <3> QED BY <2>5, <3>1, <3>2, <3>3, <3>4 DEF NativeTyped
  <2>9. PathsKept'
    <3>1. 1 \in DOMAIN wds' /\ wds'[1] = disk'[TheRoot] /\ DOMAIN wds' \subseteq DOMAIN known'
      BY <2>7 DEF PathsKept
    <3>2. \A q \in DOMAIN byPath' : byPath'[q] \in DOMAIN known' /\ known'[byPath'[q]] = q
      BY <2>7 DEF PathsKept
    <3>3. \A w \in DOMAIN known' : known'[w] \in DOMAIN byPath' /\ byPath'[known'[w]] = w
      BY <2>1, <2>7 DEF PathsKept
    <3>4. ASSUME NEW w \in DOMAIN wds', NEW q \in DOMAIN disk', wds'[w] = disk'[q]
          PROVE  known'[w] = q
      <4>1. CASE w = n
        BY <2>1, <2>7, <3>4, <4>1 DEF NativeTyped, IsInjective, d
      <4>2. CASE w # n
        BY <2>7, <3>4, <4>2 DEF PathsKept
      <4> QED BY <4>1, <4>2
    <3> QED BY <3>1, <3>2, <3>3, <3>4 DEF PathsKept
  <2>10. QueueKept'
    <3>1. \A x \in DOMAIN wds' : x \notin 1..spent.watches \/ (x \in DOMAIN wds /\ wds'[x] = wds[x])
      BY <2>4, <2>7
    <3>2. QueueSound(queue, wds', disk', n)
      BY <2>4, <2>6, <3>1, QueueStays DEF QueueKept
    <3> QED BY <2>5, <3>2 DEF QueueKept
  <2>11. ASSUME NEW q \in DOMAIN disk, q \in Followed PROVE q \in Followed'
    <3>1. PICK w \in DOMAIN wds : wds[w] = disk[q]
      BY <2>11, FollowedMeans
    <3>2. w \in DOMAIN wds' /\ wds'[w] = disk'[q]
      BY <2>7, <3>1
    <3> QED BY <2>9, <2>11, <3>2, FollowedNext
  <2>12. p \in Followed'
    <3>1. n \in DOMAIN wds' /\ wds'[n] = disk'[p] /\ p \in DOMAIN disk'
      BY <2>1, <2>7 DEF d
    <3> QED BY <2>9, <3>1, FollowedNext
  <2>13. ASSUME NEW q \in DOMAIN disk, NEW w \in DOMAIN wds', Owes(q, w)', ~Owes(q, w)
         PROVE  /\ Unrefuted(queue, 0, w, Last(q))
                /\ q = p \/ (p \in DOMAIN disk /\ Front(q) = p)
    <3>1. q # TheRoot /\ wds'[w] = disk[Front(q)] /\ disk[q] \notin slipped'
      BY <2>13 DEF Owes
    <3>2. CASE w = n
      <4>1. Front(q) = p
        BY <2>1, <2>7, <3>1, <3>2 DEF NativeTyped, IsInjective, Rooted, d
      <4>2. ASSUME NEW j \in 1..Len(queue) PROVE ~Removes(queue[j], w, Last(q))
        <5>1. EventSound(queue[j], wds, disk, spent.watches)
          BY DEF QueueKept, QueueSound
        <5>2. CASE queue[j] = Overflowed
          BY <5>2, OverflowRemovesNone
        <5>3. CASE queue[j].wd \in 1..spent.watches
          BY <2>4, <3>2, <5>3 DEF Removes
        <5> QED BY <5>1, <5>2, <5>3 DEF EventSound
      <4> QED BY <2>1, <4>1, <4>2 DEF Unrefuted
    <3>3. CASE w # n
      <4>1. w \in DOMAIN wds /\ wds[w] = disk[Front(q)] /\ disk[q] \in slipped
        BY <2>7, <2>13, <3>1, <3>3 DEF Owes
      <4>2. disk[q] = d /\ queue = <<>>
        BY <2>3, <3>1, <4>1
      <4>3. q = p
        BY <2>1, <4>2 DEF NativeTyped, IsInjective, d
      <4>4. Unrefuted(queue, 0, w, Last(q))
        BY <4>2, OneEvent DEF Unrefuted
      <4> QED BY <4>3, <4>4
    <3> QED BY <3>2, <3>3
  <2> QED BY <2>8, <2>9, <2>10, <2>11, <2>12, <2>13
<1> QED BY <1>1, <1>2

\* A walk that adds a watch leaves nothing behind.
LEMMA WalkAddsKeeps ==
  ASSUME NativeInv, NEW p \in Paths, _add_one(p), disk' = disk, queue' = queue,
         unpaired' = unpaired, reader' \in Walks, scan' \in Walks,
         OwedKept', owed = "yes" => owed' = "yes",
         \A q \in DOMAIN disk : q # p /\ Toured(scan, q) => Toured(scan', q),
         \A q \in DOMAIN disk : q # p /\ Toured(reader, q) => Toured(reader', q),
         p \in DOMAIN disk => p \in reader'.open \cup scan'.open
  PROVE  NativeInv'
<1> USE DEF NativeInv
<1>1. /\ NativeTyped' /\ PathsKept' /\ QueueKept'
      /\ \A q \in DOMAIN disk : q \in Followed => q \in Followed'
      /\ p \in DOMAIN disk /\ disk[p] \notin slipped' => p \in Followed'
      /\ \A q \in DOMAIN disk, w \in DOMAIN wds' : Owes(q, w)' =>
           \/ Owes(q, w)
           \/ /\ Unrefuted(queue, 0, w, Last(q))
              /\ q = p \/ (p \in DOMAIN disk /\ Front(q) = p)
  BY AddOneKeeps
<1>2. Sight'
  <2> SUFFICES ASSUME NEW q \in DOMAIN disk', NEW w \in DOMAIN wds', Owes(q, w)'
               PROVE  InSight(q, w)'
    BY DEF Sight
  <2>1. q \in DOMAIN disk /\ q # TheRoot /\ disk[q] \notin slipped' /\ q \in Paths
    BY DEF Owes, NativeTyped, Rooted
  <2>2. CASE q = p
    <3>1. q \in Followed'
      BY <1>1, <2>1, <2>2
    <3>2. Heard(queue, w, Last(q)) \/ Unrefuted(queue, 0, w, Last(q))
      <4>1. CASE Owes(q, w)
        BY <4>1, <2>1 DEF Sight, InSight, Owes
      <4>2. CASE ~Owes(q, w)
        BY <1>1, <2>1, <4>2
      <4> QED BY <4>1, <4>2
    <3> QED BY <3>1, <3>2 DEF InSight
  <2>3. CASE q # p /\ Owes(q, w)
    <3>1. InSight(q, w)
      BY <2>1, <2>3 DEF Sight, Owes
    <3> QED BY <1>1, <2>1, <2>3, <3>1 DEF InSight
  <2>4. CASE q # p /\ ~Owes(q, w)
    <3>1. Unrefuted(queue, 0, w, Last(q)) /\ p \in DOMAIN disk /\ Front(q) = p
      BY <1>1, <2>1, <2>4
    <3>2. Within(q, p)
      <4>1. Within(Front(q), p)
        BY <3>1, WithinItself
      <4> QED BY <2>1, <4>1, WithinAbove
    <3>3. Toured(scan', q) \/ Toured(reader', q)
      BY <2>4, <3>1, <3>2 DEF Toured
    <3> QED BY <3>1, <3>3 DEF InSight
  <2> QED BY <2>2, <2>3, <2>4
<1> QED BY <1>1, <1>2

LEMMA ReaderAddsKeeps ==
  ASSUME NativeInv, NEW p \in AllPaths, ReaderAdds(p)
  PROVE  NativeInv'
<1>1. /\ p \in reader.todo /\ reader.open = {} /\ _add_one(p) /\ reader' = Opened(reader, p)
      /\ disk' = disk /\ queue' = queue /\ unpaired' = unpaired /\ scan' = scan /\ owed' = owed
  BY DEF ReaderAdds
<1>2. Rooted(DOMAIN disk) /\ reader \in Walks /\ scan \in Walks /\ OwedKept
  BY DEF NativeInv, NativeTyped
<1>3. /\ reader' \in Walks /\ p \in Paths
      /\ p \in DOMAIN disk => p \in reader'.open
      /\ \A q \in DOMAIN disk : q # p /\ Toured(reader, q) => Toured(reader', q)
  BY <1>1, <1>2, TouredOpened
<1>4. OwedKept'
  BY <1>1, <1>2 DEF OwedKept
<1> QED BY <1>1, <1>2, <1>3, <1>4, WalkAddsKeeps

LEMMA RegisterKeeps ==
  ASSUME NativeInv, NEW p \in AllPaths, register_directory(p)
  PROVE  NativeInv'
<1>1. /\ p \in scan.todo /\ scan.open = {} /\ _add_one(p) /\ scan' = Opened(scan, p)
      /\ owed' = IF scan' = NoWalk /\ owed = "running" THEN "no" ELSE owed
      /\ disk' = disk /\ queue' = queue /\ unpaired' = unpaired /\ reader' = reader
  BY DEF register_directory, ScanGoesOn
<1>2. Rooted(DOMAIN disk) /\ reader \in Walks /\ scan \in Walks /\ OwedKept
  BY DEF NativeInv, NativeTyped
<1>3. /\ scan' \in Walks /\ p \in Paths
      /\ p \in DOMAIN disk => p \in scan'.open
      /\ \A q \in DOMAIN disk : q # p /\ Toured(scan, q) => Toured(scan', q)
  BY <1>1, <1>2, TouredOpened
<1>4. scan # NoWalk
  BY <1>1 DEF NoWalk
<1>5. OwedKept' /\ (owed = "yes" => owed' = "yes")
  BY <1>1, <1>2, <1>4 DEF OwedKept
<1> QED BY <1>1, <1>2, <1>3, <1>5, WalkAddsKeeps

\* Only the walks and what is owed change, and what a walk would come to is left
\* to a walk.
LEMMA NothingElseKeeps ==
  ASSUME NativeInv, disk' = disk, wds' = wds, queue' = queue, known' = known,
         byPath' = byPath, unpaired' = unpaired, slipped' = slipped, spent' = spent,
         reader' \in Walks, scan' \in Walks, OwedKept',
         \/ owed = "yes" => owed' = "yes"
         \/ \A q \in DOMAIN disk : Toured(scan', q),
         \A q \in DOMAIN disk : Toured(scan, q) => Toured(scan', q),
         \A q \in DOMAIN disk : Toured(reader, q) => Toured(reader', q)
  PROVE  NativeInv'
<1> USE DEF NativeInv
<1>1. NativeTyped' /\ PathsKept' /\ QueueKept'
  BY DEF NativeTyped, PathsKept, QueueKept
<1>2. Followed' = Followed
  BY DEF Followed
<1>3. ASSUME NEW q \in DOMAIN disk, NEW w \in DOMAIN wds, Owes(q, w)' PROVE InSight(q, w)'
  <2>1. InSight(q, w)
    BY <1>3 DEF Owes, Sight
  <2> QED BY <1>2, <2>1 DEF InSight
<1> QED BY <1>1, <1>3 DEF Sight

LEMMA ReaderListsKeeps ==
  ASSUME NativeInv, ReaderLists
  PROVE  NativeInv'
<1>1. /\ disk' = disk /\ wds' = wds /\ queue' = queue /\ known' = known /\ byPath' = byPath
      /\ unpaired' = unpaired /\ scan' = scan /\ owed' = owed /\ slipped' = slipped
      /\ spent' = spent /\ reader' = Listed(reader)
  BY DEF ReaderLists
<1>2. Rooted(DOMAIN disk) /\ reader \in Walks /\ scan \in Walks /\ OwedKept
  BY DEF NativeInv, NativeTyped
<1>3. reader' \in Walks /\ \A q \in DOMAIN disk : Toured(reader, q) => Toured(reader', q)
  BY <1>1, <1>2, TouredListed
<1>4. scan' \in Walks /\ OwedKept' /\ \A q \in DOMAIN disk : Toured(scan, q) => Toured(scan', q)
  BY <1>1, <1>2 DEF OwedKept
<1> QED BY <1>1, <1>3, <1>4, NothingElseKeeps

LEMMA ScanListsKeeps ==
  ASSUME NativeInv, ScanLists
  PROVE  NativeInv'
<1>1. /\ disk' = disk /\ wds' = wds /\ queue' = queue /\ known' = known /\ byPath' = byPath
      /\ unpaired' = unpaired /\ reader' = reader /\ slipped' = slipped /\ spent' = spent
      /\ scan' = Listed(scan)
      /\ owed' = IF scan' = NoWalk /\ owed = "running" THEN "no" ELSE owed
      /\ scan.open # {}
  BY DEF ScanLists, ScanGoesOn
<1>2. Rooted(DOMAIN disk) /\ scan \in Walks /\ reader \in Walks /\ OwedKept
  BY DEF NativeInv, NativeTyped
<1>3. scan' \in Walks /\ \A q \in DOMAIN disk : Toured(scan, q) => Toured(scan', q)
  BY <1>1, <1>2, TouredListed
<1>4. scan # NoWalk
  BY <1>1 DEF NoWalk
<1>5. OwedKept' /\ (owed = "yes" => owed' = "yes")
  BY <1>1, <1>2, <1>4 DEF OwedKept
<1>6. reader' \in Walks /\ \A q \in DOMAIN disk : Toured(reader, q) => Toured(reader', q)
  BY <1>1, <1>2
<1> QED BY <1>1, <1>3, <1>5, <1>6, NothingElseKeeps

LEMMA ScanStartsKeeps ==
  ASSUME NativeInv, ScanStarts
  PROVE  NativeInv'
<1>1. /\ disk' = disk /\ wds' = wds /\ queue' = queue /\ known' = known /\ byPath' = byPath
      /\ unpaired' = unpaired /\ reader' = reader /\ slipped' = slipped /\ spent' = spent
      /\ scan' = Walk(TheRoot) /\ owed' = "running" /\ owed = "yes"
  BY DEF ScanStarts
<1>2. TheRoot \in Paths /\ DOMAIN disk \subseteq Paths /\ reader \in Walks
  BY DEF NativeInv, NativeTyped, Rooted
<1>3. scan' \in Walks /\ scan'.todo = {TheRoot}
  BY <1>1, <1>2 DEF Walk, Walks
<1>4. \A q \in DOMAIN disk : Toured(scan', q)
  BY <1>2, <1>3, WithinItself DEF Toured
<1>5. OwedKept'
  BY <1>1 DEF OwedKept
<1>6. reader' \in Walks /\ \A q \in DOMAIN disk : Toured(reader, q) => Toured(reader', q)
  BY <1>1, <1>2
<1> QED BY <1>1, <1>3, <1>4, <1>5, <1>6, NothingElseKeeps

-----------------------------------------------------------------------------
(* What the reader does with an event.                                     *)

\* An event is read: what it announces is left to a scan or to the reader.
LEMMA ReadKeeps ==
  ASSUME NativeInv, reader = NoWalk, queue # <<>>, queue' = Tail(queue), disk' = disk,
         wds' = wds, known' = known, byPath' = byPath, scan' = scan, slipped' = slipped,
         spent' = spent, reader' \in Walks, OwedKept', owed = "yes" => owed' = "yes",
         DOMAIN unpaired' \subseteq Nat \ {0},
         \A c \in DOMAIN unpaired' : unpaired'[c] \in Paths \ {TheRoot},
         \A q \in DOMAIN disk, w \in DOMAIN wds :
           Owes(q, w) /\ (Now = Overflowed \/ Announces(Now, w, Last(q)))
             => owed' = "yes" \/ Toured(reader', q)
  PROVE  NativeInv'
<1> USE DEF NativeInv
<1>1. /\ queue \in Seq(RawEvents) /\ Tail(queue) \in Seq(RawEvents)
      /\ Len(Tail(queue)) = Len(queue) - 1
      /\ \A i \in 1..Len(Tail(queue)) : Tail(queue)[i] = queue[i + 1] /\ i + 1 \in 1..Len(queue)
  BY QueueRead DEF NativeTyped
<1>2. NativeTyped' /\ PathsKept'
  BY <1>1 DEF NativeTyped, PathsKept
<1>3. QueueKept'
  BY <1>1 DEF QueueKept, QueueSound
<1>4. Followed' = Followed
  BY DEF Followed
<1>5. ASSUME NEW q \in DOMAIN disk, NEW w \in DOMAIN wds, Owes(q, w) PROVE InSight(q, w)'
  <2>1. InSight(q, w)
    BY <1>5 DEF Sight
  <2>2. ~Toured(reader, q)
    BY DEF Toured, NoWalk
  <2>3. /\ Unrefuted(queue, 0, w, Last(q)) => Unrefuted(Tail(queue), 0, w, Last(q))
        /\ Heard(queue, w, Last(q)) =>
             \/ Heard(Tail(queue), w, Last(q))
             \/ /\ Now = Overflowed \/ Announces(Now, w, Last(q))
                /\ Unrefuted(Tail(queue), 0, w, Last(q))
    BY <1>1, QueueRead DEF Now
  <2> QED BY <1>4, <1>5, <2>1, <2>2, <2>3 DEF InSight
<1>6. \A q, w : Owes(q, w)' => Owes(q, w)
  BY DEF Owes
<1> QED BY <1>2, <1>3, <1>5, <1>6 DEF Sight

\* The event at the head of the queue, and the path it is about.
LEMMA NowMeans ==
  ASSUME NativeInv, Reads, Now # Overflowed
  PROVE  /\ EventSound(Now, wds, disk, spent.watches) /\ Now \in RawEvents
         /\ Now.name \in Names => Now.name # ""
         /\ Now.wd \in DOMAIN known /\ Now.name = "" => Place = known[Now.wd] /\ Place \in Paths
         /\ Now.wd \in DOMAIN known /\ Now.name \in Names =>
              /\ Place = Append(known[Now.wd], Now.name) /\ Place \in Paths \ {TheRoot}
              /\ Front(Place) = known[Now.wd] /\ Last(Place) = Now.name
<1>1. queue \in Seq(RawEvents) /\ queue # <<>>
  BY DEF NativeInv, NativeTyped, Reads
<1>2. Now \in RawEvents /\ Now = queue[1] /\ 1 \in 1..Len(queue)
  BY <1>1, QueueRead DEF Now
<1>3. EventSound(Now, wds, disk, spent.watches)
  BY <1>2 DEF NativeInv, QueueKept, QueueSound
<1>4. Now.name \in Names => Now.name # ""
  BY NativeAssumption DEF NativeAssumption
<1>5. \A w \in DOMAIN known : known[w] \in Paths
  BY DEF NativeInv, NativeTyped
<1>6. Now.wd \in DOMAIN known /\ Now.name \in Names =>
        /\ Place = Append(known[Now.wd], Now.name) /\ Place \in Paths \ {TheRoot}
        /\ Front(Place) = known[Now.wd] /\ Last(Place) = Now.name
  BY <1>4, <1>5, PathJoined DEF Place
<1> QED BY <1>2, <1>3, <1>4, <1>5, <1>6 DEF Place

\* A directory of the tree is known by its path.
LEMMA KnownMeans ==
  ASSUME NativeInv
  PROVE  /\ 1 \in DOMAIN wds /\ 1 \in DOMAIN known /\ known[1] = TheRoot
         /\ wds[1] = disk[TheRoot] /\ TheRoot \in DOMAIN disk
         /\ \A w \in DOMAIN wds, q \in DOMAIN disk : wds[w] = disk[q] => known[w] = q
         /\ \A v, w \in DOMAIN known : known[v] = known[w] => v = w
         /\ \A q \in DOMAIN disk, w \in DOMAIN wds : Owes(q, w) =>
              /\ q \in Paths /\ q # TheRoot /\ Front(q) \in DOMAIN disk
              /\ w \in DOMAIN known /\ known[w] = Front(q)
              /\ Last(q) \in Names /\ Last(q) # ""
<1> USE DEF NativeInv
<1>1. TheRoot \in DOMAIN disk
  BY DEF NativeTyped, Rooted
<1>2. \A w \in DOMAIN wds, q \in DOMAIN disk : wds[w] = disk[q] => known[w] = q
  BY DEF PathsKept
<1>3. 1 \in DOMAIN wds /\ 1 \in DOMAIN known /\ known[1] = TheRoot /\ wds[1] = disk[TheRoot]
  BY <1>1, <1>2 DEF PathsKept
<1>4. \A v, w \in DOMAIN known : known[v] = known[w] => v = w
  BY DEF PathsKept
<1>5. ASSUME NEW q \in DOMAIN disk, NEW w \in DOMAIN wds, Owes(q, w)
      PROVE  /\ q \in Paths /\ q # TheRoot /\ Front(q) \in DOMAIN disk
             /\ w \in DOMAIN known /\ known[w] = Front(q)
             /\ Last(q) \in Names /\ Last(q) # ""
  <2>1. q # TheRoot /\ wds[w] = disk[Front(q)] /\ w \in DOMAIN known
    BY <1>5 DEF Owes, PathsKept
  <2>2. q \in Paths /\ Front(q) \in DOMAIN disk
    BY <2>1 DEF NativeTyped, Rooted
  <2>3. Last(q) \in Names
    BY <2>1, <2>2, AboveRest
  <2>4. "" \notin Names
    BY NativeAssumption DEF NativeAssumption
  <2> QED BY <1>2, <2>1, <2>2, <2>3, <2>4
<1> QED BY <1>1, <1>2, <1>3, <1>4, <1>5

LEMMA HandleOverflowKeeps ==
  ASSUME NativeInv, HandleOverflow
  PROVE  NativeInv'
<1>1. /\ reader = NoWalk /\ queue # <<>> /\ owed' = "yes" /\ queue' = Tail(queue)
      /\ disk' = disk /\ wds' = wds /\ known' = known /\ byPath' = byPath
      /\ unpaired' = unpaired /\ reader' = reader /\ scan' = scan /\ slipped' = slipped
      /\ spent' = spent
  BY DEF HandleOverflow, Reads
<1>2. reader' \in Walks /\ OwedKept'
  BY <1>1 DEF NativeInv, NativeTyped, OwedKept
<1>3. /\ DOMAIN unpaired' \subseteq Nat \ {0}
      /\ \A c \in DOMAIN unpaired' : unpaired'[c] \in Paths \ {TheRoot}
  BY <1>1 DEF NativeInv, NativeTyped
<1> QED BY <1>1, <1>2, <1>3, ReadKeeps

LEMMA HandleStrangerKeeps ==
  ASSUME NativeInv, HandleStranger
  PROVE  NativeInv'
<1>1. /\ reader = NoWalk /\ queue # <<>> /\ queue' = Tail(queue) /\ owed' = owed
      /\ disk' = disk /\ wds' = wds /\ known' = known /\ byPath' = byPath
      /\ unpaired' = unpaired /\ reader' = reader /\ scan' = scan /\ slipped' = slipped
      /\ spent' = spent /\ Now # Overflowed /\ Now.wd \notin DOMAIN known
  BY DEF HandleStranger, Reads, IsKnown
<1>2. reader' \in Walks /\ OwedKept'
  BY <1>1 DEF NativeInv, NativeTyped, OwedKept
<1>3. /\ DOMAIN unpaired' \subseteq Nat \ {0}
      /\ \A c \in DOMAIN unpaired' : unpaired'[c] \in Paths \ {TheRoot}
  BY <1>1 DEF NativeInv, NativeTyped
<1>4. \A w \in DOMAIN wds : \A q : ~Announces(Now, w, Last(q))
  BY <1>1 DEF NativeInv, PathsKept, Announces
<1> QED BY <1>1, <1>2, <1>3, <1>4, ReadKeeps

LEMMA HandleMovedFromKeeps ==
  ASSUME NativeInv, HandleMovedFrom
  PROVE  NativeInv'
<1>1. /\ reader = NoWalk /\ queue # <<>> /\ queue' = Tail(queue) /\ owed' = owed
      /\ disk' = disk /\ wds' = wds /\ known' = known /\ byPath' = byPath
      /\ unpaired' = Entered(unpaired, Now.cookie, Place)
      /\ reader' = reader /\ scan' = scan /\ slipped' = slipped /\ spent' = spent
      /\ Reads /\ Now # Overflowed /\ Now.wd \in DOMAIN known /\ Now.kind = "from"
  BY DEF HandleMovedFrom, Reads, IsKnown
<1>2. reader' \in Walks /\ OwedKept'
  BY <1>1 DEF NativeInv, NativeTyped, OwedKept
<1>3. Now.cookie \in Nat \ {0} /\ Place \in Paths \ {TheRoot}
  <2>1. EventSound(Now, wds, disk, spent.watches) /\ Now \in RawEvents
    BY <1>1, NowMeans
  <2>2. Now.cookie # 0 /\ Now.name \in Names
    BY <1>1, <2>1 DEF EventSound, Removals
  <2>3. Now.cookie \in Nat
    BY <2>1 DEF RawEvents
  <2> QED BY <1>1, <2>2, <2>3, NowMeans
<1>4. /\ DOMAIN unpaired' \subseteq Nat \ {0}
      /\ \A c \in DOMAIN unpaired' : unpaired'[c] \in Paths \ {TheRoot}
  BY <1>1, <1>3 DEF NativeInv, NativeTyped, Entered
<1>5. \A w, q : ~Announces(Now, w, Last(q))
  BY <1>1 DEF Announces
<1> QED BY <1>1, <1>2, <1>4, <1>5, ReadKeeps

LEMMA HandleNewKeeps ==
  ASSUME NativeInv, HandleNew
  PROVE  NativeInv'
<1>1. /\ reader = NoWalk /\ queue # <<>> /\ queue' = Tail(queue)
      /\ disk' = disk /\ wds' = wds /\ known' = known /\ byPath' = byPath
      /\ unpaired' = unpaired /\ scan' = scan /\ slipped' = slipped /\ spent' = spent
      /\ Reads /\ Now # Overflowed /\ Now.wd \in DOMAIN known /\ AddNew(Place)
  BY DEF HandleNew, Reads, IsKnown
<1>2. reader' \in Walks /\ OwedKept' /\ (owed = "yes" => owed' = "yes")
  <2>1. DOMAIN disk \subseteq Paths
    BY DEF NativeInv, NativeTyped, Rooted
  <2>2. Place \in DOMAIN disk => Walk(Place) \in Walks
    BY <2>1 DEF Walk, Walks
  <2> QED BY <1>1, <2>2 DEF NativeInv, NativeTyped, OwedKept, AddNew
<1>3. /\ DOMAIN unpaired' \subseteq Nat \ {0}
      /\ \A c \in DOMAIN unpaired' : unpaired'[c] \in Paths \ {TheRoot}
  BY <1>1 DEF NativeInv, NativeTyped
<1>4. ASSUME NEW q \in DOMAIN disk, NEW w \in DOMAIN wds, Owes(q, w), Announces(Now, w, Last(q))
      PROVE  owed' = "yes" \/ Toured(reader', q)
  <2>1. /\ q \in Paths /\ q # TheRoot /\ w \in DOMAIN known /\ known[w] = Front(q)
        /\ Last(q) \in Names
    BY <1>4, KnownMeans
  <2>2. Now.wd = w /\ Now.name = Last(q)
    BY <1>4 DEF Announces
  <2>3. Place \in Paths \ {TheRoot} /\ Front(Place) = Front(q) /\ Last(Place) = Last(q)
    BY <1>1, <2>1, <2>2, NowMeans
  <2>4. Place = q
    BY <2>1, <2>3, PathParted
  <2>5. reader' = Walk(q)
    BY <1>1, <2>4 DEF AddNew
  <2>6. Within(q, q) /\ q \in reader'.todo
    BY <2>1, <2>5, WithinItself DEF Walk
  <2> QED BY <2>6 DEF Toured
<1> QED BY <1>1, <1>2, <1>3, <1>4, ReadKeeps

\* Renames are told with a cookie, and of those there are none.
LEMMA HandleMovedNever ==
  ASSUME NativeInv
  PROVE  ~HandleMoved
<1> SUFFICES ASSUME HandleMoved PROVE FALSE
  OBVIOUS
<1>1. Reads /\ Now # Overflowed /\ Now.kind = "to" /\ Now.cookie \in DOMAIN unpaired
  BY DEF HandleMoved, IsKnown
<1>2. EventSound(Now, wds, disk, spent.watches)
  BY <1>1, NowMeans
<1>3. Now.cookie = 0
  BY <1>1, <1>2 DEF EventSound
<1>4. DOMAIN unpaired \subseteq Nat \ {0}
  BY DEF NativeInv, NativeTyped
<1> QED BY <1>1, <1>3, <1>4

-----------------------------------------------------------------------------
(* Forgetting watches.                                                     *)

LEMMA WatchesFinite ==
  ASSUME NativeInv, NEW S \in SUBSET DOMAIN wds
  PROVE  IsFiniteSet(S) /\ S \subseteq Nat
<1>1. spent.watches \in Nat /\ S \subseteq 1..spent.watches
  BY WatchNumbers DEF NativeInv
<1>2. IsFiniteSet(1..spent.watches)
  BY <1>1, FS_Interval
<1> QED BY <1>1, <1>2, FS_Subset

\* Watches are forgotten, the kernel says so behind the rest of the queue, and none
\* of them was what a directory was followed by.
LEMMA ForgetKeeps ==
  ASSUME NativeInv, NEW those \in SUBSET DOMAIN known, 1 \notin those,
         NEW rest \in Seq(RawEvents), QueueSound(rest, wds, disk, spent.watches),
         Forget(those, rest), disk' = disk, reader' = reader, scan' = scan, owed' = owed,
         spent' = spent, DOMAIN unpaired' \subseteq Nat \ {0},
         \A c \in DOMAIN unpaired' : unpaired'[c] \in Paths \ {TheRoot},
         \A q \in DOMAIN disk, w \in DOMAIN wds \ those : Owes(q, w)' =>
           \/ Heard(rest, w, Last(q))
           \/ /\ Unrefuted(rest, 0, w, Last(q))
              /\ \/ owed = "yes" \/ Toured(scan, q) \/ Toured(reader, q)
                 \/ \E v \in DOMAIN wds \ those : wds[v] = disk[q]
  PROVE  NativeInv'
<1> USE DEF NativeInv
<1> DEFINE S == those \cap DOMAIN wds
           news == [n \in 1..Cardinality(S) |-> Raw(SetToSeq(S)[n], "ignored", "", 0)]
           E == {Overflowed} \cup {Raw(w, "ignored", "", 0) : w \in S}
<1>1. /\ DOMAIN known' = DOMAIN known \ those
      /\ \A w \in DOMAIN known \ those : known'[w] = known[w]
      /\ DOMAIN wds' = DOMAIN wds \ those /\ \A w \in DOMAIN wds \ those : wds'[w] = wds[w]
      /\ DOMAIN byPath' = DOMAIN byPath \ {known[w] : w \in those}
      /\ \A q \in DOMAIN byPath \ {known[w] : w \in those} : byPath'[q] = byPath[q]
  <2>1. /\ known' = Restrict(known, DOMAIN known \ those)
        /\ byPath' = Restrict(byPath, DOMAIN byPath \ {known[wd] : wd \in those})
        /\ wds' = Restrict(wds, DOMAIN wds \ those)
    BY DEF Forget
  <2>2. \A f, T : DOMAIN Restrict(f, T) = T /\ \A x \in T : Restrict(f, T)[x] = f[x]
    BY DEF Restrict
  <2> QED BY <2>1, <2>2
<1>2. queue' = Queued(rest, news)
  BY DEF Forget
<1>3. news \in Seq(RawEvents) /\ \A j \in 1..Len(news) : news[j] \in E
  <2>1. IsFiniteSet(S) /\ S \subseteq Nat
    BY WatchesFinite
  <2>2. /\ news \in Seq(RawEvents)
        /\ \A j \in 1..Len(news) : \E w \in S : news[j] = Raw(w, "ignored", "", 0)
    <3> HIDE DEF S
    <3> QED BY <2>1, IgnoredSound
  <2> HIDE DEF news, S
  <2> QED BY <2>2
<1> HIDE DEF news
<1>4. Lengthened(queue', rest, E)
  <2>1. Overflowed \in E
    OBVIOUS
  <2> HIDE DEF E
  <2> QED BY <1>2, <1>3, <2>1, QueuedLengthens
<1>5. NativeTyped'
  <2>1. queue' \in Seq(RawEvents)
    BY <1>4 DEF Lengthened
  <2>2. IsInjective(wds') /\ \A w \in DOMAIN wds' : wds'[w] \in 0..spent'.dirs
    BY <1>1 DEF NativeTyped, IsInjective
  <2>3. DOMAIN known' \subseteq 1..spent'.watches /\ \A w \in DOMAIN known' : known'[w] \in Paths
    BY <1>1 DEF NativeTyped
  <2> QED BY <2>1, <2>2, <2>3 DEF NativeTyped
<1>6. PathsKept'
  <2>1. 1 \in DOMAIN wds' /\ wds'[1] = disk'[TheRoot] /\ DOMAIN wds' \subseteq DOMAIN known'
    BY <1>1 DEF PathsKept
  <2>2. \A q \in DOMAIN byPath' : byPath'[q] \in DOMAIN known' /\ known'[byPath'[q]] = q
    BY <1>1 DEF PathsKept
  <2>3. \A w \in DOMAIN known' : known'[w] \in DOMAIN byPath' /\ byPath'[known'[w]] = w
    <3> SUFFICES ASSUME NEW w \in DOMAIN known \ those
                 PROVE  known[w] \in DOMAIN byPath' /\ byPath'[known[w]] = w
      BY <1>1
    <3>1. known[w] \in DOMAIN byPath /\ byPath[known[w]] = w
      BY DEF PathsKept
    <3>2. \A x \in those : known[x] # known[w]
      BY <3>1 DEF PathsKept
    <3> QED BY <1>1, <3>1, <3>2
  <2>4. \A w \in DOMAIN wds', q \in DOMAIN disk' : wds'[w] = disk'[q] => known'[w] = q
    BY <1>1 DEF PathsKept
  <2> QED BY <2>1, <2>2, <2>3, <2>4 DEF PathsKept
<1>7. QueueKept'
  <2>1. spent.watches \in Nat /\ spent.watches <= spent.watches
        /\ DOMAIN wds \subseteq 1..spent.watches
    BY WatchNumbers
  <2>2. QueueSound(rest, wds', disk', spent'.watches)
    BY <1>1, <2>1, QueueStays
  <2>3. ASSUME NEW ev \in E PROVE EventSound(ev, wds', disk', spent'.watches)
    <3>1. CASE ev = Overflowed
      BY <3>1 DEF EventSound
    <3>2. ASSUME NEW w \in S, ev = Raw(w, "ignored", "", 0)
          PROVE  EventSound(ev, wds', disk', spent'.watches)
      <4>1. w \in 1..spent'.watches /\ w \notin DOMAIN wds'
        BY <1>1, <2>1
      <4>2. ev.wd = w /\ ev.kind = "ignored" /\ ev.name = ""
        BY <3>2 DEF Raw
      <4> QED BY <4>1, <4>2 DEF EventSound, Removals
    <3> QED BY <3>1, <3>2
  <2> HIDE DEF E
  <2> QED BY <1>4, <2>2, <2>3, QueueSoundGrows DEF QueueKept
<1>8. OwedKept'
  BY DEF OwedKept
<1>9. Sight'
  <2> SUFFICES ASSUME NEW q \in DOMAIN disk', NEW w \in DOMAIN wds', Owes(q, w)'
               PROVE  InSight(q, w)'
    BY DEF Sight
  <2>1. q \in DOMAIN disk /\ w \in DOMAIN wds \ those
    BY <1>1
  <2>2. \A ev \in E : ~Removes(ev, w, Last(q))
    <3>1. \A x : ~Removes(Raw(x, "ignored", "", 0), w, Last(q))
      BY DEF Removes, Raw
    <3> QED BY <3>1, OverflowRemovesNone
  <2>3. /\ Heard(rest, w, Last(q)) => Heard(queue', w, Last(q))
        /\ Unrefuted(rest, 0, w, Last(q)) => Unrefuted(queue', 0, w, Last(q))
    <3> HIDE DEF E
    <3> QED BY <1>4, <2>2, QueueGrows
  <2>4. ASSUME NEW v \in DOMAIN wds \ those, wds[v] = disk[q] PROVE q \in Followed'
    <3>1. v \in DOMAIN wds' /\ wds'[v] = disk'[q]
      BY <1>1, <2>4
    <3> QED BY <1>6, <3>1, FollowedNext
  <2> QED BY <2>1, <2>3, <2>4 DEF InSight
<1> QED BY <1>5, <1>6, <1>7, <1>8, <1>9

LEMMA HandleGoneKeeps ==
  ASSUME NativeInv, HandleGone
  PROVE  NativeInv'
<1> USE DEF NativeInv
<1> DEFINE rest == Tail(queue)
           those == IF Now.kind = "ignored" THEN {Now.wd} ELSE Beneath(Place)
<1>1. /\ Reads /\ reader = NoWalk /\ queue # <<>> /\ Now # Overflowed /\ Now.wd \in DOMAIN known
      /\ Now.kind \in {"ignored", "delete_self", "move_self", "delete"}
      /\ Forget(those, rest) /\ disk' = disk /\ unpaired' = unpaired /\ reader' = reader
      /\ scan' = scan /\ owed' = owed /\ slipped' = slipped /\ spent' = spent
  BY DEF HandleGone, Reads, IsKnown
<1>2. /\ queue \in Seq(RawEvents) /\ rest \in Seq(RawEvents)
      /\ \A i \in 1..Len(rest) : rest[i] = queue[i + 1] /\ i + 1 \in 1..Len(queue)
  BY <1>1, QueueRead DEF NativeTyped
<1>3. QueueSound(rest, wds, disk, spent.watches)
  BY <1>2 DEF QueueKept, QueueSound
<1>4. /\ EventSound(Now, wds, disk, spent.watches) /\ Now # Overflowed
      /\ Now.kind \in Removals => Now.name = ""
      /\ Now.kind \in {"delete_self", "ignored"} => Now.wd \notin DOMAIN wds
      /\ Now.kind = "move_self" /\ Now.wd \in DOMAIN wds =>
           \A p \in DOMAIN disk : disk[p] # wds[Now.wd]
      /\ Now.kind \notin Removals => Now.name \in Names
  BY <1>1, NowMeans DEF EventSound
\* Nothing that is watched and in the tree is at Place, if it says itself that it went.
<1>5. ASSUME Now.kind \in Removals, NEW v \in DOMAIN wds, NEW q \in DOMAIN disk,
             wds[v] = disk[q], v = Now.wd
      PROVE  FALSE
  BY <1>4, <1>5 DEF Removals
<1>6. Now.kind \in Removals => Place = known[Now.wd] /\ Place \in Paths
  BY <1>1, <1>4, NowMeans
<1>7. Now.kind \notin Removals =>
        /\ Now.kind = "delete" /\ Place \in Paths /\ Place # TheRoot
        /\ Front(Place) = known[Now.wd] /\ Last(Place) = Now.name
  BY <1>1, <1>4, NowMeans DEF Removals
<1>8. Place \in Paths
  BY <1>6, <1>7
<1>9. those \in SUBSET DOMAIN known
  BY <1>1 DEF Beneath
<1>10. 1 \notin those
  <2> SUFFICES ASSUME 1 \in those PROVE FALSE
    OBVIOUS
  <2>1. 1 # Now.wd \/ Now.kind \notin Removals
    BY <1>5, KnownMeans
  <2>2. Within(TheRoot, Place)
    BY <2>1, KnownMeans DEF Beneath, Removals
  <2>3. Place = TheRoot
    BY <1>8, <2>2, WithinItself
  <2>4. Now.kind \in Removals /\ known[Now.wd] = known[1]
    BY <1>6, <1>7, <2>3, KnownMeans
  <2> QED BY <1>1, <2>1, <2>4, KnownMeans
<1>11. ASSUME NEW q \in DOMAIN disk, NEW w \in DOMAIN wds \ those, Owes(q, w)'
       PROVE  \/ Heard(rest, w, Last(q))
              \/ /\ Unrefuted(rest, 0, w, Last(q))
                 /\ \/ owed = "yes" \/ Toured(scan, q) \/ Toured(reader, q)
                    \/ \E v \in DOMAIN wds \ those : wds[v] = disk[q]
  <2>1. Owes(q, w)
    BY <1>1, <1>11 DEF Owes, Forget, Restrict
  <2>2. InSight(q, w)
    BY <2>1 DEF Sight
  <2>3. /\ q \in Paths /\ q # TheRoot /\ Front(q) \in DOMAIN disk
        /\ w \in DOMAIN known /\ known[w] = Front(q)
    BY <2>1, KnownMeans
  <2>4. /\ Unrefuted(queue, 0, w, Last(q)) => Unrefuted(rest, 0, w, Last(q)) /\ ~Removes(Now, w, Last(q))
        /\ Heard(queue, w, Last(q)) => Heard(rest, w, Last(q))
    <3>1. ~Announces(Now, w, Last(q))
      BY <1>1 DEF Announces
    <3> QED BY <1>1, <1>2, <3>1, QueueRead DEF Now
  <2>5. ASSUME ~Removes(Now, w, Last(q)), NEW v \in DOMAIN wds, wds[v] = disk[q], v \in those
        PROVE  FALSE
    <3>1. v \in DOMAIN known /\ known[v] = q
      BY <1>9, <2>5, KnownMeans
    <3>2. CASE v = Now.wd /\ Now.kind \in Removals
      BY <1>5, <2>5, <3>2
    <3>3. CASE ~ (v = Now.wd /\ Now.kind \in Removals)
      <4>1. Now.kind # "ignored" /\ Within(q, Place)
        BY <2>5, <3>1, <3>3 DEF Beneath, Removals
      <4>2. q = Place
        <5> SUFFICES ASSUME q # Place PROVE FALSE
          OBVIOUS
        <5>1. Within(Front(q), Place)
          BY <1>8, <2>3, <4>1, WithinAbove
        <5> QED BY <2>3, <4>1, <5>1 DEF Beneath
      <4>3. CASE Now.kind \in Removals
        BY <1>1, <1>6, <3>1, <3>3, <4>2, <4>3, KnownMeans
      <4>4. CASE Now.kind \notin Removals
        <5>1. known[Now.wd] = known[w] /\ Now.name = Last(q) /\ Now.kind = "delete"
          BY <1>7, <2>3, <4>2, <4>4
        <5>2. Now.wd = w
          BY <1>1, <2>3, <5>1, KnownMeans
        <5> QED BY <2>5, <5>1, <5>2 DEF Removes
      <4> QED BY <4>3, <4>4
    <3> QED BY <3>2, <3>3
  <2>6. q \in Followed => \E v \in DOMAIN wds : wds[v] = disk[q]
    BY FollowedMeans
  <2> HIDE DEF those, rest
  <2> QED BY <2>2, <2>4, <2>5, <2>6 DEF InSight
<1>12. /\ DOMAIN unpaired' \subseteq Nat \ {0}
       /\ \A c \in DOMAIN unpaired' : unpaired'[c] \in Paths \ {TheRoot}
  BY <1>1 DEF NativeTyped
<1> HIDE DEF those, rest
<1> QED BY <1>1, <1>2, <1>3, <1>9, <1>10, <1>11, <1>12, ForgetKeeps

LEMMA FlushMoveKeeps ==
  ASSUME NativeInv, NEW cookie \in DOMAIN unpaired, FlushMove(cookie)
  PROVE  NativeInv'
<1> USE DEF NativeInv
<1> DEFINE those == Beneath(unpaired[cookie])
<1>1. /\ Forget(those, queue) /\ disk' = disk /\ reader' = reader /\ scan' = scan
      /\ owed' = owed /\ spent' = spent
      /\ unpaired' = Restrict(unpaired, DOMAIN unpaired \ {cookie})
      /\ slipped' = slipped \cup Alive(those)
  BY DEF FlushMove
<1>2. /\ DOMAIN unpaired' \subseteq Nat \ {0}
      /\ \A c \in DOMAIN unpaired' : unpaired'[c] \in Paths \ {TheRoot}
  BY <1>1 DEF NativeTyped, Restrict
<1>3. those \in SUBSET DOMAIN known /\ queue \in Seq(RawEvents)
      /\ QueueSound(queue, wds, disk, spent.watches)
  BY DEF Beneath, NativeTyped, QueueKept
<1>4. 1 \notin those
  <2>1. unpaired[cookie] \in Paths /\ unpaired[cookie] # TheRoot
    BY DEF NativeTyped
  <2>2. ~Within(TheRoot, unpaired[cookie])
    BY <2>1, WithinItself
  <2> QED BY <2>2, KnownMeans DEF Beneath
<1>5. ASSUME NEW q \in DOMAIN disk, NEW w \in DOMAIN wds \ those, Owes(q, w)'
      PROVE  \/ Heard(queue, w, Last(q))
             \/ /\ Unrefuted(queue, 0, w, Last(q))
                /\ \/ owed = "yes" \/ Toured(scan, q) \/ Toured(reader, q)
                   \/ \E v \in DOMAIN wds \ those : wds[v] = disk[q]
  <2>1. Owes(q, w) /\ disk[q] \notin Alive(those)
    BY <1>1, <1>5 DEF Owes, Forget, Restrict
  <2>2. InSight(q, w)
    BY <2>1 DEF Sight
  <2>3. ASSUME NEW v \in DOMAIN wds, wds[v] = disk[q] PROVE v \notin those
    BY <2>1, <2>3 DEF Alive, Range
  <2>4. q \in Followed => \E v \in DOMAIN wds : wds[v] = disk[q]
    BY FollowedMeans
  <2> HIDE DEF those
  <2> QED BY <2>2, <2>3, <2>4 DEF InSight
<1> HIDE DEF those
<1> QED BY <1>1, <1>2, <1>3, <1>4, <1>5, ForgetKeeps

-----------------------------------------------------------------------------

LEMMA NativeBegins == NativeInit => NativeInv
<1> SUFFICES ASSUME NativeInit PROVE NativeInv
  OBVIOUS
<1>1. PICK paths \in SUBSET (AllPaths \ {TheRoot}) :
        /\ \A p \in paths : Front(p) \in paths \cup {TheRoot}
        /\ IsFiniteSet(paths)
        /\ \E number \in Bijection(paths, 1..Cardinality(paths)) :
             disk = [p \in paths \cup {TheRoot} |-> IF p = TheRoot THEN 0 ELSE number[p]]
        /\ spent \in [dirs : {Cardinality(paths)}, moves : 0..MaxRenames,
                      removals : 0..MaxRemovals, watches : {1}]
  BY DEF NativeInit
<1> DEFINE n == Cardinality(paths)
<1>2. PICK number \in Bijection(paths, 1..n) :
        disk = [p \in paths \cup {TheRoot} |-> IF p = TheRoot THEN 0 ELSE number[p]]
  BY <1>1
<1>3. /\ wds = <<0>> /\ known = <<TheRoot>> /\ byPath = [p \in {TheRoot} |-> 1]
      /\ queue = <<>> /\ unpaired = <<>> /\ reader = NoWalk /\ scan = NoWalk /\ owed = "yes"
  BY DEF NativeInit
<1>4. n \in Nat
  BY <1>1, FS_CardinalityType
<1>5. /\ number \in [paths -> 1..n] /\ \A p, q \in paths : number[p] = number[q] => p = q
      /\ TheRoot \notin paths
  BY <1>1, <1>2 DEF Bijection, Injection, IsInjective
<1>6. /\ spent \in [dirs : Nat, moves : Nat, removals : Nat, watches : Nat]
      /\ spent.dirs = n /\ spent.watches = 1
  <2>1. MaxRenames \in Nat /\ MaxRemovals \in Nat
    BY NativeAssumption DEF NativeAssumption
  <2> HIDE DEF n
  <2>2. 0..MaxRenames \subseteq Nat /\ 0..MaxRemovals \subseteq Nat /\ {n} \subseteq Nat
    BY <1>4, <2>1
  <2>3. spent \in [dirs : {n}, moves : 0..MaxRenames, removals : 0..MaxRemovals, watches : {1}]
    BY <1>1 DEF n
  <2> QED BY <2>2, <2>3
<1> HIDE DEF n
<1>7. /\ DOMAIN disk = paths \cup {TheRoot} /\ disk[TheRoot] = 0
      /\ \A p \in paths : disk[p] = number[p] /\ disk[p] \in 1..n
  BY <1>2, <1>5
<1>8. /\ DOMAIN wds = {1} /\ wds[1] = 0 /\ DOMAIN known = {1} /\ known[1] = TheRoot
      /\ DOMAIN byPath = {TheRoot} /\ byPath[TheRoot] = 1 /\ DOMAIN unpaired = {}
  BY <1>3
<1>9. NativeTyped
  <2>1. Rooted(DOMAIN disk)
    <3>1. TheRoot \in Paths
      BY DEF TheRoot, Paths
    <3>2. paths \subseteq Paths
      BY <1>1, AllArePaths
    <3> QED BY <1>1, <1>7, <3>1, <3>2 DEF Rooted
  <2>2. IsInjective(disk) /\ \A p \in DOMAIN disk : disk[p] \in 0..spent.dirs
    <3>1. \A i \in 1..n : i # 0 /\ i \in 0..n
      BY <1>4
    <3>2. 0 \in 0..n
      BY <1>4
    <3> QED BY <1>5, <1>6, <1>7, <3>1, <3>2 DEF IsInjective
  <2>3. IsInjective(wds) /\ \A w \in DOMAIN wds : wds[w] \in 0..spent.dirs
    BY <1>4, <1>6, <1>8 DEF IsInjective
  <2>4. DOMAIN known \subseteq 1..spent.watches /\ \A w \in DOMAIN known : known[w] \in Paths
    <3>1. TheRoot \in Paths
      BY DEF TheRoot, Paths
    <3>2. 1 \in 1..spent.watches
      BY <1>6
    <3> QED BY <1>8, <3>1, <3>2
  <2>5. queue \in Seq(RawEvents)
    BY <1>3, OneEvent
  <2>6. reader \in Walks /\ scan \in Walks
    BY <1>3 DEF NoWalk, Walks
  <2> QED BY <1>6, <1>8, <2>1, <2>2, <2>3, <2>4, <2>5, <2>6 DEF NativeTyped
<1>10. PathsKept
  <2>1. \A q \in DOMAIN disk : disk[q] = 0 => q = TheRoot
    <3>1. \A i \in 1..n : i # 0
      BY <1>4
    <3> QED BY <1>7, <3>1
  <2> QED BY <1>7, <1>8, <2>1 DEF PathsKept
<1>11. QueueKept
  BY <1>3, OneEvent DEF QueueKept, QueueSound
<1>12. OwedKept
  BY <1>3 DEF OwedKept
<1>13. Sight
  <2>1. \A w, m : Unrefuted(queue, 0, w, m)
    BY <1>3, OneEvent DEF Unrefuted
  <2> QED BY <1>3, <2>1 DEF Sight, InSight
<1> QED BY <1>9, <1>10, <1>11, <1>12, <1>13 DEF NativeInv

NoRename == \A p \in DOMAIN disk, q \in AllPaths : ~MoveWithin(p, q)

LEMMA NativeKeeps ==
  ASSUME NativeInv, [NativeNext]_nativeVars, [NoRename]_nativeVars
  PROVE  NativeInv'
<1>1. CASE UNCHANGED nativeVars
  <2>1. /\ disk' = disk /\ wds' = wds /\ queue' = queue /\ known' = known /\ byPath' = byPath
        /\ unpaired' = unpaired /\ reader' = reader /\ scan' = scan /\ owed' = owed
        /\ slipped' = slipped /\ spent' = spent
    BY <1>1 DEF nativeVars
  <2>2. reader' \in Walks /\ scan' \in Walks /\ OwedKept'
    BY <2>1 DEF NativeInv, NativeTyped, OwedKept
  <2> QED BY <2>1, <2>2, NothingElseKeeps
<1>2. CASE NativeNext /\ NoRename
  <2>1. ASSUME NEW p \in AllPaths \ DOMAIN disk, Appear(p, "create") \/ Appear(p, "to")
        PROVE  NativeInv'
    BY <2>1, AppearKeeps
  <2>2. ASSUME NEW p \in DOMAIN disk, Rmdir(p) PROVE NativeInv'
    BY <2>2, RmdirKeeps
  <2>3. ASSUME NEW p \in DOMAIN disk, MoveOut(p) PROVE NativeInv'
    BY <2>3, MoveOutKeeps
  <2>4. ASSUME NEW p \in DOMAIN disk, NEW q \in AllPaths, MoveWithin(p, q) PROVE NativeInv'
    BY <1>2, <2>4 DEF NoRename
  <2>5. ASSUME NEW p \in AllPaths, ReaderAdds(p) PROVE NativeInv'
    BY <2>5, ReaderAddsKeeps
  <2>6. ASSUME NEW p \in AllPaths, register_directory(p) PROVE NativeInv'
    BY <2>6, RegisterKeeps
  <2>7. CASE ReaderLists \/ ScanStarts \/ ScanLists
    BY <2>7, ReaderListsKeeps, ScanStartsKeeps, ScanListsKeeps
  <2>8. CASE HandleOverflow \/ HandleStranger \/ HandleGone
    BY <2>8, HandleOverflowKeeps, HandleStrangerKeeps, HandleGoneKeeps
  <2>9. CASE HandleMovedFrom \/ HandleNew \/ HandleMoved
    BY <2>9, HandleMovedFromKeeps, HandleNewKeeps, HandleMovedNever
  <2>10. ASSUME NEW cookie \in DOMAIN unpaired, FlushMove(cookie) PROVE NativeInv'
    BY <2>10, FlushMoveKeeps
  <2> QED
    BY <1>2, <2>1, <2>2, <2>3, <2>4, <2>5, <2>6, <2>7, <2>8, <2>9, <2>10 DEF NativeNext
<1> QED BY <1>1, <1>2

\* As long as no directory is renamed within the tree, whatever else becomes of it,
\* of the queue and of the scans: once the reader has caught up and no full scan is
\* owed, every directory in a watched directory is watched under its path, but for
\* the exceptions the property names (native.py's _handle_raw_event, _add_one and
\* register_directory).
THEOREM WatchesAreKept ==
  NativeSpec /\ [][NoRename]_nativeVars => []WatchesFollowTheTree
<1>1. NativeInv /\ [NativeNext]_nativeVars /\ [NoRename]_nativeVars => NativeInv'
  BY NativeKeeps
<1> QED BY <1>1, NativeBegins, SightFollows, PTL DEF NativeSpec

-----------------------------------------------------------------------------
(* MonitorLeases: the types.                                               *)

Jobs == [pc : {"idle", "go", "begin", "scan", "clear", "broken"}, left : 0..Lease,
         prev : BOOLEAN, cancelled : BOOLEAN]
Leases == {l \in [host : Hosts \cup {NoHost}, left : 0..Lease] :
             l.host = NoHost => l.left = 0}
StatusRows == [host : Hosts \cup {NoHost}, left : 0..Never, due : BOOLEAN]
Memories == [stop : BOOLEAN, held : BOOLEAN, pend : BOOLEAN,
             active : Kinds \cup {"none"}]
Threads == [session : {"off", "loop", "taken", "held", "look", "run", "exit"},
            beat : {"off", "idle"}, control : {"idle", "stop", "pause", "gone"},
            at : {"", "drop", "free", "end"}]
Planned == UNION {s.plan : s \in Scenes}

LEMMA TypesNamed ==
  MonitorTypeOK <=>
    /\ lease \in Leases /\ row \in StatusRows /\ enabled \in BOOLEAN
    /\ mem \in [Hosts -> Memories] /\ pc \in [Hosts -> Threads]
    /\ job \in [Hosts -> [Kinds -> Jobs]]
    /\ plan \subseteq Planned /\ lapsed \subseteq Hosts /\ strays \subseteq Hosts
BY DEF MonitorTypeOK, Leases, StatusRows, Memories, Threads, Jobs, Planned

LEMMA TypesNamedNext ==
  MonitorTypeOK' <=>
    /\ lease' \in Leases /\ row' \in StatusRows /\ enabled' \in BOOLEAN
    /\ mem' \in [Hosts -> Memories] /\ pc' \in [Hosts -> Threads]
    /\ job' \in [Hosts -> [Kinds -> Jobs]]
    /\ plan' \subseteq Planned /\ lapsed' \subseteq Hosts /\ strays' \subseteq Hosts
BY DEF MonitorTypeOK, Leases, StatusRows, Memories, Threads, Jobs, Planned

\* Counts of ticks.
LEMMA Ticks == Lease \in 0..Lease /\ Lease \in 0..Never /\ Never \in 0..Never
               /\ 0 \in 0..Lease /\ 0 \in 0..Never
BY LeaseAssumption DEF Never

-----------------------------------------------------------------------------
(* Types.                                                                  *)

LEMMA StartedTypes == Started \in Threads /\ NoThreads \in Threads /\ Gone \in Threads
<1>1. NoThreads \in Threads
  BY DEF NoThreads, Threads
<1>2. Started \in Threads
  BY <1>1 DEF Started, Threads
<1>3. Gone \in Threads
  BY <1>1 DEF Gone, Threads
<1> QED BY <1>1, <1>2, <1>3

LEMMA HostsInitTypes == MonitorInit => MonitorTypeOK
<1> SUFFICES ASSUME MonitorInit PROVE MonitorTypeOK
  OBVIOUS
<1>1. lease \in Leases /\ row \in StatusRows /\ enabled \in BOOLEAN
  BY Ticks DEF MonitorInit, NoLease, Leases, StatusRows
<1>2. mem \in [Hosts -> Memories]
  BY DEF MonitorInit, NoMem, Memories
<1>3. pc \in [Hosts -> Threads]
  <2>1. Started \in Threads /\ NoThreads \in Threads /\ Gone \in Threads
    BY StartedTypes
  <2> QED BY <2>1 DEF MonitorInit
<1>4. job \in [Hosts -> [Kinds -> Jobs]]
  BY Ticks DEF MonitorInit, NoJob, Jobs
<1>5. plan \subseteq Planned /\ lapsed \subseteq Hosts /\ strays \subseteq Hosts
  BY DEF MonitorInit, Planned
<1> QED BY <1>1, <1>2, <1>3, <1>4, <1>5, TypesNamed

\* What is written to the two tables has their types.
LEMMA RowsWritten ==
  ASSUME NEW h \in Hosts, lease \in Leases, row \in StatusRows
  PROVE  /\ Taken(h) \in Leases /\ LeaseWithout(h) \in Leases
         /\ Unhosted(row) \in StatusRows /\ RowWaiting(h) \in StatusRows
         /\ FailedRow(h) \in StatusRows /\ RowWithout(h, row) \in StatusRows
         /\ RowWithout(h, FailedRow(h)) \in StatusRows
         /\ RowWithout(h, RowWaiting(h)) \in StatusRows
<1>1. Taken(h) \in Leases
  BY Ticks, LeaseAssumption DEF Leases, Taken
<1>2. LeaseWithout(h) \in Leases
  BY Ticks DEF Leases, LeaseWithout, NoLease
<1> QED
  BY <1>1, <1>2, Ticks DEF StatusRows, Unhosted, RowWaiting, FailedRow, RowWithout

LEMMA ReleaseTypes ==
  ASSUME NEW h \in Hosts, lease \in Leases, row \in StatusRows, lapsed \subseteq Hosts,
         \/ Release(h, row) \/ Release(h, FailedRow(h)) \/ Release(h, RowWaiting(h))
  PROVE  lease' \in Leases /\ row' \in StatusRows /\ lapsed' \subseteq Hosts
BY RowsWritten DEF Release
LEMMA SessionTypes ==
  ASSUME MonitorTypeOK, NEW h \in Hosts, SessionStep(h) \/ SessionFails(h)
  PROVE  MonitorTypeOK'
<1>0. /\ lease \in Leases /\ row \in StatusRows /\ mem \in [Hosts -> Memories]
      /\ pc \in [Hosts -> Threads] /\ job \in [Hosts -> [Kinds -> Jobs]]
      /\ lapsed \subseteq Hosts
  BY TypesNamed
<1>1. /\ lease' \in Leases /\ row' \in StatusRows /\ lapsed' \subseteq Hosts
  BY <1>0, RowsWritten, ReleaseTypes
     DEF SessionStep, LoopStop, LoopDrop, AcquireLease, AcquireHeld,
         AcquireStatus, Look, RunReturns, SessionFails, ExitLoop
<1>2. pc' \in [Hosts -> Threads]
  <2>1. CASE LoopStop(h)
    BY <1>0, <2>1 DEF LoopStop, SessionGoes, Threads
  <2>2. CASE AcquireLease(h)
    BY <1>0, <2>2 DEF AcquireLease, SessionGoes, Threads
  <2>3. CASE AcquireHeld(h)
    BY <1>0, <2>3 DEF AcquireHeld, SessionGoes, Threads
  <2>4. CASE AcquireStatus(h)
    <3>1. [pc[h] EXCEPT !.session = "loop"] \in Threads
      BY <1>0 DEF Threads
    <3>2. [pc[h] EXCEPT !.session = "look"] \in Threads
      BY <1>0 DEF Threads
    <3> QED BY <1>0, <2>4, <3>1, <3>2 DEF AcquireStatus, SessionGoes
  <2>5. CASE Look(h)
    <3>1. [pc[h] EXCEPT !.session = "run"] \in Threads
      BY <1>0 DEF Threads
    <3>2. [pc[h] EXCEPT !.session = "loop"] \in Threads
      BY <1>0 DEF Threads
    <3> QED BY <1>0, <2>5, <3>1, <3>2 DEF Look, SessionGoes
  <2>6. CASE RunReturns(h)
    BY <1>0, <2>6 DEF RunReturns, SessionGoes, Threads
  <2>7. CASE SessionFails(h)
    BY <1>0, <2>7 DEF SessionFails, SessionGoes, Threads
  <2>8. CASE ExitLoop(h)
    BY <1>0, <2>8 DEF ExitLoop, SessionGoes, Threads
  <2>9. CASE UNCHANGED pc
    BY <1>0, <2>9
  <2> QED BY <2>1, <2>2, <2>3, <2>4, <2>5, <2>6, <2>7, <2>8, <2>9
    DEF SessionStep, LoopDrop
<1>3. mem' \in [Hosts -> Memories]
  <2>1. CASE LoopDrop(h)
    BY <1>0, <2>1 DEF LoopDrop, Memories
  <2>2. CASE AcquireHeld(h)
    BY <1>0, <2>2 DEF AcquireHeld, Memories
  <2>3. CASE AcquireStatus(h)
    BY <1>0, <2>3 DEF AcquireStatus, Memories
  <2>4. CASE Look(h)
    <3>1. [mem[h] EXCEPT !.pend = FALSE] \in Memories
      BY <1>0 DEF Memories
    <3> QED BY <1>0, <2>4, <3>1 DEF Look
  <2>5. CASE ExitLoop(h)
    BY <1>0, <2>5 DEF ExitLoop, Memories
  <2>6. CASE UNCHANGED mem
    BY <1>0, <2>6
  <2> QED BY <2>1, <2>2, <2>3, <2>4, <2>5, <2>6
    DEF SessionStep, LoopStop, AcquireLease, RunReturns, SessionFails
<1>4. job' \in [Hosts -> [Kinds -> Jobs]]
  <2>1. CASE Look(h)
    <3>1. [job[h]["session"] EXCEPT !.pc = "go"] \in Jobs
      BY <1>0 DEF Jobs, Kinds
    <3> QED BY <1>0, <2>1, <3>1 DEF Look, Kinds
  <2>2. CASE UNCHANGED job
    BY <1>0, <2>2
  <2> QED BY <2>1, <2>2
    DEF SessionStep, LoopStop, LoopDrop, AcquireLease, AcquireHeld,
        AcquireStatus, RunReturns, SessionFails, ExitLoop
<1>5. enabled' \in BOOLEAN /\ plan' \subseteq Planned /\ strays' \subseteq Hosts
  BY TypesNamed
     DEF SessionStep, LoopStop, LoopDrop, AcquireLease, AcquireHeld,
         AcquireStatus, Look, RunReturns, SessionFails, ExitLoop, Asked
<1> QED BY <1>1, <1>2, <1>3, <1>4, <1>5, TypesNamedNext

LEMMA JobTypes ==
  ASSUME MonitorTypeOK, NEW h \in Hosts, NEW k \in Kinds, JobStep(h, k)
  PROVE  MonitorTypeOK'
<1>0. /\ lease \in Leases /\ row \in StatusRows /\ mem \in [Hosts -> Memories]
      /\ pc \in [Hosts -> Threads] /\ job \in [Hosts -> [Kinds -> Jobs]]
      /\ lapsed \subseteq Hosts
  BY TypesNamed
<1>1. /\ lease' \in Leases /\ row' \in StatusRows /\ lapsed' \subseteq Hosts
  <2>1. CASE MarkQueued(h, k)
    BY <1>0, <2>1, Ticks DEF MarkQueued, StatusRows
  <2>2. CASE SaveProgress(h, k)
    <3>1. job[h][k].left \in 0..Never
      BY <1>0, LeaseAssumption DEF Jobs, Never
    <3> QED BY <1>0, <2>2, <3>1 DEF SaveProgress, StatusRows
  <2>3. CASE FinishRun(h, k)
    <3>1. job[h][k].prev \in BOOLEAN
      BY <1>0 DEF Jobs
    <3>2. StoppedRow(h, k) \in StatusRows /\ SucceededRow(h, k) \in StatusRows
      BY <1>0, <3>1, RowsWritten DEF StoppedRow, SucceededRow, StatusRows
    <3> QED BY <1>0, <2>3, <3>2, RowsWritten DEF FinishRun
  <2>4. CASE RunRefused(h, k) \/ RunCreated(h, k) \/ RunBreaks(h, k) \/ ClearRun(h, k)
    BY <1>0, <2>4, RowsWritten, ReleaseTypes
       DEF RunRefused, RunCreated, RunBreaks, ClearRun
  <2> QED BY <2>1, <2>2, <2>3, <2>4 DEF JobStep, JobEnds
<1>2. pc' \in [Hosts -> Threads]
  <2>1. CASE ClearRun(h, k)
    BY <1>0, <2>1 DEF ClearRun, Threads
  <2>2. CASE UNCHANGED pc
    BY <1>0, <2>2
  <2> QED BY <2>1, <2>2
    DEF JobStep, JobEnds, MarkQueued, RunRefused, RunCreated, SaveProgress,
        FinishRun, RunBreaks
<1>3. mem' \in [Hosts -> Memories]
  <2>1. CASE RunCreated(h, k)
    BY <1>0, <2>1 DEF RunCreated, Memories
  <2>2. CASE ClearRun(h, k)
    BY <1>0, <2>2 DEF ClearRun, Memories
  <2>3. CASE UNCHANGED mem
    BY <1>0, <2>3
  <2> QED BY <2>1, <2>2, <2>3
    DEF JobStep, JobEnds, MarkQueued, RunRefused, SaveProgress, FinishRun,
        RunBreaks
<1>4. job' \in [Hosts -> [Kinds -> Jobs]]
  <2>1. CASE MarkQueued(h, k)
    <3>1. [pc |-> "begin", left |-> Lease, prev |-> row.due, cancelled |-> FALSE] \in Jobs
      BY <1>0, Ticks DEF Jobs, StatusRows
    <3> QED BY <1>0, <2>1, <3>1 DEF MarkQueued
  <2>2. CASE RunRefused(h, k)
    <3>1. NoJob \in Jobs
      BY Ticks DEF NoJob, Jobs
    <3> QED BY <1>0, <2>2, <3>1 DEF RunRefused
  <2>3. CASE RunCreated(h, k)
    <3>1. [job[h][k] EXCEPT !.pc = "scan"] \in Jobs
      BY <1>0 DEF Jobs
    <3> QED BY <1>0, <2>3, <3>1 DEF RunCreated, JobGoes
  <2>4. CASE FinishRun(h, k)
    <3>1. [job[h][k] EXCEPT !.pc = "clear"] \in Jobs
      BY <1>0 DEF Jobs
    <3> QED BY <1>0, <2>4, <3>1 DEF FinishRun, JobGoes
  <2>5. CASE RunBreaks(h, k)
    <3>1. [job[h][k] EXCEPT !.pc = "broken"] \in Jobs
      BY <1>0 DEF Jobs
    <3> QED BY <1>0, <2>5, <3>1 DEF RunBreaks, JobGoes
  <2>6. CASE ClearRun(h, k)
    <3>1. NoJob \in Jobs
      BY Ticks DEF NoJob, Jobs
    <3> QED BY <1>0, <2>6, <3>1 DEF ClearRun
  <2>7. CASE UNCHANGED job
    BY <1>0, <2>7
  <2> QED BY <2>1, <2>2, <2>3, <2>4, <2>5, <2>6, <2>7
    DEF JobStep, JobEnds, SaveProgress
<1>5. enabled' \in BOOLEAN /\ plan' \subseteq Planned /\ strays' \subseteq Hosts
  BY TypesNamed
     DEF JobStep, JobEnds, MarkQueued, RunRefused, RunCreated, SaveProgress,
         FinishRun, RunBreaks, ClearRun, Asked, Strays
<1> QED BY <1>1, <1>2, <1>3, <1>4, <1>5, TypesNamedNext

LEMMA BeatTypes ==
  ASSUME MonitorTypeOK, NEW h \in Hosts, BeatStep(h)
  PROVE  MonitorTypeOK'
<1>0. /\ lease \in Leases /\ row \in StatusRows /\ mem \in [Hosts -> Memories]
      /\ pc \in [Hosts -> Threads]
  BY TypesNamed
<1>1. CASE BeatStops(h)
  <2>1. pc' \in [Hosts -> Threads]
    BY <1>0, <1>1 DEF BeatStops, Threads
  <2> QED BY <1>1, <2>1, TypesNamed, TypesNamedNext DEF BeatStops
<1>2. CASE BeatRenews(h)
  <2>1. lease' \in Leases /\ row' \in StatusRows
    BY <1>0, <1>2, RowsWritten, Ticks DEF BeatRenews, StatusRows
  <2>2. mem' \in [Hosts -> Memories]
    BY <1>0, <1>2 DEF BeatRenews, Memories
  <2> QED BY <1>2, <2>1, <2>2, TypesNamed, TypesNamedNext DEF BeatRenews
<1> QED BY <1>1, <1>2 DEF BeatStep

LEMMA RequestTypes ==
  ASSUME MonitorTypeOK, NEW h \in Hosts, ControlStep(h) \/ Request(h)
  PROVE  MonitorTypeOK'
<1>0. /\ lease \in Leases /\ row \in StatusRows /\ mem \in [Hosts -> Memories]
      /\ pc \in [Hosts -> Threads] /\ job \in [Hosts -> [Kinds -> Jobs]]
      /\ lapsed \subseteq Hosts
  BY TypesNamed
<1>1. /\ lease' \in Leases /\ row' \in StatusRows /\ lapsed' \subseteq Hosts
  <2>1. [row EXCEPT !.host = h] \in StatusRows
    BY <1>0 DEF StatusRows
  <2> QED
    BY <1>0, <2>1, RowsWritten, ReleaseTypes
       DEF ControlStep, DropHeld, FreeLease, DropRequests, Request, StartSession,
           StopSession, PauseMonitor, ResumeMonitor, RunQueued, RunOnce, Crash
<1>2. pc' \in [Hosts -> Threads]
  <2>1. CASE DropHeld(h)
    <3>1. [pc[h] EXCEPT !.at = "free"] \in Threads
      BY <1>0 DEF Threads
    <3>2. [pc[h] EXCEPT !.at = "end"] \in Threads
      BY <1>0 DEF Threads
    <3> QED BY <1>0, <2>1, <3>1, <3>2 DEF DropHeld, ControlGoes
  <2>2. CASE FreeLease(h)
    BY <1>0, <2>2 DEF FreeLease, ControlGoes, Threads
  <2>3. CASE DropRequests(h)
    BY <1>0, <2>3 DEF DropRequests, ControlGoes, Threads
  <2>4. CASE StopSession(h)
    <3>1. [pc[h] EXCEPT !.control = "stop", !.at = "drop"] \in Threads
      BY <1>0 DEF Threads
    <3> QED BY <1>0, <2>4, <3>1 DEF StopSession
  <2>5. CASE PauseMonitor(h)
    <3>1. [pc[h] EXCEPT !.control = "pause", !.at = "drop"] \in Threads
      BY <1>0 DEF Threads
    <3> QED BY <1>0, <2>5, <3>1 DEF PauseMonitor
  <2>6. CASE StartSession(h)
    BY <1>0, <2>6, StartedTypes DEF StartSession
  <2>7. CASE Crash(h)
    BY <1>0, <2>7, StartedTypes DEF Crash
  <2>8. CASE UNCHANGED pc
    BY <1>0, <2>8
  <2> QED BY <2>1, <2>2, <2>3, <2>4, <2>5, <2>6, <2>7, <2>8
    DEF ControlStep, Request, ResumeMonitor, RunQueued, RunOnce
<1>3. mem' \in [Hosts -> Memories]
  <2>1. CASE DropHeld(h)
    BY <1>0, <2>1 DEF DropHeld, Kinds, Memories
  <2>2. CASE DropRequests(h)
    <3> DEFINE noted == IF pc[h].control = "stop" /\ ~session_running(h)
                      THEN "none" ELSE mem[h].active
    <3>1. noted \in Kinds \cup {"none"}
      BY <1>0 DEF Memories
    <3>2. mem' = [mem EXCEPT ![h] = [mem[h] EXCEPT !.pend = FALSE, !.active = noted]]
      BY <2>2 DEF DropRequests
    <3> HIDE DEF noted
    <3>3. [mem[h] EXCEPT !.pend = FALSE, !.active = noted] \in Memories
      BY <1>0, <3>1 DEF Memories
    <3> QED BY <1>0, <3>2, <3>3
  <2>3. CASE StartSession(h)
    <3> DEFINE noted == IF mem[h].stop THEN "none" ELSE mem[h].active
    <3>1. noted \in Kinds \cup {"none"}
      BY <1>0 DEF Memories
    <3>2. mem' = [mem EXCEPT ![h] =
                    [mem[h] EXCEPT !.stop = FALSE, !.pend = FALSE, !.active = noted]]
      BY <2>3 DEF StartSession
    <3> HIDE DEF noted
    <3>3. [mem[h] EXCEPT !.stop = FALSE, !.pend = FALSE, !.active = noted] \in Memories
      BY <1>0, <3>1 DEF Memories
    <3> QED BY <1>0, <3>2, <3>3
  <2>4. CASE StopSession(h)
    BY <1>0, <2>4 DEF StopSession, Kinds, Memories
  <2>5. CASE RunQueued(h)
    BY <1>0, <2>5 DEF RunQueued, Kinds, Memories
  <2>6. CASE Crash(h)
    <3>1. NoMem \in Memories
      BY DEF NoMem, Memories
    <3> QED BY <1>0, <2>6, <3>1 DEF Crash
  <2>7. CASE UNCHANGED mem
    BY <1>0, <2>7
  <2> QED BY <2>1, <2>2, <2>3, <2>4, <2>5, <2>6, <2>7
    DEF ControlStep, Request, FreeLease, PauseMonitor, ResumeMonitor, RunOnce
<1>4. job' \in [Hosts -> [Kinds -> Jobs]]
  <2>1. CASE StopSession(h)
    <3> DEFINE edited(k) ==
          [job[h][k] EXCEPT !.cancelled = @ \/ (k = mem[h].active /\ Executing(h, k))]
    <3>1. ASSUME NEW k \in Kinds PROVE edited(k) \in Jobs
      <4>1. job[h][k] \in Jobs /\ job[h][k].cancelled \in BOOLEAN
        BY <1>0 DEF Jobs
      <4>2. (job[h][k].cancelled \/ (k = mem[h].active /\ Executing(h, k))) \in BOOLEAN
        BY <4>1
      <4> QED BY <4>1, <4>2 DEF Jobs
    <3> QED BY <1>0, <2>1, <3>1 DEF StopSession
  <2>2. CASE RunOnce(h)
    <3>1. [job[h]["shot"] EXCEPT !.pc = "go"] \in Jobs
      BY <1>0 DEF Jobs, Kinds
    <3> QED BY <1>0, <2>2, <3>1 DEF RunOnce, JobGoes, Kinds
  <2>3. CASE Crash(h)
    <3>1. NoJob \in Jobs
      BY Ticks DEF NoJob, Jobs
    <3> QED BY <1>0, <2>3, <3>1 DEF Crash
  <2>4. CASE UNCHANGED job
    BY <1>0, <2>4
  <2> QED BY <2>1, <2>2, <2>3, <2>4
    DEF ControlStep, Request, DropHeld, FreeLease, DropRequests, StartSession,
        PauseMonitor, ResumeMonitor, RunQueued
<1>5. enabled' \in BOOLEAN /\ plan' \subseteq Planned /\ strays' \subseteq Hosts
  BY TypesNamed
     DEF ControlStep, Request, DropHeld, FreeLease, DropRequests, StartSession,
         StopSession, PauseMonitor, ResumeMonitor, RunQueued, RunOnce, Crash,
         Asked, Strays
<1> QED BY <1>1, <1>2, <1>3, <1>4, <1>5, TypesNamedNext
LEMMA TimeTypes ==
  ASSUME MonitorTypeOK, Dashboard \/ Tick \/ DueArrives
  PROVE  MonitorTypeOK'
<1>0. /\ lease \in Leases /\ row \in StatusRows /\ job \in [Hosts -> [Kinds -> Jobs]]
      /\ lapsed \subseteq Hosts
  BY TypesNamed
<1>1. CASE Dashboard
  <2>1. row.host \in Hosts
    BY <1>0, <1>1 DEF Dashboard, StatusRows
  <2>2. lease' \in Leases /\ row' \in StatusRows /\ lapsed' \subseteq Hosts
    BY <1>0, <1>1, <2>1, RowsWritten DEF Dashboard
  <2> QED BY <1>1, <2>2, TypesNamed, TypesNamedNext DEF Dashboard
<1>2. CASE Tick
  <2>1. /\ \A n \in 0..Lease : Sooner(n) \in 0..Lease
        /\ \A n \in 0..Never : Sooner(n) \in 0..Never
    BY LeaseAssumption DEF Sooner, Never
  <2>2. lease' \in Leases
    BY <1>0, <1>2, <2>1 DEF Tick, Leases, Sooner
  <2>3. row' \in StatusRows
    BY <1>0, <1>2, <2>1, Ticks DEF Tick, StatusRows
  <2>4. ASSUME NEW h \in Hosts, NEW k \in Kinds PROVE job'[h][k] \in Jobs
    <3>1. job[h][k] \in Jobs /\ Sooner(job[h][k].left) \in 0..Lease
      BY <1>0, <2>1 DEF Jobs
    <3>2. [job[h][k] EXCEPT !.left = Sooner(@)] \in Jobs
      BY <3>1 DEF Jobs
    <3> QED BY <1>2, <3>2 DEF Tick
  <2>5. job' \in [Hosts -> [Kinds -> Jobs]]
    BY <1>2, <2>4 DEF Tick
  <2>6. lapsed' \subseteq Hosts
    BY <1>0, <1>2, LeaseAssumption DEF Tick, Leases
  <2>7. plan' \subseteq Planned
    BY <1>2, TypesNamed DEF Tick, Asked
  <2> QED BY <1>2, <2>2, <2>3, <2>5, <2>6, <2>7, TypesNamed, TypesNamedNext DEF Tick
<1>3. CASE DueArrives
  <2>1. row' \in StatusRows
    BY <1>0, <1>3 DEF DueArrives, StatusRows
  <2> QED BY <1>3, <2>1, TypesNamed, TypesNamedNext DEF DueArrives
<1> QED BY <1>1, <1>2, <1>3
LEMMA TypeStep == MonitorTypeOK /\ [MonitorNext]_monitorVars => MonitorTypeOK'
<1> SUFFICES ASSUME MonitorTypeOK, [MonitorNext]_monitorVars PROVE MonitorTypeOK'
  OBVIOUS
<1>1. CASE MonitorNext
  BY <1>1, SessionTypes, JobTypes, BeatTypes, RequestTypes, TimeTypes DEF MonitorNext
<1>2. CASE UNCHANGED monitorVars
  BY <1>2, TypesNamed, TypesNamedNext DEF monitorVars
<1> QED BY <1>1, <1>2

(* Every reachable state has the types, and a lease without a host is one  *)
(* that has run out: what monitor_leases and monitor_status hold, and what *)
(* each process notes of itself, for any number of processes.              *)
THEOREM MonitorTypes == MonitorSpec => []MonitorTypeOK
<1>1. MonitorInit => MonitorTypeOK
  BY HostsInitTypes
<1>2. MonitorTypeOK /\ [MonitorNext]_monitorVars => MonitorTypeOK'
  BY TypeStep
<1> QED BY <1>1, <1>2, PTL DEF MonitorSpec

-----------------------------------------------------------------------------
(* Two hosts at once.                                                      *)

\* A host acts on a lease from the moment it acquires it until it notices
\* that it no longer may.
ActsOnLease(h) ==
  \/ mem[h].held
  \/ pc[h].session \in {"taken", "held", "look", "run"}
  \/ \E k \in Kinds : job[h][k].pc # "idle"

\* Whoever acts on a lease holds it, unless that lease lapsed; and a lease
\* that may be taken over has lapsed.
LeaseInv ==
  /\ lease.host # NoHost /\ lease.left = 0 => lease.host \in lapsed
  /\ \A h \in Hosts : ActsOnLease(h) /\ h \notin lapsed => lease.host = h

LEMMA InitLeaseInv == MonitorInit => LeaseInv
<1> SUFFICES ASSUME MonitorInit PROVE LeaseInv
  OBVIOUS
<1>1. NoThreads.session = "off" /\ Gone.session = "off" /\ Started.session = "loop"
  BY DEF NoThreads, Gone, Started
<1>2. ASSUME NEW h \in Hosts PROVE ~ActsOnLease(h)
  <2>1. pc[h] \in {Started, NoThreads, Gone}
    BY DEF MonitorInit
  <2>2. ~mem[h].held
    BY DEF MonitorInit, NoMem
  <2>3. \A k \in Kinds : job[h][k].pc = "idle"
    BY DEF MonitorInit, NoJob
  <2> QED BY <1>1, <2>1, <2>2, <2>3 DEF ActsOnLease
<1>3. lease.host = NoHost
  BY DEF MonitorInit, NoLease
<1> QED BY <1>2, <1>3 DEF LeaseInv

\* What a step may do to the lease.
LeaseMove ==
  \/ UNCHANGED <<lease, lapsed>>
  \/ \E h \in Hosts : Takeable(h) /\ lease' = Taken(h) /\ lapsed' = lapsed \ {h}
  \/ \E h \in Hosts : lease' = LeaseWithout(h)
                      /\ lapsed' = lapsed \cup ({h} \cap {lease.host})
  \/ \E h \in Hosts : lease.host = h /\ lease' = Taken(h) /\ lapsed' = lapsed
  \/ /\ lease' = [lease EXCEPT !.left = Sooner(@)]
     /\ lapsed' = lapsed \cup (IF lease.left = 1 THEN {lease.host} ELSE {})

LEMMA StepsMoveTheLease == MonitorTypeOK /\ MonitorNext => LeaseMove
<1> SUFFICES ASSUME MonitorTypeOK, MonitorNext PROVE LeaseMove
  OBVIOUS
<1>1. ASSUME NEW h \in Hosts, SessionStep(h) \/ SessionFails(h) PROVE LeaseMove
  BY <1>1 DEF SessionStep, SessionFails, LoopStop, LoopDrop, AcquireLease,
     AcquireHeld, AcquireStatus, Look, RunReturns, ExitLoop, Release, LeaseMove
<1>2. ASSUME NEW h \in Hosts, NEW k \in Kinds, JobStep(h, k) PROVE LeaseMove
  BY <1>2 DEF JobStep, JobEnds, MarkQueued, RunRefused, RunCreated, SaveProgress,
     FinishRun, RunBreaks, ClearRun, Release, LeaseMove
<1>3. ASSUME NEW h \in Hosts, BeatStep(h) PROVE LeaseMove
  BY <1>3 DEF BeatStep, BeatStops, BeatRenews, LeaseMove
<1>4. ASSUME NEW h \in Hosts, ControlStep(h) \/ Request(h) PROVE LeaseMove
  BY <1>4 DEF ControlStep, DropHeld, FreeLease, DropRequests, Request, StartSession,
     StopSession, PauseMonitor, ResumeMonitor, RunQueued, RunOnce, Crash, Release,
     LeaseMove
<1>5. CASE Dashboard
  <2>1. row.host \in Hosts
    BY <1>5 DEF Dashboard, MonitorTypeOK
  <2> QED BY <1>5, <2>1 DEF Dashboard, LeaseMove
<1>6. CASE Tick \/ DueArrives
  BY <1>6 DEF Tick, DueArrives, LeaseMove
<1> QED BY <1>1, <1>2, <1>3, <1>4, <1>5, <1>6 DEF MonitorNext

\* No step makes a host act on a lease that it did not act on, nor acquires.
LEMMA NobodyActsUnasked ==
  ASSUME MonitorTypeOK, MonitorNext, NEW g \in Hosts, ActsOnLease(g)'
  PROVE  ActsOnLease(g) \/ lease' = Taken(g)
<1>0. /\ mem \in [Hosts -> Memories] /\ pc \in [Hosts -> Threads]
      /\ job \in [Hosts -> [Kinds -> Jobs]]
  BY TypesNamed
<1> USE DEF ActsOnLease
<1>1. ASSUME NEW h \in Hosts, SessionStep(h) \/ SessionFails(h)
      PROVE  ActsOnLease(g) \/ lease' = Taken(g)
  <2>1. CASE LoopStop(h)
    BY <1>0, <2>1 DEF LoopStop, SessionAt, SessionGoes, Threads
  <2>2. CASE LoopDrop(h)
    BY <1>0, <2>2 DEF LoopDrop, SessionAt, Memories
  <2>3. CASE AcquireLease(h)
    BY <1>0, <2>3 DEF AcquireLease, SessionAt, SessionGoes, Threads
  <2>4. CASE AcquireHeld(h)
    BY <1>0, <2>4 DEF AcquireHeld, SessionAt, SessionGoes, Memories, Threads
  <2>5. CASE AcquireStatus(h)
    BY <1>0, <2>5 DEF AcquireStatus, SessionAt, SessionGoes, Memories, Threads
  <2>6. CASE Look(h)
    BY <1>0, <2>6 DEF Look, SessionAt, MayLook, SessionGoes, Memories, Threads, Jobs, Kinds
  <2>7. CASE RunReturns(h)
    BY <1>0, <2>7 DEF RunReturns, SessionAt, SessionGoes, Threads
  <2>8. CASE SessionFails(h)
    BY <1>0, <2>8 DEF SessionFails, SessionAt, SessionGoes, Threads
  <2>9. CASE ExitLoop(h)
    BY <1>0, <2>9 DEF ExitLoop, SessionAt, SessionGoes, Memories, Threads
  <2> QED BY <1>1, <2>1, <2>2, <2>3, <2>4, <2>5, <2>6, <2>7, <2>8, <2>9 DEF SessionStep
<1>2. ASSUME NEW h \in Hosts, NEW k \in Kinds, JobStep(h, k)
      PROVE  ActsOnLease(g) \/ lease' = Taken(g)
  BY <1>0, <1>2 DEF JobStep, JobEnds, MarkQueued, RunRefused, RunCreated,
     SaveProgress, FinishRun, RunBreaks, ClearRun, JobAt, JobGoes, NoJob, Memories,
     Threads, Jobs, Kinds
<1>3. ASSUME NEW h \in Hosts, BeatStep(h)
      PROVE  ActsOnLease(g) \/ lease' = Taken(g)
  <2>1. pc'[g].session = pc[g].session
    <3>1. CASE BeatStops(h)
      BY <1>0, <3>1 DEF BeatStops, Threads
    <3>2. CASE BeatRenews(h)
      BY <3>2 DEF BeatRenews
    <3> QED BY <1>3, <3>1, <3>2 DEF BeatStep
  <2>2. mem'[g].held => mem[g].held
    BY <1>0, <1>3 DEF BeatStep, BeatStops, BeatRenews, Memories
  <2> QED BY <1>3, <2>1, <2>2 DEF BeatStep, BeatStops, BeatRenews
<1>4. ASSUME NEW h \in Hosts, ControlStep(h) \/ Request(h)
      PROVE  ActsOnLease(g) \/ lease' = Taken(g)
  <2>1. CASE DropHeld(h)
    <3>1. mem'[g].held => mem[g].held
      BY <1>0, <2>1 DEF DropHeld, ControlGoes, Memories
    <3>2. pc'[g].session = pc[g].session
      BY <1>0, <2>1 DEF DropHeld, ControlGoes, Threads
    <3> QED BY <3>1, <3>2, <2>1 DEF DropHeld
  <2>2. CASE FreeLease(h)
    BY <1>0, <2>2 DEF FreeLease, ControlGoes, Threads
  <2>3. CASE DropRequests(h)
    <3>1. mem'[g].held => mem[g].held
      BY <1>0, <2>3 DEF DropRequests, Memories
    <3>2. pc'[g].session = pc[g].session
      BY <1>0, <2>3 DEF DropRequests, Threads
    <3> QED BY <3>1, <3>2, <2>3 DEF DropRequests
  <2>4. CASE StartSession(h)
    <3>1. Started.session = "loop"
      BY DEF Started, NoThreads
    <3> QED BY <1>0, <2>4, <3>1 DEF StartSession, Memories
  <2>5. CASE StopSession(h)
    <3>1. \A k \in Kinds : job'[g][k].pc = job[g][k].pc
      BY <1>0, <2>5 DEF StopSession, Jobs
    <3>2. pc'[g].session = pc[g].session
      BY <1>0, <2>5 DEF StopSession, Threads
    <3>3. mem'[g].held = mem[g].held
      BY <1>0, <2>5 DEF StopSession, Memories
    <3> QED BY <3>1, <3>2, <3>3
  <2>6. CASE PauseMonitor(h)
    BY <1>0, <2>6 DEF PauseMonitor, Threads
  <2>7. CASE ResumeMonitor(h)
    BY <1>0, <2>7 DEF ResumeMonitor
  <2>8. CASE RunQueued(h)
    BY <1>0, <2>8 DEF RunQueued, Memories
  <2>9. CASE RunOnce(h)
    BY <1>0, <2>9 DEF RunOnce, JobAt, JobGoes, Jobs, Kinds
  <2>10. CASE Crash(h)
    <3>1. Gone.session = "off" /\ NoMem.held = FALSE /\ NoJob.pc = "idle"
      BY DEF Gone, NoThreads, NoMem, NoJob
    <3> QED BY <1>0, <2>10, <3>1 DEF Crash
  <2> QED
    BY <1>4, <2>1, <2>2, <2>3, <2>4, <2>5, <2>6, <2>7, <2>8, <2>9, <2>10
       DEF ControlStep, Request
<1>5. CASE Dashboard \/ DueArrives
  BY <1>5 DEF Dashboard, DueArrives
<1>6. CASE Tick
  <2>1. ASSUME NEW k \in Kinds PROVE job'[g][k].pc = job[g][k].pc
    <3>1. job'[g][k] = [job[g][k] EXCEPT !.left = Sooner(@)]
      BY <1>6 DEF Tick
    <3>2. job[g][k] \in Jobs
      BY <1>0
    <3> QED BY <3>1, <3>2 DEF Jobs
  <2> QED BY <1>6, <2>1 DEF Tick
<1> QED BY <1>1, <1>2, <1>3, <1>4, <1>5, <1>6 DEF MonitorNext

LEMMA LeaseInvStep ==
  MonitorTypeOK /\ LeaseInv /\ [MonitorNext]_monitorVars => LeaseInv'
<1> SUFFICES ASSUME MonitorTypeOK, LeaseInv, [MonitorNext]_monitorVars PROVE LeaseInv'
  OBVIOUS
<1>1. CASE UNCHANGED monitorVars
  BY <1>1 DEF monitorVars, LeaseInv, ActsOnLease
<1>2. CASE MonitorNext
  <2>1. LeaseMove
    BY <1>2, StepsMoveTheLease
  <2>2. /\ lease.host \in Hosts \cup {NoHost} /\ lease.left \in Nat
        /\ lease \in [host : Hosts \cup {NoHost}, left : 0..Lease]
    BY TypesNamed, LeaseAssumption DEF Leases
  <2>3. lease'.host # NoHost /\ lease'.left = 0 => lease'.host \in lapsed'
    BY <2>1, <2>2, LeaseAssumption
       DEF LeaseMove, LeaseInv, Taken, LeaseWithout, NoLease, Sooner
  <2>4. ASSUME NEW g \in Hosts, ActsOnLease(g)', g \notin lapsed'
        PROVE  lease'.host = g
    <3>1. CASE lease' = Taken(g)
      BY <3>1 DEF Taken
    <3>2. CASE ActsOnLease(g) /\ g \notin lapsed
      <4>1. lease.host = g /\ lease.left # 0 /\ g # NoHost
        BY <3>2, LeaseAssumption DEF LeaseInv
      <4>2. ~(\E h \in Hosts : Takeable(h) /\ lease' = Taken(h) /\ h # g)
        BY <4>1 DEF Takeable
      <4>3. ~(\E h \in Hosts : lease' = LeaseWithout(h) /\ h = g
                              /\ lapsed' = lapsed \cup ({h} \cap {lease.host}))
        BY <2>4, <4>1
      <4> QED BY <2>1, <2>2, <4>1, <4>2, <4>3 DEF LeaseMove, Taken, LeaseWithout
    <3>3. CASE g \in lapsed
      BY <2>1, <2>4, <3>3 DEF LeaseMove, Taken
    <3> QED BY <1>2, <2>4, <3>1, <3>2, <3>3, NobodyActsUnasked
  <2> QED BY <2>3, <2>4 DEF LeaseInv
<1> QED BY <1>1, <1>2

(* The lease protocol, for any number of hosts: when two of them scan one  *)
(* monitor at the same time, the lease of one of them ran out, was given   *)
(* up or was taken for that of a dead host since it last acquired it       *)
(* (acquire_monitor_lease, _execute_definition, _normalized_status).       *)
THEOREM OverlapsComeFromLapses == MonitorSpec => []OverlapNeedsLapse
<1>1. MonitorInit => MonitorTypeOK /\ LeaseInv
  BY HostsInitTypes, InitLeaseInv
<1>2. MonitorTypeOK /\ LeaseInv /\ [MonitorNext]_monitorVars
        => (MonitorTypeOK /\ LeaseInv)'
  BY TypeStep, LeaseInvStep
<1>3. LeaseInv => OverlapNeedsLapse
  BY DEF LeaseInv, OverlapNeedsLapse, ActsOnLease, Executing
<1> QED BY <1>1, <1>2, <1>3, PTL DEF MonitorSpec

-----------------------------------------------------------------------------
(* A host that never comes back.                                           *)

\* Why the status row may name a host: something of that host is still to
\* come that takes the name out again, or it named itself without the lease.
Answers(h) ==
  \/ h \in strays \/ mem[h].held \/ pc[h].at = "free" \/ pc[h].control = "gone"
  \/ \E k \in Kinds : job[h][k].pc \in {"begin", "scan"}
  \/ job[h]["shot"].pc \in {"clear", "broken"}

\* A control thread that rests is nowhere in a stop or a pause, a lease is
\* noted only while there is a session loop to give it up, and a run of the
\* session is one the loop waits for.
ThreadsInv ==
  \A h \in Hosts :
    /\ pc[h].control \in {"idle", "gone"} => pc[h].at = ""
    /\ mem[h].held => pc[h].session # "off"
    /\ pc[h].session # "run" => job[h]["session"].pc = "idle"

RowInv == \A h \in Hosts : row.host = h => Answers(h)

LEMMA InitRowInv == MonitorInit => ThreadsInv /\ RowInv
<1> SUFFICES ASSUME MonitorInit PROVE ThreadsInv /\ RowInv
  OBVIOUS
<1>1. /\ NoThreads.at = "" /\ Gone.at = "" /\ Started.at = "" /\ ~NoMem.held
      /\ row.host = NoHost /\ NoHost \notin Hosts
  BY LeaseAssumption DEF NoThreads, Gone, Started, NoMem, MonitorInit
<1>2. ASSUME NEW h \in Hosts
      PROVE  pc[h].at = "" /\ ~mem[h].held /\ job[h]["session"].pc = "idle"
  BY <1>1 DEF MonitorInit, NoJob, Kinds
<1> QED BY <1>1, <1>2 DEF ThreadsInv, RowInv

\* What a thread of one host does to the others: nothing but taking their
\* name out of the row.
LEMMA OthersKept ==
  ASSUME MonitorTypeOK, NEW h \in Hosts, NEW g \in Hosts, g # h,
         \/ SessionStep(h) \/ SessionFails(h) \/ BeatStep(h) \/ ControlStep(h) \/ Request(h)
         \/ \E k \in Kinds : JobStep(h, k)
  PROVE  /\ UNCHANGED <<mem[g], pc[g], job[g]>> /\ (g \in strays => g \in strays')
         /\ row'.host = g => row.host = g
<1>0. /\ mem \in [Hosts -> Memories] /\ pc \in [Hosts -> Threads]
      /\ job \in [Hosts -> [Kinds -> Jobs]] /\ row \in StatusRows /\ g # NoHost
  BY TypesNamed, LeaseAssumption
<1>1. mem'[g] = mem[g] /\ (g \in strays => g \in strays')
  BY <1>0 DEF SessionStep, LoopStop, LoopDrop, AcquireLease, AcquireHeld, AcquireStatus, Look,
       RunReturns, ExitLoop, SessionFails, BeatStep, BeatStops, BeatRenews, ControlStep, DropHeld,
       FreeLease, DropRequests, Request, StartSession, StopSession, PauseMonitor, ResumeMonitor,
       RunQueued, RunOnce, Crash, JobStep, JobEnds, MarkQueued, RunRefused, RunCreated,
       SaveProgress, FinishRun, RunBreaks, ClearRun, Strays
<1>2. pc'[g] = pc[g]
  BY <1>0 DEF SessionStep, LoopStop, LoopDrop, AcquireLease, AcquireHeld, AcquireStatus, Look,
       RunReturns, ExitLoop, SessionFails, BeatStep, BeatStops, BeatRenews, ControlStep, DropHeld,
       FreeLease, DropRequests, Request, StartSession, StopSession, PauseMonitor, ResumeMonitor,
       RunQueued, RunOnce, Crash, JobStep, JobEnds, MarkQueued, RunRefused, RunCreated,
       SaveProgress, FinishRun, RunBreaks, ClearRun, SessionGoes, ControlGoes
<1>3. job'[g] = job[g]
  BY <1>0 DEF SessionStep, LoopStop, LoopDrop, AcquireLease, AcquireHeld, AcquireStatus, Look,
       RunReturns, ExitLoop, SessionFails, BeatStep, BeatStops, BeatRenews, ControlStep, DropHeld,
       FreeLease, DropRequests, Request, StartSession, StopSession, PauseMonitor, ResumeMonitor,
       RunQueued, RunOnce, Crash, JobStep, JobEnds, MarkQueued, RunRefused, RunCreated,
       SaveProgress, FinishRun, RunBreaks, ClearRun, JobGoes
<1>4. row'.host = g => row.host = g
  <2>1. /\ Unhosted(row).host = NoHost /\ RowWaiting(h).host = h
        /\ FailedRow(h).host \in {row.host, NoHost} /\ [row EXCEPT !.host = h].host = h
        /\ [row EXCEPT !.left = Lease].host = row.host
        /\ RowWithout(h, row).host \in {row.host, NoHost}
        /\ RowWithout(h, RowWaiting(h)).host = NoHost
        /\ RowWithout(h, FailedRow(h)).host \in {row.host, NoHost}
    <3>1. Unhosted(row).host = NoHost /\ RowWaiting(h).host = h
      BY <1>0 DEF Unhosted, RowWaiting, StatusRows
    <3>2. FailedRow(h) \in {row, Unhosted(row)}
      BY DEF FailedRow
    <3>3. Unhosted(RowWaiting(h)).host = NoHost /\ Unhosted(FailedRow(h)).host = NoHost
      BY <1>0, RowsWritten DEF Unhosted, StatusRows
    <3> QED BY <1>0, <3>1, <3>2, <3>3 DEF RowWithout, StatusRows
  <2>2. \A k \in Kinds : /\ SucceededRow(h, k).host \in {row.host, NoHost}
                         /\ StoppedRow(h, k).host = NoHost
    BY <1>0 DEF Unhosted, SucceededRow, StoppedRow, StatusRows
  <2>3. CASE SessionStep(h) \/ SessionFails(h)
    BY <1>0, <2>1, <2>3
       DEF SessionStep, SessionFails, LoopStop, LoopDrop, AcquireLease, AcquireHeld,
           AcquireStatus, Look, RunReturns, ExitLoop, Release
  <2>4. CASE BeatStep(h)
    BY <1>0, <2>1, <2>4 DEF BeatStep, BeatStops, BeatRenews
  <2>5. CASE ControlStep(h) \/ Request(h)
    BY <1>0, <2>1, <2>5
       DEF ControlStep, DropHeld, FreeLease, DropRequests, Request, StartSession, StopSession,
           PauseMonitor, ResumeMonitor, RunQueued, RunOnce, Crash, Release
  <2>6. ASSUME NEW k \in Kinds, JobStep(h, k) PROVE row'.host = g => row.host = g
    <3>1. row' \in {FailedRow(h), RowWithout(h, FailedRow(h)), row, SucceededRow(h, k),
                    StoppedRow(h, k), RowWithout(h, row)} \/ row'.host = h
      BY <2>6 DEF JobStep, JobEnds, MarkQueued, RunRefused, RunCreated, SaveProgress, FinishRun,
                  RunBreaks, ClearRun, Release
    <3> QED BY <1>0, <2>1, <2>2, <3>1
  <2> QED BY <2>3, <2>4, <2>5, <2>6
<1> QED BY <1>1, <1>2, <1>3, <1>4

\* Moves of one thread leave the others where they are.
LEMMA Goes ==
  ASSUME NEW h \in Hosts, pc \in [Hosts -> Threads], NEW there
  PROVE  /\ SessionGoes(h, there) =>
              /\ pc'[h].session = there /\ pc'[h].control = pc[h].control
              /\ pc'[h].at = pc[h].at
         /\ ControlGoes(h, there) =>
              /\ pc'[h].session = pc[h].session /\ pc'[h].control = pc[h].control
              /\ pc'[h].at = there
         /\ pc' = [pc EXCEPT ![h].beat = there] =>
              /\ pc'[h].session = pc[h].session /\ pc'[h].control = pc[h].control
              /\ pc'[h].at = pc[h].at
BY DEF SessionGoes, ControlGoes, Threads

LEMMA JobGoesThere ==
  ASSUME NEW h \in Hosts, NEW k \in Kinds, job \in [Hosts -> [Kinds -> Jobs]],
         NEW there, JobGoes(h, k, there)
  PROVE  job'[h][k].pc = there /\ \A other \in Kinds \ {k} : job'[h][other] = job[h][other]
<1>1. job'[h] = [job[h] EXCEPT ![k] = [job[h][k] EXCEPT !.pc = there]]
  BY DEF JobGoes
<1>2. job[h] \in [Kinds -> Jobs] /\ job[h][k] \in Jobs
  OBVIOUS
<1> QED BY <1>1, <1>2 DEF Jobs

\* A run moves alone, and touches what its process notes only to say that it
\* is the active one.
LEMMA JobStepsAlone ==
  ASSUME MonitorTypeOK, NEW h \in Hosts, NEW k \in Kinds, JobStep(h, k)
  PROVE  /\ \A other \in Kinds \ {k} : job'[h][other] = job[h][other]
         /\ mem'[h].held = mem[h].held
<1>0. mem \in [Hosts -> Memories] /\ job \in [Hosts -> [Kinds -> Jobs]] /\ mem[h] \in Memories
  BY TypesNamed
<1>1. \A other \in Kinds \ {k} : job'[h][other] = job[h][other]
  <2>1. CASE MarkQueued(h, k)
    BY <1>0, <2>1 DEF MarkQueued
  <2>2. CASE RunRefused(h, k) \/ ClearRun(h, k)
    BY <1>0, <2>2 DEF RunRefused, ClearRun
  <2>3. CASE \E there \in {"scan", "clear", "broken"} : JobGoes(h, k, there)
    BY <1>0, <2>3, JobGoesThere
  <2>4. CASE job' = job
    BY <2>4
  <2> QED BY <2>1, <2>2, <2>3, <2>4
          DEF JobStep, JobEnds, RunCreated, SaveProgress, FinishRun, RunBreaks
<1>2. mem'[h].held = mem[h].held
  <2>1. ASSUME NEW a, mem' = [mem EXCEPT ![h].active = a] PROVE mem'[h].held = mem[h].held
    BY <1>0, <2>1 DEF Memories
  <2>2. mem' = mem \/ \E a : mem' = [mem EXCEPT ![h].active = a]
    BY DEF JobStep, JobEnds, MarkQueued, RunRefused, RunCreated, SaveProgress,
           FinishRun, RunBreaks, ClearRun
  <2> QED BY <2>1, <2>2
<1> QED BY <1>1, <1>2

LEMMA OwnThreads ==
  ASSUME MonitorTypeOK, ThreadsInv, NEW h \in Hosts,
         \/ SessionStep(h) \/ SessionFails(h) \/ BeatStep(h) \/ ControlStep(h) \/ Request(h)
         \/ \E k \in Kinds : JobStep(h, k)
  PROVE  /\ pc'[h].control \in {"idle", "gone"} => pc'[h].at = ""
         /\ mem'[h].held => pc'[h].session # "off"
         /\ pc'[h].session # "run" => job'[h]["session"].pc = "idle"
<1>0. /\ mem \in [Hosts -> Memories] /\ pc \in [Hosts -> Threads] /\ mem[h] \in Memories
      /\ pc[h] \in Threads
      /\ job \in [Hosts -> [Kinds -> Jobs]]
      /\ pc[h].control \in {"idle", "gone"} => pc[h].at = ""
      /\ mem[h].held => pc[h].session # "off"
      /\ pc[h].session # "run" => job[h]["session"].pc = "idle"
  BY TypesNamed DEF ThreadsInv
<1>1. CASE SessionStep(h) \/ SessionFails(h)
  <2>1. CASE LoopDrop(h)
    BY <1>0, <2>1 DEF LoopDrop, Memories
  <2>2. CASE ExitLoop(h)
    <3>1. ~mem'[h].held
      BY <1>0, <2>2 DEF ExitLoop, Memories
    <3> QED BY <1>0, <2>2, <3>1, Goes DEF ExitLoop, SessionAt
  <2>3. CASE /\ job' = job /\ (pc[h].session = "run" => job[h]["session"].pc = "idle")
             /\ \E there \in {"loop", "taken", "held", "look", "exit"} : SessionGoes(h, there)
    BY <1>0, <2>3, Goes
  <2>4. CASE Look(h)
    <3>1. CASE SessionGoes(h, "run")
      <4>1. pc'[h].session = "run" /\ pc'[h].control = pc[h].control /\ pc'[h].at = pc[h].at
        BY <1>0, <3>1 DEF SessionGoes, Threads
      <4> QED BY <1>0, <4>1
    <3>2. CASE SessionGoes(h, "loop") /\ job' = job
      <4>1. pc'[h].session = "loop" /\ pc'[h].control = pc[h].control /\ pc'[h].at = pc[h].at
        BY <1>0, <3>2 DEF SessionGoes, Threads
      <4>2. pc[h].session # "run"
        BY <2>4 DEF Look, MayLook, SessionAt
      <4> QED BY <1>0, <3>2, <4>1, <4>2
    <3> QED BY <2>4, <3>1, <3>2 DEF Look
  <2> QED BY <1>1, <2>1, <2>2, <2>3, <2>4
          DEF SessionStep, SessionFails, LoopStop, AcquireLease, AcquireHeld, AcquireStatus,
              RunReturns, SessionAt, JobAt
<1>2. CASE BeatStep(h)
  <2>1. CASE BeatStops(h)
    BY <1>0, <2>1, Goes DEF BeatStops
  <2>2. CASE BeatRenews(h)
    <3>1. mem'[h].held => mem[h].held
      BY <1>0, <2>2 DEF BeatRenews, Memories
    <3> QED BY <1>0, <2>2, <3>1 DEF BeatRenews
  <2> QED BY <1>2, <2>1, <2>2 DEF BeatStep
<1>3. CASE ControlStep(h)
  <2>1. CASE DropHeld(h)
    <3>1. mem'[h].held => mem[h].held
      BY <1>0, <2>1 DEF DropHeld, Memories
    <3>2. pc'[h].session = pc[h].session /\ pc'[h].control = pc[h].control
      BY <1>0, <2>1, Goes DEF DropHeld
    <3> QED BY <1>0, <2>1, <3>1, <3>2 DEF DropHeld, ControlAt
  <2>2. CASE FreeLease(h)
    BY <1>0, <2>2, Goes DEF FreeLease, ControlAt
  <2>3. CASE DropRequests(h)
    <3>1. mem'[h].held = mem[h].held
      BY <1>0, <2>3 DEF DropRequests, Memories
    <3> QED BY <1>0, <2>3, <3>1 DEF DropRequests, Threads
  <2> QED BY <1>3, <2>1, <2>2, <2>3 DEF ControlStep
<1>4. CASE Request(h)
  <2>1. CASE StartSession(h)
    BY <1>0, <2>1 DEF StartSession, Started, NoThreads, session_running, SessionAlive
  <2>2. CASE StopSession(h)
    <3>1. mem'[h].held = mem[h].held
      BY <1>0, <2>2 DEF StopSession, Memories
    <3>3. job'[h]["session"].pc = job[h]["session"].pc
      <4>1. job'[h] = [k \in Kinds |-> [job[h][k] EXCEPT
                         !.cancelled = @ \/ (k = mem[h].active /\ Executing(h, k))]]
        BY <1>0, <2>2 DEF StopSession
      <4>2. "session" \in Kinds /\ job[h]["session"] \in Jobs
        BY <1>0 DEF Kinds
      <4> QED BY <4>1, <4>2 DEF Jobs
    <3>2. pc' = [pc EXCEPT ![h] = [pc[h] EXCEPT !.control = "stop", !.at = "drop"]]
      BY <2>2 DEF StopSession
    <3> QED BY <1>0, <3>1, <3>2, <3>3 DEF Threads
  <2>3. CASE PauseMonitor(h)
    <3>1. pc' = [pc EXCEPT ![h] = [pc[h] EXCEPT !.control = "pause", !.at = "drop"]]
          /\ mem' = mem /\ job' = job
      BY <2>3 DEF PauseMonitor
    <3> QED BY <1>0, <3>1 DEF Threads
  <2>4. CASE ResumeMonitor(h) \/ RunOnce(h)
    <3>1. job'[h]["session"] = job[h]["session"]
      BY <1>0, <2>4 DEF ResumeMonitor, RunOnce, JobGoes, Kinds
    <3> QED BY <1>0, <2>4, <3>1 DEF ResumeMonitor, RunOnce
  <2>5. CASE RunQueued(h)
    BY <1>0, <2>5 DEF RunQueued, Memories
  <2>6. CASE Crash(h)
    <3>1. job'[h]["session"].pc = "idle"
      BY <1>0, <2>6 DEF Crash, NoJob, Kinds
    <3> QED BY <1>0, <2>6, <3>1 DEF Crash, NoMem, Gone, NoThreads
  <2> QED BY <1>4, <2>1, <2>2, <2>3, <2>4, <2>5, <2>6 DEF Request
<1>5. ASSUME NEW k \in Kinds, JobStep(h, k)
      PROVE  /\ pc'[h].control \in {"idle", "gone"} => pc'[h].at = ""
             /\ mem'[h].held => pc'[h].session # "off"
             /\ pc'[h].session # "run" => job'[h]["session"].pc = "idle"
  <2>1. mem'[h].held = mem[h].held
    BY <1>5, JobStepsAlone
  <2>2. CASE ClearRun(h, k)
    <3>1. job'[h]["session"] = job[h]["session"] \/ job'[h]["session"].pc = "idle"
      BY <1>0, <2>2 DEF ClearRun, NoJob, Kinds
    <3>2. CASE pc' = pc
      BY <1>0, <2>1, <3>1, <3>2
    <3>3. CASE k = "session" /\ pc' = [pc EXCEPT ![h].session = "exit"]
      <4>1. job'[h]["session"].pc = "idle"
        BY <1>0, <2>2, <3>3 DEF ClearRun, NoJob, Kinds
      <4>2. pc'[h].session = "exit" /\ pc'[h].control = pc[h].control /\ pc'[h].at = pc[h].at
        BY <1>0, <3>3 DEF Threads
      <4> QED BY <1>0, <2>1, <4>1, <4>2
    <3> QED BY <2>2, <3>2, <3>3 DEF ClearRun
  <2>3. CASE ~ClearRun(h, k)
    <3>1. pc' = pc
      BY <1>5, <2>3 DEF JobStep, JobEnds, MarkQueued, RunRefused, RunCreated, SaveProgress,
                        FinishRun, RunBreaks
    <3>2. job[h][k].pc # "idle"
      BY <1>5, <2>3 DEF JobStep, JobEnds, MarkQueued, RunRefused, RunCreated, SaveProgress,
                        FinishRun, RunBreaks, JobAt
    <3>3. CASE k = "session"
      BY <1>0, <2>1, <3>1, <3>2, <3>3
    <3>4. CASE k = "shot"
      <4>1. job'[h]["session"] = job[h]["session"]
        BY <1>5, <3>4, JobStepsAlone DEF Kinds
      <4> QED BY <1>0, <2>1, <3>1, <4>1
    <3> QED BY <3>3, <3>4 DEF Kinds
  <2> QED BY <2>2, <2>3
<1> QED BY <1>1, <1>2, <1>3, <1>4, <1>5

\* What a thread of a host writes into the row, that host answers for.
LEMMA OwnAnswers ==
  ASSUME MonitorTypeOK, ThreadsInv, RowInv, NEW h \in Hosts,
         \/ SessionStep(h) \/ SessionFails(h) \/ BeatStep(h) \/ ControlStep(h) \/ Request(h)
         \/ \E k \in Kinds : JobStep(h, k),
         row'.host = h
  PROVE  Answers(h)'
<1>0. /\ mem \in [Hosts -> Memories] /\ pc \in [Hosts -> Threads] /\ mem[h] \in Memories
      /\ pc[h] \in Threads /\ job \in [Hosts -> [Kinds -> Jobs]] /\ row \in StatusRows
      /\ row.host = h => Answers(h)
      /\ h # NoHost
      /\ pc[h].control \in {"idle", "gone"} => pc[h].at = ""
      /\ pc[h].session # "run" => job[h]["session"].pc = "idle"
  BY TypesNamed, LeaseAssumption DEF ThreadsInv, RowInv
<1>1. /\ Unhosted(row).host = NoHost
      /\ RowWithout(h, row).host # h /\ RowWithout(h, RowWaiting(h)).host # h
      /\ RowWithout(h, FailedRow(h)).host # h
      /\ FailedRow(h).host = h => mem[h].held
  <2>1. Unhosted(row).host = NoHost /\ RowWaiting(h).host = h
    BY <1>0 DEF Unhosted, RowWaiting, StatusRows
  <2>2. FailedRow(h) \in StatusRows /\ RowWaiting(h) \in StatusRows
    BY <1>0, RowsWritten, TypesNamed
  <2>3. \A r \in StatusRows : Unhosted(r).host = NoHost
    BY DEF Unhosted, StatusRows
  <2>4. \A r \in StatusRows : RowWithout(h, r).host # h
    BY <1>0, <2>3 DEF RowWithout
  <2>5. FailedRow(h).host = h => mem[h].held
    BY <1>0, <2>1 DEF FailedRow, HostedAfterFailure
  <2> QED BY <1>0, <2>1, <2>2, <2>4, <2>5
<1>2. CASE SessionStep(h) \/ SessionFails(h)
  <2>1. CASE LoopDrop(h)
    BY <1>1, <2>1 DEF LoopDrop, Release
  <2>2. CASE AcquireHeld(h)
    BY <1>0, <2>2 DEF AcquireHeld, Answers, Memories
  <2>3. CASE AcquireStatus(h)
    <3>1. CASE LostAcquired(h)
      BY <1>1, <2>3, <3>1 DEF AcquireStatus, Release
    <3>2. CASE ~LostAcquired(h)
      BY <1>0, <2>3, <3>2 DEF AcquireStatus, LostAcquired, Answers
    <3> QED BY <3>1, <3>2
  <2>4. CASE ExitLoop(h)
    <3>1. CASE mem[h].held
      BY <1>1, <2>4, <3>1 DEF ExitLoop, Release
    <3>2. CASE ~mem[h].held
      <4>1. UNCHANGED <<row, strays, job>> /\ pc'[h].at = pc[h].at /\ pc'[h].control = pc[h].control
        BY <1>0, <2>4, <3>2, Goes DEF ExitLoop
      <4> QED BY <1>0, <3>2, <4>1 DEF Answers
    <3> QED BY <3>1, <3>2
  <2>5. CASE LoopStop(h) \/ AcquireLease(h) \/ RunReturns(h) \/ SessionFails(h)
    <3>1. /\ UNCHANGED <<row, strays, job, mem>>
          /\ \E there \in {"exit", "taken", "loop"} : SessionGoes(h, there)
      BY <2>5 DEF LoopStop, AcquireLease, RunReturns, SessionFails
    <3>2. pc'[h].at = pc[h].at /\ pc'[h].control = pc[h].control
      BY <1>0, <3>1, Goes
    <3> QED BY <1>0, <3>1, <3>2 DEF Answers
  <2>6. CASE Look(h)
    <3>1. /\ UNCHANGED <<row, strays>> /\ \E there \in {"run", "loop"} : SessionGoes(h, there)
      BY <2>6 DEF Look
    <3>2. pc'[h].at = pc[h].at /\ pc'[h].control = pc[h].control
      BY <1>0, <3>1, Goes
    <3>3. mem'[h].held = mem[h].held
      <4>1. CASE mem' = [mem EXCEPT ![h].pend = FALSE]
        BY <1>0, <4>1 DEF Memories
      <4> QED BY <2>6, <4>1 DEF Look
    <3>5. CASE job' = job
      BY <1>0, <3>1, <3>2, <3>3, <3>5 DEF Answers
    <3>6. CASE job' = [job EXCEPT ![h]["session"].pc = "go"]
      <4>1. job'[h]["shot"] = job[h]["shot"]
        BY <1>0, <3>6 DEF Kinds
      <4>2. job[h]["session"].pc = "idle"
        BY <1>0, <2>6 DEF Look, MayLook, SessionAt
      <4> QED BY <1>0, <3>1, <3>2, <3>3, <4>1, <4>2 DEF Answers, Kinds
    <3> QED BY <2>6, <3>5, <3>6 DEF Look
  <2> QED BY <1>2, <2>1, <2>2, <2>3, <2>4, <2>5, <2>6 DEF SessionStep
<1>3. CASE BeatStep(h)
  <2>1. CASE BeatStops(h)
    <3>1. pc'[h].at = pc[h].at /\ pc'[h].control = pc[h].control
      BY <1>0, <2>1, Goes DEF BeatStops
    <3> QED BY <1>0, <2>1, <3>1 DEF BeatStops, Answers
  <2>2. CASE BeatRenews(h)
    BY <2>2 DEF BeatRenews, Answers
  <2> QED BY <1>3, <2>1, <2>2 DEF BeatStep
<1>4. CASE ControlStep(h)
  <2>1. CASE DropHeld(h)
    <3>1. UNCHANGED <<row, strays, job>> /\ pc[h].at = "drop"
          /\ pc'[h].control = pc[h].control
      BY <1>0, <2>1, Goes DEF DropHeld, ControlAt
    <3>2. mem[h].held => pc'[h].at = "free"
      BY <1>0, <2>1, Goes DEF DropHeld
    <3> QED BY <1>0, <3>1, <3>2 DEF Answers
  <2>2. CASE FreeLease(h)
    BY <1>1, <2>2 DEF FreeLease, Release
  <2>3. CASE DropRequests(h)
    <3>1. mem'[h].held = mem[h].held
      BY <1>0, <2>3 DEF DropRequests, Memories
    <3>2. UNCHANGED <<row, strays, job>> /\ pc[h].at = "end" /\ pc[h].control # "gone"
      BY <1>0, <2>3 DEF DropRequests, ControlAt
    <3> QED BY <1>0, <3>1, <3>2 DEF Answers
  <2> QED BY <1>4, <2>1, <2>2, <2>3 DEF ControlStep
<1>5. CASE Request(h)
  <2>1. CASE StartSession(h) \/ StopSession(h) \/ PauseMonitor(h)
    <3>1. mem'[h].held = mem[h].held
      <4>1. CASE StartSession(h)
        BY <1>0, <4>1 DEF StartSession, Memories
      <4>2. CASE StopSession(h)
        BY <1>0, <4>2 DEF StopSession, Memories
      <4>3. CASE PauseMonitor(h)
        BY <4>3 DEF PauseMonitor
      <4> QED BY <2>1, <4>1, <4>2, <4>3
    <3>2. UNCHANGED <<row, strays>> /\ pc[h].control = "idle" /\ pc[h].at = ""
      BY <1>0, <2>1 DEF StartSession, StopSession, PauseMonitor, Idle
    <3>3. \A k \in Kinds : job'[h][k].pc = job[h][k].pc
      <4>1. CASE job' = job
        BY <4>1
      <4>2. CASE StopSession(h)
        <5>1. job'[h] = [k \in Kinds |-> [job[h][k] EXCEPT
                           !.cancelled = @ \/ (k = mem[h].active /\ Executing(h, k))]]
          BY <1>0, <4>2 DEF StopSession
        <5>2. \A k \in Kinds : job[h][k] \in Jobs
          BY <1>0
        <5> QED BY <5>1, <5>2 DEF Jobs
      <4> QED BY <2>1, <4>1, <4>2 DEF StartSession, PauseMonitor
    <3> QED BY <1>0, <3>1, <3>2, <3>3 DEF Answers, Kinds
  <2>2. CASE ResumeMonitor(h)
    BY <1>0, <2>2 DEF ResumeMonitor, Answers
  <2>3. CASE RunQueued(h)
    <3>1. mem'[h].held = mem[h].held
      BY <1>0, <2>3 DEF RunQueued, Memories
    <3> QED BY <2>3, <3>1 DEF RunQueued, Strays, Answers
  <2>4. CASE RunOnce(h)
    <3>1. job'[h]["session"] = job[h]["session"] /\ job[h]["shot"].pc = "idle"
      BY <1>0, <2>4 DEF RunOnce, JobGoes, JobAt, Kinds
    <3> QED BY <1>0, <2>4, <3>1 DEF RunOnce, Answers, Kinds
  <2>5. CASE Crash(h)
    BY <1>0, <2>5 DEF Crash, Gone, NoThreads, Answers
  <2> QED BY <1>5, <2>1, <2>2, <2>3, <2>4, <2>5 DEF Request
<1>6. ASSUME NEW k \in Kinds, JobStep(h, k) PROVE Answers(h)'
  <2>1. \A other \in Kinds \ {k} : job'[h][other] = job[h][other]
    BY <1>6, JobStepsAlone
  <2>2. mem'[h].held = mem[h].held
    BY <1>6, JobStepsAlone
  <2>3. CASE MarkQueued(h, k) \/ RunCreated(h, k) \/ SaveProgress(h, k)
    <3>1. job'[h][k].pc \in {"begin", "scan"}
      <4>1. CASE MarkQueued(h, k)
        BY <1>0, <4>1 DEF MarkQueued
      <4>2. CASE RunCreated(h, k)
        <5>1. job'[h] = [job[h] EXCEPT ![k] = [job[h][k] EXCEPT !.pc = "scan"]]
          BY <1>0, <4>2 DEF RunCreated, JobGoes
        <5>2. job[h] \in [Kinds -> Jobs] /\ job[h][k] \in Jobs
          BY <1>0
        <5> QED BY <5>1, <5>2 DEF Jobs
      <4>3. CASE SaveProgress(h, k)
        BY <4>3 DEF SaveProgress, JobAt
      <4> QED BY <2>3, <4>1, <4>2, <4>3
    <3> QED BY <3>1 DEF Answers
  <2>4. CASE RunRefused(h, k)
    <3>1. k = "session" /\ row'.host = FailedRow(h).host
      BY <1>1, <2>4 DEF RunRefused, Release, Kinds
    <3> QED BY <1>1, <2>2, <3>1 DEF Answers
  <2>5. CASE FinishRun(h, k)
    <3>1. CASE k = "shot"
      <4>1. job'[h]["shot"].pc = "clear"
        BY <1>0, <2>5, <3>1, JobGoesThere DEF FinishRun, Kinds
      <4> QED BY <4>1 DEF Answers
    <3>2. CASE k = "session"
      <4>1. StoppedRow(h, k).host = NoHost
        BY <1>0 DEF StoppedRow, Unhosted, StatusRows
      <4>2. SucceededRow(h, k).host = h => mem[h].held
        BY <1>0, <1>1, <3>2 DEF SucceededRow, StillHosted
      <4>3. row' \in {StoppedRow(h, k), SucceededRow(h, k), FailedRow(h)}
        BY <2>5 DEF FinishRun
      <4> QED BY <1>0, <1>1, <2>2, <4>1, <4>2, <4>3 DEF Answers
    <3> QED BY <3>1, <3>2 DEF Kinds
  <2>6. CASE RunBreaks(h, k)
    BY <2>2, <2>6 DEF RunBreaks, Strays, Answers
  <2>7. CASE ClearRun(h, k)
    <3>1. k = "session" /\ row' = row /\ strays' = strays
      BY <1>1, <2>7 DEF ClearRun, Release, Kinds
    <3>2. pc'[h].at = pc[h].at /\ pc'[h].control = pc[h].control
      BY <1>0, <2>7 DEF ClearRun, Threads
    <3>3. job[h]["session"].pc \in {"clear", "broken"} /\ job'[h]["shot"] = job[h]["shot"]
      BY <2>1, <2>7, <3>1 DEF ClearRun, Kinds
    <3> QED BY <1>0, <2>2, <3>1, <3>2, <3>3 DEF Answers, Kinds
  <2> QED BY <1>6, <2>3, <2>4, <2>5, <2>6, <2>7 DEF JobStep, JobEnds
<1> QED BY <1>2, <1>3, <1>4, <1>5, <1>6

LEMMA RowInvStep ==
  MonitorTypeOK /\ ThreadsInv /\ RowInv /\ [MonitorNext]_monitorVars => (ThreadsInv /\ RowInv)'
<1> SUFFICES ASSUME MonitorTypeOK, ThreadsInv, RowInv, [MonitorNext]_monitorVars
             PROVE  ThreadsInv' /\ RowInv'
  OBVIOUS
<1>1. CASE UNCHANGED monitorVars
  BY <1>1 DEF monitorVars, ThreadsInv, RowInv, Answers
<1>2. ASSUME NEW h \in Hosts,
             \/ SessionStep(h) \/ SessionFails(h) \/ BeatStep(h) \/ ControlStep(h) \/ Request(h)
             \/ \E k \in Kinds : JobStep(h, k)
      PROVE  ThreadsInv' /\ RowInv'
  <2>1. \A g \in Hosts \ {h} :
          /\ UNCHANGED <<mem[g], pc[g], job[g]>> /\ (g \in strays => g \in strays')
          /\ row'.host = g => row.host = g
    BY <1>2, OthersKept
  <2>2. ThreadsInv'
    <3> SUFFICES ASSUME NEW g \in Hosts
                 PROVE  /\ pc'[g].control \in {"idle", "gone"} => pc'[g].at = ""
                        /\ mem'[g].held => pc'[g].session # "off"
                        /\ pc'[g].session # "run" => job'[g]["session"].pc = "idle"
      BY DEF ThreadsInv
    <3>1. CASE g = h
      BY <1>2, <3>1, OwnThreads
    <3>2. CASE g # h
      <4>1. mem'[g] = mem[g] /\ pc'[g] = pc[g] /\ job'[g] = job[g]
        BY <2>1, <3>2
      <4>2. /\ pc[g].control \in {"idle", "gone"} => pc[g].at = ""
            /\ mem[g].held => pc[g].session # "off"
            /\ pc[g].session # "run" => job[g]["session"].pc = "idle"
        BY DEF ThreadsInv
      <4> QED BY <4>1, <4>2
    <3> QED BY <3>1, <3>2
  <2>3. ASSUME NEW g \in Hosts, row'.host = g PROVE Answers(g)'
    <3>1. CASE g = h
      BY <1>2, <2>3, <3>1, OwnAnswers
    <3>2. CASE g # h
      BY <2>1, <2>3, <3>2 DEF RowInv, Answers
    <3> QED BY <3>1, <3>2
  <2> QED BY <2>2, <2>3 DEF RowInv
<1>3. CASE Dashboard \/ DueArrives
  <2>1. UNCHANGED <<mem, pc, job, strays>>
    BY <1>3 DEF Dashboard, DueArrives
  <2>2. row'.host \in {NoHost, row.host}
    BY <1>3 DEF Dashboard, DueArrives, Unhosted, MonitorTypeOK
  <2> QED BY <2>1, <2>2, LeaseAssumption DEF ThreadsInv, RowInv, Answers
<1>4. CASE Tick
  <2>1. UNCHANGED <<mem, pc, strays>> /\ row'.host = row.host
    BY <1>4, TypesNamed DEF Tick, StatusRows
  <2>2. ASSUME NEW h \in Hosts, NEW k \in Kinds PROVE job'[h][k].pc = job[h][k].pc
    <3>1. job'[h][k] = [job[h][k] EXCEPT !.left = Sooner(@)] /\ job[h][k] \in Jobs
      BY <1>4, TypesNamed DEF Tick
    <3> QED BY <3>1 DEF Jobs
  <2> QED BY <2>1, <2>2 DEF ThreadsInv, RowInv, Answers, Kinds
<1> QED BY <1>1, <1>2, <1>3, <1>4 DEF MonitorNext

(* For any number of processes and any requests and failures: the status   *)
(* row names no host whose threads have all ended, unless that host named  *)
(* itself without holding the lease.  The name a run, a status section or  *)
(* a progress event writes is taken out by the run's end, the loop's end   *)
(* or the release that follows (_execute_definition, stop_session,         *)
(* _release_held_lease).                                                   *)
THEOREM NoGhosts == MonitorSpec => []NoGhostHost
<1>1. MonitorInit => MonitorTypeOK /\ ThreadsInv /\ RowInv
  BY HostsInitTypes, InitRowInv
<1>2. MonitorTypeOK /\ ThreadsInv /\ RowInv /\ [MonitorNext]_monitorVars
        => (MonitorTypeOK /\ ThreadsInv /\ RowInv)'
  BY TypeStep, RowInvStep
<1>3. ThreadsInv /\ RowInv => NoGhostHost
  <2> SUFFICES ASSUME ThreadsInv, RowInv, NEW h \in Hosts, Quiet(h), h \notin strays
               PROVE  row.host # h
    BY DEF NoGhostHost
  <2>1. ~mem[h].held /\ pc[h].at = "" /\ pc[h].control = "idle"
    BY DEF Quiet, Idle, session_running, SessionAlive, ThreadsInv
  <2>2. \A k \in Kinds : job[h][k].pc = "idle"
    BY DEF Quiet, JobAt
  <2> QED BY <2>1, <2>2 DEF RowInv, Answers, Kinds
<1> QED BY <1>1, <1>2, <1>3, PTL DEF MonitorSpec
=============================================================================
