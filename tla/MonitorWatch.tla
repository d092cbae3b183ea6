--------------------------- MODULE MonitorWatch ---------------------------
(***************************************************************************)
(* Event-assisted monitoring of one tree by one host: the dirty-path       *)
(* tracker (services/watch.py) and what services/monitor.py does with it.  *)
(*                                                                         *)
(* Three threads share it: the session loop, which starts the event        *)
(* backend and runs full and local reconciliations; the backend's thread,  *)
(* which delivers file-system events; and a control thread, which stops    *)
(* and starts the session.  A step is one section of a lock.               *)
(*                                                                         *)
(* Against them stands the tree itself: "stale" are the directories whose  *)
(* present content neither the last snapshot nor the provisional overlay   *)
(* shows.  Leases and scheduling between hosts are MonitorLeases.          *)
(***************************************************************************)
EXTENDS Naturals, FiniteSets

CONSTANTS Dirs, Root,  \* the watched tree
          Under,       \* Under[d]: d and the directories below it
          MaxPaths,    \* dirty_path_limit
          Writable,    \* bound: the directories that change
          MaxChanges,  \* bound: changes of the tree
          MaxFaults    \* bound: faults and requests

ASSUME WatchAssumption ==
  /\ Root \in Dirs /\ Under \in [Dirs -> SUBSET Dirs]
  /\ Writable \subseteq Dirs /\ Under[Root] = Dirs
  /\ Dirs \cap {"overflow", "error"} = {}
  /\ MaxChanges \in Nat /\ MaxFaults \in Nat
  /\ \A d \in Dirs : d \in Under[d]
  /\ \A d \in Dirs : \A e \in Under[d] :
       Under[e] \subseteq Under[d] /\ (d \in Under[e] => d = e)

VARIABLES
  mode,      \* _event_mode
  backend,   \* the registered backend, and why there may be none
  tracker,   \* DirtyPathTracker: its paths, its escalation, its debounce
  events,    \* what the backend has not delivered yet
  handler,   \* _handle_filesystem_event between its two sections
  status,    \* the row: reconciliation_required, next_due_at reached
  pending,   \* a requested reconciliation, and whether retries are deferred
  session,   \* the session thread and its stop flag
  work,       \* the reconciliation being executed
  tree,      \* history: what no snapshot or overlay shows
  control,   \* stop_session and the like, between their sections
  left       \* changes and faults still to come

watchVars == <<mode, backend, tracker, events, handler, status, pending,
               session, work, tree, control, left>>

NoWork == [kind |-> "none", at |-> "", paths |-> {}, full |-> FALSE,
          read |-> {}]
NoTracker == [paths |-> {}, full |-> FALSE, hot |-> FALSE,
              on |-> FALSE]

(* Types; the dirty paths are an antichain, and an escalation leaves the   *)
(* root alone in it (DirtyPathTracker._mark, _escalate).                   *)
WatchTypeOK ==
  /\ mode \in {"auto", "events", "periodic"}
  /\ backend \in [on : BOOLEAN, running : BOOLEAN, fallback : BOOLEAN,
                  retry : BOOLEAN]
  /\ tracker \in [paths : SUBSET Dirs, full : BOOLEAN, hot : BOOLEAN,
                  on : BOOLEAN]
  /\ \A d, e \in tracker.paths : d \in Under[e] => d = e
  /\ tracker.full => tracker.paths = {Root}
  /\ events \subseteq Dirs \cup {"overflow", "error"}
  /\ handler \in [at : {"idle", "status", "fall", "fell"}, full : BOOLEAN,
                  severe : BOOLEAN]
  /\ status \in [required : BOOLEAN, due : BOOLEAN]
  /\ pending \in [asked : BOOLEAN, deferred : BOOLEAN]
  /\ session \in [at : {"off", "loop", "look", "pop", "run", "exit"}, stop : BOOLEAN]
  /\ work \in [kind : {"none", "full", "local"},
              at : {"", "begin", "scan", "read", "saved", "unsaved", "failing",
                    "stopped", "apply"},
              paths : SUBSET Dirs, full : BOOLEAN, read : SUBSET Dirs]
  /\ control \in {"idle", "stop", "stopped", "clear", "lost", "loses", "mode", "moded"}
  /\ tree \in [stale : SUBSET Dirs, overlaid : SUBSET Dirs, unseen : SUBSET Dirs,
               based : BOOLEAN, dropped : BOOLEAN]
  /\ left \in [changes : 0..MaxChanges, faults : 0..MaxFaults]

\* what the bounds allow may be spent already
WatchInit ==
  /\ mode \in {"auto", "events"}
  /\ backend = [on |-> FALSE, running |-> FALSE, fallback |-> FALSE,
                retry |-> FALSE]
  /\ tracker = NoTracker
  /\ events = {}
  /\ handler = [at |-> "idle", full |-> FALSE, severe |-> FALSE]
  /\ status = [required |-> FALSE, due |-> TRUE]
  /\ pending = [asked |-> FALSE, deferred |-> FALSE]
  /\ session = [at |-> "loop", stop |-> FALSE]
  /\ work = NoWork
  /\ control = "idle"
  /\ tree = [stale |-> Dirs, overlaid |-> {}, unseen |-> Dirs,
             based |-> FALSE, dropped |-> FALSE]
  /\ left \in [changes : 0..MaxChanges, faults : 0..MaxFaults]

Fault == left.faults > 0 /\ left' = [left EXCEPT !.faults = @ - 1]

-----------------------------------------------------------------------------
(* DirtyPathTracker.                                                       *)

\* _mark, of one path or of many: an antichain, and the root absorbs the rest
Mark(paths, more) ==
  {d \in paths \cup more : \A e \in paths \cup more : d \in Under[e] => d = e}

\* mutant: the paths stay beside the root
EscalateBeside(t) == [t EXCEPT !.paths = @ \cup {Root}, !.full = TRUE]

\* _escalate
Escalate(t) == [t EXCEPT !.paths = {Root}, !.full = TRUE]

\* force_full: ready at once
ForceFull(t) == [Escalate(t) EXCEPT !.hot = FALSE]

\* record
Record(t, d) ==
  LET marked == [t EXCEPT !.paths = Mark(@, {d}), !.hot = TRUE]
  IN  IF Cardinality(marked.paths) > MaxPaths THEN Escalate(marked) ELSE marked

\* mutant: a lost event does not escalate
RecordLossLightly(t) == [t EXCEPT !.hot = TRUE]

RecordLoss(t) == [Escalate(t) EXCEPT !.hot = TRUE]

\* restore, of paths drained before
Restore(t, paths, full) ==
  LET marked == [t EXCEPT !.paths = Mark(@, paths)]
      whole == IF full THEN Escalate(marked) ELSE marked
  IN  [whole EXCEPT !.hot = @ /\ whole.paths = {}]

Drain(t) == [t EXCEPT !.paths = {}, !.full = FALSE, !.hot = FALSE]

Ready(t) == t.paths # {} /\ ~t.hot

-----------------------------------------------------------------------------
(* What several handlers do to the row and the overlay.                    *)

\* _invalidate_provisional: the overlay no longer shows anything
Invalidated(t) == [t EXCEPT !.stale = @ \cup t.overlaid, !.overlaid = {}]

\* the status section of _stop_event_backend; "asks" when it also requests the
\* reconciliation it requires of a session that is still serving
StopSection(asks) ==
  IF ~backend.on /\ ~tracker.on
  THEN UNCHANGED <<tracker, status, pending, tree>>
  ELSE /\ tracker' = IF tracker.on THEN ForceFull(tracker) ELSE tracker
       /\ status' = [status EXCEPT !.required = TRUE]
       /\ pending' = [asked |-> pending.asked \/ asks, deferred |-> FALSE]
       /\ tree' = Invalidated(tree)

\* _mark_reconciliation_failure
FailureMarked(t) ==
  /\ tracker' = IF t.on THEN ForceFull(t) ELSE t
  /\ status' = [status EXCEPT !.required = TRUE]
  /\ tree' = Invalidated(tree)

Served == session.at \notin {"off", "exit"} /\ ~session.stop
LoopGoes(there) == session' = [session EXCEPT !.at = there]

-----------------------------------------------------------------------------
(* The session loop: the backend first.                                    *)

AtTop == session.at = "loop" /\ ~session.stop

Wanted == mode # "periodic" /\ ~(mode = "auto" /\ backend.fallback)

EnsureSkip ==
  /\ AtTop
  /\ \/ mode = "auto" /\ backend.fallback
     \/ Wanted /\ backend.on /\ backend.running
     \/ Wanted /\ ~backend.on /\ backend.retry
  /\ LoopGoes("look")
  /\ UNCHANGED <<mode, backend, tracker, events, handler, status, pending, work,
                 tree, left, control>>

\* a backend that died, or that the mode no longer wants, is stopped; stop()
\* joins its thread, so no event is being handled
EnsureStop ==
  /\ AtTop /\ backend.on
  /\ mode = "periodic" \/ (Wanted /\ ~backend.running)
  /\ handler.at = "idle"
  /\ backend' = [backend EXCEPT !.on = FALSE, !.running = FALSE]
  /\ events' = {}
  /\ StopSection(TRUE)
  /\ UNCHANGED <<mode, handler, session, work, left, control>>

\* _set_periodic_backend_status
EnsurePeriodic ==
  /\ AtTop /\ mode = "periodic" /\ ~backend.on
  /\ pending' = [pending EXCEPT
       !.asked = @ \/ (status.required /\ ~pending.deferred)]
  /\ LoopGoes("look")
  /\ UNCHANGED <<mode, backend, tracker, events, handler, status, work, tree, left, control>>

MayStart == AtTop /\ Wanted /\ ~backend.on /\ ~backend.retry

\* started: whatever happened before is unknown, so a full scan is due
EnsureStart ==
  /\ MayStart
  /\ backend' = [backend EXCEPT !.on = TRUE, !.running = TRUE]
  /\ tracker' = ForceFull([tracker EXCEPT !.on = TRUE])
  /\ pending' = [pending EXCEPT !.deferred = FALSE]
  /\ status' = [status EXCEPT !.required = TRUE]
  /\ tree' = [Invalidated(tree) EXCEPT !.unseen = {}]
  /\ LoopGoes("look")
  /\ UNCHANGED <<mode, events, handler, work, left, control>>

\* start() raises
EnsureFails ==
  /\ MayStart /\ Fault
  /\ backend' = [backend EXCEPT !.retry = TRUE]
  /\ tracker' = IF tracker.on THEN tracker
                ELSE Restore([tracker EXCEPT !.on = TRUE], {}, status.required)
  /\ pending' = [pending EXCEPT !.asked = TRUE]
  /\ status' = [status EXCEPT !.required = TRUE]
  /\ tree' = Invalidated(tree)
  /\ LoopGoes("look")
  /\ UNCHANGED <<mode, events, handler, work, control>>

\* start() returns, having given up: stopped again at once
EnsureDegrades ==
  /\ MayStart /\ Fault
  /\ backend' = [backend EXCEPT !.retry = TRUE, !.fallback = @ \/ mode = "auto"]
  /\ tracker' = ForceFull([tracker EXCEPT !.on = TRUE])
  /\ status' = [status EXCEPT !.required = TRUE]
  /\ pending' = [asked |-> TRUE, deferred |-> FALSE]
  /\ tree' = Invalidated(tree)
  /\ LoopGoes("look")
  /\ UNCHANGED <<mode, events, handler, work, control>>

-----------------------------------------------------------------------------
(* The session loop: what to run.                                          *)

FullWork == [NoWork EXCEPT !.kind = "full", !.at = "begin"]
FullDirty == Ready(tracker) /\ ~pending.deferred /\ tracker.full
LocalDirty == Ready(tracker) /\ ~pending.deferred /\ ~tracker.full

\* escalated paths, then a requested reconciliation, then dirty paths, then
\* the schedule; otherwise the loop waits
Choose ==
  /\ session.at = "look"
  /\ IF FullDirty THEN work' = FullWork /\ LoopGoes("run") /\ UNCHANGED pending
     ELSE IF pending.asked
     THEN /\ pending' = [pending EXCEPT !.asked = FALSE]
          /\ work' = FullWork /\ LoopGoes("run")
     ELSE IF LocalDirty THEN LoopGoes("pop") /\ UNCHANGED <<work, pending>>
     ELSE IF status.due
     THEN work' = FullWork /\ LoopGoes("run") /\ UNCHANGED pending
     ELSE LoopGoes("loop") /\ UNCHANGED <<work, pending>>
  /\ UNCHANGED <<mode, backend, tracker, events, handler, status, tree, left, control>>

\* pop_ready: the batch is what the tracker holds now, not what was looked at
Pop ==
  /\ session.at = "pop"
  /\ IF Ready(tracker)
     THEN /\ work' = [NoWork EXCEPT !.kind = "local", !.at = "scan",
                       !.paths = tracker.paths, !.full = tracker.full]
          /\ tracker' = Drain(tracker)
          /\ LoopGoes("run")
     ELSE LoopGoes("loop") /\ UNCHANGED <<work, tracker>>
  /\ UNCHANGED <<mode, backend, events, handler, status, pending, tree, left, control>>

WorkAt(kind, here) == work.kind = kind /\ work.at = here
WorkGoes(there) == work' = [work EXCEPT !.at = there]
WorkReturns == work' = NoWork /\ LoopGoes("loop")

\* an exception no handler catches: the session loop is left
WorkBreaks ==
  /\ work.at \in {"scan", "read"} /\ Fault
  /\ work' = NoWork /\ LoopGoes("exit")
  /\ UNCHANGED <<mode, backend, tracker, events, handler, status, pending, tree, control>>

-----------------------------------------------------------------------------
(* _execute_definition: a full scan.                                       *)

\* the drain, and the status section that pushes the due time
FullDrain ==
  /\ WorkAt("full", "begin")
  /\ work' = [work EXCEPT !.at = "scan", !.paths = tracker.paths, !.full = tracker.full]
  /\ tracker' = Drain(tracker)
  /\ status' = [status EXCEPT !.due = FALSE]
  /\ UNCHANGED <<mode, backend, events, handler, pending, session, tree, left, control>>

Restored == IF work.paths = {} THEN tracker ELSE Restore(tracker, work.paths, work.full)

\* create_run refuses: the batch goes back, retries wait
FullRefused ==
  /\ WorkAt("full", "scan") /\ Fault
  /\ FailureMarked(Restored)
  /\ pending' = [pending EXCEPT !.deferred = TRUE]
  /\ WorkReturns
  /\ UNCHANGED <<mode, backend, events, handler, control>>

FullRead ==
  /\ WorkAt("full", "scan")
  /\ work' = [work EXCEPT !.at = "read", !.read = Dirs]
  /\ UNCHANGED <<mode, backend, tracker, events, handler, status, pending, session,
                 tree, left, control>>

\* the scan fails, or is cancelled by the stop of the session: the batch goes
\* back, retries wait
FullFails ==
  /\ work.kind = "full" /\ work.at \in {"scan", "read"}
  /\ \/ session.stop /\ WorkGoes("stopped") /\ UNCHANGED left
     \/ WorkGoes("failing") /\ Fault
  /\ tracker' = Restored
  /\ pending' = [pending EXCEPT !.deferred = TRUE]
  /\ UNCHANGED <<mode, backend, events, handler, status, session, tree, control>>

FullFailed ==
  /\ WorkAt("full", "failing")
  /\ FailureMarked(tracker)
  /\ WorkReturns
  /\ UNCHANGED <<mode, backend, events, handler, pending, left, control>>

FullStopped ==
  /\ WorkAt("full", "stopped")
  /\ WorkReturns
  /\ UNCHANGED <<mode, backend, tracker, events, handler, status, pending, tree, left, control>>

\* save_run advances the canonical baseline, or the repository refuses it
FullSaves ==
  /\ WorkAt("full", "read")
  /\ tree' = [tree EXCEPT !.stale = @ \ work.read, !.overlaid = @ \ work.read,
                          !.based = TRUE]
  /\ WorkGoes("saved")
  /\ UNCHANGED <<mode, backend, tracker, events, handler, status, pending, session,
                 left, control>>

FullUnsaved ==
  /\ WorkAt("full", "read") /\ Fault
  /\ WorkGoes("unsaved")
  /\ UNCHANGED <<mode, backend, tracker, events, handler, status, pending, session,
                 tree, control>>

\* mutant: what came in during the scan is drained with the rest
FullDoneDrains ==
  /\ work.kind = "full" /\ work.at \in {"saved", "unsaved"}
  /\ tracker' = Drain(tracker)
  /\ status' = [status EXCEPT !.required = tracker.full]
  /\ pending' = [pending EXCEPT !.deferred = FALSE]
  /\ tree' = [Invalidated(tree) EXCEPT !.dropped = work.at = "unsaved"]
  /\ WorkReturns
  /\ UNCHANGED <<mode, backend, events, handler, left, control>>

\* _finish_full_reconciliation_status: what the tracker holds by then is all
\* that remains; the scan counts as done even if nothing was saved
FullDone ==
  /\ work.kind = "full" /\ work.at \in {"saved", "unsaved"}
  /\ status' = [status EXCEPT !.required = tracker.full]
  /\ pending' = [pending EXCEPT !.deferred = FALSE]
  /\ tree' = [Invalidated(tree) EXCEPT !.dropped = work.at = "unsaved"]
  /\ WorkReturns
  /\ UNCHANGED <<mode, backend, tracker, events, handler, left, control>>

-----------------------------------------------------------------------------
(* _execute_local_reconciliation: the dirty subtrees, into the overlay.    *)

\* no baseline, or a policy that only a full scan can honour
LocalBlocked ==
  /\ WorkAt("local", "scan")
  /\ FailureMarked(Restore(tracker, work.paths, TRUE))
  /\ WorkReturns
  /\ UNCHANGED <<mode, backend, events, handler, pending, left, control>>

LocalRead ==
  /\ WorkAt("local", "scan") /\ tree.based
  /\ work' = [work EXCEPT !.at = "read", !.read = UNION {Under[d] : d \in work.paths}]
  /\ UNCHANGED <<mode, backend, tracker, events, handler, status, pending, session,
                 tree, left, control>>

\* a path fails, is partial, or is cancelled
LocalFails ==
  /\ work.kind = "local" /\ work.at \in {"scan", "read"} /\ tree.based
  /\ (session.stop /\ UNCHANGED left) \/ Fault
  /\ WorkGoes("failing")
  /\ UNCHANGED <<mode, backend, tracker, events, handler, status, pending, session,
                 tree, control>>

\* the tracker is looked at: an escalation since makes the batch a failure, as
\* does an overlay grown past its limit
LocalLooks ==
  /\ WorkAt("local", "read")
  /\ \/ ~tracker.full /\ WorkGoes("apply")
     \/ WorkGoes("failing")
  /\ UNCHANGED <<mode, backend, tracker, events, handler, status, pending, session,
                 tree, left, control>>

LocalApplies ==
  /\ WorkAt("local", "apply")
  /\ tree' = [tree EXCEPT !.overlaid = @ \cup (tree.stale \cap work.read),
                          !.stale = @ \ work.read]
  /\ status' = [status EXCEPT !.required = FALSE]
  /\ WorkReturns
  /\ UNCHANGED <<mode, backend, tracker, events, handler, pending, left, control>>

LocalFailed ==
  /\ WorkAt("local", "failing")
  /\ FailureMarked(Restore(tracker, work.paths, TRUE))
  /\ WorkReturns
  /\ UNCHANGED <<mode, backend, events, handler, pending, left, control>>

-----------------------------------------------------------------------------
(* The session loop: its end.                                              *)

\* the stop flag is seen; stop_session does the releasing
LoopEnds ==
  /\ session.at = "loop" /\ session.stop
  /\ LoopGoes("off")
  /\ UNCHANGED <<mode, backend, tracker, events, handler, status, pending, work,
                 tree, left, control>>

\* after an exception the finally clause does it
LoopExit ==
  /\ session.at = "exit" /\ handler.at = "idle"
  /\ backend' = [backend EXCEPT !.on = FALSE, !.running = FALSE]
  /\ events' = {}
  /\ StopSection(FALSE)
  /\ LoopGoes("off")
  /\ UNCHANGED <<mode, handler, work, left, control>>

-----------------------------------------------------------------------------
(* The backend's thread.                                                   *)

\* record, under the tracker's lock; an error may mean falling back
Deliver ==
  /\ handler.at = "idle" /\ backend.on
  /\ \E e \in events :
       /\ events' = events \ {e}
       /\ tracker' = IF e \in Dirs THEN Record(tracker, e) ELSE RecordLoss(tracker)
       /\ handler' \in
            [at : IF e # "error" THEN {"status"}
                  ELSE IF mode = "auto" THEN {"fall"} ELSE {"status", "fall"},
             full : {tracker'.full}, severe : {e \notin Dirs}]
  /\ UNCHANGED <<mode, backend, status, pending, session, work, tree, left, control>>

\* the status section, if the backend is still registered; a row that is
\* merely dirty may wait for the next write
HandleStatus ==
  /\ handler.at = "status"
  /\ handler' = [handler EXCEPT !.at = "idle"]
  /\ IF backend.on
     THEN /\ pending' = [pending EXCEPT !.deferred = @ /\ ~handler.severe]
          /\ tree' = IF ~handler.severe THEN tree
                     ELSE [Invalidated(tree) EXCEPT
                             !.dropped = @ \/ (tree.overlaid # {} /\ ~tracker.full)]
          /\ status' \in {[status EXCEPT !.required = @ \/ handler.full]}
                         \cup (IF handler.severe THEN {} ELSE {status})
     ELSE UNCHANGED <<status, pending, tree>>
  /\ UNCHANGED <<mode, backend, tracker, events, session, work, left, control>>

\* falling back: the decision and the end of the backend, then the section
HandleFall ==
  /\ handler.at = "fall"
  /\ handler' = [handler EXCEPT !.at = "fell"]
  /\ backend' = [on |-> FALSE, running |-> FALSE, retry |-> TRUE,
                 fallback |-> backend.fallback \/ mode = "auto"]
  /\ events' = {}
  /\ UNCHANGED <<mode, tracker, status, pending, session, work, tree, left, control>>

HandleFell ==
  /\ handler.at = "fell"
  /\ handler' = [handler EXCEPT !.at = "idle"]
  /\ StopSection(~session.stop)
  /\ UNCHANGED <<mode, backend, events, session, work, left, control>>

-----------------------------------------------------------------------------
(* The control thread and the heartbeat.                                   *)

\* stop_session, a lease found lost, or a switch to periodic mode: each ends
\* with the backend popped, its thread joined, and the section
ControlBegins(what) ==
  /\ control = "idle" /\ Fault
  /\ control' = what

stop_session ==
  /\ ControlBegins("stop")
  /\ session.at # "off" \/ ~session.stop
  /\ session' = [session EXCEPT !.stop = TRUE]
  /\ UNCHANGED <<mode, backend, tracker, events, handler, status, pending, work, tree>>

LeaseLost ==
  /\ ControlBegins("lost")
  /\ Served
  /\ UNCHANGED <<mode, backend, tracker, events, handler, status, pending, session,
                 work, tree>>

set_event_mode ==
  /\ ControlBegins("mode")
  /\ mode' = "periodic"
  /\ backend' = [backend EXCEPT !.fallback = FALSE]
  /\ UNCHANGED <<tracker, events, handler, status, pending, session, work, tree>>

ControlPops ==
  /\ control \in {"stop", "lost", "mode"}
  /\ backend' = [backend EXCEPT !.on = FALSE, !.running = FALSE]
  /\ events' = {}
  /\ control' = [stop |-> "stopped", lost |-> "loses", mode |-> "moded"][control]
  /\ UNCHANGED <<mode, tracker, handler, status, pending, session, work, tree, left>>

ControlSection ==
  /\ control \in {"stopped", "loses", "moded"} /\ handler.at = "idle"
  /\ StopSection(control = "moded" /\ ~session.stop)
  /\ control' = IF control = "stopped" THEN "clear" ELSE "idle"
  /\ UNCHANGED <<mode, backend, events, handler, session, work, left>>

\* the requests queued for a stopped session are dropped
ControlClears ==
  /\ control = "clear"
  /\ pending' = [pending EXCEPT !.asked = FALSE]
  /\ control' = "idle"
  /\ UNCHANGED <<mode, backend, tracker, events, handler, status, session, work, tree,
                 left>>

start_session ==
  /\ control = "idle" /\ session.at = "off" /\ session.stop
  /\ session' = [at |-> "loop", stop |-> FALSE]
  /\ pending' = [pending EXCEPT !.asked = FALSE]
  /\ backend' = [backend EXCEPT !.fallback = FALSE]
  /\ UNCHANGED <<mode, tracker, events, handler, status, work, tree, left, control>>

\* reconcile_monitor, where a session will serve it
reconcile_monitor ==
  /\ Fault /\ Served
  /\ pending' = [asked |-> TRUE, deferred |-> FALSE]
  /\ status' = [status EXCEPT !.required = TRUE]
  /\ UNCHANGED <<mode, backend, tracker, events, handler, session, work, tree, control>>

-----------------------------------------------------------------------------
(* The tree and the operating system.                                      *)

Watched == backend.on /\ backend.running

Change(d) ==
  /\ left.changes > 0 /\ left' = [left EXCEPT !.changes = @ - 1]
  /\ tree' = [tree EXCEPT !.stale = @ \cup {d}, !.overlaid = @ \ {d},
                          !.unseen = IF Watched THEN @ \ {d} ELSE @ \cup {d}]
  /\ work' = [work EXCEPT !.read = @ \ {d}]
  /\ events' = IF Watched THEN events \cup {d} ELSE events
  /\ UNCHANGED <<mode, backend, tracker, handler, status, pending, session, control>>

\* the kernel's queue overflows: what it held is lost
Overflow ==
  /\ Watched /\ events # {} /\ Fault
  /\ events' = {"overflow"}
  /\ UNCHANGED <<mode, backend, tracker, handler, status, pending, session, work, tree,
                 control>>

BackendDies ==
  /\ Watched /\ Fault
  /\ backend' = [backend EXCEPT !.running = FALSE]
  /\ events' = events \cup {"error"}
  /\ UNCHANGED <<mode, tracker, handler, status, pending, session, work, tree, control>>

\* time: a debounce window or a retry delay elapses
Elapse ==
  /\ \/ tracker.hot /\ tracker' = [tracker EXCEPT !.hot = FALSE]
        /\ UNCHANGED <<backend, pending>>
     \/ pending.deferred /\ pending' = [pending EXCEPT !.deferred = FALSE]
        /\ UNCHANGED <<backend, tracker>>
     \/ backend.retry /\ backend' = [backend EXCEPT !.retry = FALSE]
        /\ UNCHANGED <<tracker, pending>>
  /\ UNCHANGED <<mode, events, handler, status, session, work, tree, left, control>>

\* the interval elapses
FallsDue ==
  /\ ~status.due
  /\ status' = [status EXCEPT !.due = TRUE]
  /\ UNCHANGED <<mode, backend, tracker, events, handler, pending, session, work, tree,
                 left, control>>

\* steps of each thread; a failure among them is a Fault and bounded
SessionAdvances ==
  \/ EnsureSkip \/ EnsureStop \/ EnsurePeriodic \/ EnsureStart
  \/ Choose \/ Pop \/ LoopEnds \/ LoopExit
  \/ FullDrain \/ FullRead \/ FullFailed \/ FullStopped \/ FullSaves \/ FullDone
  \/ LocalRead \/ LocalBlocked \/ LocalLooks \/ LocalApplies \/ LocalFailed
SessionErrs ==
  \/ EnsureFails \/ EnsureDegrades \/ WorkBreaks
  \/ FullRefused \/ FullFails \/ FullUnsaved \/ LocalFails
HandlerAdvances == Deliver \/ HandleStatus \/ HandleFall \/ HandleFell
ControlAdvances == ControlPops \/ ControlSection \/ ControlClears
Requested ==
  \/ stop_session \/ start_session \/ LeaseLost \/ set_event_mode
  \/ reconcile_monitor

WatchNext ==
  \/ SessionAdvances \/ SessionErrs \/ HandlerAdvances
  \/ ControlAdvances \/ Requested
  \/ Overflow \/ BackendDies \/ Elapse \/ FallsDue
  \/ \E d \in Writable : Change(d)

-----------------------------------------------------------------------------
(* Properties.                                                             *)

Covers(paths, d) == \E p \in paths : d \in Under[p]

\* a reconciliation in progress that has read d, will read it, or gives the
\* batch that names it back
BeingDone(d) ==
  \/ d \in work.read
  \/ work.kind = "full" /\ work.at \in {"begin", "scan"}
  \/ work.kind = "local" /\ work.at \in {"scan", "failing"} /\ Covers(work.paths, d)

\* a section still to come that forces a full scan
FullToCome ==
  \/ control \in {"stopped", "loses", "moded"}
  \/ handler.at \in {"fall", "fell"} \/ session.at = "exit"

(* Whatever fails, is cancelled, overflows or is stopped, and whichever    *)
(* thread comes first: a change seen by a running backend that neither the *)
(* last snapshot nor the overlay shows is on its way to one.  It is still  *)
(* among the undelivered events, dirty, being read, or a full              *)
(* reconciliation is required, asked for or about to be.  Dirty paths are  *)
(* drained before the rescan (_drain_monitor_dirty), so every exit of a run *)
(* has to put them back.  The exceptions, "dropped", are two: a full *)
(* scan that could not be saved clears the requirement all the same        *)
(* (_finish_full_reconciliation_status), and the status section of a       *)
(* severe event that comes after the scan it asked for throws away the     *)
(* overlay without a full scan to follow (_handle_filesystem_event).       *)
NothingForgotten ==
  \A d \in tree.stale \ tree.unseen :
     \/ events \cap {d, "overflow", "error"} # {}
     \/ Covers(tracker.paths, d) \/ BeingDone(d)
     \/ status.required \/ pending.asked \/ FullToCome
     \/ tree.dropped

Behind == tree.stale \ tree.unseen # {}

(* While a session serves the monitor, changes its backend saw are in the  *)
(* end shown, without waiting for the schedule: retries that are deferred, *)
(* a backend that fell back and requests that came in between do not leave *)
(* them behind.  The exceptions are those of NothingForgotten.             *)
ChangesAreCaughtUp ==
  Behind /\ Served ~> ~Behind \/ ~Served \/ tree.dropped
=============================================================================
