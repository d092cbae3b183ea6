--------------------------- MODULE TransientWatch ---------------------------
(***************************************************************************)
(* Watching a tree without a saved monitor (watch_transient in             *)
(* services/monitor.py): one thread that scans the whole tree every        *)
(* interval, and what events made dirty in between.  It uses the tracker   *)
(* of MonitorWatch and its variables, but nothing else of it: no row of    *)
(* status, no requests, no overlay, no deferred retries.  A scan of dirty  *)
(* directories only reads them, so here "stale" is what no scan has read   *)
(* since it changed.                                                       *)
(***************************************************************************)
EXTENDS MonitorWatch

sideVars == <<mode, handler, status, pending, control>>

TransientInit == mode = "auto"

\* the backend starts, or watching goes on without one: nothing to model then
TransientStarts ==
  /\ session.at = "loop" /\ ~tracker.on
  /\ backend' = [backend EXCEPT !.on = TRUE, !.running = TRUE]
  /\ tracker' = [tracker EXCEPT !.on = TRUE]
  /\ UNCHANGED <<sideVars, events, session, work, tree, left>>

\* _handle_transient_event; a backend that died is not missed
TransientHears ==
  /\ backend.on
  /\ \E e \in events :
       /\ events' = events \ {e}
       /\ tracker' = IF e \in Dirs THEN Record(tracker, e) ELSE RecordLoss(tracker)
  /\ UNCHANGED <<sideVars, backend, session, work, tree, left>>

AtTransientTop == session.at = "loop" /\ tracker.on /\ ~session.stop

\* a scan of everything, with what is dirty now
TransientScans ==
  /\ work' = [FullWork EXCEPT !.at = "scan", !.paths = tracker.paths,
                              !.full = tracker.full]
  /\ tracker' = Drain(tracker)
  /\ LoopGoes("run")

TransientDue ==
  /\ AtTransientTop /\ status.due
  /\ TransientScans
  /\ status' = [status EXCEPT !.due = FALSE]
  /\ UNCHANGED <<mode, backend, events, handler, pending, control, tree, left>>

TransientLooks ==
  /\ AtTransientTop /\ ~status.due /\ Ready(tracker)
  /\ IF tracker.full THEN TransientScans
     ELSE LoopGoes("pop") /\ UNCHANGED <<work, tracker>>
  /\ UNCHANGED <<sideVars, backend, events, tree, left>>

TransientRuns == session.at = "run" /\ work.at = "scan"

TransientReads ==
  /\ TransientRuns
  /\ work' = [work EXCEPT !.at = "read",
                !.read = IF work.kind = "full" THEN Dirs
                         ELSE UNION {Under[d] : d \in work.paths}]
  /\ UNCHANGED <<sideVars, backend, tracker, events, session, tree, left>>

TransientSucceeds ==
  /\ session.at = "run" /\ work.at = "read"
  /\ tree' = [tree EXCEPT !.stale = @ \ work.read]
  /\ WorkReturns
  /\ UNCHANGED <<sideVars, backend, tracker, events, left>>

\* mutant: what was drained is gone
TransientGivesNothing == tracker

\* the batch goes back, and whole if one of its directories failed; it is ready
\* again at once
TransientGivesBack ==
  IF work.kind = "full" THEN Restored ELSE Restore(tracker, work.paths, TRUE)

TransientFails ==
  /\ session.at = "run"
  /\ (session.stop /\ UNCHANGED left) \/ Fault
  /\ tracker' = TransientGivesBack
  /\ WorkReturns
  /\ UNCHANGED <<sideVars, backend, events, tree>>

\* the stop event, seen between scans; the backend is stopped on the way out,
\* and the tracker is gone with the loop
TransientStopped ==
  /\ Fault /\ ~session.stop
  /\ session' = [session EXCEPT !.stop = TRUE]
  /\ UNCHANGED <<sideVars, backend, tracker, events, work, tree>>

TransientEnds ==
  /\ session.at = "loop" /\ session.stop
  /\ LoopGoes("off")
  /\ backend' = [backend EXCEPT !.on = FALSE, !.running = FALSE]
  /\ events' = {}
  /\ tree' = [tree EXCEPT !.unseen = Dirs]
  /\ UNCHANGED <<sideVars, tracker, work, left>>

\* Pop is pop_ready, as in a session
TransientAdvances ==
  \/ TransientStarts \/ TransientDue \/ TransientLooks \/ Pop
  \/ TransientReads \/ TransientSucceeds \/ TransientEnds

TransientNext ==
  \/ TransientAdvances \/ TransientHears \/ TransientFails \/ TransientStopped
  \/ Overflow \/ BackendDies \/ Elapse \/ FallsDue
  \/ \E d \in Writable : Change(d)

(* What a backend saw while it watched is never forgotten by the loop, and *)
(* is read in the end: NothingForgotten and ChangesAreCaughtUp, of          *)
(* MonitorWatch.                                                           *)
=============================================================================
