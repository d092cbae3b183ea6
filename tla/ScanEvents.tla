----------------------------- MODULE ScanEvents -----------------------------
(***************************************************************************)
(* services/scan.py, _RunEmitter: the bounded mailbox between the thread   *)
(* that drives one scan run and the dispatcher thread that calls the run's *)
(* event consumers; the order in which _execute_active() fills it; and     *)
(* replay_scan_events() of services/scan_consumers.py, the contract a      *)
(* delivered journal has to meet.                                          *)
(*                                                                         *)
(* Pending reports coalesce: a new one is merged into the last pending     *)
(* report of its type unless an event that must keep its place (a barrier) *)
(* was queued since.  Reports are abstracted to what merging can get wrong:*)
(* counts, which add up, and snapshots, which replace one another and are  *)
(* numbered here.  A barrier carries, as history, what had been emitted    *)
(* when it was; `known` is what a consumer that heard the journal knows.   *)
(***************************************************************************)
EXTENDS Naturals, Sequences, FiniteSets, FiniteSetsExt, SequencesExt

CONSTANTS
  Capacity,      \* event_queue_capacity
  Consumers,     \* the run has consumers 1..Consumers
  Faulty,        \* those of them that may raise
  MaxPositions,  \* bound: ScanQueued events before the run is served
  MaxReports,    \* bound: on_progress() calls
  MaxFrames,     \* bound: on_tree() calls
  MaxErrors,     \* bound: unreadable nodes in the finished tree
  Interruptible  \* whether the run is on the main thread, where Ctrl-C lands

ASSUME EventsAssumption ==
  /\ Capacity \in Nat \ {0}
  /\ {Consumers, MaxPositions, MaxReports, MaxFrames, MaxErrors} \subseteq Nat
  /\ Faulty \subseteq 1..Consumers
  /\ Interruptible \in BOOLEAN

VARIABLES
  runAt,          \* where the run's thread is
  phase,       \* ScanRun.phase
  status,      \* ScanRun.status
  todo,        \* the events the current callback still has to emit
  positions, reports, frames,   \* how many of each there have been
  emitted,     \* history: what the run's thread has reported so far
  interrupted, \* whether a KeyboardInterrupt has been raised
  queue,       \* _RunEmitter._queue
  terminalQueued, closing,      \* the flags of the same names
  asleep,      \* threads inside _condition.wait()
  batch,       \* the events the dispatcher took and has not finished with
  journal,     \* the events in delivery order; the index is the sequence
  known,       \* history: the totals of the events delivered so far
  heard,       \* heard[c]: how many events consumer c was called with
  disabled,    \* _disabled
  ended        \* whether the dispatch loop has returned

runVars  == <<runAt, phase, status, todo, positions, reports, frames, interrupted>>
boxVars  == <<queue, terminalQueued, closing, asleep, emitted>>
dispVars == <<batch, journal, known, heard, disabled, ended>>
eventVars == <<runVars, boxVars, dispVars>>

Terminals == {"ScanCompleted", "ScanCancelled", "ScanFailed"}
Barriers  == {"ScanStarted", "ScanPhaseChanged", "AccessError"} \cup Terminals
Counts    == {"DirectoryQueued", "DirectoryCompleted"}
Snapshots == {"ScanProgressUpdated", "LiveTree"}
Coalescing == Counts \cup Snapshots
\* LiveTree and FinalTree are NodeAggregateUpdated with final False and True.
EventTypes == Barriers \cup Coalescing \cup {"ScanQueued", "FinalTree"}

Phases == {"validating", "discovering", "scanning", "finalizing", "finished"}
Stages == {"waiting", "starting", "walking", "concluding", "turnedAway", "posting", "posted",
           "leaving", "joining", "closed"}

Event == [type : EventTypes, n : Nat, mark : [Coalescing -> Nat]]

EventsTypeOK ==
  /\ runAt \in Stages /\ phase \in Phases
  /\ status \in {"pending", "running", "completed", "cancelled", "failed"}
  /\ positions \in 0..MaxPositions /\ reports \in 0..MaxReports
  /\ frames \in 0..MaxFrames
  /\ {queue, batch, journal, todo} \subseteq Seq(Event)
  /\ Len(queue) <= Capacity
  /\ {emitted, known} \subseteq [Coalescing -> Nat]
  /\ asleep \subseteq {"run", "dispatcher"}
  /\ heard \in [1..Consumers -> Nat] /\ disabled \subseteq 1..Consumers
  /\ {interrupted, terminalQueued, closing, ended} \subseteq BOOLEAN

NothingYet == [t \in Coalescing |-> 0]
Make(type, n) == [type |-> type, n |-> n, mark |-> NothingYet]

\* a bound may have been used up in part before
EventsInit ==
  /\ runAt = "waiting" /\ phase = "validating" /\ status = "pending"
  /\ todo = <<>> /\ positions \in 0..MaxPositions /\ reports \in 0..MaxReports
  /\ frames \in 0..MaxFrames
  /\ emitted = NothingYet /\ interrupted = FALSE
  /\ queue = <<>> /\ terminalQueued = FALSE /\ closing = FALSE /\ asleep = {}
  /\ batch = <<>> /\ journal = <<>> /\ known = NothingYet
  /\ heard = [c \in 1..Consumers |-> 0] /\ disabled = {} /\ ended = FALSE

-----------------------------------------------------------------------------
(* emit(), with the condition's lock held.                                 *)

\* What the totals become when event e is reported.
After(totals, e) ==
  IF e.type \in Counts THEN [totals EXCEPT ![e.type] = @ + e.n]
  ELSE IF e.type \in Snapshots THEN [totals EXCEPT ![e.type] = e.n]
  ELSE totals

\* Mutant: barriers do not stop the search.
TwinsAnywhere(e) ==
  {i \in DOMAIN queue : e.type \in Coalescing /\ queue[i].type = e.type}

\* Pending events e may be merged into: of its type, no barrier after them.
Twins(e) ==
  {i \in DOMAIN queue :
     /\ e.type \in Coalescing /\ queue[i].type = e.type
     /\ \A j \in i..Len(queue) : queue[j].type \notin Barriers}

Merge(i, e) ==
  [queue EXCEPT ![i].n = IF e.type \in Counts THEN @ + e.n ELSE e.n]

\* Mutant: off by one at the limit.
RoomForOneMore == Len(queue) <= Capacity

Room == Len(queue) < Capacity

Append1(e) ==
  /\ Room
  /\ queue' = Append(queue, [e EXCEPT !.mark = IF e.type \in Barriers
                                               THEN emitted ELSE NothingYet])
  /\ asleep' = {}

\* The next event of the callback is merged, queued, or waits for room.
Emit ==
  /\ todo # <<>> /\ "run" \notin asleep
  /\ LET e == Head(todo)
     IN  \/ /\ Twins(e) # {}
            /\ queue' = Merge(Max(Twins(e)), e)
            /\ emitted' = After(emitted, e)
            /\ todo' = Tail(todo)
            /\ UNCHANGED asleep
         \/ /\ Twins(e) = {}
            /\ Append1(e)
            /\ emitted' = After(emitted, e)
            /\ todo' = Tail(todo)
         \/ /\ Twins(e) = {} /\ ~Room
            /\ asleep' = asleep \cup {"run"}
            /\ UNCHANGED <<queue, emitted, todo>>
  /\ UNCHANGED <<runAt, phase, status, positions, reports, frames, interrupted,
                 terminalQueued, closing, dispVars>>

-----------------------------------------------------------------------------
(* The run's thread: what it reports, in the order it does.                *)

Idle(place) == runAt = place /\ todo = <<>>

\* ScanQueued for each place in the resource queue.
Position ==
  /\ Idle("waiting") /\ positions < MaxPositions
  /\ positions' = positions + 1
  /\ todo' = <<Make("ScanQueued", 0)>>
  /\ UNCHANGED <<runAt, phase, status, reports, frames, interrupted, boxVars, dispVars>>

\* Every way a run ends writes status and phase, then emits its terminal.
Finish(outcome, place) ==
  /\ status' = outcome /\ phase' = "finished" /\ runAt' = place
  /\ todo' = <<>>

TurnAway ==
  /\ Idle("waiting")
  /\ Finish("cancelled", "turnedAway")
  /\ UNCHANGED <<positions, reports, frames, interrupted, boxVars, dispVars>>

Begin ==
  /\ Idle("waiting")
  /\ runAt' = "starting" /\ status' = "running" /\ phase' = "discovering"
  /\ todo' = <<Make("ScanStarted", 0), Make("DirectoryQueued", 1)>>
  /\ UNCHANGED <<positions, reports, frames, interrupted, boxVars, dispVars>>

\* Into the try block, where an interrupt is turned into a cancellation.
TryScan ==
  /\ Idle("starting")
  /\ runAt' = "walking"
  /\ UNCHANGED <<phase, status, todo, positions, reports, frames, interrupted,
                 boxVars, dispVars>>

PhaseChange(needed) ==
  IF needed THEN <<Make("ScanPhaseChanged", 0)>> ELSE <<>>

\* on_progress(): the first report of the walk promotes the phase; the deltas
\* against the previous report are sent after the report itself.
Report ==
  /\ Idle("walking") /\ reports < MaxReports
  /\ reports' = reports + 1
  /\ phase' = IF phase = "discovering" THEN "scanning" ELSE phase
  /\ \E queued, done \in 0..1 :
       todo' = PhaseChange(phase = "discovering")
               \o <<Make("ScanProgressUpdated", reports + 1)>>
               \o (IF queued > 0 THEN <<Make("DirectoryQueued", queued)>> ELSE <<>>)
               \o (IF done > 0 THEN <<Make("DirectoryCompleted", done)>> ELSE <<>>)
  /\ UNCHANGED <<runAt, status, positions, frames, interrupted, boxVars, dispVars>>

\* on_tree().
Frame ==
  /\ Idle("walking") /\ frames < MaxFrames
  /\ frames' = frames + 1
  /\ todo' = <<Make("LiveTree", frames + 1)>>
  /\ UNCHANGED <<runAt, phase, status, positions, reports, interrupted, boxVars, dispVars>>

\* enter_finalizing(), called back by the engine; the last report follows.
WalkComplete ==
  /\ Idle("walking") /\ phase # "finalizing"
  /\ phase' = "finalizing"
  /\ todo' = PhaseChange(TRUE)
  /\ UNCHANGED <<runAt, status, positions, reports, frames, interrupted, boxVars, dispVars>>

\* The walk was cancelled (before or after it started), or it raised.
Abort ==
  /\ Idle("walking")
  /\ \E outcome \in {"cancelled", "failed"} : Finish(outcome, "posting")
  /\ UNCHANGED <<positions, reports, frames, interrupted, boxVars, dispVars>>

\* The walk returned: enter_finalizing() if nobody did, the final tree, and
\* one AccessError per unreadable node.
Conclude ==
  /\ Idle("walking")
  /\ runAt' = "concluding" /\ phase' = "finalizing"
  /\ \E errors \in 0..MaxErrors :
       todo' = PhaseChange(phase # "finalizing") \o <<Make("FinalTree", 0)>>
               \o [i \in 1..errors |-> Make("AccessError", 0)]
  /\ UNCHANGED <<status, positions, reports, frames, interrupted, boxVars, dispVars>>

\* "partial" is left out: it differs from "completed" in the tree only.
End ==
  /\ Idle("concluding")
  /\ \E outcome \in {"completed", "failed"} : Finish(outcome, "posting")
  /\ UNCHANGED <<positions, reports, frames, interrupted, boxVars, dispVars>>

\* Mutant: an unreadable root is announced like a finished tree.
TerminalOfAny(outcome) ==
  IF outcome = "cancelled" THEN "ScanCancelled" ELSE "ScanCompleted"

TerminalOf(outcome) ==
  CASE outcome = "completed" -> "ScanCompleted"
    [] outcome = "cancelled" -> "ScanCancelled"
    [] outcome = "failed"    -> "ScanFailed"

\* emit() of the terminal: the flag goes up before the wait for room, and
\* nothing is emitted from then on.
PostTerminal ==
  /\ runAt \in {"turnedAway", "posting"} /\ "run" \notin asleep
  /\ terminalQueued' = TRUE
  /\ \/ /\ Append1(Make(TerminalOf(status), 0))
        /\ runAt' = IF runAt = "posting" THEN "posted" ELSE "leaving"
     \/ /\ ~Room
        /\ asleep' = asleep \cup {"run"}
        /\ UNCHANGED <<queue, runAt>>
  /\ UNCHANGED <<phase, status, todo, positions, reports, frames, interrupted,
                 closing, emitted, dispVars>>

\* The return out of the try block: no interrupt is turned into a
\* cancellation after it.
Return ==
  /\ runAt = "posted"
  /\ runAt' = "leaving"
  /\ UNCHANGED <<phase, status, todo, positions, reports, frames, interrupted,
                 boxVars, dispVars>>

\* KeyboardInterrupt inside the try block, also out of a wait for room: the
\* run becomes cancelled, and a second terminal is not emitted.
Interrupt ==
  /\ Interruptible /\ ~interrupted
  /\ runAt \in {"walking", "concluding", "posting", "posted"}
  /\ interrupted' = TRUE
  /\ Finish("cancelled", IF terminalQueued THEN "leaving" ELSE "posting")
  /\ asleep' = asleep \ {"run"}
  /\ UNCHANGED <<positions, reports, frames, queue, terminalQueued, closing,
                 emitted, dispVars>>

\* close(): raise the flag, wake the dispatcher, join it.
Close ==
  /\ runAt = "leaving"
  /\ runAt' = "joining" /\ closing' = TRUE /\ asleep' = {}
  /\ UNCHANGED <<phase, status, todo, positions, reports, frames, interrupted,
                 queue, terminalQueued, emitted, dispVars>>

Joined ==
  /\ runAt = "joining" /\ ended
  /\ runAt' = "closed"
  /\ UNCHANGED <<phase, status, todo, positions, reports, frames, interrupted,
                 boxVars, dispVars>>

-----------------------------------------------------------------------------
(* _dispatch_loop().                                                       *)

Ready == batch = <<>> /\ ~ended /\ "dispatcher" \notin asleep

\* Mutant: the batch is taken and nobody is told there is room again.
TakeBatchSilently ==
  /\ Ready /\ queue # <<>>
  /\ batch' = queue /\ queue' = <<>>
  /\ UNCHANGED <<runVars, terminalQueued, closing, emitted, asleep,
                 journal, known, heard, disabled, ended>>

TakeBatch ==
  /\ Ready /\ queue # <<>>
  /\ batch' = queue /\ queue' = <<>>
  /\ asleep' = {}
  /\ UNCHANGED <<runVars, terminalQueued, closing, emitted,
                 journal, known, heard, disabled, ended>>

AwaitEvents ==
  /\ Ready /\ queue = <<>> /\ ~closing
  /\ asleep' = asleep \cup {"dispatcher"}
  /\ UNCHANGED <<runVars, queue, terminalQueued, closing, emitted, dispVars>>

StopDispatch ==
  /\ Ready /\ queue = <<>> /\ closing
  /\ ended' = TRUE
  /\ UNCHANGED <<runVars, boxVars, batch, journal, known, heard, disabled>>

\* Mutant: the first consumer to raise ends the round of calls.
DeliverUntilRaise ==
  /\ batch # <<>>
  /\ batch' = Tail(batch)
  /\ journal' = Append(journal, Head(batch))
  /\ known' = After(known, Head(batch))
  /\ \E raising \in SUBSET (Faulty \ disabled) :
       /\ disabled' = disabled \cup raising
       /\ heard' = [c \in 1..Consumers |->
            IF c \in disabled \/ \E d \in raising : d < c THEN heard[c]
            ELSE heard[c] + 1]
  /\ UNCHANGED <<runVars, boxVars, ended>>

\* One event is numbered, here and not when it was queued, and every consumer
\* that has not raised before is called with it; any of them may raise now.
Deliver ==
  /\ batch # <<>>
  /\ batch' = Tail(batch)
  /\ journal' = Append(journal, Head(batch))
  /\ known' = After(known, Head(batch))
  /\ heard' = [c \in 1..Consumers |->
                 IF c \in disabled THEN heard[c] ELSE heard[c] + 1]
  /\ \E raising \in SUBSET (Faulty \ disabled) :
       disabled' = disabled \cup raising
  /\ UNCHANGED <<runVars, boxVars, ended>>

-----------------------------------------------------------------------------
RunStep ==
  \/ Emit \/ Position \/ TurnAway \/ Begin \/ TryScan \/ Report \/ Frame \/ WalkComplete
  \/ Abort \/ Conclude \/ End \/ PostTerminal \/ Return \/ Close \/ Joined

DispatchStep == TakeBatch \/ AwaitEvents \/ StopDispatch \/ Deliver

EventsNext == RunStep \/ Interrupt \/ DispatchStep

\* Both threads run; a walk ends and a consumer returns or raises.
EventsSpec == EventsInit /\ [][EventsNext]_eventVars /\ WF_eventVars(RunStep) /\ WF_eventVars(DispatchStep)

-----------------------------------------------------------------------------
(* Properties.                                                             *)

\* Coalescing is invisible at every event that keeps its place: whenever a
\* consumer is told of a phase change, an error or the end, it has by then been
\* told exactly what the run had reported when it emitted that event.
ExactAtBarriers ==
  journal # <<>> /\ Last(journal).type \in Barriers => known = Last(journal).mark

\* The contract of replay_scan_events() for the journal a consumer heard.
Replayable(j) ==
  j # <<>> =>
    /\ j[1].type \in {"ScanQueued", "ScanStarted", "ScanCancelled"}
    /\ \A i \in DOMAIN j : j[i].type \in Terminals <=> i = Len(j)

\* Every consumer that never raised ends up, once an uninterrupted run is
\* closed, with the whole journal, and replay accepts it: exactly one terminal
\* event, last.
ReplayAccepts ==
  runAt = "closed" /\ ~interrupted =>
    \A c \in 1..Consumers \ disabled :
      journal # <<>> /\ Replayable(SubSeq(journal, 1, heard[c]))

\* What docs/architecture.md says of every run: exactly one terminal event.
ExactlyOneTerminal ==
  runAt = "closed" => Cardinality({i \in DOMAIN journal : journal[i].type \in Terminals}) = 1

\* The terminal event consumers are told is the status the caller gets back.
TerminalMatchesStatus ==
  runAt = "closed" /\ ~interrupted =>
    <<Last(journal).type, status>> \in
      {<<"ScanCompleted", "completed">>, <<"ScanCancelled", "cancelled">>,
       <<"ScanFailed", "failed">>}

\* How a run ended is told once, last, and truly.
EndIsTold == ReplayAccepts /\ TerminalMatchesStatus

\* A full mailbox, a consumer that raises and a closing run never wait for
\* each other: every run that has reported something or moved on closes, with
\* everything delivered.
RunCloses ==
  todo # <<>> \/ runAt # "waiting" ~> runAt = "closed" /\ queue = <<>> /\ batch = <<>>
=============================================================================
