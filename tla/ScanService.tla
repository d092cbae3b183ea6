---------------------------- MODULE ScanService ----------------------------
(***************************************************************************)
(* services/scan.py: the life of scan runs from create_run() to the end of *)
(* execute(), the per-device resource queue in front of the walk, and      *)
(* cancellation from any other thread.                                     *)
(*                                                                         *)
(* Every run is driven by a thread of its own (an Explorer worker, the     *)
(* monitor's session loop), so a step of run r is a step of r's thread.    *)
(* The service lock makes each critical section one action; everything     *)
(* between two acquisitions of it is a separate action, because a canceller*)
(* can get in there.  Deques are mutable objects that several threads hold *)
(* references to, so they live in a heap (deque) and the table of queues   *)
(* and each waiter's local variable name one of them.                      *)
(***************************************************************************)
EXTENDS Naturals, Sequences, FiniteSets, Lines

CONSTANTS
  Runs,          \* ScanRun objects, one run id each
  Keys,          \* resource keys: one per filesystem device
  KeyOf,         \* the device each run's path is on
  MaxActive,     \* ScanResourcePolicy.max_active_runs
  Targets,       \* the runs that hosts cancel
  NoRun,
  NoDeque

ASSUME ScanAssumption ==
  /\ KeyOf \in [Runs -> Keys]
  /\ MaxActive \in Nat \ {0}
  /\ Targets \in SUBSET Runs
  /\ NoRun \notin Runs
  /\ NoDeque \notin Runs \X {"arrival", "withdrawal"}

VARIABLES
  pc,            \* pc[r]: where the thread of run r is
  status, phase, \* ScanRun.status and ScanRun.phase
  known,         \* _known_run_ids
  reasons,       \* the runs with an entry in _cancel_reasons
  active,        \* the runs with a collector in _active
  delivering,    \* runs whose canceller is about to call collector.cancel()
  stopped,       \* runs whose collector has been told to cancel
  promised,      \* history: cancelled in time, see CancelHonoured
  deque,         \* the contents of every deque object
  queueOf,       \* _resource_queues: the deque of a device
  mine,          \* mine[r]: the deque r's `queued` variable refers to
  asleep,        \* threads inside _resource_condition.wait()
  slots,         \* _resource_slots
  slotOf         \* ScanRun.resource_slot, 0 for None

queueVars  == <<deque, queueOf, mine>>
slotVars   == <<slots, slotOf>>
cancelVars == <<reasons, delivering, stopped, promised>>
runVars    == <<pc, status, phase>>
vars == <<runVars, known, active, cancelVars, queueVars, asleep, slotVars>>

\* A deque is named after the run whose thread built it and the call that did.
Deques == Runs \X {"arrival", "withdrawal"}
\* Mutant: a range that ends one too late.
SlotTooMany == 1..(MaxActive + 1)

Slot == 1..MaxActive

Statuses == {"pending", "running", "completed", "partial", "cancelled", "failed"}
Terminal == {"completed", "partial", "cancelled", "failed"}
Success  == {"completed", "partial"}
Phases   == {"validating", "discovering", "scanning", "finalizing", "finished"}
PhaseRank(p) ==
  CASE p = "validating" -> 0 [] p = "discovering" -> 1 [] p = "scanning" -> 2
    [] p = "finalizing" -> 3 [] p = "finished" -> 4

Unsubmitted == {"absent", "created"}
Slotless    == {"created", "submitted", "queued"}
Holding == {"slotted", "started", "building", "registered", "walking",
            "walked", "finalizing", "stopping", "leaving"}
Places  == Unsubmitted \cup Slotless \cup Holding
             \cup {"turnedAway", "retiring", "done"}

\* The deques are typed with what else is known of them, in QueueInv of the proofs.
TypeOK ==
  /\ pc \in [Runs -> Places]
  /\ status \in [Runs -> Statuses]
  /\ phase \in [Runs -> Phases]
  /\ known \in SUBSET Runs /\ reasons \in SUBSET Runs /\ active \in SUBSET Runs
  /\ delivering \in SUBSET Runs /\ stopped \in SUBSET Runs
  /\ promised \in SUBSET Runs
  /\ slots \in [Keys -> [Slot -> Runs \cup {NoRun}]]
  /\ slotOf \in [Runs -> 0..MaxActive]

Init ==
  /\ pc = [r \in Runs |-> "absent"]
  /\ status = [r \in Runs |-> "pending"]
  /\ phase = [r \in Runs |-> "validating"]
  /\ known = {} /\ reasons = {} /\ active = {}
  /\ delivering = {} /\ stopped = {} /\ promised = {}
  /\ deque = [d \in Deques |-> <<>>]
  /\ queueOf = [k \in Keys |-> NoDeque]
  /\ mine = [r \in Runs |-> NoDeque]
  /\ asleep = {}
  /\ slots = [k \in Keys |-> [s \in Slot |-> NoRun]]
  /\ slotOf = [r \in Runs |-> 0]

Goto(r, from, to) == pc[r] = from /\ pc' = [pc EXCEPT ![r] = to]

\* status and phase are written together by every way a run can end.
Finish(r, outcome) ==
  /\ status' = [status EXCEPT ![r] = outcome]
  /\ phase' = [phase EXCEPT ![r] = "finished"]

-----------------------------------------------------------------------------
(* create_run() and the head of execute().                                 *)

CreateRun(r) ==
  /\ Goto(r, "absent", "created")
  /\ known' = known \cup {r}
  /\ UNCHANGED <<status, phase, active, cancelVars, queueVars, asleep, slotVars>>

Submit(r) ==
  /\ Goto(r, "created", "submitted")
  /\ UNCHANGED <<status, phase, known, active, cancelVars, queueVars, asleep,
                 slotVars>>

-----------------------------------------------------------------------------
(* _acquire_resource_slot(): one pass of its loop under the condition.     *)
(* The pass sees the heap and the table as `heap` and `table`, which the   *)
(* first pass has just appended r to.                                      *)

\* Mutant: the slot after as many as are taken.
NextByCount(k, s) == s = 1 + Cardinality({t \in Slot : slots[k][t] # NoRun})

LowestFree(k, s) ==
  slots[k][s] = NoRun /\ \A lower \in 1..(s - 1) : slots[k][lower] # NoRun

\* A cancelled waiter takes itself out.  The survivors are copied into a new
\* deque, and it is the table's entry that changes, not the old object.
Withdraw(r, heap, table) ==
  LET k == KeyOf[r]
      rest == Without(heap[table[k]], r)
      copy == <<r, "withdrawal">>
  IN  /\ r \in reasons
      /\ pc' = [pc EXCEPT ![r] = "turnedAway"]
      /\ IF table[k] = NoDeque
         THEN deque' = heap /\ queueOf' = table
         ELSE IF rest = <<>>
         THEN deque' = heap /\ queueOf' = [table EXCEPT ![k] = NoDeque]
         ELSE /\ deque' = [heap EXCEPT ![copy] = rest]
              /\ queueOf' = [table EXCEPT ![k] = copy]
      /\ mine' = [mine EXCEPT ![r] = NoDeque]
      /\ asleep' = {}
      /\ UNCHANGED slotVars

\* Mutants: a waiter anywhere in the deque may go; the head goes but stays
\* listed.
AcquireAs(r, heap, table, d, rest) ==
  /\ r \notin reasons /\ heap[d] # <<>>
  /\ deque' = [heap EXCEPT ![d] = rest] /\ queueOf' = table
  /\ \E s \in Slot :
       /\ LowestFree(KeyOf[r], s)
       /\ slots' = [slots EXCEPT ![KeyOf[r]][s] = r]
       /\ slotOf' = [slotOf EXCEPT ![r] = s]
  /\ pc' = [pc EXCEPT ![r] = "slotted"]
  /\ mine' = [mine EXCEPT ![r] = NoDeque]
  /\ asleep' = {}
AcquireAny(r, heap, table, d) ==
  AcquireAs(r, heap, table, d, Without(heap[d], r))
AcquireKeeps(r, heap, table, d) ==
  heap[d] # <<>> /\ Head(heap[d]) = r /\ AcquireAs(r, heap, table, d, heap[d])

\* The head of the deque r holds takes the lowest free slot of its device.
Acquire(r, heap, table, d) ==
  LET k == KeyOf[r]
  IN  /\ r \notin reasons
      /\ heap[d] # <<>> /\ Head(heap[d]) = r
      /\ deque' = [heap EXCEPT ![d] = Tail(@)]
      /\ queueOf' = IF Tail(heap[d]) = <<>>
                    THEN [table EXCEPT ![k] = NoDeque] ELSE table
      /\ \E s \in Slot :
           /\ LowestFree(k, s)
           /\ slots' = [slots EXCEPT ![k][s] = r]
           /\ slotOf' = [slotOf EXCEPT ![r] = s]
      /\ pc' = [pc EXCEPT ![r] = "slotted"]
      /\ mine' = [mine EXCEPT ![r] = NoDeque]
      /\ asleep' = {}

WaitTurn(r, heap, table, d) ==
  /\ r \notin reasons
  /\ \/ heap[d] = <<>> \/ Head(heap[d]) # r
     \/ \A s \in Slot : slots[KeyOf[r]][s] # NoRun
  /\ deque' = heap /\ queueOf' = table
  /\ mine' = [mine EXCEPT ![r] = d]
  /\ pc' = [pc EXCEPT ![r] = "queued"]
  /\ asleep' = asleep \cup {r}
  /\ UNCHANGED slotVars

Pass(r, heap, table, d) ==
  /\ Withdraw(r, heap, table) \/ Acquire(r, heap, table, d)
                              \/ WaitTurn(r, heap, table, d)
  /\ UNCHANGED <<status, phase, known, active, cancelVars>>

\* First pass: join the device's deque, creating it if there is none.
Arrive(r) ==
  LET k == KeyOf[r]
      fresh == <<r, "arrival">>
      d == IF queueOf[k] = NoDeque THEN fresh ELSE queueOf[k]
  IN  /\ pc[r] = "submitted"
      /\ Pass(r, [deque EXCEPT ![d] = Append(@, r)],
              [queueOf EXCEPT ![k] = d], d)

\* Later passes, after a notify_all: the local variable still names the deque
\* of the first pass.
Wake(r) ==
  /\ pc[r] = "queued" /\ r \notin asleep
  /\ Pass(r, deque, queueOf, mine[r])

TurnAway(r) ==
  /\ Goto(r, "turnedAway", "retiring")
  /\ Finish(r, "cancelled")
  /\ UNCHANGED <<known, active, cancelVars, queueVars, asleep, slotVars>>

-----------------------------------------------------------------------------
(* _execute_active().                                                      *)

Start(r) ==
  /\ Goto(r, "slotted", "started")
  /\ status' = [status EXCEPT ![r] = "running"]
  /\ phase' = [phase EXCEPT ![r] = "discovering"]
  /\ UNCHANGED <<known, active, cancelVars, queueVars, asleep, slotVars>>

\* A cancellation that came before there was a collector to tell.
CheckBefore(r) ==
  /\ \/ /\ r \in reasons
        /\ Goto(r, "started", "stopping")
        /\ Finish(r, "cancelled")
     \/ /\ r \notin reasons
        /\ Goto(r, "started", "building")
        /\ UNCHANGED <<status, phase>>
  /\ UNCHANGED <<known, active, cancelVars, queueVars, asleep, slotVars>>

BuildFails(r) ==
  /\ Goto(r, "building", "stopping")
  /\ Finish(r, "failed")
  /\ UNCHANGED <<known, active, cancelVars, queueVars, asleep, slotVars>>

Register(r) ==
  /\ Goto(r, "building", "registered")
  /\ active' = active \cup {r}
  /\ UNCHANGED <<status, phase, known, cancelVars, queueVars, asleep, slotVars>>

\* Mutant: no second look.
CheckAfterSkipped(r) ==
  /\ Goto(r, "registered", "walking")
  /\ UNCHANGED <<status, phase, known, active, cancelVars, queueVars, asleep,
                 slotVars>>

\* The second look at the table: the cancellation that came while the
\* collector was being built and was not yet in _active.
CheckAfter(r) ==
  /\ \/ /\ r \in reasons
        /\ Goto(r, "registered", "stopping")
        /\ Finish(r, "cancelled")
        /\ stopped' = stopped \cup {r}
     \/ /\ r \notin reasons
        /\ Goto(r, "registered", "walking")
        /\ UNCHANGED <<status, phase, stopped>>
  /\ UNCHANGED <<known, active, reasons, delivering, promised, queueVars,
                 asleep, slotVars>>

\* Mutant: any report that is not already "scanning" promotes.
ProgressAlways(r) ==
  /\ pc[r] = "walking" /\ phase[r] # "scanning"
  /\ phase' = [phase EXCEPT ![r] = "scanning"]
  /\ UNCHANGED <<pc, status, known, active, cancelVars, queueVars, asleep, slotVars>>

\* on_progress(): the first report of the walk promotes the phase; the last
\* one comes from inside finalisation and must not.
Progress(r) ==
  /\ pc[r] = "walking"
  /\ phase[r] \in {"validating", "discovering"}
  /\ phase' = [phase EXCEPT ![r] = "scanning"]
  /\ UNCHANGED <<pc, status, known, active, cancelVars, queueVars, asleep, slotVars>>

\* enter_finalizing(), called back when the last directory has been read.
WalkComplete(r) ==
  /\ pc[r] = "walking"
  /\ phase' = [phase EXCEPT ![r] = "finalizing"]
  /\ UNCHANGED <<pc, status, known, active, cancelVars, queueVars, asleep, slotVars>>

ScanReturns(r) ==
  /\ Goto(r, "walking", "walked")
  /\ UNCHANGED <<status, phase, known, active, cancelVars, queueVars, asleep,
                 slotVars>>

ScanRaises(r) ==
  /\ Goto(r, "walking", "stopping")
  /\ Finish(r, "failed")
  /\ UNCHANGED <<known, active, cancelVars, queueVars, asleep, slotVars>>

\* Mutant: the returned tree is taken at face value.
CheckCancelledSkipped(r) ==
  /\ Goto(r, "walked", "finalizing")
  /\ phase' = [phase EXCEPT ![r] = "finalizing"]
  /\ UNCHANGED <<status, known, active, cancelVars, queueVars, asleep, slotVars>>

\* The last moment at which a cancellation still counts.
CheckCancelled(r) ==
  /\ \/ /\ r \in stopped
        /\ Goto(r, "walked", "stopping")
        /\ Finish(r, "cancelled")
     \/ /\ r \notin stopped
        /\ Goto(r, "walked", "finalizing")
        /\ phase' = [phase EXCEPT ![r] = "finalizing"]
        /\ UNCHANGED status
  /\ UNCHANGED <<known, active, cancelVars, queueVars, asleep, slotVars>>

\* Complete, complete with unreadable subtrees, or an unreadable root.
Conclude(r) ==
  /\ Goto(r, "finalizing", "stopping")
  /\ \E outcome \in {"completed", "partial", "failed"} : Finish(r, outcome)
  /\ UNCHANGED <<known, active, cancelVars, queueVars, asleep, slotVars>>

Unregister(r) ==
  /\ Goto(r, "stopping", "leaving")
  /\ active' = active \ {r}
  /\ UNCHANGED <<status, phase, known, cancelVars, queueVars, asleep, slotVars>>

\* Mutant: the table of another key is looked up, and nothing is freed.
ReleaseNothing(r) ==
  /\ Goto(r, "leaving", "retiring")
  /\ asleep' = {}
  /\ UNCHANGED <<status, phase, known, active, cancelVars, queueVars, slotVars>>

\* _release_resource_slot().  The run keeps the slot number it had.
Release(r) ==
  /\ Goto(r, "leaving", "retiring")
  /\ slots' = [slots EXCEPT ![KeyOf[r]][slotOf[r]] = NoRun]
  /\ asleep' = {}
  /\ UNCHANGED <<status, phase, known, active, cancelVars, queueVars, slotOf>>

\* The finally clause of execute(), once the event dispatcher has drained.
Retire(r) ==
  /\ Goto(r, "retiring", "done")
  /\ active' = active \ {r}
  /\ known' = known \ {r}
  /\ reasons' = reasons \ {r}
  /\ asleep' = {}
  /\ UNCHANGED <<status, phase, delivering, stopped, promised, queueVars, slotVars>>

-----------------------------------------------------------------------------
(* cancel() and cancel_all(), from any thread.  The collector is looked up *)
(* under the lock and told to stop after it is released.                   *)

\* Mutant: cancel() answers for any run id.
CancellableAnytime(r) == r \in Targets

Cancellable(r) == r \in Targets /\ (r \in known \/ r \in active)

\* Cancelled before there was a collector: the run must notice by itself.
Early(r) == pc[r] \in Slotless \cup {"slotted", "started", "building"}

RequestFor(targets) ==
  /\ reasons' = reasons \cup targets
  /\ delivering' = delivering \cup (targets \cap active)
  /\ promised' = promised \cup {r \in targets : Early(r)}
  /\ asleep' = {}
  /\ UNCHANGED <<runVars, known, active, stopped, queueVars, slotVars>>

CancelRequest(r) == Cancellable(r) /\ RequestFor({r})

CancelAll ==
  /\ known # {} /\ \A r \in known : Cancellable(r)
  /\ RequestFor(known \cup active)

CancelDeliver(r) ==
  /\ r \in delivering
  /\ delivering' = delivering \ {r}
  /\ stopped' = stopped \cup {r}
  /\ promised' = IF pc[r] \in {"registered", "walking", "walked"}
                 THEN promised \cup {r} ELSE promised
  /\ UNCHANGED <<runVars, known, active, reasons, queueVars, asleep, slotVars>>

-----------------------------------------------------------------------------
RunStep(r) ==
  \/ Arrive(r) \/ Wake(r) \/ TurnAway(r)
  \/ Start(r) \/ CheckBefore(r) \/ BuildFails(r) \/ Register(r) \/ CheckAfter(r)
  \/ Progress(r) \/ WalkComplete(r) \/ ScanReturns(r) \/ ScanRaises(r)
  \/ CheckCancelled(r) \/ Conclude(r) \/ Unregister(r) \/ Release(r) \/ Retire(r)

HostStep(r) == CreateRun(r) \/ Submit(r) \/ CancelRequest(r)

Next ==
  \/ \E r \in Runs : RunStep(r) \/ HostStep(r) \/ CancelDeliver(r)
  \/ CancelAll

Spec == Init /\ [][Next]_vars

\* Threads that can run do run, and a walk ends: the tree is finite and the
\* collector polls its cancel flag.  Nobody has to create, submit or cancel.
Fairness == \A r \in Runs : WF_vars(RunStep(r)) /\ WF_vars(CancelDeliver(r))

FairSpec == Spec /\ Fairness

-----------------------------------------------------------------------------
(* Properties.                                                             *)

\* Between acquiring and releasing, a run is the one occupant of the slot it
\* recorded, and a slot's occupant is such a run: never two walks in a slot of
\* a device, never a slot lost to a run that is gone.
SlotsExclusive ==
  /\ \A r \in Runs : pc[r] \in Holding =>
       slotOf[r] \in Slot /\ slots[KeyOf[r]][slotOf[r]] = r
  /\ \A k \in Keys, s \in Slot : slots[k][s] # NoRun =>
       LET r == slots[k][s]
       IN  pc[r] \in Holding /\ KeyOf[r] = k /\ slotOf[r] = s

\* A cancellation that came before the collector existed, or that reached it
\* before its walk's result was looked at, is never lost: the run does not
\* report success.
CancelHonoured == \A r \in promised : status[r] \notin Success

\* A retired run leaves no entry behind for a later cancel() or host to find,
\* whatever cancellations raced with its last steps.
NothingLeft ==
  \A r \in Runs : pc[r] = "done" =>
    r \notin known \cup reasons \cup active

\* What a run reports only moves forward: a phase is never left for an
\* earlier one and a terminal status is never replaced.
OnlyForward ==
  [][\A r \in Runs :
       /\ PhaseRank(phase'[r]) >= PhaseRank(phase[r])
       /\ status[r] \in Terminal => status'[r] = status[r]]_vars

\* A waiter of device k looks at a deque that still lists a run which is not
\* waiting any more.
Haunted(k) ==
  \E q \in Runs :
    /\ KeyOf[q] = k /\ pc[q] = "queued"
    /\ \E i \in 1..Len(deque[mine[q]]) : pc[deque[mine[q]][i]] # "queued"

\* What the scheduling promises: whoever queues is served or turned away.
QueueServed == \A r \in Runs : pc[r] = "queued" ~> pc[r] # "queued"

\* The same promise for every queue that no withdrawn run haunts.
ServedUnlessHaunted ==
  \A r \in Runs : pc[r] = "queued" ~> pc[r] # "queued" \/ Haunted(KeyOf[r])

\* A cancelled run that has been submitted stops without a success, even when
\* its queue is stuck; one whose walk was told to stop does too.
CancelTakesEffect ==
  \A r \in Runs :
    r \in promised /\ pc[r] # "created" ~> status[r] \in {"cancelled", "failed"}

\* Every submitted run comes to an end and leaves the service.
RunsEnd == \A r \in Runs : pc[r] = "submitted" ~> pc[r] = "done"

-----------------------------------------------------------------------------
(* What the resource policy promises.                                      *)

Line(k) == IF queueOf[k] = NoDeque THEN <<>> ELSE deque[queueOf[k]]
Holders(k) == {r \in Runs : \E s \in Slot : slots[k][s] = r}

Fifo == INSTANCE FifoSlots WITH
          waiting <- [k \in Keys |-> Line(k)],
          holders <- [k \in Keys |-> Holders(k)]

\* The service lets the runs of a device in strictly in the order they came,
\* also around cancellations, until a withdrawn run haunts a queue.
FifoOrder ==
  /\ Fifo!Init
  /\ [][Fifo!Next \/ \E k \in Keys : Haunted(k)]_(Fifo!fifoVars)
=============================================================================
