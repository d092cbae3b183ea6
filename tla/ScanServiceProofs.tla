------------------------- MODULE ScanServiceProofs -------------------------
(***************************************************************************)
(* Proofs about ScanService for any runs, devices, slot limit and          *)
(* cancellation habits of the hosts.                                       *)
(*                                                                         *)
(* None of the invariants depends on what the resource deques contain,     *)
(* which is the point: a stale deque can starve a run, but it can neither  *)
(* let two runs into one slot nor lose a cancellation.  The refinement of  *)
(* FifoSlots at the end is about just that content.                        *)
(***************************************************************************)
EXTENDS ScanService, FiniteSetTheorems, WellFoundedInduction, TLAPS

Ended == {"stopping", "leaving", "retiring", "done"}

\* What the place of a run's thread says about what the run reports.
ProgressInv ==
  \A r \in Runs :
    /\ pc[r] \notin Ended => status[r] \in {"pending", "running"}
    /\ pc[r] \in Unsubmitted \cup Slotless \cup {"turnedAway", "slotted"}
         => phase[r] = "validating"
    /\ phase[r] = "finished" => pc[r] \in Ended

\* Where entries of the service's tables can be.
TableInv ==
  \A r \in Runs :
    /\ r \in known <=> pc[r] \notin {"absent", "done"}
    /\ r \in reasons => r \in known
    /\ r \in active =>
         pc[r] \in {"registered", "walking", "walked", "finalizing", "stopping"}
    /\ r \in delivering => r \in reasons \/ pc[r] = "done"

\* How a cancellation that came in time is still going to be noticed.
PromiseInv ==
  \A r \in promised :
    /\ Early(r) \/ pc[r] \in {"turnedAway", "registered"} => r \in reasons
    /\ pc[r] \in {"walking", "walked"} => r \in stopped
    /\ pc[r] \notin {"absent", "finalizing"}
    /\ status[r] \notin Success

IInv == TypeOK /\ SlotsExclusive /\ ProgressInv /\ TableInv /\ PromiseInv

-----------------------------------------------------------------------------
LEMMA InitIInv == Init => IInv
<1> SUFFICES ASSUME Init PROVE IInv
  OBVIOUS
<1> USE ScanAssumption DEF Init
<1>1. TypeOK
  BY DEF TypeOK, Places, Unsubmitted, Statuses, Phases, Slot
<1>2. SlotsExclusive
  BY DEF SlotsExclusive, Holding
<1>3. ProgressInv /\ TableInv /\ PromiseInv
  BY DEF ProgressInv, TableInv, PromiseInv, Ended
<1> QED BY <1>1, <1>2, <1>3 DEF IInv

\* What one pass of the acquisition loop can do to anything but the queues.
PassEffect(r) ==
  /\ pc[r] \in {"submitted", "queued"}
  /\ \/ /\ pc' \in {[pc EXCEPT ![r] = "turnedAway"], [pc EXCEPT ![r] = "queued"]}
        /\ UNCHANGED slotVars
     \/ \E s \in Slot :
          /\ slots[KeyOf[r]][s] = NoRun
          /\ slots' = [slots EXCEPT ![KeyOf[r]][s] = r]
          /\ slotOf' = [slotOf EXCEPT ![r] = s]
          /\ r \notin reasons
          /\ pc' = [pc EXCEPT ![r] = "slotted"]
  /\ UNCHANGED <<status, phase, known, active, cancelVars>>

LEMMA PassStep ==
  ASSUME NEW r \in Runs, Arrive(r) \/ Wake(r)
  PROVE  PassEffect(r)
<1>1. ASSUME NEW heap, NEW table, NEW d, Pass(r, heap, table, d),
             pc[r] \in {"submitted", "queued"}
      PROVE  PassEffect(r)
  <2>1. CASE Withdraw(r, heap, table)
    BY <1>1, <2>1 DEF Pass, Withdraw, PassEffect
  <2>2. CASE Acquire(r, heap, table, d)
    BY <1>1, <2>2 DEF Pass, Acquire, LowestFree, PassEffect
  <2>3. CASE WaitTurn(r, heap, table, d)
    BY <1>1, <2>3 DEF Pass, WaitTurn, PassEffect
  <2> QED BY <1>1, <2>1, <2>2, <2>3 DEF Pass
<1> QED BY <1>1 DEF Arrive, Wake

-----------------------------------------------------------------------------
(* Preservation, one lemma per part of the invariant.                      *)

\* A step that leaves the slots alone and moves no run into or out of the
\* places that hold one.
LEMMA SlotsKept ==
  ASSUME TypeOK, SlotsExclusive, UNCHANGED slotVars,
         \A r \in Runs : pc'[r] \in Holding <=> pc[r] \in Holding
  PROVE  SlotsExclusive'
BY ScanAssumption DEF TypeOK, SlotsExclusive, slotVars

\* A run that gets a slot had none, and the slot was nobody's.
LEMMA SlotsTaken ==
  ASSUME TypeOK, SlotsExclusive, NEW r \in Runs, PassEffect(r)
  PROVE  TypeOK' /\ SlotsExclusive'
<1>1. CASE /\ pc' \in {[pc EXCEPT ![r] = "turnedAway"], [pc EXCEPT ![r] = "queued"]}
           /\ UNCHANGED slotVars
  <2>1. pc' \in [Runs -> Places]
    BY <1>1 DEF TypeOK, Places, Slotless
  <2>2. \A q \in Runs : pc'[q] \in Holding <=> pc[q] \in Holding
    BY <1>1 DEF PassEffect, TypeOK, Holding
  <2>3. TypeOK'
    BY <1>1, <2>1 DEF PassEffect, TypeOK, slotVars, cancelVars
  <2> QED BY <1>1, <2>2, <2>3, SlotsKept
<1>2. ASSUME NEW s \in Slot,
             slots[KeyOf[r]][s] = NoRun,
             slots' = [slots EXCEPT ![KeyOf[r]][s] = r],
             slotOf' = [slotOf EXCEPT ![r] = s],
             pc' = [pc EXCEPT ![r] = "slotted"]
      PROVE  TypeOK' /\ SlotsExclusive'
  <2>1. pc' \in [Runs -> Places]
    BY <1>2 DEF TypeOK, Places, Holding
  <2>2. KeyOf[r] \in Keys /\ s \in 0..MaxActive
    BY ScanAssumption DEF Slot
  <2>3. /\ slots' \in [Keys -> [Slot -> Runs \cup {NoRun}]]
        /\ slotOf' \in [Runs -> 0..MaxActive]
    BY <1>2, <2>2 DEF TypeOK
  <2>4. TypeOK'
    BY <2>1, <2>3 DEF PassEffect, TypeOK, cancelVars
  <2>5. pc[r] \notin Holding /\ r # NoRun
    BY ScanAssumption DEF PassEffect, Holding
  <2>6. \A q \in Runs : pc'[q] \in Holding =>
          slotOf'[q] \in Slot /\ slots'[KeyOf[q]][slotOf'[q]] = q
    <3> SUFFICES ASSUME NEW q \in Runs, pc'[q] \in Holding
                 PROVE  slotOf'[q] \in Slot /\ slots'[KeyOf[q]][slotOf'[q]] = q
      OBVIOUS
    <3>1. CASE q = r
      BY <1>2, <2>2, <3>1 DEF TypeOK
    <3>2. CASE q # r
      <4>1. pc[q] \in Holding /\ slotOf'[q] = slotOf[q] /\ KeyOf[q] \in Keys
        BY <1>2, <3>2, ScanAssumption DEF TypeOK
      <4>2. slotOf[q] \in Slot /\ slots[KeyOf[q]][slotOf[q]] = q /\ q # NoRun
        BY <4>1, ScanAssumption DEF SlotsExclusive
      <4> QED BY <1>2, <2>2, <4>1, <4>2 DEF TypeOK
    <3> QED BY <3>1, <3>2
  <2>7. \A k \in Keys, t \in Slot : slots'[k][t] # NoRun =>
          LET q == slots'[k][t]
          IN  pc'[q] \in Holding /\ KeyOf[q] = k /\ slotOf'[q] = t
    <3> SUFFICES ASSUME NEW k \in Keys, NEW t \in Slot, slots'[k][t] # NoRun
                 PROVE  /\ pc'[slots'[k][t]] \in Holding
                        /\ KeyOf[slots'[k][t]] = k
                        /\ slotOf'[slots'[k][t]] = t
      OBVIOUS
    <3>1. CASE k = KeyOf[r] /\ t = s
      BY <1>2, <2>2, <3>1 DEF TypeOK, Holding
    <3>2. CASE ~(k = KeyOf[r] /\ t = s)
      <4>1. slots'[k][t] = slots[k][t] /\ slots[k][t] \in Runs
        BY <1>2, <2>2, <2>3, <3>2 DEF TypeOK
      <4>2. pc[slots[k][t]] \in Holding /\ KeyOf[slots[k][t]] = k
            /\ slotOf[slots[k][t]] = t
        BY <4>1 DEF SlotsExclusive
      <4>3. slots[k][t] # r
        BY <4>2, <2>5
      <4> QED BY <1>2, <4>1, <4>2, <4>3 DEF TypeOK
    <3> QED BY <3>1, <3>2
  <2>8. SlotsExclusive'
    BY <2>6, <2>7 DEF SlotsExclusive
  <2> QED BY <2>4, <2>8
<1> QED BY <1>1, <1>2 DEF PassEffect

\* The tables and the reported values keep their types.
LEMMA StepType == IInv /\ [Next]_vars => TypeOK'
<1> SUFFICES ASSUME IInv, [Next]_vars PROVE TypeOK'
  OBVIOUS
<1>0. TypeOK /\ SlotsExclusive
  BY DEF IInv
<1> USE <1>0, ScanAssumption DEF Goto, cancelVars, queueVars, slotVars, runVars,
      TypeOK, Places, Unsubmitted, Slotless, Holding, Statuses, Phases
<1>1. ASSUME NEW r \in Runs, CreateRun(r) PROVE TypeOK'
  BY <1>1 DEF CreateRun
<1>2. ASSUME NEW r \in Runs, Submit(r) PROVE TypeOK'
  BY <1>2 DEF Submit
<1>3. ASSUME NEW r \in Runs, Arrive(r) PROVE TypeOK'
  BY <1>3, PassStep, SlotsTaken
<1>4. ASSUME NEW r \in Runs, Wake(r) PROVE TypeOK'
  BY <1>4, PassStep, SlotsTaken
<1>5. ASSUME NEW r \in Runs, TurnAway(r) PROVE TypeOK'
  BY <1>5 DEF TurnAway, Finish
<1>6. ASSUME NEW r \in Runs, Start(r) PROVE TypeOK'
  BY <1>6 DEF Start
<1>7. ASSUME NEW r \in Runs, CheckBefore(r) PROVE TypeOK'
  BY <1>7 DEF CheckBefore, Finish
<1>8. ASSUME NEW r \in Runs, BuildFails(r) PROVE TypeOK'
  BY <1>8 DEF BuildFails, Finish
<1>9. ASSUME NEW r \in Runs, Register(r) PROVE TypeOK'
  BY <1>9 DEF Register
<1>10. ASSUME NEW r \in Runs, CheckAfter(r) PROVE TypeOK'
  BY <1>10 DEF CheckAfter, Finish
<1>11. ASSUME NEW r \in Runs, Progress(r) PROVE TypeOK'
  BY <1>11 DEF Progress
<1>12. ASSUME NEW r \in Runs, WalkComplete(r) PROVE TypeOK'
  BY <1>12 DEF WalkComplete
<1>13. ASSUME NEW r \in Runs, ScanReturns(r) PROVE TypeOK'
  BY <1>13 DEF ScanReturns
<1>14. ASSUME NEW r \in Runs, ScanRaises(r) PROVE TypeOK'
  BY <1>14 DEF ScanRaises, Finish
<1>15. ASSUME NEW r \in Runs, CheckCancelled(r) PROVE TypeOK'
  BY <1>15 DEF CheckCancelled, Finish
<1>16. ASSUME NEW r \in Runs, Conclude(r) PROVE TypeOK'
  BY <1>16 DEF Conclude, Finish
<1>17. ASSUME NEW r \in Runs, Unregister(r) PROVE TypeOK'
  BY <1>17 DEF Unregister
<1>18. ASSUME NEW r \in Runs, Release(r) PROVE TypeOK'
  BY <1>18 DEF Release
<1>19. ASSUME NEW r \in Runs, Retire(r) PROVE TypeOK'
  BY <1>19 DEF Retire
<1>20. ASSUME NEW r \in Runs, CancelRequest(r) PROVE TypeOK'
  BY <1>20 DEF CancelRequest, RequestFor, Cancellable
<1>21. ASSUME NEW r \in Runs, CancelDeliver(r) PROVE TypeOK'
  BY <1>21 DEF CancelDeliver
<1>22. ASSUME CancelAll PROVE TypeOK'
  BY <1>22 DEF CancelAll, RequestFor, Cancellable
<1>23. CASE UNCHANGED vars
  BY <1>23 DEF vars
<1> QED
  BY <1>1, <1>2, <1>3, <1>4, <1>5, <1>6, <1>7, <1>8, <1>9, <1>10,
     <1>11, <1>12, <1>13, <1>14, <1>15, <1>16, <1>17, <1>18, <1>19,
     <1>20, <1>21, <1>22, <1>23
  DEF Next, RunStep, HostStep

\* Slots are taken by a run that has none and given up by their occupant.
LEMMA StepSlots == IInv /\ [Next]_vars => SlotsExclusive'
<1> SUFFICES ASSUME IInv, [Next]_vars PROVE SlotsExclusive'
  OBVIOUS
<1>0. TypeOK /\ SlotsExclusive
  BY DEF IInv
<1> USE <1>0, ScanAssumption DEF Goto, cancelVars, queueVars, slotVars, runVars,
      TypeOK, SlotsExclusive, Holding
<1>1. ASSUME NEW r \in Runs, CreateRun(r) PROVE SlotsExclusive'
  BY <1>1 DEF CreateRun
<1>2. ASSUME NEW r \in Runs, Submit(r) PROVE SlotsExclusive'
  BY <1>2 DEF Submit
<1>3. ASSUME NEW r \in Runs, Arrive(r) PROVE SlotsExclusive'
  BY <1>3, PassStep, SlotsTaken
<1>4. ASSUME NEW r \in Runs, Wake(r) PROVE SlotsExclusive'
  BY <1>4, PassStep, SlotsTaken
<1>5. ASSUME NEW r \in Runs, TurnAway(r) PROVE SlotsExclusive'
  BY <1>5 DEF TurnAway, Finish
<1>6. ASSUME NEW r \in Runs, Start(r) PROVE SlotsExclusive'
  BY <1>6 DEF Start
<1>7. ASSUME NEW r \in Runs, CheckBefore(r) PROVE SlotsExclusive'
  <2>1. \A q \in Runs : pc'[q] \in Holding <=> pc[q] \in Holding
    BY <1>7 DEF CheckBefore
  <2>2. UNCHANGED slotVars
    BY <1>7 DEF CheckBefore
  <2> QED BY <2>1, <2>2, SlotsKept
<1>8. ASSUME NEW r \in Runs, BuildFails(r) PROVE SlotsExclusive'
  BY <1>8 DEF BuildFails, Finish
<1>9. ASSUME NEW r \in Runs, Register(r) PROVE SlotsExclusive'
  BY <1>9 DEF Register
<1>10. ASSUME NEW r \in Runs, CheckAfter(r) PROVE SlotsExclusive'
  <2>1. \A q \in Runs : pc'[q] \in Holding <=> pc[q] \in Holding
    BY <1>10 DEF CheckAfter
  <2>2. UNCHANGED slotVars
    BY <1>10 DEF CheckAfter
  <2> QED BY <2>1, <2>2, SlotsKept
<1>11. ASSUME NEW r \in Runs, Progress(r) PROVE SlotsExclusive'
  BY <1>11 DEF Progress
<1>12. ASSUME NEW r \in Runs, WalkComplete(r) PROVE SlotsExclusive'
  BY <1>12 DEF WalkComplete
<1>13. ASSUME NEW r \in Runs, ScanReturns(r) PROVE SlotsExclusive'
  BY <1>13 DEF ScanReturns
<1>14. ASSUME NEW r \in Runs, ScanRaises(r) PROVE SlotsExclusive'
  BY <1>14 DEF ScanRaises, Finish
<1>15. ASSUME NEW r \in Runs, CheckCancelled(r) PROVE SlotsExclusive'
  <2>1. \A q \in Runs : pc'[q] \in Holding <=> pc[q] \in Holding
    BY <1>15 DEF CheckCancelled
  <2>2. UNCHANGED slotVars
    BY <1>15 DEF CheckCancelled
  <2> QED BY <2>1, <2>2, SlotsKept
<1>16. ASSUME NEW r \in Runs, Conclude(r) PROVE SlotsExclusive'
  BY <1>16 DEF Conclude, Finish
<1>17. ASSUME NEW r \in Runs, Unregister(r) PROVE SlotsExclusive'
  BY <1>17 DEF Unregister
<1>18. ASSUME NEW r \in Runs, Release(r) PROVE SlotsExclusive'
  BY <1>18 DEF Release
<1>19. ASSUME NEW r \in Runs, Retire(r) PROVE SlotsExclusive'
  BY <1>19 DEF Retire
<1>20. ASSUME NEW r \in Runs, CancelRequest(r) PROVE SlotsExclusive'
  BY <1>20 DEF CancelRequest, RequestFor, Cancellable
<1>21. ASSUME NEW r \in Runs, CancelDeliver(r) PROVE SlotsExclusive'
  BY <1>21 DEF CancelDeliver
<1>22. ASSUME CancelAll PROVE SlotsExclusive'
  BY <1>22 DEF CancelAll, RequestFor, Cancellable
<1>23. CASE UNCHANGED vars
  BY <1>23 DEF vars
<1> QED
  BY <1>1, <1>2, <1>3, <1>4, <1>5, <1>6, <1>7, <1>8, <1>9, <1>10,
     <1>11, <1>12, <1>13, <1>14, <1>15, <1>16, <1>17, <1>18, <1>19,
     <1>20, <1>21, <1>22, <1>23
  DEF Next, RunStep, HostStep

\* A run's report follows the place of its thread.
LEMMA StepProgress == IInv /\ [Next]_vars => ProgressInv'
<1> SUFFICES ASSUME IInv, [Next]_vars PROVE ProgressInv'
  OBVIOUS
<1>0. TypeOK /\ ProgressInv
  BY DEF IInv
<1> USE <1>0, ScanAssumption DEF Goto, cancelVars, queueVars, slotVars, runVars,
      TypeOK, ProgressInv, Unsubmitted, Slotless, Ended
<1>1. ASSUME NEW r \in Runs, CreateRun(r) PROVE ProgressInv'
  BY <1>1 DEF CreateRun
<1>2. ASSUME NEW r \in Runs, Submit(r) PROVE ProgressInv'
  BY <1>2 DEF Submit
<1>3. ASSUME NEW r \in Runs, Arrive(r) PROVE ProgressInv'
  BY <1>3, PassStep DEF PassEffect
<1>4. ASSUME NEW r \in Runs, Wake(r) PROVE ProgressInv'
  BY <1>4, PassStep DEF PassEffect
<1>5. ASSUME NEW r \in Runs, TurnAway(r) PROVE ProgressInv'
  BY <1>5 DEF TurnAway, Finish
<1>6. ASSUME NEW r \in Runs, Start(r) PROVE ProgressInv'
  BY <1>6 DEF Start
<1>7. ASSUME NEW r \in Runs, CheckBefore(r) PROVE ProgressInv'
  BY <1>7 DEF CheckBefore, Finish
<1>8. ASSUME NEW r \in Runs, BuildFails(r) PROVE ProgressInv'
  BY <1>8 DEF BuildFails, Finish
<1>9. ASSUME NEW r \in Runs, Register(r) PROVE ProgressInv'
  BY <1>9 DEF Register
<1>10. ASSUME NEW r \in Runs, CheckAfter(r) PROVE ProgressInv'
  BY <1>10 DEF CheckAfter, Finish
<1>11. ASSUME NEW r \in Runs, Progress(r) PROVE ProgressInv'
  BY <1>11 DEF Progress
<1>12. ASSUME NEW r \in Runs, WalkComplete(r) PROVE ProgressInv'
  BY <1>12 DEF WalkComplete
<1>13. ASSUME NEW r \in Runs, ScanReturns(r) PROVE ProgressInv'
  BY <1>13 DEF ScanReturns
<1>14. ASSUME NEW r \in Runs, ScanRaises(r) PROVE ProgressInv'
  BY <1>14 DEF ScanRaises, Finish
<1>15. ASSUME NEW r \in Runs, CheckCancelled(r) PROVE ProgressInv'
  BY <1>15 DEF CheckCancelled, Finish
<1>16. ASSUME NEW r \in Runs, Conclude(r) PROVE ProgressInv'
  BY <1>16 DEF Conclude, Finish
<1>17. ASSUME NEW r \in Runs, Unregister(r) PROVE ProgressInv'
  BY <1>17 DEF Unregister
<1>18. ASSUME NEW r \in Runs, Release(r) PROVE ProgressInv'
  BY <1>18 DEF Release
<1>19. ASSUME NEW r \in Runs, Retire(r) PROVE ProgressInv'
  BY <1>19 DEF Retire
<1>20. ASSUME NEW r \in Runs, CancelRequest(r) PROVE ProgressInv'
  BY <1>20 DEF CancelRequest, RequestFor, Cancellable
<1>21. ASSUME NEW r \in Runs, CancelDeliver(r) PROVE ProgressInv'
  BY <1>21 DEF CancelDeliver
<1>22. ASSUME CancelAll PROVE ProgressInv'
  BY <1>22 DEF CancelAll, RequestFor, Cancellable
<1>23. CASE UNCHANGED vars
  BY <1>23 DEF vars
<1> QED
  BY <1>1, <1>2, <1>3, <1>4, <1>5, <1>6, <1>7, <1>8, <1>9, <1>10,
     <1>11, <1>12, <1>13, <1>14, <1>15, <1>16, <1>17, <1>18, <1>19,
     <1>20, <1>21, <1>22, <1>23
  DEF Next, RunStep, HostStep

\* No table keeps a run that has left.
LEMMA StepTable == IInv /\ [Next]_vars => TableInv'
<1> SUFFICES ASSUME IInv, [Next]_vars PROVE TableInv'
  OBVIOUS
<1>0. TypeOK /\ TableInv
  BY DEF IInv
<1> USE <1>0, ScanAssumption DEF Goto, cancelVars, queueVars, slotVars, runVars,
      TypeOK, TableInv
<1>1. ASSUME NEW r \in Runs, CreateRun(r) PROVE TableInv'
  BY <1>1 DEF CreateRun
<1>2. ASSUME NEW r \in Runs, Submit(r) PROVE TableInv'
  BY <1>2 DEF Submit
<1>3. ASSUME NEW r \in Runs, Arrive(r) PROVE TableInv'
  BY <1>3, PassStep DEF PassEffect
<1>4. ASSUME NEW r \in Runs, Wake(r) PROVE TableInv'
  BY <1>4, PassStep DEF PassEffect
<1>5. ASSUME NEW r \in Runs, TurnAway(r) PROVE TableInv'
  BY <1>5 DEF TurnAway, Finish
<1>6. ASSUME NEW r \in Runs, Start(r) PROVE TableInv'
  BY <1>6 DEF Start
<1>7. ASSUME NEW r \in Runs, CheckBefore(r) PROVE TableInv'
  BY <1>7 DEF CheckBefore, Finish
<1>8. ASSUME NEW r \in Runs, BuildFails(r) PROVE TableInv'
  BY <1>8 DEF BuildFails, Finish
<1>9. ASSUME NEW r \in Runs, Register(r) PROVE TableInv'
  BY <1>9 DEF Register
<1>10. ASSUME NEW r \in Runs, CheckAfter(r) PROVE TableInv'
  BY <1>10 DEF CheckAfter, Finish
<1>11. ASSUME NEW r \in Runs, Progress(r) PROVE TableInv'
  BY <1>11 DEF Progress
<1>12. ASSUME NEW r \in Runs, WalkComplete(r) PROVE TableInv'
  BY <1>12 DEF WalkComplete
<1>13. ASSUME NEW r \in Runs, ScanReturns(r) PROVE TableInv'
  BY <1>13 DEF ScanReturns
<1>14. ASSUME NEW r \in Runs, ScanRaises(r) PROVE TableInv'
  BY <1>14 DEF ScanRaises, Finish
<1>15. ASSUME NEW r \in Runs, CheckCancelled(r) PROVE TableInv'
  BY <1>15 DEF CheckCancelled, Finish
<1>16. ASSUME NEW r \in Runs, Conclude(r) PROVE TableInv'
  BY <1>16 DEF Conclude, Finish
<1>17. ASSUME NEW r \in Runs, Unregister(r) PROVE TableInv'
  BY <1>17 DEF Unregister
<1>18. ASSUME NEW r \in Runs, Release(r) PROVE TableInv'
  BY <1>18 DEF Release
<1>19. ASSUME NEW r \in Runs, Retire(r) PROVE TableInv'
  BY <1>19 DEF Retire
<1>20. ASSUME NEW r \in Runs, CancelRequest(r) PROVE TableInv'
  BY <1>20 DEF CancelRequest, RequestFor, Cancellable
<1>21. ASSUME NEW r \in Runs, CancelDeliver(r) PROVE TableInv'
  BY <1>21 DEF CancelDeliver
<1>22. ASSUME CancelAll PROVE TableInv'
  BY <1>22 DEF CancelAll, RequestFor, Cancellable
<1>23. CASE UNCHANGED vars
  BY <1>23 DEF vars
<1> QED
  BY <1>1, <1>2, <1>3, <1>4, <1>5, <1>6, <1>7, <1>8, <1>9, <1>10,
     <1>11, <1>12, <1>13, <1>14, <1>15, <1>16, <1>17, <1>18, <1>19,
     <1>20, <1>21, <1>22, <1>23
  DEF Next, RunStep, HostStep

\* A timely cancellation stays on a path that ends without success.
LEMMA StepPromise == IInv /\ [Next]_vars => PromiseInv'
<1> SUFFICES ASSUME IInv, [Next]_vars PROVE PromiseInv'
  OBVIOUS
<1>0. TypeOK /\ ProgressInv /\ TableInv /\ PromiseInv
  BY DEF IInv
<1> USE <1>0, ScanAssumption DEF Goto, cancelVars, queueVars, slotVars, runVars,
      TypeOK, PromiseInv, TableInv, ProgressInv, Early, Slotless, Success, Ended
<1>1. ASSUME NEW r \in Runs, CreateRun(r) PROVE PromiseInv'
  BY <1>1 DEF CreateRun
<1>2. ASSUME NEW r \in Runs, Submit(r) PROVE PromiseInv'
  BY <1>2 DEF Submit
<1>3. ASSUME NEW r \in Runs, Arrive(r) PROVE PromiseInv'
  BY <1>3, PassStep DEF PassEffect
<1>4. ASSUME NEW r \in Runs, Wake(r) PROVE PromiseInv'
  BY <1>4, PassStep DEF PassEffect
<1>5. ASSUME NEW r \in Runs, TurnAway(r) PROVE PromiseInv'
  BY <1>5 DEF TurnAway, Finish
<1>6. ASSUME NEW r \in Runs, Start(r) PROVE PromiseInv'
  BY <1>6 DEF Start
<1>7. ASSUME NEW r \in Runs, CheckBefore(r) PROVE PromiseInv'
  BY <1>7 DEF CheckBefore, Finish
<1>8. ASSUME NEW r \in Runs, BuildFails(r) PROVE PromiseInv'
  BY <1>8 DEF BuildFails, Finish
<1>9. ASSUME NEW r \in Runs, Register(r) PROVE PromiseInv'
  BY <1>9 DEF Register
<1>10. ASSUME NEW r \in Runs, CheckAfter(r) PROVE PromiseInv'
  BY <1>10 DEF CheckAfter, Finish
<1>11. ASSUME NEW r \in Runs, Progress(r) PROVE PromiseInv'
  BY <1>11 DEF Progress
<1>12. ASSUME NEW r \in Runs, WalkComplete(r) PROVE PromiseInv'
  BY <1>12 DEF WalkComplete
<1>13. ASSUME NEW r \in Runs, ScanReturns(r) PROVE PromiseInv'
  BY <1>13 DEF ScanReturns
<1>14. ASSUME NEW r \in Runs, ScanRaises(r) PROVE PromiseInv'
  BY <1>14 DEF ScanRaises, Finish
<1>15. ASSUME NEW r \in Runs, CheckCancelled(r) PROVE PromiseInv'
  BY <1>15 DEF CheckCancelled, Finish
<1>16. ASSUME NEW r \in Runs, Conclude(r) PROVE PromiseInv'
  BY <1>16 DEF Conclude, Finish
<1>17. ASSUME NEW r \in Runs, Unregister(r) PROVE PromiseInv'
  BY <1>17 DEF Unregister
<1>18. ASSUME NEW r \in Runs, Release(r) PROVE PromiseInv'
  BY <1>18 DEF Release
<1>19. ASSUME NEW r \in Runs, Retire(r) PROVE PromiseInv'
  BY <1>19 DEF Retire
<1>20. ASSUME NEW r \in Runs, CancelRequest(r) PROVE PromiseInv'
  BY <1>20 DEF CancelRequest, RequestFor, Cancellable
<1>21. ASSUME NEW r \in Runs, CancelDeliver(r) PROVE PromiseInv'
  BY <1>21 DEF CancelDeliver
<1>22. ASSUME CancelAll PROVE PromiseInv'
  BY <1>22 DEF CancelAll, RequestFor, Cancellable
<1>23. CASE UNCHANGED vars
  BY <1>23 DEF vars
<1> QED
  BY <1>1, <1>2, <1>3, <1>4, <1>5, <1>6, <1>7, <1>8, <1>9, <1>10,
     <1>11, <1>12, <1>13, <1>14, <1>15, <1>16, <1>17, <1>18, <1>19,
     <1>20, <1>21, <1>22, <1>23
  DEF Next, RunStep, HostStep

LEMMA InductiveInvariant == Spec => []IInv
<1>1. IInv /\ [Next]_vars => IInv'
  BY StepType, StepSlots, StepProgress, StepTable, StepPromise DEF IInv
<1> QED BY InitIInv, <1>1, PTL DEF Spec

Forward ==
  \A r \in Runs :
    /\ PhaseRank(phase'[r]) >= PhaseRank(phase[r])
    /\ status[r] \in Terminal => status'[r] = status[r]

\* A run that has not ended may end in any way.
LEMMA FinishForward ==
  ASSUME IInv, NEW r \in Runs, pc[r] \notin Ended, NEW outcome, Finish(r, outcome)
  PROVE  Forward
<1>1. status[r] \notin Terminal
  BY DEF IInv, ProgressInv, Terminal
<1>2. \A q \in Runs : status'[q] = IF q = r THEN outcome ELSE status[q]
  BY DEF IInv, TypeOK, Finish
<1>3. \A q \in Runs : phase[q] \in Phases
                      /\ phase'[q] = IF q = r THEN "finished" ELSE phase[q]
  BY DEF IInv, TypeOK, Finish
<1>4. \A p \in Phases : PhaseRank("finished") >= PhaseRank(p)
                        /\ PhaseRank(p) >= PhaseRank(p)
  BY DEF Phases, PhaseRank
<1> QED BY <1>1, <1>2, <1>3, <1>4 DEF Forward

\* Every way a report is written moves it forward.
LEMMA StepForward == IInv /\ [Next]_vars => Forward
<1> SUFFICES ASSUME IInv, [Next]_vars PROVE Forward
  OBVIOUS
<1>0. TypeOK /\ ProgressInv
  BY DEF IInv
<1> USE <1>0, ScanAssumption DEF Goto, cancelVars, queueVars, slotVars, runVars,
      TypeOK, ProgressInv, Unsubmitted, Slotless, Ended, Terminal, Phases,
      PhaseRank, Forward
<1>1. ASSUME NEW r \in Runs, CreateRun(r) PROVE Forward
  BY <1>1 DEF CreateRun
<1>2. ASSUME NEW r \in Runs, Submit(r) PROVE Forward
  BY <1>2 DEF Submit
<1>3. ASSUME NEW r \in Runs, Arrive(r) PROVE Forward
  BY <1>3, PassStep DEF PassEffect
<1>4. ASSUME NEW r \in Runs, Wake(r) PROVE Forward
  BY <1>4, PassStep DEF PassEffect
<1>5. ASSUME NEW r \in Runs, TurnAway(r) PROVE Forward
  BY <1>5, FinishForward DEF TurnAway
<1>6. ASSUME NEW r \in Runs, Start(r) PROVE Forward
  BY <1>6 DEF Start
<1>7. ASSUME NEW r \in Runs, CheckBefore(r) PROVE Forward
  BY <1>7 DEF CheckBefore, Finish
<1>8. ASSUME NEW r \in Runs, BuildFails(r) PROVE Forward
  BY <1>8, FinishForward DEF BuildFails
<1>9. ASSUME NEW r \in Runs, Register(r) PROVE Forward
  BY <1>9 DEF Register
<1>10. ASSUME NEW r \in Runs, CheckAfter(r) PROVE Forward
  BY <1>10 DEF CheckAfter, Finish
<1>11. ASSUME NEW r \in Runs, Progress(r) PROVE Forward
  BY <1>11 DEF Progress
<1>12. ASSUME NEW r \in Runs, WalkComplete(r) PROVE Forward
  BY <1>12 DEF WalkComplete
<1>13. ASSUME NEW r \in Runs, ScanReturns(r) PROVE Forward
  BY <1>13 DEF ScanReturns
<1>14. ASSUME NEW r \in Runs, ScanRaises(r) PROVE Forward
  BY <1>14, FinishForward DEF ScanRaises
<1>15. ASSUME NEW r \in Runs, CheckCancelled(r) PROVE Forward
  BY <1>15 DEF CheckCancelled, Finish
<1>16. ASSUME NEW r \in Runs, Conclude(r) PROVE Forward
  BY <1>16, FinishForward DEF Conclude
<1>17. ASSUME NEW r \in Runs, Unregister(r) PROVE Forward
  BY <1>17 DEF Unregister
<1>18. ASSUME NEW r \in Runs, Release(r) PROVE Forward
  BY <1>18 DEF Release
<1>19. ASSUME NEW r \in Runs, Retire(r) PROVE Forward
  BY <1>19 DEF Retire
<1>20. ASSUME NEW r \in Runs, CancelRequest(r) PROVE Forward
  BY <1>20 DEF CancelRequest, RequestFor, Cancellable
<1>21. ASSUME NEW r \in Runs, CancelDeliver(r) PROVE Forward
  BY <1>21 DEF CancelDeliver
<1>22. ASSUME CancelAll PROVE Forward
  BY <1>22 DEF CancelAll, RequestFor, Cancellable
<1>23. CASE UNCHANGED vars
  BY <1>23 DEF vars
<1> QED
  BY <1>1, <1>2, <1>3, <1>4, <1>5, <1>6, <1>7, <1>8, <1>9, <1>10,
     <1>11, <1>12, <1>13, <1>14, <1>15, <1>16, <1>17, <1>18, <1>19,
     <1>20, <1>21, <1>22, <1>23
  DEF Next, RunStep, HostStep

-----------------------------------------------------------------------------
\* What the service's tables and the runs' reports hold is of its type.
THEOREM TypeCorrect == Spec => []TypeOK
<1>1. IInv => TypeOK
  BY DEF IInv
<1> QED BY <1>1, InductiveInvariant, PTL

\* A slot of a device has one occupant, the run that recorded it, from the
\* moment the slot is taken until it is released.
THEOREM OneRunPerSlot == Spec => []SlotsExclusive
<1>1. IInv => SlotsExclusive
  BY DEF IInv
<1> QED BY <1>1, InductiveInvariant, PTL

\* A cancellation that came in time is never answered with a success.
THEOREM NoCancelLost == Spec => []CancelHonoured
<1>1. IInv => CancelHonoured
  BY DEF IInv, PromiseInv, CancelHonoured
<1> QED BY <1>1, InductiveInvariant, PTL

\* A retired run is in none of the service's tables.
THEOREM NothingLeftBehind == Spec => []NothingLeft
<1>1. IInv => NothingLeft
  BY DEF IInv, TableInv, NothingLeft
<1> QED BY <1>1, InductiveInvariant, PTL

\* Phases never go back and a terminal status is final.
THEOREM ReportsOnlyForward == Spec => OnlyForward
<1>1. IInv /\ [Next]_vars => [Forward]_vars
  BY StepForward
<1> QED BY <1>1, InductiveInvariant, PTL DEF Spec, OnlyForward, Forward

-----------------------------------------------------------------------------
(* The line without one who leaves it.                                     *)

Less == {ss \in Nat \X Nat : ss[1] < ss[2]}
LEMMA LessIsWellFounded == IsWellFoundedOn(Less, Nat)
BY NatLessThanWellFounded, Zenon DEF OpToRel, Less

\* Of numbers that are bad there is a least.
LEMMA LeastNumber ==
  ASSUME NEW Bad, Bad \subseteq Nat, Bad # {}
  PROVE  \E n \in Bad : \A m \in Nat : m < n => m \notin Bad
<1>1. PICK n \in Bad : \A m \in Bad : ~ (<<m, n>> \in Less)
  BY LessIsWellFounded, WFMin
<1> QED BY <1>1 DEF Less

Kept(s, r, g, i) ==
  IF i = 0 THEN <<>> ELSE IF s[i] = r THEN g[i - 1] ELSE Append(g[i - 1], s[i])
Keeps(s, r, g, n) == g = [i \in 0..n |-> Kept(s, r, g, i)]

LEMMA WithoutByKeeping ==
  ASSUME NEW s, NEW r
  PROVE  Without(s, r) = (CHOOSE g : Keeps(s, r, g, Len(s)))[Len(s)]
BY DEF Without, Keeps, Kept

LEMMA KeepsAt ==
  ASSUME NEW s, NEW r, NEW n \in Nat, NEW g, Keeps(s, r, g, n), NEW i \in 0..n
  PROVE  g[i] = Kept(s, r, g, i)
BY DEF Keeps

LEMMA Keeper ==
  ASSUME NEW s, NEW r, NEW n \in Nat
  PROVE  \E g : Keeps(s, r, g, n)
<1> DEFINE Bad == {m \in Nat : ~ \E g : Keeps(s, r, g, m)}
<1> SUFFICES ASSUME Bad # {} PROVE FALSE
  OBVIOUS
<1>1. PICK m \in Bad : \A l \in Nat : l < m => l \notin Bad
  <2>1. Bad \subseteq Nat
    OBVIOUS
  <2> HIDE DEF Bad
  <2> QED BY <2>1, LeastNumber
<1>2. m \in Nat /\ ~ \E g : Keeps(s, r, g, m)
  OBVIOUS
<1>3. CASE m = 0
  <2> DEFINE h == [i \in 0..m |-> <<>>]
  <2>1. \A i \in 0..m : <<>> = Kept(s, r, h, i)
    BY <1>3 DEF Kept
  <2>2. h = [i \in 0..m |-> Kept(s, r, h, i)]
    BY <2>1
  <2>3. Keeps(s, r, h, m)
    <3> HIDE DEF h
    <3> QED BY <2>2 DEF Keeps
  <2> QED BY <1>2, <2>3
<1>4. CASE m # 0
  <2>1. m - 1 \in Nat /\ m - 1 < m
    BY <1>2, <1>4
  <2>2. m - 1 \notin Bad
    BY <1>1, <2>1
  <2>3. PICK g : Keeps(s, r, g, m - 1)
    BY <2>1, <2>2
  <2> HIDE DEF Bad
  <2>9. \A i \in 0..(m - 1) :
          g[i] = Kept(s, r, g, i)
    BY <2>1, <2>3, KeepsAt
  <2> DEFINE v(i) == IF i = m THEN Kept(s, r, g, i) ELSE g[i]
             h == [i \in 0..m |-> v(i)]
  <2>4. ASSUME NEW i \in 0..m PROVE v(i) = Kept(s, r, h, i)
    <3>1. CASE i = m
      <4>1. i # 0 /\ i - 1 \in 0..m /\ i - 1 # m
        BY <1>4, <2>1, <3>1
      <4>2. h[i - 1] = g[i - 1]
        BY <4>1
      <4> QED BY <3>1, <4>1, <4>2 DEF Kept
    <3>2. CASE i # m
      <4>1. i \in 0..(m - 1)
        BY <1>2, <3>2
      <4>2. g[i] = Kept(s, r, g, i)
        BY <2>9, <4>1
      <4>3. i # 0 => h[i - 1] = g[i - 1]
        <5>1. i # 0 => i - 1 \in 0..m /\ i - 1 # m
          BY <1>2, <4>1
        <5> QED BY <5>1
      <4> QED BY <3>2, <4>2, <4>3 DEF Kept
    <3> QED BY <3>1, <3>2
  <2>5. h = [i \in 0..m |-> Kept(s, r, h, i)]
    <3>1. \A i \in 0..m : v(i) = Kept(s, r, h, i)
      BY <2>4
    <3> HIDE DEF v
    <3> QED BY <3>1
  <2>6. Keeps(s, r, h, m)
    <3> HIDE DEF h
    <3> QED BY <2>5 DEF Keeps
  <2> QED BY <1>2, <2>6
<1> QED BY <1>3, <1>4

In(r, s) == \E i \in DOMAIN s : s[i] = r

LEMMA InAppended ==
  ASSUME NEW S, NEW s \in Seq(S), NEW x \in S, NEW y
  PROVE  In(y, Append(s, x)) <=> In(y, s) \/ y = x
<1>1. /\ DOMAIN s = 1..Len(s) /\ Len(s) \in Nat
      /\ DOMAIN Append(s, x) = 1..(Len(s) + 1) /\ Append(s, x)[Len(s) + 1] = x
      /\ \A i \in 1..Len(s) : Append(s, x)[i] = s[i]
  OBVIOUS
<1>2. ASSUME In(y, Append(s, x)) PROVE In(y, s) \/ y = x
  <2>1. PICK i \in 1..(Len(s) + 1) : Append(s, x)[i] = y
    BY <1>1, <1>2 DEF In
  <2>2. CASE i = Len(s) + 1
    BY <1>1, <2>1, <2>2
  <2>3. CASE i # Len(s) + 1
    BY <1>1, <2>1, <2>3 DEF In
  <2> QED BY <2>2, <2>3
<1>3. ASSUME In(y, s) PROVE In(y, Append(s, x))
  <2>1. PICK i \in 1..Len(s) : s[i] = y
    BY <1>1, <1>3 DEF In
  <2>2. i \in DOMAIN Append(s, x) /\ Append(s, x)[i] = y
    BY <1>1, <2>1
  <2> QED BY <2>2 DEF In
<1>4. ASSUME y = x PROVE In(y, Append(s, x))
  BY <1>1, <1>4 DEF In
<1> QED BY <1>2, <1>3, <1>4

\* Whoever is not at the head stays when it goes.
LEMMA InTail ==
  ASSUME NEW S, NEW s \in Seq(S), s # <<>>
  PROVE  /\ Head(s) \in S /\ Tail(s) \in Seq(S) /\ In(Head(s), s)
         /\ \A y : In(y, s) /\ y # Head(s) => In(y, Tail(s))
         /\ \A y : In(y, Tail(s)) => In(y, s)
<1>1. /\ DOMAIN s = 1..Len(s) /\ Len(s) \in Nat \ {0} /\ Head(s) = s[1]
      /\ Tail(s) \in Seq(S) /\ DOMAIN Tail(s) = 1..(Len(s) - 1)
      /\ \A i \in 1..(Len(s) - 1) : Tail(s)[i] = s[i + 1]
  OBVIOUS
<1>2. ASSUME NEW y, In(y, s), y # Head(s) PROVE In(y, Tail(s))
  <2>1. PICK i \in 1..Len(s) : s[i] = y
    BY <1>1, <1>2 DEF In
  <2>2. i - 1 \in 1..(Len(s) - 1) /\ Tail(s)[i - 1] = s[(i - 1) + 1]
    BY <1>1, <1>2, <2>1
  <2>3. i - 1 \in DOMAIN Tail(s) /\ Tail(s)[i - 1] = y
    BY <1>1, <2>1, <2>2
  <2> QED BY <2>3 DEF In
<1>3. ASSUME NEW y, In(y, Tail(s)) PROVE In(y, s)
  <2>1. PICK i \in 1..(Len(s) - 1) : Tail(s)[i] = y
    BY <1>1, <1>3 DEF In
  <2>2. i + 1 \in 1..Len(s) /\ s[i + 1] = y
    BY <1>1, <2>1
  <2> QED BY <1>1, <2>2 DEF In
<1> QED BY <1>1, <1>2, <1>3 DEF In

\* A line that lost its r: who else is in it still is, and who was not, is not;
\* a line that r had only just joined is what it was.
LEMMA WithoutOne ==
  ASSUME NEW S, NEW s \in Seq(S), NEW r
  PROVE  /\ Without(s, r) \in Seq(S)
         /\ \A x : In(x, Without(s, r)) <=> In(x, s) /\ x # r
         /\ \A u \in Seq(S) : s = Append(u, r) /\ ~In(r, u) => Without(s, r) = u
<1> DEFINE n == Len(s)
           g == CHOOSE f : Keeps(s, r, f, n)
<1>1. n \in Nat /\ DOMAIN s = 1..n /\ s \in [1..n -> S]
  OBVIOUS
<1>2. Keeps(s, r, g, n)
  <2> HIDE DEF n
  <2>1. \E f : Keeps(s, r, f, n)
    BY <1>1, Keeper
  <2> QED BY <2>1
<1>3. Without(s, r) = g[n]
  BY WithoutByKeeping
<1> HIDE DEF n, g
<1> DEFINE Right(i) ==
             /\ g[i] \in Seq(S)
             /\ \A x : In(x, g[i]) <=> x # r /\ \E j \in 1..i : s[j] = x
             /\ (\A j \in 1..i : s[j] # r) => Len(g[i]) = i /\ \A j \in 1..i : g[i][j] = s[j]
           Bad == {i \in 0..n : ~Right(i)}
<1>4. Bad = {}
  <2> SUFFICES ASSUME Bad # {} PROVE FALSE
    OBVIOUS
  <2>1. PICK i \in Bad : \A l \in Nat : l < i => l \notin Bad
    <3>1. Bad \subseteq Nat
      OBVIOUS
    <3> HIDE DEF Bad
    <3> QED BY <3>1, LeastNumber
  <2>2. i \in 0..n /\ ~Right(i)
    OBVIOUS
  <2>3. i # 0 => i - 1 \in 0..n /\ i \in 1..n
    BY <1>1, <2>2
  <2>4. i # 0 => Right(i - 1)
    <3>1. i # 0 => i - 1 \in Nat /\ i - 1 < i
      BY <2>2, <2>3
    <3>2. i # 0 => i - 1 \notin Bad
      BY <2>1, <3>1
    <3> HIDE DEF Right
    <3> QED BY <2>3, <3>2
  <2> HIDE DEF Bad
  <2>5. g[i] = IF i = 0 THEN <<>> ELSE IF s[i] = r THEN g[i - 1] ELSE Append(g[i - 1], s[i])
    <3>1. g[i] = Kept(s, r, g, i)
      BY <1>1, <1>2, <2>2, KeepsAt
    <3> QED BY <3>1 DEF Kept
  <2>6. CASE i = 0
    BY <2>2, <2>5, <2>6 DEF In
  <2>7. CASE i # 0 /\ s[i] = r
    <3>1. g[i] = g[i - 1] /\ i \in 1..n /\ ~ \A j \in 1..i : s[j] # r
      BY <1>1, <2>3, <2>5, <2>7
    <3>2. \A x : x # r => ((\E j \in 1..i : s[j] = x) <=> \E j \in 1..(i - 1) : s[j] = x)
      BY <1>1, <2>3, <2>7
    <3>3. Right(i)
      BY <2>4, <2>7, <3>1, <3>2
    <3> QED BY <2>2, <3>3
  <2>8. CASE i # 0 /\ s[i] # r
    <3>1. PICK u \in Seq(S), x \in S, l \in Nat : u = g[i - 1] /\ x = s[i] /\ l = i - 1
      BY <1>1, <2>3, <2>4, <2>8
    <3>2. g[i] = Append(u, x) /\ x # r /\ i \in 1..n /\ i = l + 1 /\ s[l + 1] = x
      BY <1>1, <2>3, <2>5, <2>8, <3>1
    <3>3. g[i] \in Seq(S)
      BY <3>1, <3>2
    <3>4. ASSUME NEW y PROVE In(y, g[i]) <=> In(y, u) \/ y = x
      BY <3>1, <3>2, InAppended
    <3>5. ASSUME NEW y PROVE (\E j \in 1..i : s[j] = y) <=> (\E j \in 1..l : s[j] = y) \/ y = x
      BY <1>1, <3>2
    <3>6. \A y : In(y, u) <=> y # r /\ \E j \in 1..l : s[j] = y
      BY <2>4, <2>8, <3>1
    <3>7. \A y : In(y, g[i]) <=> y # r /\ \E j \in 1..i : s[j] = y
      BY <3>2, <3>4, <3>5, <3>6
    <3>8. (\A j \in 1..i : s[j] # r) => Len(g[i]) = i /\ \A j \in 1..i : g[i][j] = s[j]
      <4> SUFFICES ASSUME \A j \in 1..i : s[j] # r PROVE Len(g[i]) = i /\ \A j \in 1..i : g[i][j] = s[j]
        OBVIOUS
      <4>1. i - 1 = l /\ \A j \in 1..l : s[j] # r
        BY <2>3, <3>1, <3>2
      <4>2. (\A j \in 1..(i - 1) : s[j] # r)
            => Len(g[i - 1]) = i - 1 /\ \A j \in 1..(i - 1) : g[i - 1][j] = s[j]
        BY <2>4, <2>8
      <4>3. Len(u) = l /\ \A j \in 1..l : u[j] = s[j]
        BY <3>1, <4>1, <4>2
      <4> QED BY <3>1, <3>2, <4>3
    <3> QED BY <2>2, <3>3, <3>7, <3>8
  <2> QED BY <2>6, <2>7, <2>8
<1>5. Right(n)
  <2>1. n \in 0..n
    BY <1>1
  <2> HIDE DEF Right
  <2> QED BY <1>4, <2>1
<1>6. \A x : (\E j \in 1..n : s[j] = x) <=> In(x, s)
  BY <1>1 DEF In
<1>7. ASSUME NEW u \in Seq(S), s = Append(u, r), ~In(r, u) PROVE g[n] = u
  <2>1. PICK l \in Nat : l = Len(u)
    OBVIOUS
  <2>2. n = l + 1 /\ DOMAIN u = 1..l /\ s[n] = r /\ \A j \in 1..l : s[j] = u[j]
    BY <1>1, <1>7, <2>1 DEF n
  <2>3. \A j \in 1..l : s[j] # r
    BY <1>7, <2>2 DEF In
  <2>4. g[n] = g[l]
    <3>1. g[n] = Kept(s, r, g, n)
      <4>1. n \in 0..n
        BY <1>1
      <4> QED BY <1>1, <1>2, <4>1, KeepsAt
    <3> QED BY <2>1, <2>2, <3>1 DEF Kept
  <2>5. Right(l)
    <3>1. l \in 0..n
      BY <2>1, <2>2
    <3> HIDE DEF Right
    <3> QED BY <1>4, <3>1
  <2>6. g[l] \in Seq(S) /\ Len(g[l]) = l /\ \A j \in 1..l : g[l][j] = u[j]
    BY <2>2, <2>3, <2>5
  <2> QED BY <2>1, <2>4, <2>6
<1> QED BY <1>3, <1>5, <1>6, <1>7
-----------------------------------------------------------------------------
(* The queues.                                                             *)

\* before it joined a line; and after it was in one for good
Ahead == {"absent", "created", "submitted"}
Behind(place, r) == place[r] \notin Ahead \cup {"queued"}

QueueTypes(heap, table, names) ==
  /\ heap \in [Deques -> Seq(Runs)]
  /\ table \in [Keys -> Deques \cup {NoDeque}]
  /\ names \in [Runs -> Deques \cup {NoDeque}]

\* a deque is of one device, and a thread's of the run's own
OneDevicePerDeque(table, names) ==
  /\ \A k \in Keys : table[k] # NoDeque => KeyOf[table[k][1]] = k
  /\ \A r \in Runs : names[r] # NoDeque => KeyOf[names[r][1]] = KeyOf[r]

\* deques that are still to be built
Unbuilt(place, d) ==
  place[d[1]] \in Ahead \/ (place[d[1]] = "queued" /\ d[2] = "withdrawal")
UnbuiltUnknown(place, heap, table, names) ==
  \A d \in Deques : Unbuilt(place, d) =>
    heap[d] = <<>> /\ (\A k \in Keys : table[k] # d) /\ (\A r \in Runs : names[r] # d)

NobodyTooEarly(place, heap) ==
  \A d \in Deques, r \in Runs : In(r, heap[d]) => place[r] \notin Ahead

\* Who waits is listed in the deque its thread holds and in that of its device;
\* if these are two, somebody gone haunts the first.
Waits(place, heap, table, names, r) ==
  LET k == KeyOf[r]
  IN  /\ names[r] # NoDeque /\ In(r, heap[names[r]])
      /\ table[k] # NoDeque /\ In(r, heap[table[k]])
      /\ names[r] = table[k] \/ \E q \in Runs : In(q, heap[names[r]]) /\ Behind(place, q)

QueueInv(place, heap, table, names) ==
  /\ QueueTypes(heap, table, names)
  /\ OneDevicePerDeque(table, names)
  /\ UnbuiltUnknown(place, heap, table, names)
  /\ NobodyTooEarly(place, heap)
  /\ \A r \in Runs : place[r] = "queued" => Waits(place, heap, table, names, r)

\* what the line of a device is
LineIn(heap, table, k) == IF table[k] = NoDeque THEN <<>> ELSE heap[table[k]]

LEMMA InitQueue == Init => QueueInv(pc, deque, queueOf, mine)
<1> SUFFICES ASSUME Init PROVE QueueInv(pc, deque, queueOf, mine)
  OBVIOUS
<1>1. \A r \in Runs : pc[r] = "absent" /\ mine[r] = NoDeque
  BY DEF Init
<1>2. (\A k \in Keys : queueOf[k] = NoDeque) /\ \A d \in Deques : deque[d] = <<>>
  BY DEF Init
<1>3. NoDeque \notin Deques
  BY ScanAssumption DEF Deques
<1>4. QueueTypes(deque, queueOf, mine)
  BY DEF Init, QueueTypes
<1>5. OneDevicePerDeque(queueOf, mine) /\ UnbuiltUnknown(pc, deque, queueOf, mine)
  BY <1>1, <1>2, <1>3 DEF OneDevicePerDeque, UnbuiltUnknown
<1>6. NobodyTooEarly(pc, deque)
  BY <1>2 DEF NobodyTooEarly, In
<1> QED BY <1>1, <1>4, <1>5, <1>6 DEF QueueInv

\* A step before the line or after it.
LEMMA PlaceMoves ==
  ASSUME NEW place \in [Runs -> Places], NEW heap, NEW table, NEW names,
         QueueInv(place, heap, table, names), NEW r \in Runs, NEW there \in Places,
         \/ place[r] \in Ahead /\ there \in Ahead
         \/ Behind(place, r) /\ there \notin Ahead \cup {"queued"}
  PROVE  QueueInv([place EXCEPT ![r] = there], heap, table, names)
<1> DEFINE next == [place EXCEPT ![r] = there]
<1>1. /\ next[r] = there /\ \A q \in Runs \ {r} : next[q] = place[q]
  OBVIOUS
<1>2. \A q \in Runs : /\ next[q] \in Ahead <=> place[q] \in Ahead
                      /\ next[q] = "queued" <=> place[q] = "queued"
                      /\ Behind(next, q) <=> Behind(place, q)
  BY <1>1 DEF Behind, Ahead
<1> HIDE DEF next
<1>3. QueueTypes(heap, table, names) /\ OneDevicePerDeque(table, names)
  BY DEF QueueInv
<1>4. UnbuiltUnknown(next, heap, table, names)
  <2>1. \A d \in Deques : d[1] \in Runs
    BY DEF Deques
  <2>2. \A d \in Deques : Unbuilt(next, d) => Unbuilt(place, d)
    BY <1>2, <2>1 DEF Unbuilt
  <2> QED BY <2>2 DEF QueueInv, UnbuiltUnknown
<1>5. NobodyTooEarly(next, heap)
  BY <1>2 DEF QueueInv, NobodyTooEarly
<1>6. ASSUME NEW q \in Runs, next[q] = "queued" PROVE Waits(next, heap, table, names, q)
  <2>1. Waits(place, heap, table, names, q)
    BY <1>2, <1>6 DEF QueueInv
  <2> QED BY <1>2, <2>1 DEF Waits
<1> QED BY <1>3, <1>4, <1>5, <1>6 DEF QueueInv, next

\* Joining the line of one's device, which may have to be built.
Joins(place, heap, table, names, r, k, d, next, longer, found, known_) ==
  /\ place \in [Runs -> Places] /\ QueueInv(place, heap, table, names)
  /\ r \in Runs /\ place[r] \in Ahead /\ k = KeyOf[r]
  /\ d = IF table[k] = NoDeque THEN <<r, "arrival">> ELSE table[k]
  /\ longer = [heap EXCEPT ![d] = Append(@, r)]
  /\ found = [table EXCEPT ![k] = d]
  /\ next = [place EXCEPT ![r] = "queued"] /\ known_ = [names EXCEPT ![r] = d]
LEMMA Joining ==
  ASSUME NEW place, NEW heap, NEW table, NEW names, NEW r, NEW k, NEW d,
         NEW next, NEW longer, NEW found, NEW known_,
         Joins(place, heap, table, names, r, k, d, next, longer, found, known_)
  PROVE  /\ QueueInv(next, longer, found, known_)
         /\ LineIn(heap, table, k) \in Seq(Runs) /\ ~In(r, LineIn(heap, table, k))
         /\ LineIn(longer, found, k) = Append(LineIn(heap, table, k), r)
         /\ \A other \in Keys \ {k} : LineIn(longer, found, other) = LineIn(heap, table, other)
         /\ k \in Keys /\ d \in Deques /\ found[k] = d
<1> USE DEF Joins
<1>1. /\ next[r] = "queued" /\ \A q \in Runs \ {r} : next[q] = place[q]
  BY DEF Places, Slotless
<1>2. /\ k \in Keys /\ heap \in [Deques -> Seq(Runs)] /\ table \in [Keys -> Deques \cup {NoDeque}]
      /\ names \in [Runs -> Deques \cup {NoDeque}] /\ NoDeque \notin Deques
  BY ScanAssumption DEF QueueInv, QueueTypes, Deques
<1>3. d \in Deques /\ KeyOf[d[1]] = k
  <2>1. CASE table[k] = NoDeque
    BY <2>1 DEF Deques
  <2>2. CASE table[k] # NoDeque
    BY <1>2, <2>2 DEF QueueInv, OneDevicePerDeque
  <2> QED BY <2>1, <2>2
<1>4. /\ longer \in [Deques -> Seq(Runs)] /\ longer[d] = Append(heap[d], r)
      /\ \A e \in Deques \ {d} : longer[e] = heap[e]
  BY <1>2, <1>3
<1>5. /\ found \in [Keys -> Deques \cup {NoDeque}] /\ found[k] = d
      /\ \A other \in Keys \ {k} : found[other] = table[other]
  BY <1>2, <1>3
<1>6. /\ known_ \in [Runs -> Deques \cup {NoDeque}] /\ known_[r] = d
      /\ \A q \in Runs \ {r} : known_[q] = names[q]
  BY <1>2, <1>3
<1>7. LineIn(heap, table, k) = heap[d] /\ heap[d] \in Seq(Runs)
  <2>1. CASE table[k] = NoDeque
    <3>1. d = <<r, "arrival">> /\ d[1] = r
      BY <2>1
    <3>2. Unbuilt(place, d)
      BY <3>1 DEF Unbuilt
    <3>3. heap[d] = <<>>
      BY <1>3, <3>2 DEF QueueInv, UnbuiltUnknown
    <3> QED BY <1>2, <1>3, <2>1, <3>3 DEF LineIn
  <2>2. CASE table[k] # NoDeque
    BY <1>2, <1>3, <2>2 DEF LineIn
  <2> QED BY <2>1, <2>2
<1>8. ~In(r, heap[d])
  BY <1>3 DEF QueueInv, NobodyTooEarly
<1>9. LineIn(longer, found, k) = Append(LineIn(heap, table, k), r)
  BY <1>2, <1>3, <1>4, <1>5, <1>7 DEF LineIn
<1>10. ASSUME NEW other \in Keys \ {k} PROVE LineIn(longer, found, other) = LineIn(heap, table, other)
  <2>1. CASE table[other] = NoDeque
    BY <1>5, <2>1 DEF LineIn
  <2>2. CASE table[other] # NoDeque
    <3>1. KeyOf[table[other][1]] = other /\ table[other] \in Deques
      BY <1>2, <2>2 DEF QueueInv, OneDevicePerDeque
    <3>2. table[other] # d
      BY <1>3, <3>1
    <3> QED BY <1>4, <1>5, <2>2, <3>1, <3>2 DEF LineIn
  <2> QED BY <2>1, <2>2
<1>11. QueueTypes(longer, found, known_)
  BY <1>4, <1>5, <1>6 DEF QueueTypes
<1>12. OneDevicePerDeque(found, known_)
  BY <1>3, <1>5, <1>6 DEF QueueInv, OneDevicePerDeque
<1>13. UnbuiltUnknown(next, longer, found, known_)
  <2> SUFFICES ASSUME NEW e \in Deques, Unbuilt(next, e)
               PROVE  longer[e] = <<>> /\ (\A j \in Keys : found[j] # e)
                      /\ (\A q \in Runs : known_[q] # e)
    BY DEF UnbuiltUnknown
  <2>1. e[1] \in Runs
    BY DEF Deques
  <2>2. Unbuilt(place, e)
    BY <1>1, <2>1 DEF Unbuilt, Ahead
  <2>3. heap[e] = <<>> /\ (\A j \in Keys : table[j] # e) /\ (\A q \in Runs : names[q] # e)
    BY <2>2 DEF QueueInv, UnbuiltUnknown
  <2>4. d # e
    <3>1. CASE table[k] = NoDeque
      <4>1. d[1] = r /\ d[2] = "arrival"
        BY <3>1
      <4>2. e[1] = r => e[2] = "withdrawal"
        BY <1>1 DEF Unbuilt, Ahead
      <4> QED BY <4>1, <4>2
    <3>2. CASE table[k] # NoDeque
      BY <1>2, <2>3, <3>2
    <3> QED BY <3>1, <3>2
  <2> QED BY <1>4, <1>5, <1>6, <2>3, <2>4
<1>14. NobodyTooEarly(next, longer)
  <2> SUFFICES ASSUME NEW e \in Deques, NEW q \in Runs, In(q, longer[e]) PROVE next[q] \notin Ahead
    BY DEF NobodyTooEarly
  <2>1. In(q, heap[e]) \/ q = r
    <3>1. CASE e = d
      <4>1. In(q, Append(heap[d], r))
        BY <1>4, <3>1
      <4> QED BY <1>7, <3>1, <4>1, InAppended
    <3>2. CASE e # d
      BY <1>4, <3>2
    <3> QED BY <3>1, <3>2
  <2>2. q # r => place[q] \notin Ahead
    BY <2>1 DEF QueueInv, NobodyTooEarly
  <2> QED BY <1>1, <2>2 DEF Ahead
<1>15. ASSUME NEW q \in Runs, next[q] = "queued" PROVE Waits(next, longer, found, known_, q)
  <2>1. \A e \in Deques, x \in Runs : In(x, heap[e]) => In(x, longer[e])
    BY <1>4, <1>7, InAppended
  <2>2. CASE q = r
    <3>1. In(r, longer[d])
      BY <1>4, <1>7, InAppended
    <3> QED BY <1>2, <1>3, <1>5, <1>6, <2>2, <3>1 DEF Waits
  <2>3. CASE q # r
    <3>1. Waits(place, heap, table, names, q)
      BY <1>1, <1>15, <2>3 DEF QueueInv
    <3>2. names[q] \in Deques /\ table[KeyOf[q]] \in Deques /\ KeyOf[q] \in Keys
      BY <1>2, <3>1, ScanAssumption DEF Waits
    <3>3. known_[q] = names[q] /\ found[KeyOf[q]] = table[KeyOf[q]]
      <4>1. CASE KeyOf[q] = k
        BY <1>2, <1>5, <1>6, <2>3, <3>2, <4>1
      <4>2. CASE KeyOf[q] # k
        BY <1>5, <1>6, <2>3, <3>2, <4>2
      <4> QED BY <4>1, <4>2
    <3>4. \A x \in Runs : Behind(place, x) => Behind(next, x)
      BY <1>1 DEF Behind, Ahead
    <3> QED BY <1>2, <2>1, <3>1, <3>2, <3>3, <3>4 DEF Waits
  <2> QED BY <2>2, <2>3
<1>16. QueueInv(next, longer, found, known_)
  BY <1>11, <1>12, <1>13, <1>14, <1>15 DEF QueueInv
<1> QED BY <1>2, <1>3, <1>5, <1>7, <1>8, <1>9, <1>10, <1>16

\* Taking a slot: the head leaves the deque its thread holds.
Takes(place, heap, table, names, r, k, d, rest, next, shorter, found, known_) ==
  /\ place \in [Runs -> Places] /\ QueueInv(place, heap, table, names)
  /\ r \in Runs /\ place[r] = "queued" /\ k = KeyOf[r] /\ d = names[r]
  /\ heap[d] # <<>> /\ Head(heap[d]) = r /\ rest = Tail(heap[d])
  /\ shorter = [heap EXCEPT ![d] = rest]
  /\ found = IF rest = <<>> THEN [table EXCEPT ![k] = NoDeque] ELSE table
  /\ next = [place EXCEPT ![r] = "slotted"] /\ known_ = [names EXCEPT ![r] = NoDeque]
LEMMA Taking ==
  ASSUME NEW place, NEW heap, NEW table, NEW names, NEW r, NEW k, NEW d, NEW rest,
         NEW next, NEW shorter, NEW found, NEW known_,
         Takes(place, heap, table, names, r, k, d, rest, next, shorter, found, known_)
  PROVE  /\ QueueInv(next, shorter, found, known_)
         /\ k \in Keys /\ d \in Deques /\ heap[d] \in Seq(Runs)
         /\ d = table[k] => LineIn(heap, table, k) = heap[d] /\ LineIn(shorter, found, k) = rest
         /\ d = table[k] \/ \E q \in Runs : In(q, heap[d]) /\ Behind(place, q)
         /\ \A other \in Keys \ {k} : LineIn(shorter, found, other) = LineIn(heap, table, other)
<1> USE DEF Takes
<1>1. /\ next[r] = "slotted" /\ \A q \in Runs \ {r} : next[q] = place[q]
  OBVIOUS
<1>2. /\ k \in Keys /\ heap \in [Deques -> Seq(Runs)] /\ table \in [Keys -> Deques \cup {NoDeque}]
      /\ names \in [Runs -> Deques \cup {NoDeque}] /\ NoDeque \notin Deques
  BY ScanAssumption DEF QueueInv, QueueTypes, Deques
<1>3. Waits(place, heap, table, names, r)
  BY DEF QueueInv
<1>4. /\ d \in Deques /\ KeyOf[d[1]] = k /\ heap[d] \in Seq(Runs) /\ table[k] # NoDeque
      /\ d = table[k] \/ \E q \in Runs : In(q, heap[d]) /\ Behind(place, q)
  <2>1. d # NoDeque /\ table[k] # NoDeque
        /\ (d = table[k] \/ \E q \in Runs : In(q, heap[d]) /\ Behind(place, q))
    BY <1>3 DEF Waits
  <2>2. KeyOf[names[r][1]] = KeyOf[r]
    BY <2>1 DEF QueueInv, OneDevicePerDeque
  <2> QED BY <1>2, <2>1, <2>2
<1>5. /\ rest \in Seq(Runs) /\ \A x : In(x, heap[d]) /\ x # r => In(x, rest)
      /\ \A x : In(x, rest) => In(x, heap[d])
  BY <1>4, InTail
<1>6. /\ shorter \in [Deques -> Seq(Runs)] /\ shorter[d] = rest
      /\ \A e \in Deques \ {d} : shorter[e] = heap[e]
  BY <1>2, <1>4, <1>5
<1>7. /\ found \in [Keys -> Deques \cup {NoDeque}]
      /\ \A other \in Keys \ {k} : found[other] = table[other]
      /\ found[k] = IF rest = <<>> THEN NoDeque ELSE table[k]
  BY <1>2
<1>8. /\ known_ \in [Runs -> Deques \cup {NoDeque}] /\ known_[r] = NoDeque
      /\ \A q \in Runs \ {r} : known_[q] = names[q]
  BY <1>2
<1>9. ASSUME NEW other \in Keys \ {k} PROVE LineIn(shorter, found, other) = LineIn(heap, table, other)
  <2>1. CASE table[other] = NoDeque
    BY <1>7, <2>1 DEF LineIn
  <2>2. CASE table[other] # NoDeque
    <3>1. KeyOf[table[other][1]] = other /\ table[other] \in Deques
      BY <1>2, <2>2 DEF QueueInv, OneDevicePerDeque
    <3>2. table[other] # d
      BY <1>4, <3>1
    <3> QED BY <1>6, <1>7, <2>2, <3>1, <3>2 DEF LineIn
  <2> QED BY <2>1, <2>2
<1>10. d = table[k] => LineIn(heap, table, k) = heap[d] /\ LineIn(shorter, found, k) = rest
  BY <1>4, <1>6, <1>7 DEF LineIn
<1>11. QueueTypes(shorter, found, known_)
  BY <1>6, <1>7, <1>8 DEF QueueTypes
<1>12. OneDevicePerDeque(found, known_)
  BY <1>7, <1>8 DEF QueueInv, OneDevicePerDeque
<1>13. UnbuiltUnknown(next, shorter, found, known_)
  <2> SUFFICES ASSUME NEW e \in Deques, Unbuilt(next, e)
               PROVE  shorter[e] = <<>> /\ (\A j \in Keys : found[j] # e)
                      /\ (\A q \in Runs : known_[q] # e)
    BY DEF UnbuiltUnknown
  <2>1. e[1] \in Runs
    BY DEF Deques
  <2>2. Unbuilt(place, e)
    BY <1>1, <2>1 DEF Unbuilt, Ahead
  <2>3. heap[e] = <<>> /\ (\A j \in Keys : table[j] # e) /\ (\A q \in Runs : names[q] # e)
    BY <2>2 DEF QueueInv, UnbuiltUnknown
  <2>4. e # d /\ e # NoDeque
    BY <1>2, <2>3
  <2>5. \A j \in Keys : found[j] # e
    BY <1>7, <2>3, <2>4
  <2> QED BY <1>6, <1>8, <2>3, <2>4, <2>5
<1>14. NobodyTooEarly(next, shorter)
  <2> SUFFICES ASSUME NEW e \in Deques, NEW q \in Runs, In(q, shorter[e]) PROVE next[q] \notin Ahead
    BY DEF NobodyTooEarly
  <2>1. In(q, heap[e])
    BY <1>5, <1>6
  <2>2. place[q] \notin Ahead
    BY <2>1 DEF QueueInv, NobodyTooEarly
  <2> QED BY <1>1, <2>2 DEF Ahead
<1>15. ASSUME NEW q \in Runs, next[q] = "queued" PROVE Waits(next, shorter, found, known_, q)
  <2>1. q # r /\ place[q] = "queued" /\ Waits(place, heap, table, names, q)
    BY <1>1, <1>15 DEF QueueInv
  <2>2. /\ names[q] \in Deques /\ table[KeyOf[q]] \in Deques /\ KeyOf[q] \in Keys
        /\ In(q, heap[names[q]]) /\ In(q, heap[table[KeyOf[q]]])
    BY <1>2, <2>1, ScanAssumption DEF Waits
  <2>3. \A e \in Deques, x \in Runs : In(x, heap[e]) /\ x # r => In(x, shorter[e])
    BY <1>5, <1>6
  <2>4. \A x \in Runs : Behind(place, x) => x # r /\ Behind(next, x)
    BY <1>1 DEF Behind, Ahead
  <2>5. found[KeyOf[q]] = table[KeyOf[q]]
    <3>1. CASE KeyOf[q] = k
      <4>1. rest # <<>>
        <5>1. ASSUME rest = <<>> PROVE \A x : ~In(x, rest)
          BY <5>1 DEF In
        <5>2. CASE d = table[k]
          BY <1>5, <2>1, <2>2, <3>1, <5>1, <5>2
        <5>3. CASE d # table[k]
          BY <1>4, <1>5, <2>4, <5>1, <5>3
        <5> QED BY <5>2, <5>3
      <4> QED BY <1>7, <3>1, <4>1
    <3>2. CASE KeyOf[q] # k
      BY <1>7, <2>2, <3>2
    <3> QED BY <3>1, <3>2
  <2>6. In(q, shorter[names[q]]) /\ In(q, shorter[table[KeyOf[q]]])
    BY <2>1, <2>2, <2>3
  <2>7. names[q] = table[KeyOf[q]] \/ \E x \in Runs : In(x, shorter[names[q]]) /\ Behind(next, x)
    <3>1. names[q] = table[KeyOf[q]] \/ \E x \in Runs : In(x, heap[names[q]]) /\ Behind(place, x)
      BY <2>1 DEF Waits
    <3> QED BY <2>2, <2>3, <2>4, <3>1
  <2> QED BY <1>2, <1>8, <2>1, <2>2, <2>5, <2>6, <2>7 DEF Waits
<1>16. QueueInv(next, shorter, found, known_)
  BY <1>11, <1>12, <1>13, <1>14, <1>15 DEF QueueInv
<1> QED BY <1>2, <1>4, <1>9, <1>10, <1>16

\* Leaving the line: the device gets a new deque without r, or none.
Withdraws(place, heap, table, names, r, k, rest, copy, next, kept, found, known_) ==
  /\ place \in [Runs -> Places] /\ QueueInv(place, heap, table, names)
  /\ r \in Runs /\ place[r] = "queued" /\ k = KeyOf[r]
  /\ rest = Without(heap[table[k]], r) /\ copy = <<r, "withdrawal">>
  /\ kept = IF rest = <<>> THEN heap ELSE [heap EXCEPT ![copy] = rest]
  /\ found = [table EXCEPT ![k] = IF rest = <<>> THEN NoDeque ELSE copy]
  /\ next = [place EXCEPT ![r] = "turnedAway"] /\ known_ = [names EXCEPT ![r] = NoDeque]
LEMMA Withdrawing ==
  ASSUME NEW place, NEW heap, NEW table, NEW names, NEW r, NEW k, NEW rest, NEW copy,
         NEW next, NEW kept, NEW found, NEW known_,
         Withdraws(place, heap, table, names, r, k, rest, copy, next, kept, found, known_)
  PROVE  /\ QueueInv(next, kept, found, known_)
         /\ k \in Keys /\ table[k] # NoDeque /\ In(r, LineIn(heap, table, k))
         /\ LineIn(heap, table, k) \in Seq(Runs)
         /\ LineIn(kept, found, k) = Without(LineIn(heap, table, k), r)
         /\ \A other \in Keys \ {k} : LineIn(kept, found, other) = LineIn(heap, table, other)
<1> USE DEF Withdraws
<1>1. /\ next[r] = "turnedAway" /\ \A q \in Runs \ {r} : next[q] = place[q]
  OBVIOUS
<1>2. /\ k \in Keys /\ heap \in [Deques -> Seq(Runs)] /\ table \in [Keys -> Deques \cup {NoDeque}]
      /\ names \in [Runs -> Deques \cup {NoDeque}] /\ NoDeque \notin Deques /\ copy \in Deques
  BY ScanAssumption DEF QueueInv, QueueTypes, Deques
<1>3. Waits(place, heap, table, names, r)
  BY DEF QueueInv
<1>4. /\ table[k] \in Deques /\ table[k] # NoDeque /\ In(r, heap[table[k]])
      /\ heap[table[k]] \in Seq(Runs)
  BY <1>2, <1>3 DEF Waits
<1>5. Unbuilt(place, copy) /\ KeyOf[copy[1]] = k
  BY DEF Unbuilt
<1>6. (\A j \in Keys : table[j] # copy) /\ (\A q \in Runs : names[q] # copy)
  BY <1>2, <1>5 DEF QueueInv, UnbuiltUnknown
<1>7. rest \in Seq(Runs) /\ \A x : In(x, rest) <=> In(x, heap[table[k]]) /\ x # r
  BY <1>4, WithoutOne
<1>8. /\ kept \in [Deques -> Seq(Runs)] /\ (rest # <<>> => kept[copy] = rest)
      /\ \A e \in Deques \ {copy} : kept[e] = heap[e]
      /\ \A e \in Deques : kept[e] = heap[e] \/ kept[e] = rest
  BY <1>2, <1>7
<1>9. /\ found \in [Keys -> Deques \cup {NoDeque}]
      /\ \A other \in Keys \ {k} : found[other] = table[other]
      /\ found[k] = IF rest = <<>> THEN NoDeque ELSE copy
  BY <1>2
<1>10. /\ known_ \in [Runs -> Deques \cup {NoDeque}] /\ known_[r] = NoDeque
       /\ \A q \in Runs \ {r} : known_[q] = names[q]
  BY <1>2
<1>11. ASSUME NEW other \in Keys \ {k} PROVE LineIn(kept, found, other) = LineIn(heap, table, other)
  BY <1>2, <1>6, <1>8, <1>9 DEF LineIn
<1>12. /\ LineIn(heap, table, k) = heap[table[k]]
       /\ LineIn(kept, found, k) = rest
  BY <1>2, <1>4, <1>8, <1>9 DEF LineIn
<1>13. QueueTypes(kept, found, known_)
  BY <1>8, <1>9, <1>10 DEF QueueTypes
<1>14. OneDevicePerDeque(found, known_)
  <2>1. \A j \in Keys : found[j] # NoDeque => KeyOf[found[j][1]] = j
    BY <1>5, <1>9 DEF QueueInv, OneDevicePerDeque
  <2>2. \A q \in Runs : known_[q] # NoDeque => KeyOf[known_[q][1]] = KeyOf[q]
    BY <1>10 DEF QueueInv, OneDevicePerDeque
  <2> QED BY <2>1, <2>2 DEF OneDevicePerDeque
<1>15. UnbuiltUnknown(next, kept, found, known_)
  <2> SUFFICES ASSUME NEW e \in Deques, Unbuilt(next, e)
               PROVE  kept[e] = <<>> /\ (\A j \in Keys : found[j] # e)
                      /\ (\A q \in Runs : known_[q] # e)
    BY DEF UnbuiltUnknown
  <2>1. e[1] \in Runs
    BY DEF Deques
  <2>2. Unbuilt(place, e) /\ e[1] # r
    BY <1>1, <2>1 DEF Unbuilt, Ahead
  <2>3. heap[e] = <<>> /\ (\A j \in Keys : table[j] # e) /\ (\A q \in Runs : names[q] # e)
    BY <2>2 DEF QueueInv, UnbuiltUnknown
  <2>4. e # copy /\ e # NoDeque
    BY <1>2, <2>2
  <2>5. \A j \in Keys : found[j] # e
    BY <1>9, <2>3, <2>4
  <2> QED BY <1>8, <1>10, <2>3, <2>4, <2>5
<1>16. NobodyTooEarly(next, kept)
  <2> SUFFICES ASSUME NEW e \in Deques, NEW q \in Runs, In(q, kept[e]) PROVE next[q] \notin Ahead
    BY DEF NobodyTooEarly
  <2>1. In(q, heap[e]) \/ In(q, heap[table[k]])
    BY <1>7, <1>8
  <2>2. place[q] \notin Ahead
    BY <1>4, <2>1 DEF QueueInv, NobodyTooEarly
  <2> QED BY <1>1, <2>2 DEF Ahead
<1>17. ASSUME NEW q \in Runs, next[q] = "queued" PROVE Waits(next, kept, found, known_, q)
  <2>1. q # r /\ place[q] = "queued" /\ Waits(place, heap, table, names, q)
    BY <1>1, <1>17 DEF QueueInv
  <2>2. /\ names[q] \in Deques /\ table[KeyOf[q]] \in Deques /\ KeyOf[q] \in Keys
        /\ In(q, heap[names[q]]) /\ In(q, heap[table[KeyOf[q]]])
    BY <1>2, <2>1, ScanAssumption DEF Waits
  <2>3. Behind(next, r) /\ \A x \in Runs : Behind(place, x) => Behind(next, x)
    BY <1>1 DEF Behind, Ahead
  <2>4. known_[q] = names[q] /\ kept[names[q]] = heap[names[q]]
    BY <1>6, <1>8, <1>10, <2>1, <2>2
  <2>5. names[q] = table[KeyOf[q]] \/ \E x \in Runs : In(x, heap[names[q]]) /\ Behind(place, x)
    BY <2>1 DEF Waits
  <2>6. CASE KeyOf[q] = k
    <3>1. In(q, rest) /\ rest # <<>>
      <4>1. In(q, rest)
        BY <1>7, <2>1, <2>2, <2>6
      <4> QED BY <4>1 DEF In
    <3>2. found[k] = copy /\ kept[copy] = rest
      BY <1>8, <1>9, <3>1
    <3>3. \E x \in Runs : In(x, kept[names[q]]) /\ Behind(next, x)
      BY <1>4, <2>3, <2>4, <2>5, <2>6
    <3> QED BY <1>2, <2>2, <2>4, <2>6, <3>1, <3>2, <3>3 DEF Waits
  <2>7. CASE KeyOf[q] # k
    <3>1. found[KeyOf[q]] = table[KeyOf[q]] /\ kept[table[KeyOf[q]]] = heap[table[KeyOf[q]]]
      BY <1>6, <1>8, <1>9, <2>2, <2>7
    <3> QED BY <1>2, <2>2, <2>3, <2>4, <2>5, <3>1 DEF Waits
  <2> QED BY <2>6, <2>7
<1>18. QueueInv(next, kept, found, known_)
  BY <1>13, <1>14, <1>15, <1>16, <1>17 DEF QueueInv
<1> QED BY <1>2, <1>4, <1>11, <1>12, <1>18

-----------------------------------------------------------------------------
(* Who holds the slots.                                                    *)

\* Whoever takes a free slot is one more holder, and there was room.
LEMMA SlotTaken ==
  ASSUME TypeOK, SlotsExclusive, NEW r \in Runs, NEW k, k = KeyOf[r], NEW s \in Slot,
         slots[k][s] = NoRun, slots' = [slots EXCEPT ![k][s] = r]
  PROVE  /\ Holders(k)' = Holders(k) \cup {r} /\ Cardinality(Holders(k)) < MaxActive
         /\ \A other \in Keys \ {k} : Holders(other)' = Holders(other)
<1>1. k \in Keys /\ r # NoRun /\ NoRun \notin Runs /\ MaxActive \in Nat \ {0}
  BY ScanAssumption
<1>2. /\ slots \in [Keys -> [Slot -> Runs \cup {NoRun}]]
      /\ slots'[k] = [slots[k] EXCEPT ![s] = r]
      /\ \A other \in Keys \ {k} : slots'[other] = slots[other]
  BY <1>1 DEF TypeOK
<1>3. slots'[k][s] = r /\ \A t \in Slot \ {s} : slots'[k][t] = slots[k][t]
  BY <1>1, <1>2
<1>4. Holders(k)' = Holders(k) \cup {r}
  BY <1>1, <1>3 DEF Holders
<1>5. ASSUME NEW other \in Keys \ {k} PROVE Holders(other)' = Holders(other)
  BY <1>2 DEF Holders
<1>6. Cardinality(Holders(k)) < MaxActive
  <2> DEFINE f == [q \in Holders(k) |-> slotOf[q]]
  <2>1. ASSUME NEW q \in Holders(k)
        PROVE  slotOf[q] \in Slot \ {s} /\ slots[k][slotOf[q]] = q
    <3>1. PICK t \in Slot : slots[k][t] = q
      BY DEF Holders
    <3>2. q \in Runs /\ q # NoRun
      BY <1>1 DEF Holders
    <3>3. slotOf[q] = t
      BY <1>1, <3>1, <3>2 DEF SlotsExclusive
    <3> QED BY <3>1, <3>2, <3>3
  <2>2. f \in Injection(Holders(k), Slot \ {s})
    <3>1. f \in [Holders(k) -> Slot \ {s}]
      BY <2>1
    <3>2. \A p, q \in Holders(k) : f[p] = f[q] => p = q
      BY <2>1
    <3> HIDE DEF f
    <3> QED BY <3>1, <3>2 DEF Injection, IsInjective
  <2>3. IsFiniteSet(Slot) /\ Cardinality(Slot) = MaxActive
    BY <1>1, FS_Interval DEF Slot
  <2>4. IsFiniteSet(Slot \ {s}) /\ Cardinality(Slot \ {s}) = MaxActive - 1
    BY <2>3, FS_RemoveElement
  <2>5. IsFiniteSet(Holders(k)) /\ Cardinality(Holders(k)) <= MaxActive - 1
    <3> HIDE DEF f
    <3> QED BY <2>2, <2>4, FS_Injection
  <2>6. Cardinality(Holders(k)) \in Nat
    BY <2>5, FS_CardinalityType
  <2> QED BY <1>1, <2>5, <2>6
<1> QED BY <1>4, <1>5, <1>6

\* Whoever gives its slot back held one, and holds none any more.
LEMMA SlotFreed ==
  ASSUME TypeOK, SlotsExclusive, NEW r \in Runs, pc[r] \in Holding,
         slots' = [slots EXCEPT ![KeyOf[r]][slotOf[r]] = NoRun]
  PROVE  /\ r \in Holders(KeyOf[r]) /\ Holders(KeyOf[r])' = Holders(KeyOf[r]) \ {r}
         /\ \A other \in Keys \ {KeyOf[r]} : Holders(other)' = Holders(other)
<1> DEFINE k == KeyOf[r]
           s == slotOf[r]
<1>1. k \in Keys /\ r # NoRun /\ NoRun \notin Runs
  BY ScanAssumption
<1>2. s \in Slot /\ slots[k][s] = r
  BY DEF SlotsExclusive
<1>3. /\ slots \in [Keys -> [Slot -> Runs \cup {NoRun}]]
      /\ slots'[k] = [slots[k] EXCEPT ![s] = NoRun]
      /\ \A other \in Keys \ {k} : slots'[other] = slots[other]
  BY <1>1 DEF TypeOK
<1>4. slots'[k][s] = NoRun /\ \A t \in Slot \ {s} : slots'[k][t] = slots[k][t]
  BY <1>1, <1>2, <1>3
<1>5. \A t \in Slot : slots[k][t] = r => t = s
  BY <1>1 DEF SlotsExclusive
<1> HIDE DEF k, s
<1>6. r \in Holders(k)
  BY <1>2 DEF Holders
<1>7. Holders(k)' = Holders(k) \ {r}
  <2>1. ASSUME NEW q \in Runs PROVE q \in Holders(k)' <=> q \in Holders(k) /\ q # r
    <3>1. CASE q = r
      BY <1>1, <1>4, <1>5, <3>1 DEF Holders
    <3>2. CASE q # r
      BY <1>1, <1>2, <1>4, <3>2 DEF Holders
    <3> QED BY <3>1, <3>2
  <2>2. Holders(k) \subseteq Runs /\ Holders(k)' \subseteq Runs
    BY DEF Holders
  <2> QED BY <2>1, <2>2
<1>8. ASSUME NEW other \in Keys \ {k} PROVE Holders(other)' = Holders(other)
  BY <1>3 DEF Holders
<1> QED BY <1>6, <1>7, <1>8 DEF k

-----------------------------------------------------------------------------
(* What the steps of the service are steps of.                             *)

QInv == QueueInv(pc, deque, queueOf, mine)
FifoStep == Fifo!Next \/ (\E k \in Keys : Haunted(k)) \/ UNCHANGED Fifo!fifoVars

\* Lines and holders as FifoSlots sees them, before and after.
SameLines(others) == \A k \in others : Line(k)' = Line(k)
SameHolders(others) == \A k \in others : Holders(k)' = Holders(k)

LEMMA IsStutter ==
  ASSUME SameLines(Keys), SameHolders(Keys)
  PROVE  FifoStep
BY DEF SameLines, SameHolders, FifoStep, Fifo!fifoVars

LEMMA IsJoin ==
  ASSUME NEW r \in Runs, NEW k, k = KeyOf[r], k \in Keys,
         Line(k)' = Append(Line(k), r), SameLines(Keys \ {k}), SameHolders(Keys)
  PROVE  FifoStep
<1>1. [j \in Keys |-> Line(j)'] = [[j \in Keys |-> Line(j)] EXCEPT ![k] = Append(@, r)]
  BY DEF SameLines
<1>2. [j \in Keys |-> Holders(j)'] = [j \in Keys |-> Holders(j)]
  BY DEF SameHolders
<1>3. Fifo!Join(r)
  BY <1>1, <1>2 DEF Fifo!Join
<1> QED BY <1>3 DEF FifoStep, Fifo!Next

LEMMA RoomMeans ==
  ASSUME NEW k \in Keys, Cardinality(Holders(k)) < MaxActive
  PROVE  Fifo!Room(k)
<1>1. Fifo!Cardinality(Holders(k)) = Cardinality(Holders(k))
  BY DEF Fifo!Cardinality, Cardinality
<1> QED BY <1>1 DEF Fifo!Room

LEMMA IsWalkIn ==
  ASSUME NEW r \in Runs, NEW k, k = KeyOf[r], k \in Keys, Line(k) = <<>>,
         Cardinality(Holders(k)) < MaxActive, Holders(k)' = Holders(k) \cup {r},
         SameLines(Keys), SameHolders(Keys \ {k})
  PROVE  FifoStep
<1>1. [j \in Keys |-> Line(j)'] = [j \in Keys |-> Line(j)]
  BY DEF SameLines
<1>2. [j \in Keys |-> Holders(j)'] = [[j \in Keys |-> Holders(j)] EXCEPT ![k] = @ \cup {r}]
  BY DEF SameHolders
<1>3. Fifo!WalkIn(r)
  BY <1>1, <1>2, RoomMeans DEF Fifo!WalkIn
<1> QED BY <1>3 DEF FifoStep, Fifo!Next

LEMMA IsAdmit ==
  ASSUME NEW r, NEW k \in Keys, Line(k) # <<>>, r = Head(Line(k)),
         Cardinality(Holders(k)) < MaxActive, Holders(k)' = Holders(k) \cup {r},
         Line(k)' = Tail(Line(k)), SameLines(Keys \ {k}), SameHolders(Keys \ {k})
  PROVE  FifoStep
<1>1. [j \in Keys |-> Line(j)'] = [[j \in Keys |-> Line(j)] EXCEPT ![k] = Tail(@)]
  BY DEF SameLines
<1>2. [j \in Keys |-> Holders(j)']
      = [[j \in Keys |-> Holders(j)] EXCEPT ![k] = @ \cup {Head(Line(k))}]
  BY DEF SameHolders
<1>3. Fifo!Admit(k)
  BY <1>1, <1>2, RoomMeans DEF Fifo!Admit
<1> QED BY <1>3 DEF FifoStep, Fifo!Next

LEMMA IsGiveUp ==
  ASSUME NEW r \in Runs, NEW k, k = KeyOf[r], k \in Keys, In(r, Line(k)),
         Line(k) \in Seq(Runs),
         Line(k)' = Without(Line(k), r), SameLines(Keys \ {k}), SameHolders(Keys)
  PROVE  FifoStep
<1>1. [j \in Keys |-> Line(j)'] = [[j \in Keys |-> Line(j)] EXCEPT ![k] = Without(@, r)]
  BY DEF SameLines
<1>2. [j \in Keys |-> Holders(j)'] = [j \in Keys |-> Holders(j)]
  BY DEF SameHolders
<1>3. r \in Fifo!ToSet(Line(k))
  BY DEF Fifo!ToSet, In
<1>4. \A s : Fifo!Without(s, r) = Without(s, r)
  BY DEF Fifo!Without, Without
<1>5. Fifo!GiveUp(r)
  BY <1>1, <1>2, <1>3, <1>4 DEF Fifo!GiveUp
<1> QED BY <1>5 DEF FifoStep, Fifo!Next

LEMMA IsLeave ==
  ASSUME NEW r \in Runs, NEW k, k = KeyOf[r], k \in Keys, r \in Holders(k),
         Holders(k)' = Holders(k) \ {r}, SameLines(Keys), SameHolders(Keys \ {k})
  PROVE  FifoStep
<1>1. [j \in Keys |-> Line(j)'] = [j \in Keys |-> Line(j)]
  BY DEF SameLines
<1>2. [j \in Keys |-> Holders(j)'] = [[j \in Keys |-> Holders(j)] EXCEPT ![k] = @ \ {r}]
  BY DEF SameHolders
<1>3. Fifo!Leave(r)
  BY <1>1, <1>2 DEF Fifo!Leave
<1> QED BY <1>3 DEF FifoStep, Fifo!Next

LEMMA LineIsLineIn ==
  ASSUME NEW k
  PROVE  Line(k) = LineIn(deque, queueOf, k) /\ Line(k)' = LineIn(deque', queueOf', k)
BY DEF Line, LineIn

\* What a pass of the loop does to the lines, seen from the queues it starts on:
\* those of the table and the heap, after the first pass has joined them.
Passes(place, heap, table, names, r, k, d) ==
  /\ place \in [Runs -> Places] /\ QueueInv(place, heap, table, names)
  /\ r \in Runs /\ place[r] = "queued" /\ k = KeyOf[r] /\ d = names[r]
  /\ \A there : [pc EXCEPT ![r] = there] = [place EXCEPT ![r] = there]
  /\ \A e : [mine EXCEPT ![r] = e] = [names EXCEPT ![r] = e]
  /\ Pass(r, heap, table, d)
LEMMA PassLines ==
  ASSUME NEW place, NEW heap, NEW table, NEW names, NEW r, NEW k, NEW d,
         Passes(place, heap, table, names, r, k, d)
  PROVE  /\ QInv' /\ k \in Keys
         /\ \A other \in Keys \ {k} : Line(other)' = LineIn(heap, table, other)
         /\ \/ /\ Line(k)' = Without(LineIn(heap, table, k), r)
               /\ In(r, LineIn(heap, table, k)) /\ LineIn(heap, table, k) \in Seq(Runs)
               /\ UNCHANGED slotVars
            \/ /\ heap[d] # <<>> /\ Head(heap[d]) = r /\ heap[d] \in Seq(Runs)
               /\ d = table[k] => LineIn(heap, table, k) = heap[d] /\ Line(k)' = Tail(heap[d])
               /\ d = table[k] \/ \E q \in Runs : In(q, heap[d]) /\ Behind(place, q)
               /\ \E s \in Slot : slots[k][s] = NoRun /\ slots' = [slots EXCEPT ![k][s] = r]
            \/ Line(k)' = LineIn(heap, table, k) /\ UNCHANGED slotVars
<1> USE DEF Passes
<1>1. QueueTypes(heap, table, names) /\ KeyOf[r] \in Keys
  BY ScanAssumption DEF QueueInv
<1>2. CASE Withdraw(r, heap, table)
  <2>1. PICK rest : rest = Without(heap[table[k]], r)
    OBVIOUS
  <2>2. PICK copy : copy = <<r, "withdrawal">>
    OBVIOUS
  <2>3. PICK kept : kept = IF rest = <<>> THEN heap ELSE [heap EXCEPT ![copy] = rest]
    OBVIOUS
  <2>4. PICK found : found = [table EXCEPT ![k] = IF rest = <<>> THEN NoDeque ELSE copy]
    OBVIOUS
  <2>7. PICK next, known_ :
          next = [place EXCEPT ![r] = "turnedAway"] /\ known_ = [names EXCEPT ![r] = NoDeque]
    OBVIOUS
  <2>5. /\ QueueInv(next, kept, found, known_)
        /\ k \in Keys /\ table[k] # NoDeque /\ In(r, LineIn(heap, table, k))
        /\ LineIn(heap, table, k) \in Seq(Runs)
        /\ LineIn(kept, found, k) = Without(LineIn(heap, table, k), r)
        /\ \A other \in Keys \ {k} : LineIn(kept, found, other) = LineIn(heap, table, other)
    <3>1. Withdraws(place, heap, table, names, r, k, rest, copy, next, kept, found, known_)
      BY <2>1, <2>2, <2>3, <2>4, <2>7 DEF Passes, Withdraws
    <3> QED BY <3>1, Withdrawing
  <2>6. /\ pc' = next /\ mine' = known_
        /\ deque' = kept /\ queueOf' = found /\ UNCHANGED slotVars
    BY <1>2, <2>1, <2>2, <2>3, <2>4, <2>5, <2>7 DEF Withdraw
  <2> QED BY <2>5, <2>6, LineIsLineIn DEF QInv
<1>3. CASE Acquire(r, heap, table, d)
  <2>1. PICK rest : rest = Tail(heap[d])
    OBVIOUS
  <2>2. PICK shorter : shorter = [heap EXCEPT ![d] = rest]
    OBVIOUS
  <2>3. PICK found : found = IF rest = <<>> THEN [table EXCEPT ![k] = NoDeque] ELSE table
    OBVIOUS
  <2>4. heap[d] # <<>> /\ Head(heap[d]) = r
    BY <1>3 DEF Acquire
  <2>10. PICK next, known_ :
           next = [place EXCEPT ![r] = "slotted"] /\ known_ = [names EXCEPT ![r] = NoDeque]
    OBVIOUS
  <2>5. /\ QueueInv(next, shorter, found, known_)
        /\ k \in Keys /\ d \in Deques /\ heap[d] \in Seq(Runs)
        /\ d = table[k] => LineIn(heap, table, k) = heap[d] /\ LineIn(shorter, found, k) = rest
        /\ d = table[k] \/ \E q \in Runs : In(q, heap[d]) /\ Behind(place, q)
        /\ \A other \in Keys \ {k} : LineIn(shorter, found, other) = LineIn(heap, table, other)
    <3>1. Takes(place, heap, table, names, r, k, d, rest, next, shorter, found, known_)
      BY <2>1, <2>2, <2>3, <2>4, <2>10 DEF Passes, Takes
    <3> QED BY <3>1, Taking
  <2>6. /\ pc' = next /\ mine' = known_
        /\ deque' = shorter /\ queueOf' = found
    BY <1>3, <2>1, <2>2, <2>3, <2>10 DEF Acquire
  <2>7. \E s \in Slot : slots[k][s] = NoRun /\ slots' = [slots EXCEPT ![k][s] = r]
    BY <1>3 DEF Acquire, LowestFree
  <2>8. /\ Line(k)' = LineIn(shorter, found, k)
        /\ \A other \in Keys \ {k} : Line(other)' = LineIn(heap, table, other)
    BY <2>5, <2>6, LineIsLineIn
  <2>9. QInv'
    BY <2>5, <2>6 DEF QInv
  <2> QED BY <2>1, <2>4, <2>5, <2>7, <2>8, <2>9
<1>4. CASE WaitTurn(r, heap, table, d)
  <2>1. names = [names EXCEPT ![r] = d] /\ place = [place EXCEPT ![r] = "queued"]
    BY <1>1 DEF QueueTypes
  <2>2. pc' = place /\ mine' = names /\ deque' = heap /\ queueOf' = table /\ UNCHANGED slotVars
    BY <1>4, <2>1 DEF WaitTurn
  <2> QED BY <1>1, <2>2, LineIsLineIn DEF QInv
<1> QED BY <1>2, <1>3, <1>4 DEF Pass

LEMMA ArriveFifo ==
  ASSUME IInv, QInv, NEW r \in Runs, Arrive(r)
  PROVE  QInv' /\ FifoStep
<1>1. PICK k : k = KeyOf[r]
  OBVIOUS
<1>2. PICK d : d = IF queueOf[k] = NoDeque THEN <<r, "arrival">> ELSE queueOf[k]
  OBVIOUS
<1>3. PICK longer : longer = [deque EXCEPT ![d] = Append(@, r)]
  OBVIOUS
<1>4. PICK found : found = [queueOf EXCEPT ![k] = d]
  OBVIOUS
<1>5. PICK place, names : place = [pc EXCEPT ![r] = "queued"] /\ names = [mine EXCEPT ![r] = d]
  OBVIOUS
<1>6. pc \in [Runs -> Places] /\ TypeOK /\ SlotsExclusive /\ pc[r] = "submitted"
      /\ pc[r] \in Ahead /\ QueueInv(pc, deque, queueOf, mine)
  BY DEF IInv, TypeOK, Arrive, Ahead, QInv
<1>7. /\ QueueInv(place, longer, found, names)
      /\ LineIn(deque, queueOf, k) \in Seq(Runs) /\ ~In(r, LineIn(deque, queueOf, k))
      /\ LineIn(longer, found, k) = Append(LineIn(deque, queueOf, k), r)
      /\ \A other \in Keys \ {k} : LineIn(longer, found, other) = LineIn(deque, queueOf, other)
      /\ k \in Keys /\ d \in Deques /\ found[k] = d
  <2>1. Joins(pc, deque, queueOf, mine, r, k, d, place, longer, found, names)
    BY <1>1, <1>2, <1>3, <1>4, <1>5, <1>6 DEF Joins
  <2> QED BY <2>1, Joining
<1>8. Pass(r, longer, found, d)
  BY <1>1, <1>2, <1>3, <1>4 DEF Arrive
<1>9. mine \in [Runs -> Deques \cup {NoDeque}]
  BY <1>6 DEF QueueInv, QueueTypes
<1>10. /\ place \in [Runs -> Places] /\ place[r] = "queued" /\ names[r] = d
       /\ \A there : [pc EXCEPT ![r] = there] = [place EXCEPT ![r] = there]
       /\ \A e : [mine EXCEPT ![r] = e] = [names EXCEPT ![r] = e]
  BY <1>5, <1>6, <1>9 DEF Places, Slotless
<1>11. PICK line \in Seq(Runs) : line = Line(k)
  BY <1>7, LineIsLineIn
<1>12. /\ ~In(r, line) /\ LineIn(longer, found, k) = Append(line, r)
       /\ \A other \in Keys \ {k} : LineIn(longer, found, other) = Line(other)
  BY <1>7, <1>11, LineIsLineIn
<1>13. /\ QInv'
       /\ \A other \in Keys \ {k} : Line(other)' = LineIn(longer, found, other)
       /\ \/ /\ Line(k)' = Without(LineIn(longer, found, k), r)
             /\ UNCHANGED slotVars
          \/ /\ longer[d] # <<>> /\ Head(longer[d]) = r
             /\ LineIn(longer, found, k) = longer[d] /\ Line(k)' = Tail(longer[d])
             /\ \E s \in Slot : slots[k][s] = NoRun /\ slots' = [slots EXCEPT ![k][s] = r]
          \/ Line(k)' = LineIn(longer, found, k) /\ UNCHANGED slotVars
  <2>1. Passes(place, longer, found, names, r, k, d)
    BY <1>1, <1>7, <1>8, <1>10 DEF Passes
  <2>2. /\ QInv'
        /\ \A other \in Keys \ {k} : Line(other)' = LineIn(longer, found, other)
        /\ \/ /\ Line(k)' = Without(LineIn(longer, found, k), r)
              /\ UNCHANGED slotVars
           \/ /\ longer[d] # <<>> /\ Head(longer[d]) = r
              /\ d = found[k] => LineIn(longer, found, k) = longer[d] /\ Line(k)' = Tail(longer[d])
              /\ \E s \in Slot : slots[k][s] = NoRun /\ slots' = [slots EXCEPT ![k][s] = r]
           \/ Line(k)' = LineIn(longer, found, k) /\ UNCHANGED slotVars
    BY <2>1, PassLines
  <2> QED BY <1>7, <2>2
<1>14. SameLines(Keys \ {k})
  BY <1>12, <1>13 DEF SameLines
<1>15. ASSUME UNCHANGED slotVars PROVE SameHolders(Keys)
  BY <1>15 DEF SameHolders, Holders, slotVars
<1>16. CASE Line(k)' = Without(Append(line, r), r) /\ UNCHANGED slotVars
  <2>1. Append(line, r) \in Seq(Runs)
    OBVIOUS
  <2>2. Without(Append(line, r), r) = line
    BY <1>12, <2>1, WithoutOne
  <2>3. SameLines(Keys)
    BY <1>11, <1>14, <1>16, <2>2 DEF SameLines
  <2> QED BY <1>13, <1>15, <1>16, <2>3, IsStutter
<1>17. CASE /\ Head(Append(line, r)) = r /\ Line(k)' = Tail(Append(line, r))
            /\ \E s \in Slot : slots[k][s] = NoRun /\ slots' = [slots EXCEPT ![k][s] = r]
  <2>1. line = <<>>
    <3> SUFFICES ASSUME line # <<>> PROVE FALSE
      OBVIOUS
    <3>1. Head(Append(line, r)) = Head(line)
      OBVIOUS
    <3>2. In(Head(line), line)
      BY InTail
    <3> QED BY <1>12, <1>17, <3>1, <3>2
  <2>2. Tail(Append(line, r)) = <<>>
    BY <2>1
  <2>3. SameLines(Keys)
    BY <1>11, <1>14, <1>17, <2>1, <2>2 DEF SameLines
  <2>4. /\ Holders(k)' = Holders(k) \cup {r} /\ Cardinality(Holders(k)) < MaxActive
        /\ SameHolders(Keys \ {k})
    BY <1>1, <1>6, <1>17, SlotTaken DEF SameHolders
  <2> QED BY <1>1, <1>7, <1>11, <1>13, <2>1, <2>3, <2>4, IsWalkIn
<1>18. CASE Line(k)' = Append(line, r) /\ UNCHANGED slotVars
  BY <1>1, <1>7, <1>11, <1>13, <1>14, <1>15, <1>18, IsJoin
<1> QED BY <1>12, <1>13, <1>16, <1>17, <1>18

LEMMA WakeFifo ==
  ASSUME IInv, QInv, NEW r \in Runs, Wake(r)
  PROVE  QInv' /\ FifoStep
<1>1. PICK k, d : k = KeyOf[r] /\ d = mine[r]
  OBVIOUS
<1>2. pc \in [Runs -> Places] /\ TypeOK /\ SlotsExclusive /\ pc[r] = "queued"
      /\ QueueInv(pc, deque, queueOf, mine) /\ Pass(r, deque, queueOf, d)
  BY <1>1 DEF IInv, TypeOK, Wake, QInv
<1>3. /\ QInv' /\ k \in Keys
      /\ \A other \in Keys \ {k} : Line(other)' = LineIn(deque, queueOf, other)
      /\ \/ /\ Line(k)' = Without(LineIn(deque, queueOf, k), r)
            /\ In(r, LineIn(deque, queueOf, k)) /\ LineIn(deque, queueOf, k) \in Seq(Runs)
            /\ UNCHANGED slotVars
         \/ /\ deque[d] # <<>> /\ Head(deque[d]) = r /\ deque[d] \in Seq(Runs)
            /\ d = queueOf[k] => LineIn(deque, queueOf, k) = deque[d] /\ Line(k)' = Tail(deque[d])
            /\ d = queueOf[k] \/ \E q \in Runs : In(q, deque[d]) /\ Behind(pc, q)
            /\ \E s \in Slot : slots[k][s] = NoRun /\ slots' = [slots EXCEPT ![k][s] = r]
         \/ Line(k)' = LineIn(deque, queueOf, k) /\ UNCHANGED slotVars
  <2>1. Passes(pc, deque, queueOf, mine, r, k, d)
    BY <1>1, <1>2 DEF Passes
  <2> QED BY <2>1, PassLines
<1>4. SameLines(Keys \ {k})
  BY <1>3, LineIsLineIn DEF SameLines
<1>5. ASSUME UNCHANGED slotVars PROVE SameHolders(Keys)
  BY <1>5 DEF SameHolders, Holders, slotVars
<1>6. CASE /\ Line(k)' = Without(Line(k), r) /\ In(r, Line(k)) /\ Line(k) \in Seq(Runs)
           /\ UNCHANGED slotVars
  BY <1>1, <1>3, <1>4, <1>5, <1>6, IsGiveUp
<1>7. CASE /\ deque[d] # <<>> /\ Head(deque[d]) = r /\ deque[d] \in Seq(Runs)
           /\ d = queueOf[k] => Line(k) = deque[d] /\ Line(k)' = Tail(deque[d])
           /\ d = queueOf[k] \/ \E q \in Runs : In(q, deque[d]) /\ Behind(pc, q)
           /\ \E s \in Slot : slots[k][s] = NoRun /\ slots' = [slots EXCEPT ![k][s] = r]
  <2>1. /\ Holders(k)' = Holders(k) \cup {r} /\ Cardinality(Holders(k)) < MaxActive
        /\ SameHolders(Keys \ {k})
    BY <1>1, <1>2, <1>7, SlotTaken DEF SameHolders
  <2>2. CASE d = queueOf[k]
    BY <1>3, <1>4, <1>7, <2>1, <2>2, IsAdmit
  <2>3. CASE d # queueOf[k]
    <3>1. PICK q \in Runs : In(q, deque[d]) /\ Behind(pc, q)
      BY <1>7, <2>3
    <3>2. PICK i \in DOMAIN deque[d] : deque[d][i] = q
      BY <3>1 DEF In
    <3>3. i \in 1..Len(deque[d]) /\ pc[deque[d][i]] # "queued"
      BY <1>7, <3>1, <3>2 DEF Behind
    <3>4. Haunted(k)
      BY <1>1, <1>2, <3>3 DEF Haunted
    <3> QED BY <1>3, <3>4 DEF FifoStep
  <2> QED BY <1>3, <2>2, <2>3
<1>8. CASE Line(k)' = Line(k) /\ UNCHANGED slotVars
  <2>1. SameLines(Keys)
    BY <1>4, <1>8 DEF SameLines
  <2> QED BY <1>3, <1>5, <1>8, <2>1, IsStutter
<1> QED BY <1>3, <1>6, <1>7, <1>8, LineIsLineIn

LEMMA ReleaseFifo ==
  ASSUME IInv, QInv, NEW r \in Runs, Release(r)
  PROVE  QInv' /\ FifoStep
<1>1. /\ TypeOK /\ SlotsExclusive /\ pc \in [Runs -> Places] /\ pc[r] = "leaving"
      /\ pc' = [pc EXCEPT ![r] = "retiring"] /\ UNCHANGED queueVars
      /\ slots' = [slots EXCEPT ![KeyOf[r]][slotOf[r]] = NoRun]
  BY DEF IInv, TypeOK, Release, Goto
<1>2. QInv'
  <2>1. Behind(pc, r) /\ "retiring" \in Places /\ "retiring" \notin Ahead \cup {"queued"}
    BY <1>1 DEF Behind, Ahead, Places
  <2>2. QueueInv(pc', deque, queueOf, mine)
    BY <1>1, <2>1, PlaceMoves DEF QInv
  <2> QED BY <1>1, <2>2 DEF QInv, queueVars
<1>3. PICK k : k = KeyOf[r]
  OBVIOUS
<1>4. SameLines(Keys)
  BY <1>1 DEF SameLines, Line, queueVars
<1>5. /\ k \in Keys /\ r \in Holders(k) /\ Holders(k)' = Holders(k) \ {r}
      /\ SameHolders(Keys \ {k})
  <2>1. pc[r] \in Holding
    BY <1>1 DEF Holding
  <2> QED BY <1>1, <1>3, <2>1, SlotFreed, ScanAssumption DEF SameHolders
<1> QED BY <1>2, <1>3, <1>4, <1>5, IsLeave

\* The steps that are none of the line's business.
Elsewhere(r) ==
  /\ UNCHANGED queueVars /\ UNCHANGED slotVars
  /\ \/ pc' = pc
     \/ \E there \in Places :
          /\ pc' = [pc EXCEPT ![r] = there]
          /\ \/ pc[r] \in Ahead /\ there \in Ahead
             \/ Behind(pc, r) /\ there \notin Ahead \cup {"queued"}

LEMMA ElsewhereFifo ==
  ASSUME TypeOK, QInv, NEW r \in Runs, Elsewhere(r)
  PROVE  QInv' /\ FifoStep
<1>1. QueueInv(pc', deque, queueOf, mine)
  <2>1. CASE pc' = pc
    BY <2>1 DEF QInv
  <2>2. CASE pc' # pc
    <3>1. PICK there \in Places :
            /\ pc' = [pc EXCEPT ![r] = there]
            /\ \/ pc[r] \in Ahead /\ there \in Ahead
               \/ Behind(pc, r) /\ there \notin Ahead \cup {"queued"}
      BY <2>2 DEF Elsewhere
    <3>2. QueueInv([pc EXCEPT ![r] = there], deque, queueOf, mine)
      BY <3>1, PlaceMoves DEF TypeOK, QInv
    <3> QED BY <3>1, <3>2
  <2> QED BY <2>1, <2>2
<1>2. QInv'
  BY <1>1 DEF QInv, Elsewhere, queueVars
<1>3. SameLines(Keys) /\ SameHolders(Keys)
  BY DEF Elsewhere, SameLines, SameHolders, Line, Holders, queueVars, slotVars
<1> QED BY <1>2, <1>3, IsStutter

LEMMA RunStepElsewhere ==
  ASSUME NEW r \in Runs, RunStep(r), ~Arrive(r), ~Wake(r), ~Release(r)
  PROVE  Elsewhere(r)
<1> USE DEF Elsewhere, Goto, Behind, Ahead, Places, Unsubmitted, Slotless, Holding
<1>1. CASE TurnAway(r) \/ Start(r) \/ CheckBefore(r) \/ BuildFails(r)
  BY <1>1 DEF TurnAway, Start, CheckBefore, BuildFails
<1>2. CASE Register(r) \/ CheckAfter(r) \/ Progress(r) \/ WalkComplete(r)
  BY <1>2 DEF Register, CheckAfter, Progress, WalkComplete
<1>3. CASE ScanReturns(r) \/ ScanRaises(r) \/ CheckCancelled(r)
  BY <1>3 DEF ScanReturns, ScanRaises, CheckCancelled
<1>4. CASE Conclude(r) \/ Unregister(r) \/ Retire(r)
  BY <1>4 DEF Conclude, Unregister, Retire
<1> QED BY <1>1, <1>2, <1>3, <1>4 DEF RunStep

LEMMA HostElsewhere ==
  ASSUME NEW r \in Runs, HostStep(r) \/ CancelDeliver(r) \/ CancelAll
  PROVE  Elsewhere(r)
<1> USE DEF Elsewhere, Goto, Behind, Ahead, Places, Unsubmitted, Slotless, Holding
<1>1. CASE CreateRun(r) \/ Submit(r)
  BY <1>1 DEF CreateRun, Submit
<1>2. CASE CancelRequest(r) \/ CancelDeliver(r) \/ CancelAll
  BY <1>2 DEF CancelRequest, CancelDeliver, CancelAll, RequestFor, runVars
<1> QED BY <1>1, <1>2 DEF HostStep

LEMMA StepFifo == IInv /\ QInv /\ [Next]_vars => QInv' /\ FifoStep
<1> SUFFICES ASSUME IInv, QInv, [Next]_vars PROVE QInv' /\ FifoStep
  OBVIOUS
<1>1. TypeOK
  BY DEF IInv
<1>2. CASE UNCHANGED vars
  <2>1. UNCHANGED <<pc, deque, queueOf, mine, slots>>
    BY <1>2 DEF vars, runVars, queueVars, slotVars
  <2>2. QInv' /\ SameLines(Keys) /\ SameHolders(Keys)
    BY <2>1 DEF QInv, SameLines, SameHolders, Line, Holders
  <2> QED BY <2>2, IsStutter
<1>3. ASSUME NEW r \in Runs, RunStep(r) PROVE QInv' /\ FifoStep
  <2>1. CASE Arrive(r)
    BY <2>1, ArriveFifo
  <2>2. CASE Wake(r)
    BY <2>2, WakeFifo
  <2>3. CASE Release(r)
    BY <2>3, ReleaseFifo
  <2>4. CASE ~Arrive(r) /\ ~Wake(r) /\ ~Release(r)
    BY <1>1, <1>3, <2>4, RunStepElsewhere, ElsewhereFifo
  <2> QED BY <2>1, <2>2, <2>3, <2>4
<1>4. ASSUME NEW r \in Runs, HostStep(r) \/ CancelDeliver(r) \/ CancelAll
      PROVE  QInv' /\ FifoStep
  BY <1>1, <1>4, HostElsewhere, ElsewhereFifo
<1>5. CASE CancelAll
  <2>1. PICK r \in Runs : r \in known
    BY <1>1, <1>5 DEF CancelAll, TypeOK
  <2> QED BY <1>4, <1>5
<1> QED BY <1>2, <1>3, <1>4, <1>5 DEF Next

LEMMA InitFifo == Init => Fifo!Init
<1> SUFFICES ASSUME Init PROVE Fifo!Init
  OBVIOUS
<1>1. \A k \in Keys : queueOf[k] = NoDeque /\ \A s \in Slot : slots[k][s] = NoRun
  BY DEF Init
<1>2. \A k \in Keys : Line(k) = <<>>
  BY <1>1 DEF Line
<1>3. \A k \in Keys : Holders(k) = {}
  BY <1>1, ScanAssumption DEF Holders
<1> QED BY <1>2, <1>3 DEF Fifo!Init

\* Refinement: seen through its deques and slots, the service is the one line
\* per device of FifoSlots, with MaxActive places behind it.  Whatever waits,
\* withdraws or arrives in between, a run enters in the order it came, until a
\* withdrawn run haunts the deque that somebody still holds.
THEOREM FifoQueues == Spec => FifoOrder
<1>1. Init => QInv /\ Fifo!Init
  BY InitQueue, InitFifo DEF QInv
<1>2. IInv /\ QInv /\ [Next]_vars
      => QInv' /\ [Fifo!Next \/ \E k \in Keys : Haunted(k)]_(Fifo!fifoVars)
  BY StepFifo DEF FifoStep
<1>3. Spec => []IInv
  BY InductiveInvariant
<1> QED BY <1>1, <1>2, <1>3, PTL DEF Spec, FifoOrder
=============================================================================
