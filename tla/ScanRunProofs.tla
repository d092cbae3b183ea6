---------------------------- MODULE ScanRunProofs ----------------------------
(***************************************************************************)
(* Proofs about what surrounds a scan run: the pause of the collector, for *)
(* any number of threads and any nesting, and the events, for any          *)
(* capacity, consumers and bounds.                                         *)
(***************************************************************************)
EXTENDS GcPause, ScanEvents, FiniteSetTheorems, SequenceTheorems,
        WellFoundedInduction, TLAPS

-----------------------------------------------------------------------------
(* GcPause.  The strengthening says, of every history in which no outermost *)
(* block opened inside another's restore window, which thread knows what    *)
(* the collector has to be put back to: the remembered state while a block  *)
(* is open or being opened, and the one restoring thread afterwards.        *)

Restoring == {t \in Threads : pc[t] = "restoring"}
Entering  == {t \in Threads : pc[t] = "entering"}

LockInv ==
  /\ \A t \in Threads : pc[t] = "entering" <=> lock = t
  /\ \A t \in Threads : pc[t] = "entering" => depth = 0 /\ open[t] < MaxNest

WindowInv ==
  ~overlapped =>
    /\ Restoring # {} => depth = 0 /\ Entering = {} /\ initial.gcOn
    /\ depth > 0 \/ Entering # {} => wasEnabled = initial.gcOn
    /\ depth > 0 => ~gcOn
    /\ Entering # {} => gcOn = initial.gcOn
    /\ depth = 0 /\ Restoring = {} /\ Entering = {} => gcOn = initial.gcOn

EmbedderInv ==
  /\ ~initial.gcOn => ~gcOn /\ Restoring = {} /\ (depth > 0 => ~wasEnabled)
                   /\ (Entering # {} => ~wasEnabled)
  /\ initial.frozen =>
       /\ "embedder" \in permanent /\ ~frozenByUs
       /\ \A t \in Threads :
            pc[t] \notin {"freezing", "marking", "refreezing", "recollecting"}

IInv == TypeOK /\ DepthCountsBlocks /\ LockInv /\ WindowInv /\ EmbedderInv

-----------------------------------------------------------------------------
(* Lemmas about the set of open blocks.                                    *)

LEMMA OpenBlocksFinite ==
  ASSUME TypeOK
  PROVE  IsFiniteSet(OpenBlocks)
<1>1. IsFiniteSet(1..MaxNest)
  BY ThreadsAssumption, FS_Interval
<1>2. IsFiniteSet(Threads \X (1..MaxNest))
  BY <1>1, ThreadsAssumption, FS_Product
<1> QED BY <1>2, FS_Subset DEF OpenBlocks

\* Opening a block of thread t adds exactly the block at its new level.
LEMMA OpenAddsBlock ==
  ASSUME TypeOK, NEW t \in Threads, open[t] < MaxNest,
         open' = [open EXCEPT ![t] = @ + 1]
  PROVE  Cardinality(OpenBlocks') = Cardinality(OpenBlocks) + 1
<1> DEFINE b == <<t, open[t] + 1>>
<1>1. open[t] \in 0..MaxNest /\ MaxNest \in Nat
  BY ThreadsAssumption DEF TypeOK
<1>2. b \in (Threads \X (1..MaxNest)) \ OpenBlocks
  BY <1>1 DEF OpenBlocks
<1>3. OpenBlocks' = OpenBlocks \cup {b}
  BY <1>1 DEF OpenBlocks, TypeOK
<1> QED BY <1>2, <1>3, OpenBlocksFinite, FS_AddElement

\* Closing one removes exactly the block at its old level.
LEMMA CloseRemovesBlock ==
  ASSUME TypeOK, NEW t \in Threads, open[t] > 0,
         open' = [open EXCEPT ![t] = @ - 1]
  PROVE  Cardinality(OpenBlocks') = Cardinality(OpenBlocks) - 1
<1> DEFINE b == <<t, open[t]>>
<1>1. open[t] \in 0..MaxNest /\ MaxNest \in Nat
  BY ThreadsAssumption DEF TypeOK
<1>2. b \in OpenBlocks
  BY <1>1 DEF OpenBlocks
<1>3. OpenBlocks' = OpenBlocks \ {b}
  BY <1>1 DEF OpenBlocks, TypeOK
<1> QED BY <1>2, <1>3, OpenBlocksFinite, FS_RemoveElement

\* A thread with an open block keeps the count above zero.
LEMMA OpenMeansDeep ==
  ASSUME TypeOK, DepthCountsBlocks, NEW t \in Threads, open[t] > 0
  PROVE  depth > 0
<1>1. <<t, 1>> \in OpenBlocks
  BY ThreadsAssumption DEF OpenBlocks, TypeOK
<1>2. Cardinality(OpenBlocks) # 0
  BY <1>1, OpenBlocksFinite, FS_EmptySet
<1> QED BY <1>2 DEF DepthCountsBlocks, TypeOK

\* With no block open anywhere the count is zero.
LEMMA QuietMeansZero ==
  ASSUME TypeOK, DepthCountsBlocks, \A t \in Threads : open[t] = 0
  PROVE  depth = 0
<1>1. OpenBlocks = {}
  BY ThreadsAssumption DEF OpenBlocks, TypeOK
<1> QED BY <1>1, FS_EmptySet DEF DepthCountsBlocks

-----------------------------------------------------------------------------
LEMMA InitIInv == Init => IInv
<1> SUFFICES ASSUME Init PROVE IInv
  OBVIOUS
<1> USE DEF Init
<1>1. TypeOK
  <2>1. open \in [Threads -> 0..MaxNest] /\ pc \in [Threads -> Places]
    BY ThreadsAssumption DEF Places
  <2>2. permanent \in SUBSET Owners
    BY DEF Owners
  <2> QED BY <2>1, <2>2 DEF TypeOK
<1>2. DepthCountsBlocks
  <2>1. OpenBlocks = {}
    BY ThreadsAssumption DEF OpenBlocks
  <2> QED BY <2>1, FS_EmptySet DEF DepthCountsBlocks
<1>3. Entering = {} /\ Restoring = {}
  BY DEF Entering, Restoring
<1>4. LockInv
  BY <1>3, ThreadsAssumption DEF LockInv
<1>5. WindowInv
  BY <1>3 DEF WindowInv
<1>6. EmbedderInv
  BY <1>3 DEF EmbedderInv
<1> QED BY <1>1, <1>2, <1>4, <1>5, <1>6 DEF IInv

LEMMA StepType == IInv /\ [Next]_vars => TypeOK'
<1> SUFFICES ASSUME IInv, [Next]_vars PROVE TypeOK'
  OBVIOUS
<1>0. TypeOK /\ DepthCountsBlocks /\ LockInv
  BY DEF IInv
<1> USE <1>0, ThreadsAssumption DEF pauseVars, freezeVars, Goto
<1>1. ASSUME NEW t \in Threads, EnterRead(t) PROVE TypeOK'
  BY <1>1 DEF EnterRead, TypeOK, Places
<1>2. ASSUME NEW t \in Threads, EnterDisable(t) PROVE TypeOK'
  <2>1. open[t] < MaxNest
    BY <1>2 DEF EnterDisable, LockInv
  <2>2. open' \in [Threads -> 0..MaxNest] /\ pc' \in [Threads -> Places]
    BY <1>2, <2>1 DEF EnterDisable, TypeOK, Places
  <2>3. /\ gcOn' = FALSE /\ depth' = depth + 1 /\ lock' = NoThread
        /\ UNCHANGED <<wasEnabled, overlapped, frozenByUs, permanent, initial>>
    BY <1>2, Zenon DEF EnterDisable
  <2>4. gcOn' \in BOOLEAN
    BY <2>3, Zenon
  <2>5. depth' \in Nat /\ lock' \in Threads \cup {NoThread}
    BY <2>3 DEF TypeOK
  <2> QED BY <2>2, <2>3, <2>4, <2>5 DEF TypeOK
<1>3. ASSUME NEW t \in Threads, EnterNested(t) PROVE TypeOK'
  BY <1>3 DEF EnterNested, TypeOK, Places
<1>4. ASSUME NEW t \in Threads, Exit(t) PROVE TypeOK'
  <2>1. depth > 0
    BY <1>4, OpenMeansDeep DEF Exit, ExitWith
  <2> QED BY <1>4, <2>1 DEF Exit, ExitWith, TypeOK, Places
<1>5. ASSUME NEW t \in Threads, Restore(t) PROVE TypeOK'
  BY <1>5 DEF Restore, TypeOK, Places
<1>6. ASSUME NEW t \in Threads, FreezeStep(t) PROVE TypeOK'
  BY <1>6 DEF FreezeStep, FreezeFirst, FreezePin, FreezeMark, FreezeAgain,
              Refreeze, RecollectCheck, RecollectUnfreeze, TypeOK, Places, Owners
<1>7. CASE UNCHANGED vars
  BY <1>7 DEF vars, TypeOK
<1> QED BY <1>1, <1>2, <1>3, <1>4, <1>5, <1>6, <1>7 DEF Next, PauseStep

LEMMA StepDepth == IInv /\ [Next]_vars => DepthCountsBlocks'
<1> SUFFICES ASSUME IInv, [Next]_vars PROVE DepthCountsBlocks'
  OBVIOUS
<1>0. TypeOK /\ DepthCountsBlocks /\ LockInv
  BY DEF IInv
<1>1. CASE UNCHANGED <<open, depth>>
  BY <1>0, <1>1 DEF DepthCountsBlocks, OpenBlocks
<1>2. ASSUME NEW t \in Threads, EnterDisable(t) PROVE DepthCountsBlocks'
  <2>1. open[t] < MaxNest /\ depth' = depth + 1
    BY <1>0, <1>2 DEF EnterDisable, LockInv, Goto
  <2> QED BY <1>0, <1>2, <2>1, OpenAddsBlock DEF EnterDisable, DepthCountsBlocks
<1>3. ASSUME NEW t \in Threads, EnterNested(t) PROVE DepthCountsBlocks'
  BY <1>0, <1>3, OpenAddsBlock DEF EnterNested, DepthCountsBlocks
<1>4. ASSUME NEW t \in Threads, Exit(t) PROVE DepthCountsBlocks'
  BY <1>0, <1>4, CloseRemovesBlock DEF Exit, ExitWith, DepthCountsBlocks
<1>5. ASSUME NEW t \in Threads,
             EnterRead(t) \/ Restore(t) \/ FreezeStep(t)
      PROVE  UNCHANGED <<open, depth>>
  BY <1>5 DEF EnterRead, Restore, FreezeStep, FreezeFirst, FreezePin,
     FreezeMark, FreezeAgain, Refreeze, RecollectCheck, RecollectUnfreeze, pauseVars
<1>6. CASE UNCHANGED vars
  BY <1>1, <1>6 DEF vars, pauseVars
<1> QED BY <1>1, <1>2, <1>3, <1>4, <1>5, <1>6 DEF Next, PauseStep

LEMMA StepLock == IInv /\ [Next]_vars => LockInv'
<1> SUFFICES ASSUME IInv, [Next]_vars PROVE LockInv'
  OBVIOUS
<1>0. TypeOK /\ LockInv
  BY DEF IInv
<1> USE <1>0, ThreadsAssumption DEF pauseVars, freezeVars, Goto, LockInv, TypeOK
<1>1. ASSUME NEW t \in Threads, EnterRead(t) PROVE LockInv'
  BY <1>1 DEF EnterRead
<1>2. ASSUME NEW t \in Threads, EnterDisable(t) PROVE LockInv'
  <2>1. lock = t /\ lock' = NoThread
    BY <1>2 DEF EnterDisable
  <2>2. \A u \in Threads : pc'[u] # "entering"
    BY <1>2, <2>1 DEF EnterDisable
  <2> QED BY <2>1, <2>2
<1>3. ASSUME NEW t \in Threads, EnterNested(t) PROVE LockInv'
  BY <1>3 DEF EnterNested
<1>4. ASSUME NEW t \in Threads, Exit(t) PROVE LockInv'
  BY <1>4 DEF Exit, ExitWith
<1>5. ASSUME NEW t \in Threads, Restore(t) PROVE LockInv'
  BY <1>5 DEF Restore
<1>6. ASSUME NEW t \in Threads, FreezeStep(t) PROVE LockInv'
  BY <1>6 DEF FreezeStep, FreezeFirst, FreezePin, FreezeMark, FreezeAgain,
              Refreeze, RecollectCheck, RecollectUnfreeze
<1>7. CASE UNCHANGED vars
  BY <1>7 DEF vars
<1> QED BY <1>1, <1>2, <1>3, <1>4, <1>5, <1>6, <1>7 DEF Next, PauseStep

\* One thread at a time decides what the collector is put back to.
LEMMA StepWindow == IInv /\ [Next]_vars => WindowInv'
<1> SUFFICES ASSUME IInv, [Next]_vars, ~overlapped' PROVE WindowInv'
  BY DEF WindowInv
<1>0. TypeOK /\ LockInv /\ DepthCountsBlocks /\ WindowInv
  BY DEF IInv
<1> USE <1>0, ThreadsAssumption
    DEF pauseVars, freezeVars, Goto, WindowInv, Entering, Restoring
<1>1. ASSUME NEW t \in Threads, EnterRead(t) PROVE WindowInv'
  BY <1>1 DEF EnterRead, TypeOK
<1>2. ASSUME NEW t \in Threads, EnterDisable(t) PROVE WindowInv'
  <2>1. \A u \in Threads : pc'[u] # "entering"
    BY <1>2 DEF EnterDisable, LockInv, TypeOK
  <2> QED BY <1>2, <2>1 DEF EnterDisable, TypeOK
<1>3. ASSUME NEW t \in Threads, EnterNested(t) PROVE WindowInv'
  BY <1>3 DEF EnterNested, TypeOK
<1>4. ASSUME NEW t \in Threads, Exit(t) PROVE WindowInv'
  <2>1. depth > 0
    BY <1>4, OpenMeansDeep DEF Exit, ExitWith
  <2>2. Entering = {} /\ Restoring = {} /\ wasEnabled = initial.gcOn /\ ~gcOn
    BY <1>4, <2>1 DEF Exit, ExitWith, LockInv, TypeOK
  <2>3. depth' = depth - 1 /\ UNCHANGED <<wasEnabled, gcOn, initial>>
    BY <1>4 DEF Exit, ExitWith
  <2>4. Entering' = {}
    BY <1>4, <2>2 DEF Exit, ExitWith, TypeOK
  <2>5. CASE depth' = 0 /\ wasEnabled
    <3>1. t \in Restoring' /\ initial.gcOn
      BY <1>4, <2>2, <2>5 DEF Exit, ExitWith, TypeOK
    <3>2. ~(depth' > 0)
      BY <2>5
    <3>3. Restoring' # {} /\ initial'.gcOn
      BY <2>3, <3>1
    <3> HIDE DEF Entering, Restoring
    <3> QED BY <2>4, <2>5, <3>2, <3>3
  <2>6. CASE ~(depth' = 0 /\ wasEnabled)
    <3>1. pc' = pc
      BY <1>4, <2>6 DEF Exit, ExitWith
    <3>2. Restoring' = {} /\ depth' \in Nat
      BY <2>1, <2>2, <2>3, <3>1 DEF TypeOK
    <3>3. depth' = 0 => gcOn' = initial'.gcOn
      BY <2>2, <2>3, <2>6 DEF TypeOK
    <3> QED BY <2>2, <2>3, <2>4, <3>2, <3>3
  <2> QED BY <2>5, <2>6, Zenon
<1>5. ASSUME NEW t \in Threads, Restore(t) PROVE WindowInv'
  <2>1. t \in Restoring /\ UNCHANGED <<depth, wasEnabled, initial, overlapped>>
    BY <1>5 DEF Restore, TypeOK
  <2>2. depth = 0 /\ Entering = {} /\ initial.gcOn
    BY <2>1
  <2>3. Entering' = {}
    BY <1>5, <2>2 DEF Restore, TypeOK
  <2>4. gcOn' = TRUE
    BY <1>5 DEF Restore
  <2>5. gcOn' = initial'.gcOn /\ initial'.gcOn
    BY <2>1, <2>2, <2>4 DEF TypeOK
  <2>6. depth' = 0 /\ ~(depth' > 0)
    BY <2>1, <2>2
  <2> HIDE DEF Entering, Restoring
  <2> QED BY <2>3, <2>5, <2>6
<1>6. ASSUME NEW t \in Threads, FreezeStep(t) PROVE WindowInv'
  <2>1. UNCHANGED <<lock, depth, wasEnabled, gcOn, open, overlapped, initial>>
    BY <1>6 DEF FreezeStep, FreezeFirst, FreezePin, FreezeMark, FreezeAgain,
                Refreeze, RecollectCheck, RecollectUnfreeze
  <2>2. Entering' = Entering /\ Restoring' = Restoring
    BY <1>6 DEF FreezeStep, FreezeFirst, FreezePin, FreezeMark, FreezeAgain,
                Refreeze, RecollectCheck, RecollectUnfreeze, TypeOK
  <2> QED BY <2>1, <2>2
<1>7. CASE UNCHANGED vars
  BY <1>7 DEF vars
<1> QED BY <1>1, <1>2, <1>3, <1>4, <1>5, <1>6, <1>7 DEF Next, PauseStep

LEMMA StepEmbedder == IInv /\ [Next]_vars => EmbedderInv'
<1> SUFFICES ASSUME IInv, [Next]_vars PROVE EmbedderInv'
  OBVIOUS
<1>0. TypeOK /\ LockInv /\ DepthCountsBlocks /\ EmbedderInv
  BY DEF IInv
<1> USE <1>0, ThreadsAssumption
    DEF pauseVars, freezeVars, Goto, EmbedderInv, Entering, Restoring
<1>1. ASSUME NEW t \in Threads, EnterRead(t) PROVE EmbedderInv'
  BY <1>1 DEF EnterRead, TypeOK
<1>2. ASSUME NEW t \in Threads, EnterDisable(t) PROVE EmbedderInv'
  BY <1>2 DEF EnterDisable, TypeOK
<1>3. ASSUME NEW t \in Threads, EnterNested(t) PROVE EmbedderInv'
  BY <1>3 DEF EnterNested, TypeOK
<1>4. ASSUME NEW t \in Threads, Exit(t) PROVE EmbedderInv'
  <2>1. depth > 0
    BY <1>4, OpenMeansDeep DEF Exit, ExitWith
  <2> QED BY <1>4, <2>1 DEF Exit, ExitWith, TypeOK
<1>5. ASSUME NEW t \in Threads, Restore(t) PROVE EmbedderInv'
  BY <1>5 DEF Restore, TypeOK
<1>6. ASSUME NEW t \in Threads, FreezeStep(t) PROVE EmbedderInv'
  BY <1>6 DEF FreezeStep, FreezeFirst, FreezePin, FreezeMark, FreezeAgain,
              Refreeze, RecollectCheck, RecollectUnfreeze, TypeOK
<1>7. CASE UNCHANGED vars
  BY <1>7 DEF vars
<1> QED BY <1>1, <1>2, <1>3, <1>4, <1>5, <1>6, <1>7 DEF Next, PauseStep

LEMMA InductiveInvariant == Spec => []IInv
<1>1. IInv /\ [Next]_vars => IInv'
  BY StepType, StepDepth, StepLock, StepWindow, StepEmbedder DEF IInv
<1> QED BY InitIInv, <1>1, PTL DEF Spec

-----------------------------------------------------------------------------
\* The counter and the bookkeeping of every thread keep their types; above
\* all depth stays a natural number, so no exit is ever counted twice.
THEOREM TypeCorrect == Spec => []TypeOK
<1>1. IInv => TypeOK
  BY DEF IInv
<1> QED BY <1>1, InductiveInvariant, PTL

\* The counter is the number of open blocks, whatever threads interleave.
THEOREM CounterIsExact == Spec => []DepthCountsBlocks
<1>1. IInv => DepthCountsBlocks
  BY DEF IInv
<1> QED BY <1>1, InductiveInvariant, PTL

\* As long as no outermost block has opened in another's restore window, the
\* collector is off inside every block and as the process had it outside.
THEOREM PausedExactly == Spec => []PauseIsExact
<1>1. IInv => PauseIsExact
  <2> SUFFICES ASSUME IInv, ~overlapped
               PROVE  (depth > 0 => ~gcOn) /\ CollectorRestored
    BY DEF PauseIsExact
  <2>1. TypeOK /\ DepthCountsBlocks /\ WindowInv
    BY DEF IInv
  <2>2. ASSUME Quiet PROVE gcOn = initial.gcOn
    <3>1. depth = 0
      BY <2>1, <2>2, QuietMeansZero DEF Quiet
    <3> QED BY <2>1, <2>2, <3>1 DEF Quiet, WindowInv, Entering, Restoring
  <2> QED BY <2>1, <2>2 DEF WindowInv, CollectorRestored
<1> QED BY <1>1, InductiveInvariant, PTL

\* A process that manages the collector itself is never overruled, not even
\* in the histories where the restore window is hit.
THEOREM EmbedderKept == Spec => []EmbedderPolicyKept
<1>1. IInv => EmbedderPolicyKept
  BY DEF IInv, EmbedderInv, EmbedderPolicyKept
<1> QED BY <1>1, InductiveInvariant, PTL

-----------------------------------------------------------------------------
(* ScanEvents: the types, that coalescing is invisible at every event that *)
(* keeps its place, and that how a run ended is told once, last and truly. *)

Totals == [Coalescing -> Nat]

-----------------------------------------------------------------------------
(* The operators: totals, events and the search for a twin.                *)

LEMMA TypesOfEvents ==
  /\ Coalescing \subseteq EventTypes /\ Barriers \subseteq EventTypes
  /\ Terminals \subseteq Barriers
  /\ Coalescing = Counts \cup Snapshots /\ Counts \cap Snapshots = {}
  /\ Coalescing \cap Barriers = {}
BY DEF Coalescing, EventTypes, Barriers, Terminals, Counts, Snapshots

LEMMA NothingYetType == NothingYet \in Totals
BY DEF NothingYet, Totals

LEMMA MakeType ==
  ASSUME NEW type \in EventTypes, NEW n \in Nat
  PROVE  Make(type, n) \in Event /\ Make(type, n).type = type
BY NothingYetType DEF Make, Event, Totals

LEMMA AfterType ==
  ASSUME NEW totals \in Totals, NEW e \in Event
  PROVE  After(totals, e) \in Totals
BY TypesOfEvents DEF After, Totals, Event

\* Reports of different types commute, and barriers leave the totals alone.
LEMMA AfterCommutes ==
  ASSUME NEW totals \in Totals, NEW a \in Event, NEW b \in Event, a.type # b.type
  PROVE  After(After(totals, a), b) = After(After(totals, b), a)
BY TypesOfEvents DEF After, Totals, Event

\* Merging e into an event of its type is reporting both.
LEMMA AfterMerged ==
  ASSUME NEW totals \in Totals, NEW a \in Event, NEW e \in Event,
         a.type = e.type, e.type \in Coalescing
  PROVE  After(totals, [a EXCEPT !.n = IF e.type \in Counts THEN @ + e.n ELSE e.n])
           = After(After(totals, a), e)
<1> DEFINE m == [a EXCEPT !.n = IF e.type \in Counts THEN @ + e.n ELSE e.n]
<1>1. m.type = e.type /\ m.n = IF e.type \in Counts THEN a.n + e.n ELSE e.n
  BY DEF Event
<1> HIDE DEF m
<1>2. ASSUME e.type \in Counts PROVE After(totals, m) = After(After(totals, a), e)
  <2>1. e.type \notin Snapshots /\ a.n \in Nat /\ e.n \in Nat /\ e.type \in Coalescing
    BY <1>2, TypesOfEvents DEF Event
  <2>2. \A w \in Totals : w[e.type] \in Nat
    BY <2>1 DEF Totals
  <2>3. After(totals, m) = [totals EXCEPT ![e.type] = @ + (a.n + e.n)]
    BY <1>1, <1>2 DEF After
  <2>4. After(totals, a) = [totals EXCEPT ![e.type] = @ + a.n]
    BY <1>2 DEF After
  <2>5. After(After(totals, a), e) = [totals EXCEPT ![e.type] = @ + a.n + e.n]
    BY <1>2, <2>1, <2>4 DEF After, Totals
  <2>6. totals[e.type] + (a.n + e.n) = totals[e.type] + a.n + e.n
    BY <2>1, <2>2
  <2> QED BY <2>3, <2>5, <2>6
<1>3. ASSUME e.type \in Snapshots PROVE After(totals, m) = After(After(totals, a), e)
  BY <1>1, <1>3, TypesOfEvents DEF After, Totals, Event
<1> QED BY <1>2, <1>3, TypesOfEvents DEF m

LEMMA BarrierAfter ==
  ASSUME NEW totals, NEW e, e.type \in Barriers
  PROVE  After(totals, e) = totals
BY TypesOfEvents DEF After

\* A nonempty set of places in a sequence has a last one.
Less == {pair \in Nat \X Nat : pair[1] < pair[2]}

LEMMA LessIsWellFounded == IsWellFoundedOn(Less, Nat)
BY NatLessThanWellFounded, Zenon DEF OpToRel, Less

LEMMA LastPlace ==
  ASSUME NEW n \in Nat, NEW S \in SUBSET (1..n), S # {}
  PROVE  Max(S) \in S /\ \A y \in S : y <= Max(S)
<1> DEFINE T == {n - y : y \in S}
<1>1. T \subseteq Nat
  OBVIOUS
<1>2. T # {}
  OBVIOUS
<1> HIDE DEF T
<1>3. PICK m \in T : \A y \in T : ~ (<<y, m>> \in Less)
  BY <1>1, <1>2, LessIsWellFounded, WFMin
<1>4. \A y \in T : m <= y
  <2> TAKE y \in T
  <2>1. <<y, m>> \notin Less
    BY <1>3
  <2> QED BY <1>1, <2>1 DEF Less
<1>5. PICK x \in S : m = n - x
  BY DEF T
<1>6. \A y \in S : x >= y
  <2> TAKE y \in S
  <2>1. m <= n - y
    BY <1>4 DEF T
  <2> QED BY <2>1, <1>5
<1> QED BY <1>6 DEF Max

-----------------------------------------------------------------------------
(* Types.                                                                  *)

LEMMA Bounds ==
  /\ Capacity \in Nat /\ Capacity >= 1 /\ Consumers \in Nat
  /\ MaxPositions \in Nat /\ MaxReports \in Nat /\ MaxFrames \in Nat /\ MaxErrors \in Nat
BY EventsAssumption

LEMMA NoEvents == <<>> \in Seq(Event) /\ Len(<<>>) = 0
BY EmptySeq

LEMMA MergeType ==
  ASSUME queue \in Seq(Event), NEW i \in DOMAIN queue, NEW e \in Event
  PROVE  /\ Merge(i, e) \in Seq(Event) /\ Len(Merge(i, e)) = Len(queue)
         /\ DOMAIN Merge(i, e) = DOMAIN queue
         /\ Merge(i, e)[i] = [queue[i] EXCEPT !.n = IF e.type \in Counts THEN @ + e.n ELSE e.n]
         /\ Merge(i, e)[i].type = queue[i].type /\ Merge(i, e)[i].mark = queue[i].mark
         /\ \A k \in DOMAIN queue : k # i => Merge(i, e)[k] = queue[k]
<1> DEFINE m == [queue[i] EXCEPT !.n = IF e.type \in Counts THEN @ + e.n ELSE e.n]
<1>1. queue[i] \in Event
  BY ElementOfSeq
<1>2. m \in Event /\ m.type = queue[i].type /\ m.mark = queue[i].mark
  <2>1. m.n \in Nat
    BY <1>1 DEF Event
  <2> QED BY <1>1, <2>1 DEF Event
<1>3. Merge(i, e) = [queue EXCEPT ![i] = m]
  BY DEF Merge
<1> HIDE DEF m
<1>4. /\ Merge(i, e) \in Seq(Event) /\ Len(Merge(i, e)) = Len(queue)
      /\ Merge(i, e)[i] = m
      /\ \A k \in DOMAIN queue : k # i => Merge(i, e)[k] = queue[k]
  BY <1>2, <1>3, ExceptSeq
<1> QED BY <1>2, <1>3, <1>4 DEF m

LEMMA MarkedType ==
  ASSUME NEW e \in Event, emitted \in Totals
  PROVE  LET f == [e EXCEPT !.mark = IF e.type \in Barriers THEN emitted ELSE NothingYet]
         IN  /\ f \in Event /\ f.type = e.type /\ f.n = e.n
             /\ e.type \in Barriers => f.mark = emitted
BY NothingYetType DEF Event, Totals

LEMMA PhaseChangeType == \A needed \in BOOLEAN : PhaseChange(needed) \in Seq(Event)
BY MakeType, TypesOfEvents DEF PhaseChange, Barriers

LEMMA TerminalType ==
  ASSUME status \in {"completed", "cancelled", "failed"}
  PROVE  TerminalOf(status) \in Terminals
BY DEF TerminalOf, Terminals

\* A run that has a terminal to post has ended.
EndedRuns == runAt \in {"turnedAway", "posting"} => status \in {"completed", "cancelled", "failed"}

EventTypesInv == EventsTypeOK /\ EndedRuns

LEMMA InitTypes == EventsInit => EventTypesInv
<1> SUFFICES ASSUME EventsInit PROVE EventTypesInv
  OBVIOUS
<1>1. {queue, batch, journal, todo} \subseteq Seq(Event) /\ Len(queue) <= Capacity
  BY NoEvents, Bounds DEF EventsInit
<1>2. {emitted, known} \subseteq [Coalescing -> Nat]
  BY NothingYetType DEF EventsInit, Totals
<1>3. heard \in [1..Consumers -> Nat] /\ disabled \subseteq 1..Consumers
  BY DEF EventsInit
<1> QED BY <1>1, <1>2, <1>3 DEF EventsInit, EventTypesInv, EventsTypeOK, EndedRuns, Phases, Stages

LEMMA EmitTypes == EventTypesInv /\ Emit => EventTypesInv'
<1> SUFFICES ASSUME EventTypesInv, Emit PROVE EventTypesInv'
  OBVIOUS
<1> USE DEF EventTypesInv
<1> DEFINE e == Head(todo)
<1>1. e \in Event /\ Tail(todo) \in Seq(Event)
  BY DEF Emit, EventsTypeOK
<1>2. emitted \in Totals /\ After(emitted, e) \in Totals
  BY <1>1, AfterType DEF EventsTypeOK, Totals
<1>3. CASE /\ Twins(e) # {}
           /\ queue' = Merge(Max(Twins(e)), e)
           /\ emitted' = After(emitted, e)
           /\ todo' = Tail(todo)
           /\ UNCHANGED asleep
  <2>1. Twins(e) \subseteq 1..Len(queue) /\ Len(queue) \in Nat /\ DOMAIN queue = 1..Len(queue)
    BY DEF Twins, EventsTypeOK
  <2>2. Max(Twins(e)) \in DOMAIN queue
    BY <1>3, <2>1, LastPlace
  <2>3. queue' \in Seq(Event) /\ Len(queue') = Len(queue)
    BY <1>1, <1>3, <2>2, MergeType DEF EventsTypeOK
  <2> QED BY <1>1, <1>2, <1>3, <2>3 DEF Emit, EventsTypeOK, EndedRuns, dispVars, Totals
<1>4. CASE /\ Append1(e)
           /\ emitted' = After(emitted, e)
           /\ todo' = Tail(todo)
  <2>1. queue' \in Seq(Event) /\ Len(queue') <= Capacity
    BY <1>1, <1>2, <1>4, MarkedType, EventsAssumption DEF Append1, Room, EventsTypeOK
  <2> QED BY <1>1, <1>2, <1>4, <2>1 DEF Emit, Append1, EventsTypeOK, EndedRuns, dispVars, Totals
<1>5. CASE /\ asleep' = asleep \cup {"run"}
           /\ UNCHANGED <<queue, emitted, todo>>
  BY <1>5 DEF Emit, EventsTypeOK, EndedRuns, dispVars
<1> QED BY <1>3, <1>4, <1>5 DEF Emit

LEMMA Counters ==
  ASSUME EventsTypeOK
  PROVE  /\ positions \in Nat /\ reports \in Nat /\ frames \in Nat
         /\ positions < MaxPositions => positions + 1 \in 0..MaxPositions
         /\ reports < MaxReports => reports + 1 \in 0..MaxReports
         /\ frames < MaxFrames => frames + 1 \in 0..MaxFrames
<1>1. positions \in 0..MaxPositions /\ reports \in 0..MaxReports /\ frames \in 0..MaxFrames
  BY DEF EventsTypeOK
<1> QED BY <1>1, Bounds

LEMMA RunTypes ==
  ASSUME EventTypesInv,
         Position \/ TurnAway \/ Begin \/ TryScan \/ Report \/ Frame \/ WalkComplete
         \/ Abort \/ Conclude \/ End
  PROVE  EventTypesInv'
<1> USE DEF EventTypesInv
<1>1. todo' \in Seq(Event)
  <2>1. CASE Position
    BY <2>1, MakeType DEF Position, EventTypes
  <2>2. CASE TurnAway \/ Abort \/ End
    BY <2>2, NoEvents DEF TurnAway, Abort, End, Finish
  <2>3. CASE Begin
    BY <2>3, MakeType DEF Begin, EventTypes, Barriers, Coalescing, Counts
  <2>4. CASE TryScan
    BY <2>4 DEF TryScan, EventsTypeOK
  <2>5. CASE Report
    <3>1. PICK queued \in 0..1, done \in 0..1 :
            todo' = PhaseChange(phase = "discovering")
               \o <<Make("ScanProgressUpdated", reports + 1)>>
               \o (IF queued > 0 THEN <<Make("DirectoryQueued", queued)>> ELSE <<>>)
               \o (IF done > 0 THEN <<Make("DirectoryCompleted", done)>> ELSE <<>>)
      BY <2>5 DEF Report
    <3>2. /\ <<Make("ScanProgressUpdated", reports + 1)>> \in Seq(Event)
          /\ (IF queued > 0 THEN <<Make("DirectoryQueued", queued)>> ELSE <<>>) \in Seq(Event)
          /\ (IF done > 0 THEN <<Make("DirectoryCompleted", done)>> ELSE <<>>) \in Seq(Event)
      <4>1. reports + 1 \in Nat /\ queued \in Nat /\ done \in Nat
        BY Counters
      <4>2. {"ScanProgressUpdated", "DirectoryQueued", "DirectoryCompleted"} \subseteq EventTypes
        BY DEF EventTypes, Coalescing, Counts, Snapshots
      <4>3. {Make("ScanProgressUpdated", reports + 1), Make("DirectoryQueued", queued),
             Make("DirectoryCompleted", done)} \subseteq Event
        BY <4>1, <4>2, MakeType
      <4> QED BY <4>3, NoEvents
    <3> QED BY <3>1, <3>2, PhaseChangeType, ConcatProperties
  <2>6. CASE Frame
    <3>1. frames + 1 \in Nat /\ "LiveTree" \in EventTypes
      BY Counters DEF EventTypes, Coalescing, Snapshots
    <3>2. Make("LiveTree", frames + 1) \in Event
      BY <3>1, MakeType
    <3> QED BY <2>6, <3>2 DEF Frame
  <2>7. CASE WalkComplete
    BY <2>7, PhaseChangeType DEF WalkComplete
  <2>8. CASE Conclude
    <3>1. PICK errors \in 0..MaxErrors :
            todo' = PhaseChange(phase # "finalizing") \o <<Make("FinalTree", 0)>>
               \o [i \in 1..errors |-> Make("AccessError", 0)]
      BY <2>8 DEF Conclude
    <3>2. /\ <<Make("FinalTree", 0)>> \in Seq(Event)
          /\ [i \in 1..errors |-> Make("AccessError", 0)] \in Seq(Event)
      BY MakeType, EventsAssumption DEF EventTypes, Barriers
    <3> QED BY <3>1, <3>2, PhaseChangeType, ConcatProperties
  <2> QED BY <2>1, <2>2, <2>3, <2>4, <2>5, <2>6, <2>7, <2>8
<1> DEFINE rest == /\ runAt' \in Stages /\ phase' \in Phases
                   /\ status' \in {"pending", "running", "completed", "cancelled", "failed"}
                   /\ positions' \in 0..MaxPositions /\ reports' \in 0..MaxReports
                   /\ frames' \in 0..MaxFrames /\ interrupted' \in BOOLEAN
                   /\ EndedRuns'
                   /\ UNCHANGED <<boxVars, dispVars>>
<1>2. rest
  <2>1. CASE Position
    BY <2>1, Counters DEF Position, Idle, EventsTypeOK, EndedRuns
  <2>2. CASE TurnAway \/ Abort \/ End
    BY <2>2 DEF TurnAway, Abort, End, Finish, EventsTypeOK, EndedRuns, Phases, Stages
  <2>3. CASE Begin \/ TryScan \/ Conclude
    BY <2>3 DEF Begin, TryScan, Conclude, EventsTypeOK, EndedRuns, Phases, Stages
  <2>4. CASE Report \/ Frame \/ WalkComplete
    BY <2>4, Counters
       DEF Report, Frame, WalkComplete, Idle, EventsTypeOK, EndedRuns, Phases
  <2> QED BY <2>1, <2>2, <2>3, <2>4
<1> QED BY <1>1, <1>2 DEF EventsTypeOK, boxVars, dispVars

LEMMA EndTypes ==
  ASSUME EventTypesInv, PostTerminal \/ Return \/ Interrupt \/ Close \/ Joined
  PROVE  EventTypesInv'
<1> USE DEF EventTypesInv
<1>1. CASE PostTerminal
  <2>1. Make(TerminalOf(status), 0) \in Event
    BY <1>1, TerminalType, MakeType, TypesOfEvents DEF PostTerminal, EndedRuns
  <2>2. queue' \in Seq(Event) /\ Len(queue') <= Capacity /\ asleep' \subseteq {"run", "dispatcher"}
    <3>1. queue \in Seq(Event) /\ emitted \in Totals /\ Len(queue) <= Capacity
          /\ asleep \subseteq {"run", "dispatcher"}
      BY DEF EventsTypeOK, Totals
    <3>2. CASE Append1(Make(TerminalOf(status), 0))
      BY <2>1, <3>1, <3>2, MarkedType, AppendProperties, Bounds DEF Append1, Room
    <3>3. CASE asleep' = asleep \cup {"run"} /\ UNCHANGED queue
      BY <3>1, <3>3
    <3> QED BY <1>1, <3>2, <3>3 DEF PostTerminal
  <2>3. runAt' \in Stages /\ EndedRuns'
    BY <1>1 DEF PostTerminal, EndedRuns, Stages, EventsTypeOK
  <2> QED BY <1>1, <2>2, <2>3 DEF PostTerminal, EventsTypeOK, dispVars
<1>2. CASE Return
  BY <1>2 DEF Return, EventsTypeOK, EndedRuns, Stages, boxVars, dispVars
<1>3. CASE Interrupt
  BY <1>3 DEF Interrupt, Finish, EventsTypeOK, EndedRuns, Stages, Phases, dispVars
<1>4. CASE Close
  BY <1>4 DEF Close, EventsTypeOK, EndedRuns, Stages, dispVars
<1>5. CASE Joined
  BY <1>5 DEF Joined, EventsTypeOK, EndedRuns, Stages, boxVars, dispVars
<1> QED BY <1>1, <1>2, <1>3, <1>4, <1>5

LEMMA DispatchTypes ==
  ASSUME EventTypesInv, DispatchStep
  PROVE  EventTypesInv'
<1> USE DEF EventTypesInv
<1>1. CASE TakeBatch
  BY <1>1, EventsAssumption DEF TakeBatch, EventsTypeOK, EndedRuns, runVars
<1>2. CASE AwaitEvents
  BY <1>2 DEF AwaitEvents, EventsTypeOK, EndedRuns, runVars, dispVars
<1>3. CASE StopDispatch
  BY <1>3 DEF StopDispatch, EventsTypeOK, EndedRuns, runVars, boxVars
<1>4. CASE Deliver
  <2>1. Head(batch) \in Event /\ Tail(batch) \in Seq(Event)
    BY <1>4 DEF Deliver, EventsTypeOK
  <2>2. journal' \in Seq(Event) /\ known' \in Totals
    <3>1. journal \in Seq(Event) /\ known \in Totals
      BY DEF EventsTypeOK, Totals
    <3>2. journal' = Append(journal, Head(batch)) /\ known' = After(known, Head(batch))
      BY <1>4 DEF Deliver
    <3> QED BY <2>1, <3>1, <3>2, AfterType, AppendProperties
  <2>3. heard' \in [1..Consumers -> Nat] /\ disabled' \subseteq 1..Consumers
    BY <1>4, Bounds, EventsAssumption DEF Deliver, EventsTypeOK
  <2> QED BY <1>4, <2>1, <2>2, <2>3 DEF Deliver, EventsTypeOK, EndedRuns, runVars, boxVars, Totals
<1> QED BY <1>1, <1>2, <1>3, <1>4 DEF DispatchStep

LEMMA NextTypes == EventTypesInv /\ [EventsNext]_eventVars => EventTypesInv'
<1> SUFFICES ASSUME EventTypesInv, [EventsNext]_eventVars PROVE EventTypesInv'
  OBVIOUS
<1>1. CASE UNCHANGED eventVars
  BY <1>1 DEF EventTypesInv, EventsTypeOK, EndedRuns, eventVars, runVars, boxVars, dispVars
<1>2. CASE EventsNext
  BY <1>2, EmitTypes, RunTypes, EndTypes, DispatchTypes DEF EventsNext, RunStep
<1> QED BY <1>1, <1>2

\* Type correctness: the mailbox never holds more than its capacity, and what
\* goes through it are well-formed events.
THEOREM EventTypesCorrect == EventsSpec => []EventsTypeOK
<1>1. EventsSpec => []EventTypesInv
  BY InitTypes, NextTypes, PTL DEF EventsSpec
<1>2. EventTypesInv => EventsTypeOK
  BY DEF EventTypesInv
<1> QED BY <1>1, <1>2, PTL

-----------------------------------------------------------------------------
(* Coalescing.  The totals a consumer knows, carried through what is still *)
(* to be delivered, are the totals the run has reported; and every event   *)
(* that keeps its place is marked with the totals at its place.            *)

Step(totals, e, next) ==
  next = After(totals, e) /\ (e.type \in Barriers => e.mark = next)

Explains(s, from, to) ==
  \E T \in [0..Len(s) -> Totals] :
    /\ T[0] = from /\ T[Len(s)] = to
    /\ \A k \in 1..Len(s) : Step(T[k - 1], s[k], T[k])

Carried ==
  \E middle \in Totals : Explains(batch, known, middle) /\ Explains(queue, middle, emitted)

LEMMA ExplainNothing ==
  ASSUME NEW from \in Totals PROVE Explains(<<>>, from, from)
<1> DEFINE T == [k \in 0..0 |-> from]
<1>1. T \in [0..Len(<<>>) -> Totals] /\ T[0] = from /\ T[Len(<<>>)] = from
  BY NoEvents
<1>2. 1..Len(<<>>) = {}
  BY NoEvents
<1> HIDE DEF T
<1> QED BY <1>1, <1>2 DEF Explains

LEMMA ExplainedNothing ==
  ASSUME NEW from, NEW to, Explains(<<>>, from, to) PROVE from = to
BY DEF Explains

LEMMA ExplainMore ==
  ASSUME NEW s \in Seq(Event), NEW e \in Event, NEW from \in Totals, NEW to \in Totals,
         Explains(s, from, to), Step(to, e, After(to, e))
  PROVE  Explains(Append(s, e), from, After(to, e))
<1> DEFINE n == Len(s)
           r == Append(s, e)
<1>1. PICK T \in [0..n -> Totals] :
        /\ T[0] = from /\ T[n] = to
        /\ \A k \in 1..n : Step(T[k - 1], s[k], T[k])
  BY DEF Explains
<1> DEFINE U == [k \in 0..(n + 1) |-> IF k <= n THEN T[k] ELSE After(to, e)]
<1>2. /\ n \in Nat /\ Len(r) = n + 1 /\ r[n + 1] = e
      /\ \A k \in 1..n : r[k] = s[k]
  BY AppendProperties
<1>3. U \in [0..(n + 1) -> Totals]
  BY <1>1, <1>2, AfterType
<1>4. U[0] = from /\ U[n + 1] = After(to, e)
  BY <1>1, <1>2
<1>5. \A k \in 1..(n + 1) : Step(U[k - 1], r[k], U[k])
  <2> TAKE k \in 1..(n + 1)
  <2>1. CASE k <= n
    BY <1>1, <1>2, <2>1
  <2>2. CASE k = n + 1
    <3>1. U[k - 1] = to /\ U[k] = After(to, e)
      BY <1>1, <1>2, <2>2
    <3> QED BY <1>2, <2>2, <3>1
  <2> QED BY <1>2, <2>1, <2>2
<1> HIDE DEF U, n, r
<1> QED BY <1>2, <1>3, <1>4, <1>5 DEF Explains, r

LEMMA ExplainRest ==
  ASSUME NEW s \in Seq(Event), s # <<>>, NEW from \in Totals, NEW to \in Totals,
         Explains(s, from, to)
  PROVE  /\ Step(from, Head(s), After(from, Head(s)))
         /\ Explains(Tail(s), After(from, Head(s)), to)
<1> DEFINE n == Len(s)
           r == Tail(s)
<1>1. PICK T \in [0..n -> Totals] :
        /\ T[0] = from /\ T[n] = to
        /\ \A k \in 1..n : Step(T[k - 1], s[k], T[k])
  BY DEF Explains
<1>2. /\ n \in Nat /\ n >= 1 /\ Len(r) = n - 1 /\ Head(s) = s[1]
      /\ \A k \in 1..(n - 1) : r[k] = s[k + 1]
  BY HeadTailProperties, EmptySeq
<1>3. T[1] = After(from, Head(s)) /\ Step(from, Head(s), T[1])
  BY <1>1, <1>2 DEF Step
<1> DEFINE U == [k \in 0..(n - 1) |-> T[k + 1]]
<1>4. U \in [0..(n - 1) -> Totals]
  BY <1>1, <1>2
<1>5. U[0] = After(from, Head(s)) /\ U[n - 1] = to
  BY <1>1, <1>2, <1>3
<1>6. \A k \in 1..(n - 1) : Step(U[k - 1], r[k], U[k])
  <2> TAKE k \in 1..(n - 1)
  <2>1. /\ k + 1 \in 1..n /\ U[k - 1] = T[k] /\ U[k] = T[k + 1] /\ r[k] = s[k + 1]
        /\ (k + 1) - 1 = k
    BY <1>2
  <2>2. Step(T[(k + 1) - 1], s[k + 1], T[k + 1])
    BY <1>1, <2>1
  <2> QED BY <2>1, <2>2
<1> HIDE DEF U, n, r
<1> QED BY <1>2, <1>3, <1>4, <1>5, <1>6 DEF Explains, r

\* Merging into the last pending event of a type, with no barrier after it,
\* changes nothing that a barrier tells.
LEMMA ExplainMerged ==
  ASSUME NEW s \in Seq(Event), NEW e \in Event, NEW from \in Totals, NEW to \in Totals,
         e.type \in Coalescing, Explains(s, from, to),
         NEW i \in 1..Len(s), s[i].type = e.type,
         \A j \in i..Len(s) : s[j].type \notin Barriers,
         \A j \in i..Len(s) : j # i => s[j].type # e.type,
         NEW r \in Seq(Event), Len(r) = Len(s),
         r[i] = [s[i] EXCEPT !.n = IF e.type \in Counts THEN @ + e.n ELSE e.n],
         r[i].type = s[i].type,
         \A k \in 1..Len(s) : k # i => r[k] = s[k]
  PROVE  Explains(r, from, After(to, e))
<1> DEFINE n == Len(s)
<1>1. PICK T \in [0..n -> Totals] :
        /\ T[0] = from /\ T[n] = to
        /\ \A k \in 1..n : Step(T[k - 1], s[k], T[k])
  BY DEF Explains
<1>2. n \in Nat /\ \A k \in 1..n : s[k] \in Event /\ r[k] \in Event
  BY ElementOfSeq
<1> DEFINE U == [k \in 0..n |-> IF k < i THEN T[k] ELSE After(T[k], e)]
<1>3. U \in [0..n -> Totals]
  BY <1>1, <1>2, AfterType
<1>4. U[0] = from /\ U[n] = After(to, e)
  BY <1>1, <1>2
<1>5. \A k \in 1..n : Step(U[k - 1], r[k], U[k])
  <2> TAKE k \in 1..n
  <2>1. Step(T[k - 1], s[k], T[k]) /\ T[k - 1] \in Totals /\ T[k] \in Totals
    BY <1>1, <1>2
  <2>2. CASE k < i
    <3>1. U[k - 1] = T[k - 1] /\ U[k] = T[k] /\ r[k] = s[k]
      BY <1>2, <2>2
    <3> QED BY <2>1, <3>1
  <2>3. CASE k = i
    <3>1. U[k - 1] = T[k - 1] /\ U[k] = After(T[k], e)
      BY <1>2, <2>3
    <3>2. After(T[k - 1], r[k]) = After(After(T[k - 1], s[k]), e)
      BY <1>2, <2>1, <2>3, AfterMerged
    <3>3. r[k].type \notin Barriers
      BY <2>3, TypesOfEvents
    <3> QED BY <2>1, <3>1, <3>2, <3>3 DEF Step
  <2>4. CASE k > i
    <3>1. U[k - 1] = After(T[k - 1], e) /\ U[k] = After(T[k], e) /\ r[k] = s[k]
      BY <1>2, <2>4
    <3>2. s[k].type \notin Barriers /\ s[k].type # e.type
      BY <1>2, <2>4
    <3>3. After(After(T[k - 1], s[k]), e) = After(After(T[k - 1], e), s[k])
      BY <1>2, <2>1, <3>2, AfterCommutes
    <3> QED BY <2>1, <3>1, <3>2, <3>3 DEF Step
  <2> QED BY <1>2, <2>2, <2>3, <2>4
<1> HIDE DEF U, n
<1> QED BY <1>3, <1>4, <1>5 DEF Explains, n

CoalescingInv == Carried /\ ExactAtBarriers

LEMMA InitCarried == EventsInit => CoalescingInv
BY ExplainNothing, NothingYetType DEF EventsInit, CoalescingInv, Carried, ExactAtBarriers

LEMMA EmitCarries == EventTypesInv /\ CoalescingInv /\ Emit => CoalescingInv'
<1> SUFFICES ASSUME EventTypesInv, CoalescingInv, Emit PROVE CoalescingInv'
  OBVIOUS
<1> DEFINE e == Head(todo)
<1>0. /\ e \in Event /\ queue \in Seq(Event) /\ emitted \in Totals
  BY DEF Emit, EventTypesInv, EventsTypeOK, Totals
<1>1. PICK middle \in Totals : Explains(batch, known, middle) /\ Explains(queue, middle, emitted)
  BY DEF CoalescingInv, Carried
<1>2. UNCHANGED <<batch, known, journal>>
  BY DEF Emit, dispVars
<1>3. CASE Twins(e) # {} /\ queue' = Merge(Max(Twins(e)), e) /\ emitted' = After(emitted, e)
  <2> DEFINE i == Max(Twins(e))
  <2>1. Twins(e) \subseteq 1..Len(queue) /\ Len(queue) \in Nat
    BY <1>0 DEF Twins
  <2>2. i \in Twins(e) /\ \A y \in Twins(e) : y <= i
    BY <1>3, <2>1, LastPlace
  <2> HIDE DEF i
  <2>3. /\ i \in 1..Len(queue) /\ e.type \in Coalescing /\ queue[i].type = e.type
        /\ \A j \in i..Len(queue) : queue[j].type \notin Barriers
    BY <1>0, <2>2 DEF Twins
  <2>4. ASSUME NEW j \in i..Len(queue), j # i PROVE queue[j].type # e.type
    <3>1. j \in 1..Len(queue) /\ j > i /\ j..Len(queue) \subseteq i..Len(queue)
      BY <2>1, <2>3, <2>4
    <3>2. j \notin Twins(e)
      BY <2>1, <2>2, <3>1
    <3> QED BY <1>0, <2>3, <3>1, <3>2 DEF Twins
  <2>5. /\ Merge(i, e) \in Seq(Event) /\ Len(Merge(i, e)) = Len(queue)
        /\ Merge(i, e)[i] = [queue[i] EXCEPT !.n = IF e.type \in Counts THEN @ + e.n ELSE e.n]
        /\ Merge(i, e)[i].type = queue[i].type
        /\ \A k \in 1..Len(queue) : k # i => Merge(i, e)[k] = queue[k]
    BY <1>0, <2>3, MergeType
  <2>6. Explains(Merge(i, e), middle, After(emitted, e))
    BY <1>0, <1>1, <2>3, <2>4, <2>5, ExplainMerged
  <2>7. Carried'
    BY <1>1, <1>2, <1>3, <2>6 DEF Carried, i
  <2> QED BY <1>2, <2>7 DEF CoalescingInv, ExactAtBarriers
<1>4. CASE Append1(e) /\ emitted' = After(emitted, e)
  <2> DEFINE f == [e EXCEPT !.mark = IF e.type \in Barriers THEN emitted ELSE NothingYet]
  <2>1. /\ f \in Event /\ f.type = e.type /\ f.n = e.n
        /\ e.type \in Barriers => f.mark = emitted
    BY <1>0, MarkedType
  <2>2. queue' = Append(queue, f)
    BY <1>4 DEF Append1
  <2> HIDE DEF f
  <2>3. After(emitted, f) = After(emitted, e)
    BY <2>1 DEF After
  <2>4. Step(emitted, f, After(emitted, f))
    BY <2>1, BarrierAfter DEF Step
  <2>5. Explains(queue', middle, emitted')
    BY <1>0, <1>1, <1>4, <2>1, <2>2, <2>3, <2>4, ExplainMore
  <2>6. Carried'
    BY <1>1, <1>2, <2>5 DEF Carried
  <2> QED BY <1>2, <2>6 DEF CoalescingInv, ExactAtBarriers
<1>5. CASE UNCHANGED <<queue, emitted, todo>>
  BY <1>2, <1>5 DEF CoalescingInv, Carried, ExactAtBarriers
<1> QED BY <1>3, <1>4, <1>5 DEF Emit

LEMMA PostCarries == EventTypesInv /\ CoalescingInv /\ PostTerminal => CoalescingInv'
<1> SUFFICES ASSUME EventTypesInv, CoalescingInv, PostTerminal PROVE CoalescingInv'
  OBVIOUS
<1> DEFINE e == Make(TerminalOf(status), 0)
<1>0. e \in Event /\ e.type \in Barriers /\ queue \in Seq(Event) /\ emitted \in Totals
  BY TerminalType, MakeType, TypesOfEvents
     DEF PostTerminal, EventTypesInv, EndedRuns, EventsTypeOK, Totals
<1>1. PICK middle \in Totals : Explains(batch, known, middle) /\ Explains(queue, middle, emitted)
  BY DEF CoalescingInv, Carried
<1>2. UNCHANGED <<batch, known, journal, emitted>>
  BY DEF PostTerminal, dispVars
<1> HIDE DEF e
<1>3. CASE Append1(e)
  <2> DEFINE f == [e EXCEPT !.mark = IF e.type \in Barriers THEN emitted ELSE NothingYet]
  <2>1. f \in Event /\ f.type = e.type /\ f.mark = emitted
    BY <1>0, MarkedType
  <2>2. queue' = Append(queue, f)
    BY <1>3 DEF Append1
  <2> HIDE DEF f
  <2>3. After(emitted, f) = emitted
    BY <1>0, <2>1, BarrierAfter
  <2>4. Step(emitted, f, After(emitted, f))
    BY <2>1, <2>3 DEF Step
  <2>5. Explains(queue', middle, emitted')
    BY <1>0, <1>1, <1>2, <2>1, <2>2, <2>3, <2>4, ExplainMore
  <2>6. Carried'
    BY <1>1, <1>2, <2>5 DEF Carried
  <2> QED BY <1>2, <2>6 DEF CoalescingInv, ExactAtBarriers
<1>4. CASE UNCHANGED queue
  BY <1>2, <1>4 DEF CoalescingInv, Carried, ExactAtBarriers
<1> QED BY <1>3, <1>4 DEF PostTerminal, e

LEMMA TakeCarries == CoalescingInv /\ TakeBatch => CoalescingInv'
<1> SUFFICES ASSUME CoalescingInv, TakeBatch PROVE CoalescingInv'
  OBVIOUS
<1>1. PICK middle \in Totals : Explains(batch, known, middle) /\ Explains(queue, middle, emitted)
  BY DEF CoalescingInv, Carried
<1>2. known = middle
  BY <1>1, ExplainedNothing DEF TakeBatch, Ready
<1>3. UNCHANGED <<known, emitted, journal>> /\ batch' = queue /\ queue' = <<>>
  BY DEF TakeBatch
<1>4. emitted \in Totals
  BY <1>1 DEF Explains, Totals
<1>5. Explains(batch', known', emitted) /\ Explains(queue', emitted, emitted')
  BY <1>1, <1>2, <1>3, <1>4, ExplainNothing
<1>6. Carried'
  BY <1>4, <1>5 DEF Carried
<1> QED BY <1>3, <1>6 DEF CoalescingInv, ExactAtBarriers

LEMMA DeliverCarries == EventTypesInv /\ CoalescingInv /\ Deliver => CoalescingInv'
<1> SUFFICES ASSUME EventTypesInv, CoalescingInv, Deliver PROVE CoalescingInv'
  OBVIOUS
<1> DEFINE e == Head(batch)
<1>0. /\ batch \in Seq(Event) /\ batch # <<>> /\ known \in Totals /\ journal \in Seq(Event)
      /\ e \in Event
  BY DEF Deliver, EventTypesInv, EventsTypeOK, Totals
<1>1. PICK middle \in Totals : Explains(batch, known, middle) /\ Explains(queue, middle, emitted)
  BY DEF CoalescingInv, Carried
<1>2. /\ UNCHANGED <<queue, emitted>> /\ batch' = Tail(batch)
      /\ journal' = Append(journal, e) /\ known' = After(known, e)
  BY DEF Deliver, boxVars
<1>3. Step(known, e, known') /\ Explains(batch', known', middle)
  BY <1>0, <1>1, <1>2, ExplainRest
<1>4. Carried'
  BY <1>1, <1>2, <1>3 DEF Carried
<1> HIDE DEF e
<1>5. Last(journal') = e
  BY <1>0, <1>2 DEF Last
<1>6. ExactAtBarriers'
  BY <1>3, <1>5 DEF ExactAtBarriers, Step
<1> QED BY <1>4, <1>6 DEF CoalescingInv

LEMMA NextCarries == EventTypesInv /\ CoalescingInv /\ [EventsNext]_eventVars => CoalescingInv'
<1> SUFFICES ASSUME EventTypesInv, CoalescingInv, [EventsNext]_eventVars PROVE CoalescingInv'
  OBVIOUS
<1> DEFINE still == UNCHANGED <<queue, batch, journal, known, emitted>>
<1>1. still => CoalescingInv'
  BY DEF CoalescingInv, Carried, ExactAtBarriers
<1>2. CASE \/ Position \/ TurnAway \/ Begin \/ TryScan \/ Report \/ Frame \/ WalkComplete
           \/ Abort \/ Conclude \/ End \/ Return
  BY <1>1, <1>2 DEF Position, TurnAway, Begin, TryScan, Report, Frame, WalkComplete,
     Abort, Conclude, End, Return, boxVars, dispVars
<1>3. CASE Interrupt \/ Close \/ Joined \/ AwaitEvents \/ StopDispatch \/ UNCHANGED eventVars
  BY <1>1, <1>3 DEF Interrupt, Close, Joined, AwaitEvents, StopDispatch,
     eventVars, boxVars, dispVars
<1> QED BY <1>2, <1>3, EmitCarries, PostCarries, TakeCarries, DeliverCarries
        DEF EventsNext, RunStep, DispatchStep

\* Coalescing is invisible at every event that keeps its place, whatever the
\* mailbox holds, however the two threads interleave and whoever interrupts.
THEOREM CoalescingIsInvisible == EventsSpec => []ExactAtBarriers
<1>1. EventsSpec => [](EventTypesInv /\ CoalescingInv)
  BY InitTypes, NextTypes, InitCarried, NextCarries, PTL DEF EventsSpec
<1>2. CoalescingInv => ExactAtBarriers
  BY DEF CoalescingInv
<1> QED BY <1>1, <1>2, PTL

-----------------------------------------------------------------------------
(* How a run ended.  Everything the run has put in its mailbox, in order,  *)
(* delivered or not, starts as a journal has to, and has the terminal      *)
(* event last, and only then, from the moment the run has posted it.       *)

Told == journal \o batch \o queue

Firsts == {"ScanQueued", "ScanStarted", "ScanCancelled"}
Posted == runAt \in {"posted", "leaving", "joining", "closed"}

ToldRight ==
  /\ Told # <<>> => Told[1].type \in Firsts
  /\ \A i \in DOMAIN Told : Told[i].type \in Terminals <=> Posted /\ i = Len(Told)
  /\ Posted => Told # <<>> /\ Told[Len(Told)].type = TerminalOf(status)
  /\ Told = <<>> => runAt \in {"waiting", "starting", "turnedAway"}

\* What the run's thread still has to say in its stage.
Ordinary == {e \in Event : e.type \notin Terminals}

StageRight ==
  /\ todo # <<>> => runAt \in {"waiting", "starting", "walking", "concluding"}
  /\ todo \in Seq(Ordinary)
  /\ runAt = "waiting" => \A i \in DOMAIN todo : todo[i].type = "ScanQueued"
  /\ runAt = "starting" /\ Told = <<>> => todo # <<>> /\ Head(todo).type = "ScanStarted"
  /\ runAt = "turnedAway" => status = "cancelled"
  /\ Posted => status \in {"completed", "cancelled", "failed"}

\* The dispatcher ends after the run's thread has left, with nothing pending.
CloseRight ==
  /\ closing => runAt \in {"joining", "closed"}
  /\ ended => closing /\ queue = <<>> /\ batch = <<>>
  /\ runAt = "closed" => ended

HeardRight == \A c \in (1..Consumers) \ disabled : heard[c] = Len(journal)

EndInv == HeardRight /\ CloseRight /\ StageRight /\ (~interrupted => ToldRight)

Pending == journal \in Seq(Event) /\ batch \in Seq(Event) /\ queue \in Seq(Event)

LEMMA TypesPending == EventTypesInv => Pending /\ todo \in Seq(Event)
BY DEF EventTypesInv, EventsTypeOK, Pending

\* Where an event of the three sequences is among all of them.
LEMMA ToldPlaces ==
  ASSUME NEW j \in Seq(Event), NEW b \in Seq(Event), NEW q \in Seq(Event)
  PROVE  /\ j \o b \o q \in Seq(Event) /\ Len(j \o b \o q) = Len(j) + Len(b) + Len(q)
         /\ \A i \in 1..(Len(j) + Len(b) + Len(q)) :
              (j \o b \o q)[i] = IF i <= Len(j) THEN j[i]
                                 ELSE IF i <= Len(j) + Len(b) THEN b[i - Len(j)]
                                 ELSE q[i - (Len(j) + Len(b))]
<1>1. /\ j \o b \in Seq(Event) /\ Len(j \o b) = Len(j) + Len(b)
      /\ \A i \in 1..(Len(j) + Len(b)) :
           (j \o b)[i] = IF i <= Len(j) THEN j[i] ELSE b[i - Len(j)]
  BY ConcatProperties
<1>2. /\ (j \o b) \o q \in Seq(Event) /\ Len((j \o b) \o q) = Len(j \o b) + Len(q)
      /\ \A i \in 1..(Len(j \o b) + Len(q)) :
           ((j \o b) \o q)[i] = IF i <= Len(j \o b) THEN (j \o b)[i] ELSE q[i - Len(j \o b)]
  BY <1>1, ConcatProperties
<1>3. Len(j) \in Nat /\ Len(b) \in Nat /\ Len(q) \in Nat
  OBVIOUS
<1> QED BY <1>1, <1>2, <1>3

LEMMA ToldMore ==
  ASSUME Pending, NEW f \in Event, queue' = Append(queue, f), UNCHANGED <<journal, batch>>
  PROVE  Told \in Seq(Event) /\ Told' = Append(Told, f)
<1>1. Told \in Seq(Event) /\ queue' \in Seq(Event) /\ Len(queue') = Len(queue) + 1
  BY ToldPlaces, AppendProperties DEF Told, Pending
<1>2. Told' = journal \o batch \o queue'
  BY DEF Told
<1>3. /\ Told' \in Seq(Event) /\ Append(Told, f) \in Seq(Event)
      /\ Len(Told') = Len(Append(Told, f))
  BY <1>1, <1>2, ToldPlaces, AppendProperties DEF Told, Pending
<1>4. ASSUME NEW i \in 1..Len(Told') PROVE Told'[i] = Append(Told, f)[i]
  <2>1. Len(journal) \in Nat /\ Len(batch) \in Nat /\ Len(queue) \in Nat
    BY DEF Pending
  <2>2. Len(Told) = Len(journal) + Len(batch) + Len(queue) /\ Len(Told') = Len(Told) + 1
    BY <1>1, <1>2, ToldPlaces DEF Told, Pending
  <2>3. CASE i = Len(Told) + 1
    <3>1. Append(Told, f)[i] = f
      BY <1>1, <2>3, AppendProperties
    <3>2. Told'[i] = queue'[Len(queue) + 1]
      BY <1>1, <1>2, <1>4, <2>1, <2>2, <2>3, ToldPlaces DEF Pending
    <3> QED BY <3>1, <3>2, AppendProperties DEF Pending
  <2>4. CASE i <= Len(Told)
    <3>1. Append(Told, f)[i] = Told[i]
      BY <1>1, <1>4, <2>4, AppendProperties
    <3>2. \A k \in 1..Len(queue) : queue'[k] = queue[k]
      BY AppendProperties DEF Pending
    <3>3. Told'[i] = Told[i]
      BY <1>1, <1>2, <1>4, <2>1, <2>2, <2>4, <3>2, ToldPlaces DEF Pending, Told
    <3> QED BY <3>1, <3>3
  <2> QED BY <1>4, <2>1, <2>2, <2>3, <2>4
<1> QED BY <1>1, <1>3, <1>4, SeqEqual

LEMMA ToldSame ==
  ASSUME EventTypesInv, TakeBatch \/ Deliver
  PROVE  Told' = Told
<1>0. Pending
  BY TypesPending
<1>1. CASE TakeBatch
  <2>1. batch = <<>> /\ batch' = queue /\ queue' = <<>> /\ journal' = journal
    BY <1>1 DEF TakeBatch, Ready
  <2>2. Told = journal \o queue
    BY <1>0, <2>1, ConcatEmptySeq DEF Told, Pending
  <2>3. journal \o queue \in Seq(Event)
    BY <1>0, ConcatProperties DEF Pending
  <2>4. Told' = (journal \o queue) \o <<>>
    BY <2>1 DEF Told
  <2> QED BY <2>2, <2>3, <2>4, ConcatEmptySeq
<1>2. CASE Deliver
  <2>1. /\ batch # <<>> /\ batch' = Tail(batch) /\ queue' = queue
        /\ journal' = Append(journal, Head(batch))
    BY <1>2 DEF Deliver, boxVars
  <2>2. /\ batch' \in Seq(Event) /\ Len(batch') = Len(batch) - 1 /\ Len(batch) >= 1
        /\ Head(batch) = batch[1] /\ Head(batch) \in Event
        /\ \A k \in 1..(Len(batch) - 1) : batch'[k] = batch[k + 1]
    BY <1>0, <2>1, HeadTailProperties, EmptySeq DEF Pending
  <2>3. /\ journal' \in Seq(Event) /\ Len(journal') = Len(journal) + 1
        /\ journal'[Len(journal) + 1] = batch[1]
        /\ \A k \in 1..Len(journal) : journal'[k] = journal[k]
    BY <1>0, <2>1, <2>2, AppendProperties DEF Pending
  <2>4. Len(journal) \in Nat /\ Len(batch) \in Nat /\ Len(queue) \in Nat
    BY <1>0 DEF Pending
  <2>5. Told \in Seq(Event) /\ Told' \in Seq(Event) /\ Len(Told') = Len(Told)
        /\ Len(Told) = Len(journal) + Len(batch) + Len(queue)
    BY <1>0, <2>1, <2>2, <2>3, <2>4, ToldPlaces DEF Told, Pending
  <2>6. ASSUME NEW i \in 1..Len(Told) PROVE Told'[i] = Told[i]
    <3>1. Told'[i] = IF i <= Len(journal) + 1 THEN journal'[i]
                     ELSE IF i <= Len(journal) + Len(batch) THEN batch'[i - (Len(journal) + 1)]
                     ELSE queue[i - (Len(journal) + Len(batch))]
      BY <1>0, <2>1, <2>2, <2>3, <2>4, <2>5, <2>6, ToldPlaces DEF Told, Pending
    <3>2. Told[i] = IF i <= Len(journal) THEN journal[i]
                    ELSE IF i <= Len(journal) + Len(batch) THEN batch[i - Len(journal)]
                    ELSE queue[i - (Len(journal) + Len(batch))]
      BY <1>0, <2>4, <2>5, <2>6, ToldPlaces DEF Told, Pending
    <3>3. CASE i <= Len(journal)
      BY <2>3, <2>4, <2>6, <3>1, <3>2, <3>3
    <3>4. CASE i = Len(journal) + 1
      BY <2>2, <2>3, <2>4, <3>1, <3>2, <3>4
    <3>5. CASE i > Len(journal) + 1 /\ i <= Len(journal) + Len(batch)
      <4>1. i - (Len(journal) + 1) \in 1..(Len(batch) - 1)
        BY <2>4, <2>5, <2>6, <3>5
      <4>2. batch'[i - (Len(journal) + 1)] = batch[i - Len(journal)]
        BY <2>2, <2>4, <4>1
      <4> QED BY <2>4, <3>1, <3>2, <3>5, <4>2
    <3>6. CASE i > Len(journal) + Len(batch)
      BY <2>2, <2>4, <3>1, <3>2, <3>6
    <3> QED BY <2>4, <2>5, <2>6, <3>3, <3>4, <3>5, <3>6
  <2> QED BY <2>5, <2>6, SeqEqual
<1> QED BY <1>1, <1>2

LEMMA ToldMerged ==
  ASSUME Pending, NEW e \in Event, NEW i \in DOMAIN queue,
         queue' = Merge(i, e), UNCHANGED <<journal, batch>>
  PROVE  /\ Told \in Seq(Event) /\ Told' \in Seq(Event) /\ Len(Told') = Len(Told)
         /\ \A k \in 1..Len(Told) : Told'[k].type = Told[k].type
<1>1. /\ queue' \in Seq(Event) /\ Len(queue') = Len(queue)
      /\ \A k \in 1..Len(queue) : queue'[k].type = queue[k].type
  <2>1. queue \in Seq(Event) /\ DOMAIN queue = 1..Len(queue)
    BY DEF Pending
  <2>2. /\ Merge(i, e) \in Seq(Event) /\ Len(Merge(i, e)) = Len(queue)
        /\ Merge(i, e)[i].type = queue[i].type
        /\ \A k \in DOMAIN queue : k # i => Merge(i, e)[k] = queue[k]
    BY <2>1, MergeType
  <2> QED BY <2>1, <2>2
<1>2. Told' = journal \o batch \o queue'
  BY DEF Told
<1>3. /\ Told \in Seq(Event) /\ Told' \in Seq(Event) /\ Len(Told') = Len(Told)
      /\ Len(Told) = Len(journal) + Len(batch) + Len(queue)
  <2>1. Told \in Seq(Event) /\ Len(Told) = Len(journal) + Len(batch) + Len(queue)
    BY ToldPlaces DEF Told, Pending
  <2>2. Told' \in Seq(Event) /\ Len(Told') = Len(journal) + Len(batch) + Len(queue')
    BY <1>1, <1>2, ToldPlaces DEF Pending
  <2> QED BY <1>1, <2>1, <2>2
<1>4. ASSUME NEW k \in 1..Len(Told) PROVE Told'[k].type = Told[k].type
  <2>1. Len(journal) \in Nat /\ Len(batch) \in Nat /\ Len(queue) \in Nat
    BY DEF Pending
  <2>2. Told[k] = IF k <= Len(journal) THEN journal[k]
                  ELSE IF k <= Len(journal) + Len(batch) THEN batch[k - Len(journal)]
                  ELSE queue[k - (Len(journal) + Len(batch))]
    BY <1>3, <1>4, ToldPlaces DEF Told, Pending
  <2>3. Told'[k] = IF k <= Len(journal) THEN journal[k]
                   ELSE IF k <= Len(journal) + Len(batch) THEN batch[k - Len(journal)]
                   ELSE queue'[k - (Len(journal) + Len(batch))]
    BY <1>1, <1>2, <1>3, <1>4, ToldPlaces DEF Pending
  <2> QED BY <1>1, <1>3, <1>4, <2>1, <2>2, <2>3
<1> QED BY <1>3, <1>4

LEMMA EmptyTold == Pending => (Told = <<>> <=> journal = <<>> /\ batch = <<>> /\ queue = <<>>)
<1> SUFFICES ASSUME Pending PROVE Told = <<>> <=> journal = <<>> /\ batch = <<>> /\ queue = <<>>
  OBVIOUS
<1>1. /\ Told \in Seq(Event) /\ Len(Told) = Len(journal) + Len(batch) + Len(queue)
      /\ Len(journal) \in Nat /\ Len(batch) \in Nat /\ Len(queue) \in Nat
  BY ToldPlaces DEF Told, Pending
<1> QED BY <1>1, EmptySeq DEF Pending

LEMMA InitEnds == EventsInit => EndInv
<1> SUFFICES ASSUME EventsInit PROVE EndInv
  OBVIOUS
<1>1. Told = <<>>
  BY InitTypes, TypesPending, EmptyTold DEF EventsInit
<1>2. ToldRight
  BY <1>1, EmptySeq DEF ToldRight, Posted, EventsInit
<1>3. todo \in Seq(Ordinary) /\ HeardRight
  BY EmptySeq DEF EventsInit, HeardRight
<1> QED BY <1>2, <1>3 DEF EndInv, CloseRight, StageRight, EventsInit, Posted

LEMMA DeliverEnds == EventTypesInv /\ EndInv /\ Deliver => EndInv'
<1> SUFFICES ASSUME EventTypesInv, EndInv, Deliver PROVE EndInv'
  OBVIOUS
<1>1. Told' = Told /\ UNCHANGED <<runAt, status, todo, interrupted, queue, closing, ended>>
  BY ToldSame DEF Deliver, runVars, boxVars
<1>2. HeardRight'
  <2>1. /\ journal \in Seq(Event) /\ Len(journal') = Len(journal) + 1
    BY HeadTailProperties, AppendProperties, TypesPending DEF Pending, Deliver
  <2>2. \A c \in (1..Consumers) \ disabled : heard'[c] = heard[c] + 1
    BY DEF Deliver
  <2>3. disabled \subseteq disabled'
    BY DEF Deliver
  <2> QED BY <2>1, <2>2, <2>3 DEF HeardRight, EndInv
<1>3. CloseRight'
  BY <1>1 DEF CloseRight, EndInv, Deliver
<1>4. StageRight' /\ (~interrupted' => ToldRight')
  BY <1>1 DEF StageRight, ToldRight, Posted, EndInv
<1> QED BY <1>2, <1>3, <1>4 DEF EndInv

LEMMA TakeEnds == EventTypesInv /\ EndInv /\ TakeBatch => EndInv'
<1> SUFFICES ASSUME EventTypesInv, EndInv, TakeBatch PROVE EndInv'
  OBVIOUS
<1>1. Told' = Told
      /\ UNCHANGED <<runAt, status, todo, interrupted, journal, heard, disabled, closing, ended>>
  BY ToldSame DEF TakeBatch, runVars
<1>2. HeardRight' /\ CloseRight'
  BY <1>1 DEF HeardRight, CloseRight, EndInv, TakeBatch, Ready
<1>3. StageRight' /\ (~interrupted' => ToldRight')
  BY <1>1 DEF StageRight, ToldRight, Posted, EndInv
<1> QED BY <1>2, <1>3 DEF EndInv

\* Appending an event that does not end the run.
LEMMA EmitEnds == EventTypesInv /\ EndInv /\ Emit => EndInv'
<1> SUFFICES ASSUME EventTypesInv, EndInv, Emit PROVE EndInv'
  OBVIOUS
<1> DEFINE e == Head(todo)
<1>1. /\ todo # <<>> /\ runAt \in {"waiting", "starting", "walking", "concluding"}
      /\ todo \in Seq(Ordinary) /\ ~Posted
  BY DEF Emit, EndInv, StageRight, Posted
<1>2. e \in Ordinary /\ e \in Event /\ e.type \notin Terminals /\ Tail(todo) \in Seq(Ordinary)
      /\ Pending /\ emitted \in Totals
  BY <1>1, TypesPending, HeadTailProperties
     DEF Ordinary, EventTypesInv, EventsTypeOK, Totals
<1>3. UNCHANGED <<runAt, status, interrupted, journal, batch, heard, disabled, closing, ended>>
  BY DEF Emit, dispVars
<1>4. HeardRight' /\ CloseRight'
  BY <1>1, <1>3 DEF HeardRight, CloseRight, EndInv
<1>5. CASE Twins(e) # {} /\ queue' = Merge(Max(Twins(e)), e) /\ todo' = Tail(todo)
  <2> DEFINE i == Max(Twins(e))
  <2>1. i \in DOMAIN queue /\ DOMAIN queue = 1..Len(queue)
    <3>1. Twins(e) \subseteq 1..Len(queue) /\ Len(queue) \in Nat /\ DOMAIN queue = 1..Len(queue)
      BY <1>2 DEF Twins, Pending
    <3> QED BY <1>5, <3>1, LastPlace
  <2> HIDE DEF i
  <2>2. /\ Told \in Seq(Event) /\ Told' \in Seq(Event) /\ Len(Told') = Len(Told)
        /\ \A k \in 1..Len(Told) : Told'[k].type = Told[k].type
    BY <1>2, <1>3, <1>5, <2>1, ToldMerged DEF i
  <2>3. Told # <<>> /\ Told' # <<>>
    BY <1>2, <2>1, <2>2, EmptyTold, EmptySeq
  <2>4. StageRight'
    BY <1>1, <1>2, <1>3, <1>5, <2>3, HeadTailProperties DEF StageRight, EndInv, Posted
  <2>5. ASSUME ~interrupted PROVE ToldRight'
    BY <1>1, <1>3, <2>2, <2>3, <2>5 DEF ToldRight, EndInv, Posted
  <2> QED BY <1>3, <1>4, <2>4, <2>5 DEF EndInv
<1>6. CASE Append1(e) /\ todo' = Tail(todo)
  <2> DEFINE f == [e EXCEPT !.mark = IF e.type \in Barriers THEN emitted ELSE NothingYet]
  <2>1. f \in Event /\ f.type = e.type /\ queue' = Append(queue, f)
    BY <1>2, <1>6, MarkedType DEF Append1
  <2> HIDE DEF f
  <2>2. Told \in Seq(Event) /\ Told' = Append(Told, f)
    BY <1>2, <1>3, <2>1, ToldMore
  <2>3. /\ Len(Told') = Len(Told) + 1 /\ Told' \in Seq(Event) /\ Told' # <<>>
        /\ Told'[Len(Told) + 1] = f
        /\ \A k \in 1..Len(Told) : Told'[k] = Told[k]
    BY <2>1, <2>2, AppendProperties
  <2>4. StageRight'
    BY <1>1, <1>2, <1>3, <1>6, <2>3, HeadTailProperties DEF StageRight, EndInv, Posted
  <2>5. ASSUME ~interrupted PROVE ToldRight'
    <3>1. Told = <<>> => f.type \in Firsts
      BY <1>1, <1>2, <2>1, <2>5, HeadTailProperties, EmptySeq
         DEF ToldRight, EndInv, StageRight, Firsts
    <3>2. Told'[1].type \in Firsts
      BY <2>2, <2>3, <2>5, <3>1, EmptySeq DEF ToldRight, EndInv
    <3>3. \A k \in DOMAIN Told' : Told'[k].type \notin Terminals
      BY <1>1, <1>2, <2>1, <2>2, <2>3, <2>5 DEF ToldRight, EndInv
    <3> QED BY <1>1, <1>3, <2>3, <3>2, <3>3 DEF ToldRight, Posted
  <2> QED BY <1>3, <1>4, <2>4, <2>5 DEF EndInv
<1>7. CASE UNCHANGED <<queue, emitted, todo>>
  <2>1. Told' = Told /\ todo' = todo
    BY <1>3, <1>7 DEF Told
  <2> QED BY <1>3, <1>4, <2>1 DEF EndInv, StageRight, ToldRight, Posted
<1> QED BY <1>5, <1>6, <1>7 DEF Emit

LEMMA PostEnds == EventTypesInv /\ EndInv /\ PostTerminal => EndInv'
<1> SUFFICES ASSUME EventTypesInv, EndInv, PostTerminal PROVE EndInv'
  OBVIOUS
<1> DEFINE e == Make(TerminalOf(status), 0)
<1>1. /\ runAt \in {"turnedAway", "posting"} /\ ~Posted /\ todo = <<>>
      /\ status \in {"completed", "cancelled", "failed"}
  BY DEF PostTerminal, EndInv, StageRight, Posted, EventTypesInv, EndedRuns
<1>2. e \in Event /\ e.type = TerminalOf(status) /\ e.type \in Terminals /\ Pending
      /\ emitted \in Totals
  BY <1>1, TerminalType, MakeType, TypesOfEvents, TypesPending
     DEF EventTypesInv, EventsTypeOK, Totals
<1>3. UNCHANGED <<todo, status, interrupted, journal, batch, heard, disabled, closing, ended>>
  BY DEF PostTerminal, dispVars
<1> HIDE DEF e
<1>4. HeardRight' /\ CloseRight'
  BY <1>1, <1>3 DEF HeardRight, CloseRight, EndInv, PostTerminal
<1>5. StageRight'
  BY <1>1, <1>3, EmptySeq DEF StageRight, EndInv, PostTerminal, Posted
<1>6. CASE Append1(e) /\ runAt' = IF runAt = "posting" THEN "posted" ELSE "leaving"
  <2> DEFINE f == [e EXCEPT !.mark = IF e.type \in Barriers THEN emitted ELSE NothingYet]
  <2>1. f \in Event /\ f.type = e.type /\ queue' = Append(queue, f)
    BY <1>2, <1>6, MarkedType DEF Append1
  <2> HIDE DEF f
  <2>2. Told \in Seq(Event) /\ Told' = Append(Told, f)
    BY <1>2, <1>3, <2>1, ToldMore
  <2>3. /\ Len(Told') = Len(Told) + 1 /\ Told' \in Seq(Event) /\ Told' # <<>>
        /\ Told'[Len(Told) + 1] = f
        /\ \A k \in 1..Len(Told) : Told'[k] = Told[k]
    BY <2>1, <2>2, AppendProperties
  <2>4. ASSUME ~interrupted PROVE ToldRight'
    <3>1. Told = <<>> => f.type \in Firsts
      BY <1>1, <1>2, <2>1, <2>4 DEF ToldRight, EndInv, StageRight, Firsts, TerminalOf
    <3>2. Told'[1].type \in Firsts
      BY <2>2, <2>3, <2>4, <3>1, EmptySeq DEF ToldRight, EndInv
    <3>3. \A k \in 1..Len(Told) : Told'[k].type \notin Terminals
      BY <1>1, <2>2, <2>3, <2>4 DEF ToldRight, EndInv
    <3>4. Posted'
      BY <1>1, <1>6 DEF Posted
    <3> QED BY <1>2, <1>3, <2>1, <2>2, <2>3, <3>2, <3>3, <3>4 DEF ToldRight
  <2> QED BY <1>3, <1>4, <1>5, <2>4 DEF EndInv
<1>7. CASE UNCHANGED <<queue, runAt>>
  <2>1. Told' = Told
    BY <1>3, <1>7 DEF Told
  <2> QED BY <1>3, <1>4, <1>5, <1>7, <2>1 DEF EndInv, ToldRight, Posted
<1> QED BY <1>6, <1>7 DEF PostTerminal, e

\* The steps that put nothing into the mailbox and take nothing out.
LEMMA StillEnds ==
  ASSUME EventTypesInv, EndInv,
         \/ Position \/ TurnAway \/ Begin \/ TryScan \/ Report \/ Frame \/ WalkComplete
         \/ Abort \/ Conclude \/ End
  PROVE  EndInv'
<1>1. UNCHANGED <<queue, batch, journal, heard, disabled, closing, ended, interrupted>>
      /\ todo = <<>> /\ ~Posted /\ ~Posted'
      /\ runAt \notin {"joining", "closed"} /\ runAt' \notin {"joining", "closed"}
  BY DEF Position, TurnAway, Begin, TryScan, Report, Frame, WalkComplete, Abort, Conclude, End,
     Finish, Idle, Posted, boxVars, dispVars
<1>2. Told' = Told
  BY <1>1 DEF Told
<1>3. HeardRight' /\ CloseRight'
  BY <1>1 DEF HeardRight, CloseRight, EndInv
<1>4. todo' \in Seq(Ordinary)
  <2>0. ASSUME NEW type \in EventTypes \ Terminals, NEW n \in Nat
        PROVE  Make(type, n) \in Ordinary
    BY MakeType DEF Ordinary
  <2>1. {"ScanQueued", "ScanStarted", "DirectoryQueued", "DirectoryCompleted", "LiveTree",
         "ScanProgressUpdated", "ScanPhaseChanged", "FinalTree", "AccessError"}
          \subseteq EventTypes \ Terminals
    BY DEF EventTypes, Barriers, Coalescing, Counts, Snapshots, Terminals
  <2>2. \A needed \in BOOLEAN : PhaseChange(needed) \in Seq(Ordinary)
    BY <2>0, <2>1, EmptySeq DEF PhaseChange
  <2>3. reports + 1 \in Nat /\ frames + 1 \in Nat
    BY Counters DEF EventTypesInv
  <2>4. CASE Position
    BY <2>0, <2>1, <2>4 DEF Position
  <2>5. CASE TurnAway \/ Abort \/ End
    BY <2>5, EmptySeq DEF TurnAway, Abort, End, Finish
  <2>6. CASE Begin
    BY <2>0, <2>1, <2>6 DEF Begin
  <2>7. CASE TryScan
    BY <1>1, <2>7, EmptySeq DEF TryScan
  <2>8. CASE Report
    <3>1. PICK queued \in 0..1, done \in 0..1 :
            todo' = PhaseChange(phase = "discovering")
               \o <<Make("ScanProgressUpdated", reports + 1)>>
               \o (IF queued > 0 THEN <<Make("DirectoryQueued", queued)>> ELSE <<>>)
               \o (IF done > 0 THEN <<Make("DirectoryCompleted", done)>> ELSE <<>>)
      BY <2>8 DEF Report
    <3>2. {Make("ScanProgressUpdated", reports + 1), Make("DirectoryQueued", queued),
           Make("DirectoryCompleted", done)} \subseteq Ordinary
      BY <2>0, <2>1, <2>3
    <3>3. /\ <<Make("ScanProgressUpdated", reports + 1)>> \in Seq(Ordinary)
          /\ (IF queued > 0 THEN <<Make("DirectoryQueued", queued)>> ELSE <<>>) \in Seq(Ordinary)
          /\ (IF done > 0 THEN <<Make("DirectoryCompleted", done)>> ELSE <<>>) \in Seq(Ordinary)
      BY <3>2, EmptySeq
    <3> QED BY <2>2, <3>1, <3>3, ConcatProperties
  <2>9. CASE Frame
    BY <2>0, <2>1, <2>3, <2>9 DEF Frame
  <2>10. CASE WalkComplete
    BY <2>2, <2>10 DEF WalkComplete
  <2>11. CASE Conclude
    <3>1. PICK errors \in 0..MaxErrors :
            todo' = PhaseChange(phase # "finalizing") \o <<Make("FinalTree", 0)>>
               \o [i \in 1..errors |-> Make("AccessError", 0)]
      BY <2>11 DEF Conclude
    <3>2. Make("FinalTree", 0) \in Ordinary /\ Make("AccessError", 0) \in Ordinary
      BY <2>0, <2>1
    <3>3. <<Make("FinalTree", 0)>> \in Seq(Ordinary)
          /\ [i \in 1..errors |-> Make("AccessError", 0)] \in Seq(Ordinary)
      BY <3>2, Bounds
    <3> QED BY <2>2, <3>1, <3>3, ConcatProperties
  <2> QED BY <2>4, <2>5, <2>6, <2>7, <2>8, <2>9, <2>10, <2>11
<1>5. StageRight'
  <2>1. CASE Position
    <3>1. /\ runAt = "waiting" /\ runAt' = "waiting" /\ status' = status
          /\ todo' = <<Make("ScanQueued", 0)>>
      BY <2>1 DEF Position, Idle
    <3>2. Make("ScanQueued", 0).type = "ScanQueued"
      BY MakeType DEF EventTypes
    <3>3. \A i \in DOMAIN todo' : todo'[i].type = "ScanQueued"
      BY <3>1, <3>2
    <3>4. ~Posted'
      BY <3>1 DEF Posted
    <3>5. runAt' # "starting" /\ runAt' # "turnedAway" /\ (todo' # <<>> => runAt' = "waiting")
      BY <3>1
    <3> QED BY <1>4, <3>1, <3>3, <3>4, <3>5 DEF StageRight
  <2>2. CASE TurnAway \/ Abort \/ End
    BY <1>1, <1>4, <2>2 DEF TurnAway, Abort, End, Finish, StageRight
  <2>3. CASE Begin
    <3>1. Head(todo') = Make("ScanStarted", 0) /\ todo' # <<>> /\ runAt' = "starting"
      BY <2>3 DEF Begin
    <3>2. Make("ScanStarted", 0).type = "ScanStarted"
      BY DEF Make
    <3> QED BY <1>1, <1>4, <3>1, <3>2 DEF StageRight
  <2>4. CASE TryScan \/ Report \/ Frame \/ WalkComplete \/ Conclude
    <3>1. runAt' \in {"walking", "concluding"}
      BY <2>4 DEF TryScan, Report, Frame, WalkComplete, Conclude, Idle
    <3> QED BY <1>1, <1>4, <3>1 DEF StageRight
  <2> QED BY <2>1, <2>2, <2>3, <2>4
<1>6. ASSUME ~interrupted PROVE ToldRight'
  <2>1. Told = <<>> => runAt' \in {"waiting", "starting", "turnedAway"}
    <3>1. CASE Position \/ TurnAway \/ Begin
      BY <3>1 DEF Position, TurnAway, Begin, Idle, Finish
    <3>2. CASE TryScan
      BY <1>1, <3>2 DEF TryScan, Idle, EndInv, StageRight
    <3>3. CASE Report \/ Frame \/ WalkComplete \/ Abort \/ Conclude \/ End
      BY <1>6, <3>3 DEF Report, Frame, WalkComplete, Abort, Conclude, End, Idle,
         EndInv, ToldRight
    <3> QED BY <3>1, <3>2, <3>3
  <2> QED BY <1>1, <1>2, <1>6, <2>1 DEF ToldRight, EndInv
<1> QED BY <1>1, <1>3, <1>5, <1>6 DEF EndInv

LEMMA CloseEnds ==
  ASSUME EventTypesInv, EndInv,
         Return \/ Interrupt \/ Close \/ Joined \/ AwaitEvents \/ StopDispatch \/ UNCHANGED eventVars
  PROVE  EndInv'
<1>1. UNCHANGED <<queue, batch, journal, heard, disabled>>
  BY DEF Return, Interrupt, Close, Joined, AwaitEvents, StopDispatch,
     eventVars, boxVars, dispVars
<1>2. Told' = Told
  BY <1>1 DEF Told
<1>3. HeardRight'
  BY <1>1 DEF HeardRight, EndInv
<1>4. CASE Interrupt
  <2>1. /\ interrupted' /\ todo' = <<>> /\ runAt' \in {"posting", "leaving"}
        /\ status' = "cancelled" /\ UNCHANGED <<closing, ended>>
        /\ runAt \notin {"joining", "closed"}
    BY <1>4 DEF Interrupt, Finish, dispVars
  <2>2. CloseRight'
    BY <1>1, <2>1 DEF CloseRight, EndInv
  <2>3. StageRight'
    BY <2>1, EmptySeq DEF StageRight
  <2> QED BY <1>3, <2>1, <2>2, <2>3 DEF EndInv
<1>5. CASE Return \/ Close \/ Joined
  <2>1. Posted /\ Posted' /\ UNCHANGED <<todo, status, interrupted>> /\ todo = <<>>
        /\ runAt' \in {"leaving", "joining", "closed"}
    BY <1>5 DEF Return, Close, Joined, Posted, EndInv, StageRight
  <2>2. CloseRight'
    BY <1>5, <1>1 DEF Return, Close, Joined, CloseRight, EndInv, boxVars, dispVars
  <2>3. StageRight'
    BY <2>1 DEF StageRight, EndInv
  <2>4. ~interrupted => ToldRight'
    BY <1>2, <2>1 DEF ToldRight, EndInv
  <2> QED BY <1>3, <2>1, <2>2, <2>3, <2>4 DEF EndInv
<1>6. CASE AwaitEvents \/ StopDispatch \/ UNCHANGED eventVars
  <2>1. UNCHANGED <<runAt, todo, status, interrupted, closing>>
    BY <1>6 DEF AwaitEvents, StopDispatch, eventVars, runVars, boxVars
  <2>2. CloseRight'
    BY <1>1, <1>6, <2>1 DEF AwaitEvents, StopDispatch, Ready, CloseRight, EndInv,
       eventVars, dispVars
  <2>3. StageRight' /\ (~interrupted' => ToldRight')
    BY <1>2, <2>1 DEF StageRight, ToldRight, EndInv, Posted
  <2> QED BY <1>3, <2>2, <2>3 DEF EndInv
<1> QED BY <1>4, <1>5, <1>6

LEMMA NextEnds == EventTypesInv /\ EndInv /\ [EventsNext]_eventVars => EndInv'
<1> SUFFICES ASSUME EventTypesInv, EndInv, [EventsNext]_eventVars PROVE EndInv'
  OBVIOUS
<1> QED BY DeliverEnds, TakeEnds, EmitEnds, PostEnds, StillEnds, CloseEnds
        DEF EventsNext, RunStep, DispatchStep

\* The invariants in force when the run is closed are the contract of replay.
LEMMA EndsAreTold == EventTypesInv /\ EndInv => EndIsTold
<1> SUFFICES ASSUME EventTypesInv, EndInv, runAt = "closed", ~interrupted PROVE EndIsTold
  BY DEF EndIsTold, ReplayAccepts, TerminalMatchesStatus
<1>1. Pending /\ batch = <<>> /\ queue = <<>> /\ Posted
  BY TypesPending DEF EndInv, CloseRight, Posted
<1>2. Told = journal
  BY <1>1, ConcatEmptySeq DEF Told, Pending
<1>3. /\ journal # <<>> /\ journal[1].type \in Firsts
      /\ \A i \in DOMAIN journal : journal[i].type \in Terminals <=> i = Len(journal)
      /\ journal[Len(journal)].type = TerminalOf(status)
      /\ status \in {"completed", "cancelled", "failed"}
  BY <1>1, <1>2 DEF EndInv, ToldRight, StageRight
<1>4. Replayable(journal)
  BY <1>3 DEF Replayable, Firsts
<1>5. SubSeq(journal, 1, Len(journal)) = journal
  BY <1>1, SubSeqFull DEF Pending
<1>6. ReplayAccepts
  BY <1>3, <1>4, <1>5 DEF ReplayAccepts, EndInv, HeardRight
<1>7. TerminalMatchesStatus
  BY <1>3 DEF TerminalMatchesStatus, TerminalOf, Last
<1> QED BY <1>6, <1>7 DEF EndIsTold

\* Every consumer that never raised hears the whole journal of a run that was
\* not interrupted, and its one terminal event, the last, is the run's status.
THEOREM EndsToldOnce == EventsSpec => []EndIsTold
<1>1. EventsSpec => [](EventTypesInv /\ EndInv)
  BY InitTypes, NextTypes, InitEnds, NextEnds, PTL DEF EventsSpec
<1> QED BY <1>1, EndsAreTold, PTL
=============================================================================
