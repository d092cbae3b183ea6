------------------------------ MODULE TreeScan ------------------------------
(***************************************************************************)
(* scanner/scheduler.py: one scheduler thread and a pool of workers walk a *)
(* tree.  A worker reads one directory at a time; a large directory is     *)
(* streamed in entry chunks through a bounded queue ahead of its result, a *)
(* small one comes back whole.  The scheduler alone owns the growing tree: *)
(* it applies chunks and results, keeps the totals of every ancestor up to *)
(* date by differences, hands out child directories through cursors, and   *)
(* publishes frames that share their nodes with the tree (copy on write).  *)
(*                                                                         *)
(* Entries are numbers, ordered as their paths are.  Nodes are objects in  *)
(* a heap, because a frame and the tree may hold the same one: heap[d] is  *)
(* every node object directory d has had, the last one being its state's   *)
(* node, and a reference is <<entry, place in heap>>, <<f, 0>> for a file. *)
(* Every file is one byte.  The scan has a tree callback; its interval and *)
(* acknowledgement throttle is a free choice wherever it may skip a frame. *)
(***************************************************************************)
EXTENDS Integers, Sequences, FiniteSets, FiniteSetsExt, SequencesExt, Functions

CONSTANTS
  Root, Dirs, Files, Locked,  \* entries; Locked ones cannot even be stat'ed
  Listing,          \* Listing[d]: the entries of d in the order they are read
  Denied,           \* directories that cannot be opened
  Crashing,         \* directories at which a worker may raise
  ChunkSize,        \* entry_chunk_size
  ChunkCapacity,    \* entry_chunk_queue_capacity
  Workers, InitialWorkers,  \* workers, _INITIAL_WORKER_THREADS
  SubmissionLimit, QueueCapacity,
  MaxFrames         \* bound: frames that the throttle could have skipped

ASSUME TreeAssumption ==
  /\ {Workers, InitialWorkers, SubmissionLimit, QueueCapacity, ChunkSize,
      ChunkCapacity} \subseteq Nat \ {0}
  /\ MaxFrames \in Nat
  /\ Dirs \cup Files \cup Locked \subseteq Nat \ {0} /\ Root \in Dirs
  /\ Listing \in [Dirs -> Seq(Dirs \cup Files \cup Locked)]
  /\ Denied \cup Crashing \subseteq Dirs
  /\ IsFiniteSet(Dirs) /\ Dirs \cap (Files \cup Locked) = {} /\ Files \cap Locked = {}
  \* a name stands in a directory once, a directory in one directory
  /\ \A d \in Dirs : Root \notin Range(Listing[d])
  /\ \A d \in Dirs : \A i, j \in DOMAIN Listing[d] :
       Listing[d][i] = Listing[d][j] => i = j
  /\ \A d \in Dirs \ {Root} : \E p \in Dirs :
       d \in Range(Listing[p]) /\ \A q \in Dirs \ {p} : d \notin Range(Listing[q])

VARIABLES
  tree,        \* what only the scheduler thread touches, see Trees
  afterForce,  \* _tree_first_after_force
  frames,      \* how many frames the throttle let through
  frozen,      \* history: references inside a published frame
  missed,      \* history: those new in a frame, but not in the table it carried
  pc, batch,   \* where scan() is, and its `completed`, taken in path order
  pending, sources,    \* directories, in order
  jobs, inFlight, threads,
  chunks, finished,    \* the two queues the workers fill
  cancel,      \* _cancel_event
  wk           \* the workers

viewVars  == <<afterForce, frames, frozen, missed>>
planVars  == <<pending, sources, inFlight, threads>>
vars == <<tree, viewVars, pc, batch, planVars, jobs, chunks, finished, cancel, wk>>

Pool == 1..Workers
Stop == 0          \* the None that ends a worker
Stale == -1        \* _STALE_GENERATION

Entries == Dirs \cup Files \cup Locked
ParentOf(d) == CHOOSE p \in Dirs : d \in Range(Listing[p])

\* d and the directories it is in.
Above == [d \in Dirs |-> {a \in Dirs : \A S \in SUBSET Dirs :
            d \in S /\ (\A b \in S \ {Root} : ParentOf(b) \in S) => a \in S}]

\* Those of them, from d up, before the first that is not in S.
AboveWhile(d, S) == {a \in Above[d] : \A b \in Above[d] : a \in Above[b] => b \in S}

Below(a, S) == {b \in S \ {Root} : ParentOf(b) = a}

Flag(b) == IF b THEN 1 ELSE 0
CountIn(s, S) == Cardinality({i \in DOMAIN s : s[i] \in S})

-----------------------------------------------------------------------------
(* Nodes and states.                                                       *)

\* own, size: bytes of the directory's own files and below; dirs: dir_count;
\* direct: inaccessible_count; unread, denied, partial: the *_subtree_count.
Node == [own : Nat, size : Nat, dirs : Nat, direct : Nat, unread : Nat,
         denied : Nat, partial : Nat, error : BOOLEAN, kids : Seq(Entries \X Nat)]

Blank == [own |-> 0, size |-> 0, dirs |-> 0, direct |-> 0, unread |-> 0,
          denied |-> 0, partial |-> 0, error |-> FALSE, kids |-> <<>>]

\* _DirectoryState; live: whether _states has it.  cursor: next_child_index,
\* how many entries of the node have been looked at.
State == [live : BOOLEAN, gen : Nat \cup {Stale}, index : Nat, cursor : Nat,
          remaining : Int, locked : Nat, found : Nat, nextAt : Nat,
          scanned : BOOLEAN, settled : BOOLEAN]

Fresh(gen, index) ==
  [live |-> TRUE, gen |-> gen, index |-> index, cursor |-> 0, remaining |-> 0,
   locked |-> 0, found |-> 0, nextAt |-> ChunkSize, scanned |-> FALSE, settled |-> FALSE]

\* changed: _changed_nodes, the place in heap of each, 0 for none; settled:
\* _settled_paths.
Trees == [heap : [Dirs -> Seq(Node)], at : [Dirs -> State], generation : Nat,
          changed : [Dirs -> Nat], settled : SUBSET Dirs, outstanding : Nat]

Current(t, d) == t.heap[d][Len(t.heap[d])]
Stales(t) == {d \in Dirs : t.at[d].gen # t.generation}

\* The state of d becomes s.
InState(t, d, s) == [t EXCEPT !.at = [t.at EXCEPT ![d] = s]]

\* The current nodes become those of the function nodes.
Written(t, nodes) ==
  [t EXCEPT !.heap =
     [d \in Dirs |-> [t.heap[d] EXCEPT ![Len(t.heap[d])] = nodes[d]]]]
Ref(t, d) == <<d, Len(t.heap[d])>>

SumOver(S, Value(_)) == FoldFunction(+, 0, [x \in S |-> Value(x)])

IsPartial(n) == ~n.error /\ n.direct > 0

\* _recalculate_directory(): totals from the own bytes and the current kids.
Recalculated(n, heap) ==
  LET down == {i \in DOMAIN n.kids : n.kids[i][1] \in Dirs}
      Kid(i) == heap[n.kids[i][1]][n.kids[i][2]]
      direct == n.direct + Cardinality({i \in down : Kid(i).error})
  IN [n EXCEPT
       !.size = n.own + SumOver(down, LAMBDA i : Kid(i).size),
       !.dirs = SumOver(down, LAMBDA i : 1 + Kid(i).dirs),
       !.direct = direct,
       !.unread = direct + SumOver(down, LAMBDA i : Kid(i).unread),
       !.denied = SumOver(down, LAMBDA i : Flag(Kid(i).error) + Kid(i).denied),
       !.partial = SumOver(down, LAMBDA i : Flag(IsPartial(Kid(i))) + Kid(i).partial)]

\* _child_contribution().
Contribution(n) ==
  [size |-> n.size, dirs |-> n.dirs, failed |-> Flag(n.error),
   unread |-> n.unread + Flag(n.error), denied |-> n.denied + Flag(n.error),
   partial |-> n.partial + Flag(IsPartial(n))]

Untouched == Contribution(Blank)   \* _ZERO_CONTRIBUTION

-----------------------------------------------------------------------------
(* Copy on write.                                                          *)

\* The lists of their parents are made to hold the current nodes of those in S,
\* each at its own parent_index.
Linked(t, S) ==
  Written(t, [d \in Dirs |-> LET n == Current(t, d) IN
    [n EXCEPT !.kids = [i \in DOMAIN n.kids |->
       IF \E b \in Below(d, S) : t.at[b].index = i
       THEN Ref(t, CHOOSE b \in Below(d, S) : t.at[b].index = i)
       ELSE n.kids[i]]]])

Cloned(t, S) ==
  Linked([t EXCEPT
    !.heap = [d \in Dirs |-> IF d \in S THEN Append(t.heap[d], Current(t, d)) ELSE t.heap[d]],
    !.at   = [d \in Dirs |-> IF d \in S THEN [t.at[d] EXCEPT !.gen = t.generation]
                             ELSE t.at[d]]], S)

\* Mutant: only the directory itself is cloned.
OwnCopy(t, d) == IF d \in Stales(t) THEN Cloned(t, {d}) ELSE t

\* _ensure_mutable(): the stale ones from d up are cloned.
EnsureMutable(t, d) == Cloned(t, AboveWhile(d, Stales(t)))

-----------------------------------------------------------------------------
(* Totals, changed nodes, settling.                                        *)

\* Node n with a difference of contributions added.
Shifted(n, by, failed) ==
  [n EXCEPT !.size = @ + by.size, !.dirs = @ + by.dirs, !.direct = @ + failed,
            !.unread = @ + by.unread, !.denied = @ + by.denied,
            !.partial = @ + by.partial]

\* What parent becomes, and the directories above it.
Raised(t, up, parent, above) ==
  Written(t, [a \in Dirs |-> IF a = up THEN parent
                ELSE IF a \in Above[up] THEN Shifted(Current(t, a), above, 0)
                ELSE Current(t, a)])

\* Mutant: the parent's own change from or to partial is forgotten above it.
PropagateFlat(t, d, before) ==
  IF d = Root THEN t
  ELSE LET after  == Contribution(Current(t, d))
           by     == [f \in DOMAIN after |-> after[f] - before[f]]
           up     == ParentOf(d)
           linked == Linked(EnsureMutable(t, up), {d})
       IN Raised(linked, up, Shifted(Current(linked, up), by, by.failed), by)

\* _propagate(): the difference goes to every ancestor; the direct parent also
\* counts a failed entry of its own, and if that makes it partial (or not), the
\* ancestors above it count one partial directory more (or less).
Propagate(t, d, before) ==
  IF d = Root THEN t
  ELSE LET after  == Contribution(Current(t, d))
           by     == [f \in DOMAIN after |-> after[f] - before[f]]
           up     == ParentOf(d)
           linked == Linked(EnsureMutable(t, up), {d})
           parent == Shifted(Current(linked, up), by, by.failed)
           turn   == Flag(IsPartial(parent)) - Flag(IsPartial(Current(linked, up)))
       IN IF \A f \in DOMAIN by : by[f] = 0 THEN linked
          ELSE Raised(linked, up, parent, [by EXCEPT !.partial = @ + turn])

Recorded(t, S) ==
  [t EXCEPT !.changed =
     [d \in Dirs |-> IF d \in S THEN Len(t.heap[d]) ELSE t.changed[d]]]

\* Mutant: a node's old object in the table is taken for the new one.
RecordOnce(t, d) == Recorded(t, AboveWhile(d, {a \in Dirs : t.changed[a] = 0}))

\* _record_changed(): up to the first node object that is already recorded.
RecordChanged(t, d) ==
  Recorded(t, AboveWhile(d, {a \in Dirs : t.changed[a] # Len(t.heap[a])}))

\* The numbers in S in order.
InOrder(S) ==
  [i \in 1..Cardinality(S) |-> CHOOSE k \in S : Cardinality({j \in S : j < k}) = i - 1]

ByPath(kids) ==
  LET paths == InOrder({kids[i][1] : i \in DOMAIN kids})
  IN [i \in DOMAIN paths |-> CHOOSE k \in Range(kids) : k[1] = paths[i]]

\* The children of those in S are sorted, their parents told.
Settled(t, S, Cursor(_)) ==
  LET sorted == Written(t, [d \in Dirs |-> LET n == Current(t, d) IN
                  IF d \in S THEN [n EXCEPT !.kids = ByPath(@)] ELSE n])
  IN [sorted EXCEPT
       !.at = [d \in Dirs |-> LET s == t.at[d] IN
         [s EXCEPT !.cursor  = IF d \in S THEN Cursor(d) ELSE @,
                   !.settled = @ \/ d \in S,
                   !.live    = IF d \in S THEN d = Root ELSE @,
                   !.remaining = @ - Cardinality(Below(d, S))]],
       !.changed = [d \in Dirs |-> IF d \in S THEN Len(t.heap[d]) ELSE t.changed[d]],
       !.settled = @ \cup S]

\* Mutant: the cursor of a settling directory is not retired.
SettleKeepingCursor(t, S) == Settled(t, S, LAMBDA d : t.at[d].cursor)

\* The turns of the loop: retire the cursor, sort the children, tell the parent.
Settle(t, S) == Settled(t, S, LAMBDA d : Len(Current(t, d).kids))

\* _mark_settled(): d, and each ancestor whose last child this was.
MarkSettled(t, d) ==
  Settle(t, AboveWhile(d,
    {a \in Dirs : /\ t.at[a].scanned /\ ~t.at[a].settled
                  /\ t.at[a].remaining = IF a = d THEN 0 ELSE 1}))

-----------------------------------------------------------------------------
(* _apply_entry_chunk(), _apply_result().                                  *)

Listed(entries) ==
  LET kept == InOrder({i \in DOMAIN entries : entries[i] \notin Locked})
  IN [i \in DOMAIN kept |-> entries[kept[i]]]

\* A child directory is listed as the placeholder the worker made for it.
Refs(entries) ==
  LET s == Listed(entries) IN [i \in DOMAIN s |-> <<s[i], Flag(s[i] \in Dirs)>>]

ApplyChunk(t, c) ==
  LET d      == c.path
      dirs   == CountIn(c.entries, Dirs)
      own    == CountIn(c.entries, Files)
      locked == CountIn(c.entries, Locked)
      t1     == EnsureMutable(t, d)
      was    == Current(t1, d)
      grown  == [was EXCEPT
                  !.kids = @ \o Refs(c.entries), !.own = @ + own, !.size = @ + own,
                  !.dirs = @ + dirs, !.direct = @ + locked, !.unread = @ + locked]
      placed == Written(t1, [a \in Dirs |-> IF a = d THEN grown ELSE Current(t1, a)])
      told   == InState(placed, d, [t1.at[d] EXCEPT
                  !.locked = @ + locked, !.remaining = @ + dirs,
                  !.found = @ + Len(c.entries)])
      t2     == [told EXCEPT !.outstanding = @ + dirs]
  IN RecordChanged(Propagate(t2, d, Contribution(was)), d)

\* The end of both ways to apply a result: n becomes d's node.
Install(t, d, n, before) ==
  LET done == InState(t, d, [t.at[d] EXCEPT !.gen = t.generation, !.scanned = TRUE])
      put  == [done EXCEPT !.heap = [t.heap EXCEPT ![d] = Append(t.heap[d], n)],
                           !.outstanding = Max({0, @ - 1})]
      told == RecordChanged(Propagate(put, d, before), d)
  IN IF told.at[d].remaining = 0 THEN MarkSettled(told, d) ELSE told

\* _apply_whole_directory(): nothing is taken to have been applied before.
ApplyWhole(t, r) ==
  LET d    == r.path
      dirs == CountIn(r.entries, Dirs)
      node == [Blank EXCEPT !.own = r.own, !.direct = r.locked,
                            !.error = r.error, !.kids = Refs(r.entries)]
      t1   == EnsureMutable(t, d)
      told == InState(t1, d, [t1.at[d] EXCEPT !.locked = r.locked, !.remaining = dirs,
                                              !.found = Len(node.kids)])
      t2   == [told EXCEPT !.outstanding = @ + dirs]
  IN Install(t2, d, Recalculated(node, t.heap), Untouched)

\* Mutant: a dead worker's empty result replaces what its chunks delivered.
ApplyBare(t, r) ==
  LET d    == r.path
      t1   == EnsureMutable(t, d)
      node == [Blank EXCEPT !.own = r.own, !.direct = r.locked, !.error = r.error,
                            !.kids = Current(t1, d).kids]
      t2   == InState(t1, d, [t1.at[d] EXCEPT !.locked = r.locked])
  IN Install(t2, d, Recalculated(node, t1.heap), Contribution(Current(t1, d)))

\* The rest of _apply_result(): the chunks' children stay; a worker that died
\* leaves the numbers they came with too (_carry_streamed_progress()).
ApplyStreamed(t, r) ==
  LET d     == r.path
      t1    == EnsureMutable(t, d)
      was   == Current(t1, d)
      carry == r.error /\ ~r.streamed /\ was.kids # <<>>
      node  == [Blank EXCEPT !.own = IF carry THEN was.own ELSE r.own,
                             !.direct = IF carry THEN t1.at[d].locked ELSE r.locked,
                             !.error = r.error, !.kids = was.kids]
      t2    == InState(t1, d, [t1.at[d] EXCEPT !.locked = node.direct])
  IN Install(t2, d, Recalculated(node, t1.heap), Contribution(was))

\* A result that is not streamed has no children of its own once the directory
\* has some: the code's branch for that case cannot be taken.
ApplyResult(t, r) ==
  IF ~r.streamed /\ Current(t, r.path).kids = <<>> THEN ApplyWhole(t, r)
  ELSE ApplyStreamed(t, r)

-----------------------------------------------------------------------------
(* Frames.                                                                 *)

\* The place in heap of the node object of each directory that one sees when
\* descending from the root; 0 where there is none.
Seen(t) ==
  LET shown[d \in Dirs] ==
        IF d = Root THEN Len(t.heap[d])
        ELSE LET up   == shown[ParentOf(d)]
                 here == IF up = 0 THEN {}
                         ELSE {k \in Range(t.heap[ParentOf(d)][up].kids) : k[1] = d}
             IN IF here = {} THEN 0 ELSE (CHOOSE k \in here : TRUE)[2]
  IN shown

SeenRefs(t) ==
  LET seen == Seen(t)
  IN {<<d, seen[d]>> : d \in {e \in Dirs : seen[e] \in DOMAIN t.heap[e]}}

NextGeneration(t) ==
  [t EXCEPT !.changed = [d \in Dirs |-> 0], !.generation = @ + 1]

\* What a reader who knows the frames so far cannot know from the table: nodes
\* that are new and no longer the placeholders their parent listed.
Unlisted(t) ==
  {ref \in SeenRefs(t) \ frozen : ref[2] > 1 /\ t.changed[ref[1]] # ref[2]}

\* _publish_tree(): a forced frame and the one after it always go out.
Publish(t, force) ==
  LET due == force \/ afterForce
  IN \/ /\ ~due
        /\ tree' = t
        /\ UNCHANGED viewVars
     \/ /\ due \/ frames < MaxFrames
        /\ tree' = NextGeneration(t)
        /\ afterForce' = force
        /\ frames' = frames + Flag(~due)
        /\ frozen' = frozen \cup SeenRefs(t)
        /\ missed' = missed \cup Unlisted(t)

-----------------------------------------------------------------------------
(* scan(): the scheduler thread.                                           *)

Init ==
  /\ tree = [heap |-> [d \in Dirs |-> <<Blank>>],
             at |-> [d \in Dirs |-> [Fresh(0, 0) EXCEPT !.live = (d = Root)]],
             generation |-> 0, changed |-> [d \in Dirs |-> 0],
             settled |-> {}, outstanding |-> 1]
  /\ afterForce = TRUE /\ frames = 0 /\ frozen = {} /\ missed = {}
  /\ pc = "top" /\ batch = {}
  /\ pending = <<Root>> /\ sources = <<>> /\ inFlight = 0 /\ threads = 0
  /\ jobs = <<>> /\ chunks = <<>> /\ finished = <<>>
  /\ cancel = FALSE
  /\ wk = [w \in Pool |-> [doing |-> "idle", job |-> Stop, sent |-> 0]]

\* Mutant: one sentinel for the pool.
StoppingOne ==
  /\ pc' = "joining"
  /\ jobs' = Append(jobs, Stop)

\* The finally clause: one sentinel for each thread.
Stopping ==
  /\ pc' = "joining"
  /\ jobs' = jobs \o [i \in 1..threads |-> Stop]

Top ==
  /\ pc = "top"
  /\ IF pending = <<>> /\ inFlight = 0 /\ sources = <<>>
     THEN Stopping /\ UNCHANGED <<pending, sources>>
     ELSE IF cancel THEN Stopping /\ pending' = <<>> /\ sources' = <<>>
     ELSE pc' = "drain" /\ UNCHANGED <<jobs, pending, sources>>
  /\ UNCHANGED <<tree, viewVars, batch, inFlight, threads, chunks, finished, cancel, wk>>

\* _queue_source().
Queued(t, d) ==
  IF t.at[d].cursor < Len(Current(t, d).kids) /\ d \notin Range(sources)
  THEN Append(sources, d) ELSE sources

\* The publication threshold doubles until it is ahead of what was found.
Ahead(found, nextAt) ==
  CHOOSE k \in {nextAt * 2^i : i \in 0..found} :
    k > found /\ (k = nextAt \/ k \div 2 <= found)

\* _drain_entry_chunks(): one chunk of it.
DrainChunk ==
  /\ pc \in {"drain", "drainAgain"} /\ chunks # <<>>
  /\ LET c   == Head(chunks)
         t   == ApplyChunk(tree, c)
         s   == t.at[c.path]
         due == s.found >= s.nextAt
         t1  == InState(t, c.path, [s EXCEPT !.nextAt = Ahead(s.found, s.nextAt)])
     IN /\ sources' = IF CountIn(c.entries, Dirs) > 0 THEN Queued(t, c.path)
                      ELSE sources
        /\ IF due THEN Publish(t1, TRUE) ELSE tree' = t /\ UNCHANGED viewVars
  /\ chunks' = Tail(chunks)
  /\ UNCHANGED <<pc, batch, pending, inFlight, threads, jobs, finished, cancel, wk>>

\* The chunks have run out: sources hand out their children.
Filling == pc = "fill" \/ (pc = "drain" /\ chunks = <<>>)

\* A source's turn, _next_child_job(): the next directory after the cursor
\* becomes live, or there was none.
HandOut ==
  /\ Filling /\ sources # <<>> /\ Len(pending) < QueueCapacity
  /\ pc' = "fill"
  /\ LET d    == Head(sources)
         kids == Current(tree, d).kids
         left == {i \in DOMAIN kids : i > tree.at[d].cursor /\ kids[i][1] \in Dirs}
         i    == IF left = {} THEN Len(kids) ELSE Min(left)
         read == [tree.at EXCEPT ![d].cursor = i]
     IN /\ IF left = {} THEN tree' = [tree EXCEPT !.at = read] /\ UNCHANGED pending
           ELSE /\ tree' = [tree EXCEPT !.at =
                            [read EXCEPT ![kids[i][1]] = Fresh(Stale, i)]]
                /\ pending' = Append(pending, kids[i][1])
        /\ sources' = IF i < Len(kids) THEN Append(Tail(sources), d) ELSE Tail(sources)
  /\ UNCHANGED <<viewVars, batch, jobs, inFlight, threads, chunks, finished, cancel, wk>>

Filled ==
  /\ Filling /\ (sources = <<>> \/ Len(pending) >= QueueCapacity)
  /\ pc' = "submit"
  /\ UNCHANGED <<tree, viewVars, batch, planVars, jobs, chunks, finished, cancel, wk>>

CanSubmit == pending # <<>> /\ ~cancel /\ inFlight < SubmissionLimit

Submit ==
  /\ pc = "submit" /\ CanSubmit
  /\ jobs' = Append(jobs, Head(pending)) /\ pending' = Tail(pending)
  /\ inFlight' = inFlight + 1
  /\ UNCHANGED <<tree, viewVars, pc, batch, sources, threads, chunks, finished,
                 cancel, wk>>

\* Threads are grown to fit the work.
StartWorkers ==
  /\ pc = "submit" /\ ~CanSubmit
  /\ threads' = IF inFlight = 0 THEN threads
                ELSE Max({threads, Min({Workers, Max({inFlight, InitialWorkers})})})
  /\ pc' = "collect"
  /\ UNCHANGED <<tree, viewVars, batch, pending, sources, inFlight, jobs, chunks,
                 finished, cancel, wk>>

\* All results that are there, in path order; with none, the wait times out or
\* is cut short and the loop starts again.
Collect ==
  /\ pc = "collect"
  /\ IF finished = <<>> THEN pc' = "top" /\ UNCHANGED <<batch, finished, inFlight>>
     ELSE /\ pc' = "drainAgain"
          /\ batch' = Range(finished)
          /\ finished' = <<>>
          /\ inFlight' = inFlight - Len(finished)
  /\ UNCHANGED <<tree, viewVars, pending, sources, threads, jobs, chunks, cancel, wk>>

Apply ==
  /\ pc = "apply" \/ (pc = "drainAgain" /\ chunks = <<>>)
  /\ \E r \in batch :
       /\ \A s \in batch : r.path <= s.path
       /\ LET t == ApplyResult(tree, r)
          IN /\ sources' = IF t.at[r.path].remaining > 0 THEN Queued(t, r.path) ELSE sources
             /\ Publish(t, r.path = Root)
       /\ batch' = batch \ {r}
       /\ pc' = IF batch' = {} THEN "top" ELSE "apply"
  /\ UNCHANGED <<pending, inFlight, threads, jobs, chunks, finished, cancel, wk>>

\* A callback raises, or the thread is interrupted: except BaseException.
Abort ==
  /\ pc \notin {"joining", "done"}
  /\ cancel' = TRUE
  /\ Stopping
  /\ UNCHANGED <<tree, viewVars, batch, planVars, chunks, finished, wk>>

Join ==
  /\ pc = "joining" /\ \A w \in 1..threads : wk[w].doing = "gone"
  /\ pc' = "done"
  /\ UNCHANGED <<tree, viewVars, batch, planVars, jobs, chunks, finished, cancel, wk>>

Cancel ==
  /\ ~cancel /\ pc # "done"
  /\ cancel' = TRUE
  /\ UNCHANGED <<tree, viewVars, pc, batch, planVars, jobs, chunks, finished, wk>>

-----------------------------------------------------------------------------
(* run_worker() and scan_directory_once().                                 *)

Reading(w) == wk[w].doing = "reading"
Here(w) == Listing[wk[w].job]
ReadTo(w) == wk[w].sent * ChunkSize        \* entries already published

\* Once the scan is cancelled, jobs are dropped.
TakeJob(w) ==
  /\ w <= threads /\ wk[w].doing = "idle" /\ jobs # <<>>
  /\ jobs' = Tail(jobs)
  /\ wk' = [wk EXCEPT ![w] =
       IF Head(jobs) = Stop THEN [@ EXCEPT !.doing = "gone"]
       ELSE IF cancel THEN @
       ELSE [doing |-> "reading", job |-> Head(jobs), sent |-> 0]]
  /\ UNCHANGED <<tree, viewVars, pc, batch, planVars, chunks, finished, cancel>>

\* publish_checkpoint(): a full chunk, or the rest of a directory that has
\* published one; it waits while the queue is full.
SendChunk(w) ==
  /\ Reading(w) /\ wk[w].job \notin Denied
  /\ ~cancel /\ Len(chunks) < ChunkCapacity
  /\ LET rest == Min({ChunkSize, Len(Here(w)) - ReadTo(w)})
     IN /\ rest = ChunkSize \/ (rest > 0 /\ wk[w].sent > 0)
        /\ chunks' = Append(chunks, [path |-> wk[w].job,
             entries |-> SubSeq(Here(w), ReadTo(w) + 1, ReadTo(w) + rest)])
  /\ wk' = [wk EXCEPT ![w].sent = @ + 1]
  /\ UNCHANGED <<tree, viewVars, pc, batch, planVars, jobs, finished, cancel>>

\* The result of a directory of which the first n entries were read.
Result(w, n, error, streamed) ==
  LET read == SubSeq(Here(w), 1, n)
  IN [path |-> wk[w].job, own |-> CountIn(read, Files), locked |-> CountIn(read, Locked),
      entries |-> IF streamed THEN <<>> ELSE read, error |-> error, streamed |-> streamed]

HandBack(w, result) ==
  /\ finished' = Append(finished, result)
  /\ wk' = [wk EXCEPT ![w] = [doing |-> "idle", job |-> Stop, sent |-> 0]]
  /\ UNCHANGED <<tree, viewVars, pc, batch, planVars, jobs, chunks, cancel>>

\* Everything was read: whole if no chunk went out.
Return(w) ==
  /\ Reading(w)
  /\ \/ wk[w].job \in Denied /\ HandBack(w, Result(w, 0, TRUE, FALSE))
     \/ /\ wk[w].job \notin Denied
        /\ IF wk[w].sent = 0 THEN Len(Here(w)) < ChunkSize
           ELSE ReadTo(w) >= Len(Here(w))
        /\ HandBack(w, Result(w, Len(Here(w)), FALSE, wk[w].sent > 0))

\* The loop saw the cancellation after n entries, or a chunk was refused: what
\* was read and not published is in the sums but not in the children.
StopReading(w) ==
  /\ Reading(w) /\ cancel
  /\ \E n \in 0..Len(Here(w)) :
       /\ n \in ReadTo(w)..(ReadTo(w) + ChunkSize)
       /\ wk[w].job \in Denied => n = 0
       /\ HandBack(w, Result(w, n, FALSE, wk[w].sent > 0 \/ n = ChunkSize))

\* _failed_result(): whatever the directory published, its result is bare.
Crash(w) ==
  /\ Reading(w) /\ wk[w].job \in Crashing
  /\ HandBack(w, Result(w, 0, TRUE, FALSE))

-----------------------------------------------------------------------------
SchedulerStep ==
  \/ Top \/ DrainChunk \/ HandOut \/ Filled \/ Submit \/ StartWorkers
  \/ Collect \/ Apply \/ Join

WorkerStep(w) ==
  TakeJob(w) \/ SendChunk(w) \/ Return(w) \/ StopReading(w) \/ Crash(w)

Next == SchedulerStep \/ Abort \/ Cancel \/ \E w \in Pool : WorkerStep(w)

\* Weak fairness of the scheduler thread, with its enabling condition written
\* out (every place of the loop has a step, the join waits for the threads) and
\* its steps told by its own variables: nobody else writes them.
SchedulerReady ==
  pc # "done" /\ (pc = "joining" => \A w \in 1..threads : wk[w].doing = "gone")
SchedulerMoved == <<tree, pc, batch, planVars>>' # <<tree, pc, batch, planVars>>
SchedulerFair == <>[]SchedulerReady => []<><<SchedulerMoved>>_vars

\* Threads run; nobody has to cancel or raise.
Spec == Init /\ [][Next]_vars /\ SchedulerFair /\ \A w \in Pool : WF_vars(WorkerStep(w))

-----------------------------------------------------------------------------
(* Properties.                                                             *)

Places == {"top", "drain", "fill", "submit", "collect", "drainAgain", "apply",
           "joining", "done"}

TypeOK ==
  /\ tree \in Trees
  /\ afterForce \in BOOLEAN /\ cancel \in BOOLEAN /\ frames \in 0..MaxFrames
  /\ pc \in Places /\ threads \in 0..Workers
  /\ pending \in Seq(Dirs) /\ sources \in Seq(Dirs) /\ jobs \in Seq(Dirs \cup {Stop})
  /\ Len(pending) <= QueueCapacity /\ Len(chunks) <= ChunkCapacity
  /\ inFlight \in 0..SubmissionLimit
  /\ wk \in [Pool -> [doing : {"idle", "reading", "gone"}, job : Dirs \cup {Stop},
                      sent : Nat]]

\* Where directory d is between being handed out and being applied.
Held(d) ==
  {<<"pending", i>> : i \in {j \in DOMAIN pending : pending[j] = d}}
  \cup {<<"jobs", i>> : i \in {j \in DOMAIN jobs : jobs[j] = d}}
  \cup {<<"worker", w>> : w \in {v \in Pool : wk[v].job = d}}
  \cup {<<"finished", i>> : i \in {j \in DOMAIN finished : finished[j].path = d}}
  \cup {<<"batch", r>> : r \in {s \in batch : s.path = d}}

\* The map of live directories is what the scheduler relies on whenever it
\* looks a path up: the ancestors of a live directory are live; its parent
\* index finds it in its parent's list, whatever was sorted or cloned since; a
\* settled directory is gone; no cursor is past its list; and whatever is on
\* its way to be applied is for a live directory that has no result yet.
LiveMapSound ==
  \A d \in Dirs :
    LET s == tree.at[d]
    IN /\ s.live =>
            /\ ~s.settled \/ d = Root
            /\ s.cursor <= Len(Current(tree, d).kids)
            /\ s.remaining >= 0
            /\ d # Root =>
                 /\ tree.at[ParentOf(d)].live
                 /\ s.index <= tree.at[ParentOf(d)].cursor
                 /\ Current(tree, ParentOf(d)).kids[s.index] = Ref(tree, d)
       /\ Held(d) # {} \/ (\E i \in DOMAIN chunks : chunks[i].path = d) =>
            s.live /\ ~s.scanned

\* What the scheduler's tables hold is of its type, and the paths lead somewhere.
WellFormed == TypeOK /\ LiveMapSound

\* A directory is handed out once in a scan, and listed once.
OncePerDirectory ==
  \A d \in Dirs :
    /\ Cardinality(Held(d)) <= 1
    /\ d \in tree.settled => Held(d) = {} /\ tree.at[d].settled
    /\ LET kids == Current(tree, d).kids
       IN \A i, j \in DOMAIN kids : kids[i][1] = kids[j][1] => i = j

\* The totals kept by differences are, at every directory one can see from the
\* root and at any time, those of a recount over its children; and unless the
\* scan was cancelled its own bytes are those of the files it lists.
AggregatesExact ==
  \A ref \in SeenRefs(tree) :
    LET n == tree.heap[ref[1]][ref[2]]
    IN /\ n = Recalculated([n EXCEPT !.direct = tree.at[ref[1]].locked], tree.heap)
       /\ ~cancel => n.own = Cardinality({i \in DOMAIN n.kids : n.kids[i][1] \in Files})

\* A reader who applies the frames sees every change: a node object no frame
\* had before is in the table that goes out with its first frame, at any time
\* what is new is in the table for the next one, and what is in the table is
\* the node of the tree, not one it replaced.
FrameListsChanges ==
  /\ missed = {} /\ Unlisted(tree) = {}
  /\ \A d \in Dirs : tree.changed[d] \in {0, Len(tree.heap[d])}

\* No node of a frame that was handed out is ever written again; and a settled
\* directory's node is neither written nor replaced, for live views keep what
\* they made of it for as long as it is the same object (domain/live_view.py:104).
FramesFrozen ==
  [][/\ \A ref \in frozen : tree'.heap[ref[1]][ref[2]] = tree.heap[ref[1]][ref[2]]
     /\ \A d \in tree.settled : d \in tree'.settled /\ tree'.heap[d] = tree.heap[d]]_vars

\* The root's final numbers, from the directories and files themselves.
Failed == {d \in Dirs : Seen(tree)[d] # 0 /\ Current(tree, d).error}
FilesOf(d) == {k \in Range(Current(tree, d).kids) : k[1] \in Files}

\* A scan nobody cancelled ends with every directory it found read, settled
\* and in order, no task left over, and totals that count each of them once.
WalkComplete ==
  pc = "done" /\ ~cancel =>
    LET found == {d \in Dirs : Seen(tree)[d] # 0}
        root  == Current(tree, Root)
    IN /\ tree.settled = found /\ tree.outstanding = 0
       /\ \A d \in found : Current(tree, d).kids = ByPath(Current(tree, d).kids)
       /\ root.size = SumOver(found, LAMBDA d : Cardinality(FilesOf(d)))
       /\ root.dirs = Cardinality(found) - 1
       /\ root.denied = Cardinality(Failed \ {Root})

\* The scan ends, cancelled or not, with no thread left running: a full chunk
\* queue, a cancellation and a dead worker never wait for each other.
Terminates == <>(pc = "done" /\ \A w \in 1..threads : wk[w].doing = "gone")
=============================================================================
