--------------------------- MODULE SnapshotStore ---------------------------
(***************************************************************************)
(* The snapshots of one root path in the database (storage/database.py).   *)
(* A baseline stores a whole tree; a delta stores only what differs from   *)
(* the snapshot before it and is read by replaying its chain.  Deleting or *)
(* pruning must rewrite what the survivors are replayed from.              *)
(*                                                                         *)
(* A step is one transaction, or the part of an operation that was already *)
(* committed when its process died or its next statement failed.  Whatever *)
(* calls these operations (monitors, retention, the command line) may do   *)
(* so in any order, from any process.  A reader has a connection of its own *)
(* and reads a snapshot in several statements, each of the database as it  *)
(* is by then: one reader is followed, statement by statement.             *)
(***************************************************************************)
EXTENDS Naturals, Sequences, FiniteSets

CONSTANTS Paths,    \* interned paths below the root; its own row never goes
          Absent,   \* no row for a path; is_removed in a delta
          Trees,    \* what a scan may find: a measurement or Absent per path
          Interval, \* _BASELINE_INTERVAL
          Stamps,   \* bound: the instants a snapshot may be stamped with
          MaxId,    \* bound: saves
          MaxReads  \* bound: reads that are followed

ASSUME StoreAssumption ==
  /\ Interval \in Nat \ {0} /\ MaxId \in Nat /\ Stamps \subseteq Nat
  /\ \A t \in Trees : t = [p \in Paths |-> t[p]]

VARIABLES
  snaps,   \* the tables snapshots, nodes and deltas, by snapshot id
  lastId,  \* the AUTOINCREMENT counter
  saved,   \* history: the tree that was saved under each id
  skewed,  \* history: ids that met snapshots whose stamps fell as ids rose
  reading  \* the read that is followed

storeVars == <<snaps, lastId, saved, skewed, reading>>

Nothing == [p \in Paths |-> Absent]

\* base: the id itself for a baseline, 0 for a delta whose baseline is gone
Rows == UNION {[D -> UNION {{t[p] : p \in Paths} : t \in Trees} \cup {Absent}]
               : D \in SUBSET Paths}
StoreTypeOK ==
  /\ lastId \in 0..MaxId
  /\ DOMAIN snaps \subseteq 1..lastId /\ DOMAIN saved = 1..lastId
  /\ skewed \subseteq 1..lastId
  /\ \A i \in DOMAIN snaps :
       /\ snaps[i].stamp \in Stamps
       /\ snaps[i].base \in 0..i
       /\ snaps[i].rows \in Rows
  /\ reading.at \in {"idle", "nodes", "deltas", "done"} /\ reading.reads \in 0..MaxReads
  /\ reading.at # "idle" => reading.id \in DOMAIN saved /\ reading.base \in 0..reading.id

\* what the bounds allow may be spent already: snapshots may be deleted again
StoreInit ==
  /\ snaps = <<>> /\ skewed = {}
  /\ \E n \in 0..MaxId : saved \in [1..n -> Trees]
  /\ lastId = Len(saved)
  /\ \E n \in 0..MaxReads : reading = [at |-> "idle", reads |-> n]

-----------------------------------------------------------------------------
(* Reading.                                                                *)

\* ORDER BY timestamp, id
Before(s, i, j) ==
  s[i].stamp < s[j].stamp \/ (s[i].stamp = s[j].stamp /\ i < j)
First(s, ids) == CHOOSE i \in ids : \A j \in ids \ {i} : Before(s, i, j)
Latest(s, ids) == CHOOSE i \in ids : \A j \in ids \ {i} : Before(s, j, i)

Chain(s, b) == {i \in DOMAIN s \ {b} : s[i].base = b}

Baselines(s) == {i \in DOMAIN s : s[i].base = i}

\* the rows of deltas ids, replayed in order on a tree
Overlaid(s, state, ids) ==
  [p \in Paths |->
     LET told == {i \in ids : p \in DOMAIN s[i].rows}
     IN  IF told = {} THEN state[p] ELSE s[Latest(s, told)].rows[p]]

Replayed(s, b, ids) == Overlaid(s, s[b].nodes, ids)

\* _resolve_flat
Resolve(s, i) ==
  IF s[i].base = 0 THEN Nothing
  ELSE Replayed(s, s[i].base, {j \in Chain(s, s[i].base) : j <= i})

\* load_measurement_series, of all snapshots: one pass over each chain
Series(s, i) ==
  IF s[i].base = 0 THEN Nothing
  ELSE Replayed(s, s[i].base,
                {j \in Chain(s, s[i].base) : i # s[i].base /\ ~Before(s, i, j)})

\* _resolve_flat of another connection, one statement at a time: the row
ReadRow(i) ==
  /\ reading.at = "idle" /\ reading.reads < MaxReads
  /\ reading' = [at |-> IF snaps[i].base = 0 THEN "done" ELSE "nodes",
                reads |-> reading.reads + 1, id |-> i, base |-> snaps[i].base,
                state |-> Nothing]
  /\ UNCHANGED <<snaps, lastId, saved, skewed>>

\* the nodes of what was its baseline, none if that has gone
ReadNodes ==
  /\ reading.at = "nodes"
  /\ reading' = [reading EXCEPT
       !.at = IF reading.base = reading.id THEN "done" ELSE "deltas",
       !.state = IF reading.base \in Baselines(snaps) THEN snaps[reading.base].nodes
                 ELSE Nothing]
  /\ UNCHANGED <<snaps, lastId, saved, skewed>>

\* the rows of the deltas that have this baseline now
ReadDeltas ==
  /\ reading.at = "deltas"
  /\ LET rest == {j \in Chain(snaps, reading.base) : j <= reading.id} IN
       reading' = [reading EXCEPT !.at = "done",
                    !.state = Overlaid(snaps, reading.state, rest)]
  /\ UNCHANGED <<snaps, lastId, saved, skewed>>

ReadDone ==
  /\ reading.at = "done"
  /\ reading' = [at |-> "idle", reads |-> reading.reads]
  /\ UNCHANGED <<snaps, lastId, saved, skewed>>

-----------------------------------------------------------------------------
(* Saving.                                                                 *)

\* a new baseline when there is none or the newest one's chain is full
NeedsBaseline(s) ==
  \/ Baselines(s) = {}
  \/ Cardinality(Chain(s, Latest(s, Baselines(s)))) >= Interval - 1

\* what differs from the snapshot before
Differences(old, new) ==
  [p \in {q \in Paths : old[q] # new[q]} |-> new[p]]

Disordered(s) == \E i, j \in DOMAIN s : i < j /\ s[i].stamp > s[j].stamp

Add(s, i, new) == [j \in DOMAIN s \cup {i} |-> IF j = i THEN new ELSE s[j]]

save_snapshot(stamp, found) ==
  /\ lastId < MaxId
  /\ LET i == lastId + 1
         b == Latest(snaps, Baselines(snaps))
         previous == IF snaps = <<>> THEN i ELSE Latest(snaps, DOMAIN snaps)
     IN  /\ snaps' = Add(snaps, i,
              IF NeedsBaseline(snaps)
              THEN [stamp |-> stamp, base |-> i, nodes |-> found, rows |-> <<>>]
              ELSE [stamp |-> stamp, base |-> b, nodes |-> <<>>,
                    rows |-> Differences(Resolve(snaps, previous), found)])
         /\ lastId' = i
         /\ saved' = Append(saved, found)
         /\ skewed' =
              IF Disordered(snaps') \/ skewed \cap DOMAIN snaps # {}
              THEN skewed \cup DOMAIN snaps' ELSE skewed
  /\ UNCHANGED reading

-----------------------------------------------------------------------------
(* Deleting.                                                               *)

\* _promote_to_baseline: i stores its whole tree, and the snapshots of its
\* chain with a higher id are replayed from there; an empty state is left
Promoted(s, i) ==
  IF s[i].base = 0 THEN s
  ELSE [j \in DOMAIN s |->
          IF j = i THEN [s[j] EXCEPT !.base = i, !.nodes = Resolve(s, i), !.rows = <<>>]
          ELSE IF j > i /\ s[j].base = s[i].base THEN [s[j] EXCEPT !.base = i]
          ELSE s[j]]

\* _chain_is_ordered: the successor is replayed right after the victim
ReplayedNext(s, victim, successor) ==
  /\ Before(s, victim, successor)
  /\ ~\E k \in Chain(s, s[victim].base) :
        Before(s, victim, k) /\ Before(s, k, successor)

\* mutant: the victim's rows win over the successor's own
FoldedOver(s, victim) ==
  LET after == {j \in Chain(s, s[victim].base) : j > victim}
      successor == CHOOSE j \in after : \A k \in after : j <= k
      mine == s[successor].rows
      theirs == s[victim].rows
  IN  IF after = {} THEN s
      ELSE IF ~ReplayedNext(s, victim, successor) THEN Promoted(s, successor)
      ELSE [s EXCEPT ![successor].rows =
              [p \in DOMAIN mine \cup DOMAIN theirs |->
                 IF p \in DOMAIN theirs THEN theirs[p] ELSE mine[p]]]

\* _fold_delta_forward: rows the successor does not have are copied to it
Folded(s, victim) ==
  LET after == {j \in Chain(s, s[victim].base) : j > victim}
      successor == CHOOSE j \in after : \A k \in after : j <= k
      mine == s[successor].rows
      theirs == s[victim].rows
  IN  IF after = {} THEN s
      ELSE IF ~ReplayedNext(s, victim, successor) THEN Promoted(s, successor)
      ELSE [s EXCEPT ![successor].rows =
              [p \in DOMAIN mine \cup DOMAIN theirs |->
                 IF p \in DOMAIN mine THEN mine[p] ELSE theirs[p]]]

\* what delete_snapshot does before the row goes
Prepared(s, victim) ==
  LET b == s[victim].base
  IN  IF b = victim
      THEN IF Chain(s, b) = {} THEN s ELSE Promoted(s, First(s, Chain(s, b)))
      ELSE IF b = 0 THEN s ELSE Folded(s, victim)

\* DELETE: the rows cascade, a reference to a baseline becomes NULL
Without(s, ids) ==
  [i \in DOMAIN s \ ids |->
     IF s[i].base \in ids THEN [s[i] EXCEPT !.base = 0] ELSE s[i]]

delete_snapshot(victim) ==
  /\ snaps' = Without(Prepared(snaps, victim), {victim})
  /\ UNCHANGED <<lastId, saved, skewed, reading>>

\* the promotion is committed, or the fold is pending and committed by the
\* next operation, and the DELETE never happened
DeleteInterrupted(victim) ==
  /\ Prepared(snaps, victim) # snaps
  /\ snaps' = Prepared(snaps, victim)
  /\ UNCHANGED <<lastId, saved, skewed, reading>>

\* prune_snapshots: each doomed baseline's earliest survivor is promoted
Old(cutoff) == {i \in DOMAIN snaps : snaps[i].stamp < cutoff}
Heirs(doomed) ==
  {First(snaps, Chain(snaps, b) \ doomed) :
     b \in {c \in Baselines(snaps) \cap doomed : Chain(snaps, c) \ doomed # {}}}

\* the heirs are of different chains: their promotions do not meet
AllPromoted(s, heirs) ==
  [i \in DOMAIN s |->
     LET own == {h \in heirs : Promoted(s, h)[i] # s[i]}
     IN  IF own = {} THEN s[i] ELSE Promoted(s, CHOOSE h \in own : TRUE)[i]]

prune_snapshots(cutoff) ==
  /\ Old(cutoff) # {}
  /\ snaps' = Without(AllPromoted(snaps, Heirs(Old(cutoff))), Old(cutoff))
  /\ UNCHANGED <<lastId, saved, skewed, reading>>

\* only some of the promotions, each committed by itself
PruneInterrupted(cutoff) ==
  \E heirs \in SUBSET Heirs(Old(cutoff)) \ {{}} :
     /\ snaps' = AllPromoted(snaps, heirs)
     /\ UNCHANGED <<lastId, saved, skewed, reading>>

StoreNext ==
  \/ \E t \in Stamps, found \in Trees : save_snapshot(t, found)
  \/ \E i \in DOMAIN snaps : delete_snapshot(i) \/ DeleteInterrupted(i) \/ ReadRow(i)
  \/ ReadNodes \/ ReadDeltas \/ ReadDone
  \/ \E t \in Stamps : prune_snapshots(t) \/ PruneInterrupted(t)

-----------------------------------------------------------------------------
(* Properties.                                                             *)

(* A snapshot read in one go, by both readers, is the tree that was saved.  *)
StoredAsSaved ==
  \A i \in DOMAIN snaps \ skewed :
     Resolve(snaps, i) = saved[i] /\ Series(snaps, i) = saved[i]

(* So is one read by another connection, whatever was saved, deleted or     *)
(* folded between its statements, unless the snapshot itself was deleted or *)
(* given another baseline meanwhile.                                       *)
Undisturbed(i, base) == i \in DOMAIN snaps \ skewed /\ snaps[i].base = base
ReadAsSaved ==
  reading.at = "done" /\ Undisturbed(reading.id, reading.base) =>
    reading.state = IF reading.base = 0 THEN Nothing ELSE saved[reading.id]

(* Whatever was deleted, pruned or interrupted around it, a snapshot reads *)
(* back as the tree that was saved: as long as stamps rise with ids in its *)
(* chain (_fold_delta_forward's docstring) and nothing gives it another    *)
(* baseline between two statements of one read (storage/database.py:621).   *)
ReadsBackAsSaved == StoredAsSaved /\ ReadAsSaved
=============================================================================
