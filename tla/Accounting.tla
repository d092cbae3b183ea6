----------------------------- MODULE Accounting -----------------------------
(***************************************************************************)
(* Who is charged for the blocks of a file that has several names          *)
(* (scanner/accounting.py, the flag of the scheduler that says whether a   *)
(* hard-linked leaf was applied, and ScanEngine.scan, which chooses by     *)
(* it).  Directories are read while names come and go, so the link count   *)
(* that a leaf was read with need not fit the leaves there in the end; and *)
(* a scan may be cancelled with directories half read.                     *)
(*                                                                         *)
(* A leaf is told by its path, a number in the order the code sorts by; a  *)
(* file has one block, and so has a directory.  A leaf that was stat'ed    *)
(* always has a device and an inode: the branch for one that has none does *)
(* not arise from a scan.                                                  *)
(***************************************************************************)
EXTENDS Integers, FiniteSets, FiniteSetsExt

CONSTANTS Folds,    \* the directories
          Top_,     \* their root
          UpOf,     \* UpOf[d]: the directory that d is in
          Leaves,   \* the paths that may name a file
          HomeOf,   \* HomeOf[p]: the directory of a leaf
          Inodes,
          MaxLinks  \* bound: files whose names change during the scan

NoName == "no name"

\* d and the directories in it
InFold(d) ==
  {e \in Folds : \A S \in SUBSET Folds :
     d \in S /\ (\A b \in Folds \ {Top_} : UpOf[b] \in S => b \in S) => e \in S}

ASSUME AccountingAssumption ==
  /\ Leaves \subseteq Nat /\ IsFiniteSet(Leaves) /\ NoName \notin Inodes
  /\ IsFiniteSet(Folds) /\ Top_ \in Folds
  /\ HomeOf \in [Leaves -> Folds] /\ UpOf \in [Folds \ {Top_} -> Folds]
  /\ InFold(Top_) = Folds   \* every directory is in the root
  /\ MaxLinks \in Nat

VARIABLES
  named,   \* named[p]: the file of that name, or NoName
  outer,   \* outer[f]: names of f outside the tree
  stirred, \* the files that got or lost a name during the scan
  walked,  \* what the scheduler has applied
  bill     \* what the finished tree says, or NoBill

accountVars == <<named, outer, stirred, walked, bill>>

Unread == [file |-> NoName, links |-> 0]
NoBill == [unique |-> <<>>, own |-> <<>>, total |-> <<>>]
Unavailable == -1    \* None: the platform has no st_blocks

\* leaf: the leaves in the tree; own: own_allocated_size of the directories;
\* found, done: directories listed by their parent, and read to the end
AccountTypeOK ==
  /\ named \in [Leaves -> Inodes \cup {NoName}] /\ outer \in [Inodes -> {0, 1}]
  /\ stirred \subseteq Inodes
  /\ walked \in [leaf : [Leaves -> [file : Inodes \cup {NoName}, links : 0..Cardinality(Leaves) + 1]],
                 own : [Folds -> Int], found : SUBSET Folds, done : SUBSET Folds,
                 hardlinked : BOOLEAN, blocks : BOOLEAN]
  /\ bill = NoBill \/ bill \in [unique : [Leaves -> Int], own : [Folds -> Int],
                               total : [Folds -> Int]]

AccountInit ==
  /\ named \in [Leaves -> Inodes \cup {NoName}]
  /\ outer \in [Inodes -> {0, 1}]
  /\ stirred = {} /\ bill = NoBill
  /\ \E b \in BOOLEAN :
       walked = [leaf |-> [p \in Leaves |-> Unread], own |-> [d \in Folds |-> 0],
                 found |-> {Top_}, done |-> {}, hardlinked |-> FALSE, blocks |-> b]

-----------------------------------------------------------------------------
(* The file system.                                                        *)

NamesOf(f) == {p \in Leaves : named[p] = f}

\* a hard link is made, or a name removed
Links(p, f) ==
  /\ bill = NoBill
  /\ Cardinality(stirred \cup {f}) <= MaxLinks
  /\ \/ named[p] = NoName /\ NamesOf(f) # {} /\ named' = [named EXCEPT ![p] = f]
     \/ named[p] = f /\ named' = [named EXCEPT ![p] = NoName]
  /\ stirred' = stirred \cup {f}
  /\ UNCHANGED <<outer, walked, bill>>

-----------------------------------------------------------------------------
(* The walk.                                                               *)

LeavesOf(d) == {p \in Leaves : HomeOf[p] = d}
SubFolds(d) == {e \in Folds \ {Top_} : UpOf[e] = d}
InTree(p) == walked.leaf[p] # Unread
SumAvailable(f, S) ==
  IF \E x \in S : f[x] = Unavailable THEN Unavailable ELSE MapThenSumSet(LAMBDA x : f[x], S)
Allocated(leaf) ==
  [p \in Leaves |-> IF leaf[p] = Unread THEN 0 ELSE IF walked.blocks THEN 1 ELSE Unavailable]

\* an entry as it is stat'ed now
Stat(p) == [file |-> named[p], links |-> Cardinality(NamesOf(named[p])) + outer[named[p]]]

\* mutant: only a whole result says that there is a hard link
ChunkUnnoticed(d, p) ==
  /\ bill = NoBill /\ d \in walked.found \ walked.done
  /\ p \in LeavesOf(d) /\ named[p] # NoName /\ ~InTree(p)
  /\ LET leaf == [walked.leaf EXCEPT ![p] = Stat(p)]
     IN walked' = [walked EXCEPT !.leaf = leaf,
                     !.own[d] = SumAvailable(Allocated(leaf), LeavesOf(d))]
  /\ UNCHANGED <<named, outer, stirred, bill>>

\* _apply_entry_chunk: one leaf of a directory that streams
Chunk(d, p) ==
  /\ bill = NoBill /\ d \in walked.found \ walked.done
  /\ p \in LeavesOf(d) /\ named[p] # NoName /\ ~InTree(p)
  /\ LET leaf == [walked.leaf EXCEPT ![p] = Stat(p)]
     IN walked' = [walked EXCEPT !.leaf = leaf,
                     !.own[d] = SumAvailable(Allocated(leaf), LeavesOf(d)),
                     !.hardlinked = @ \/ leaf[p].links > 1]
  /\ UNCHANGED <<named, outer, stirred, bill>>

\* and one of its directories
ChunkFinds(d) ==
  /\ bill = NoBill /\ d \notin walked.found
  /\ UpOf[d] \in walked.found \ walked.done
  /\ walked' = [walked EXCEPT !.found = @ \cup {d}]
  /\ UNCHANGED <<named, outer, stirred, bill>>

\* _recalculate_directory over a result, which brings what was not streamed and
\* the directory's own block
Result(d) ==
  /\ bill = NoBill /\ d \in walked.found \ walked.done
  /\ LET leaf == [p \in Leaves |->
                    IF p \in LeavesOf(d) /\ ~InTree(p) /\ named[p] # NoName
                    THEN Stat(p) ELSE walked.leaf[p]]
         sum  == SumAvailable(Allocated(leaf), LeavesOf(d))
     IN walked' = [walked EXCEPT !.leaf = leaf,
                     !.own[d] = IF walked.blocks THEN sum + 1 ELSE Unavailable,
                     !.found = @ \cup SubFolds(d), !.done = @ \cup {d},
                     !.hardlinked = @ \/ \E p \in LeavesOf(d) : leaf[p].links > 1]
  /\ UNCHANGED <<named, outer, stirred, bill>>

-----------------------------------------------------------------------------
(* The end of the scan, which may have been cancelled anywhere.            *)

\* the first of the paths that were read as names of the file
Owner(p) ==
  Min({q \in Leaves : walked.leaf[q].links > 1 /\ walked.leaf[q].file = walked.leaf[p].file})

finalize_unique_allocated ==
  LET allocated == Allocated(walked.leaf)
      unique == [p \in Leaves |->
                   IF allocated[p] = Unavailable THEN Unavailable
                   ELSE IF walked.leaf[p].links > 1 /\ Owner(p) # p THEN 0 ELSE allocated[p]]
      own == [d \in Folds |->
                IF walked.own[d] = Unavailable THEN Unavailable
                ELSE SumAvailable(unique, LeavesOf(d))
                       + (walked.own[d] - SumAvailable(allocated, LeavesOf(d)))]
      total[d \in Folds] ==
        IF own[d] = Unavailable THEN Unavailable
        ELSE LET below == SumAvailable([e \in SubFolds(d) |-> total[e]], SubFolds(d))
             IN IF below = Unavailable THEN Unavailable ELSE own[d] + below
  IN [unique |-> unique, own |-> own, total |-> total]

\* allocated_size is the recount that the walk keeps up to date
mirror_allocated_as_unique ==
  LET total[d \in Folds] ==
        LET below == SumAvailable([e \in SubFolds(d) |-> total[e]], SubFolds(d))
        IN IF Unavailable \in {walked.own[d], below} THEN Unavailable ELSE walked.own[d] + below
  IN [unique |-> Allocated(walked.leaf), own |-> walked.own, total |-> total]

\* the choice of ScanEngine.scan
Finalize ==
  /\ bill = NoBill
  /\ bill' = IF walked.hardlinked THEN finalize_unique_allocated
             ELSE mirror_allocated_as_unique
  /\ UNCHANGED <<named, outer, stirred, walked>>

AccountNext ==
  \/ \E p \in Leaves, f \in Inodes : Links(p, f)
  \/ \E d \in Folds : (\E p \in Leaves : Chunk(d, p)) \/ Result(d)
  \/ \E d \in Folds \ {Top_} : ChunkFinds(d)
  \/ Finalize

-----------------------------------------------------------------------------
(* Properties.                                                             *)

ReadAs(f) == {p \in Leaves : walked.leaf[p].file = f}

(* A file that was read is charged to one of its paths, and to one only    *)
(* unless its names changed while the scan was reading them.               *)
ChargedToOnePath ==
  \A f \in Inodes : ReadAs(f) # {} =>
    LET sum == SumAvailable(bill.unique, ReadAs(f))
    IN sum >= 1 /\ (f \notin stirred => sum = 1)

(* A directory's total is what is charged below it and a block for each    *)
(* directory that was read, so the totals add up.                          *)
TotalsAddUp ==
  \A d \in Folds :
    bill.total[d] =
      SumAvailable(bill.unique, {p \in Leaves : HomeOf[p] \in InFold(d)})
        + Cardinality(InFold(d) \cap walked.done)

(* Where the platform has no block counts, a directory with a file in it   *)
(* says so, and is not reported as empty.                                  *)
NoneIsNotZero ==
  \A p \in Leaves : InTree(p) => bill.total[HomeOf[p]] = Unavailable

(* However a scan ends, whichever of the two functions finishes its tree   *)
(* and in whatever order the directories were read, shared blocks are      *)
(* charged once (scanner/scheduler.py:1605).                                *)
SharedBlocksOnce ==
  bill # NoBill =>
    IF walked.blocks THEN ChargedToOnePath /\ TotalsAddUp ELSE NoneIsNotZero
=============================================================================
