----------------------------- MODULE FifoSlots -----------------------------
(***************************************************************************)
(* What ScanResourcePolicy promises of each device: runs wait in one line, *)
(* the front of the line is the next to be let in, and at most MaxActive   *)
(* are in at a time.                                                       *)
(***************************************************************************)
EXTENDS Naturals, FiniteSets, SequencesExt, Lines

CONSTANTS Runs, Keys, KeyOf, MaxActive

VARIABLES
  waiting,  \* waiting[k]: the line in front of device k
  holders   \* holders[k]: the runs that hold a slot of device k

fifoVars == <<waiting, holders>>

Init ==
  /\ waiting = [k \in Keys |-> <<>>]
  /\ holders = [k \in Keys |-> {}]

Room(k) == Cardinality(holders[k]) < MaxActive

Join(r) ==
  /\ waiting' = [waiting EXCEPT ![KeyOf[r]] = Append(@, r)]
  /\ UNCHANGED holders

Admit(k) ==
  /\ waiting[k] # <<>> /\ Room(k)
  /\ holders' = [holders EXCEPT ![k] = @ \cup {Head(waiting[k])}]
  /\ waiting' = [waiting EXCEPT ![k] = Tail(@)]

\* Joining an empty line in front of a free slot.
WalkIn(r) ==
  /\ waiting[KeyOf[r]] = <<>> /\ Room(KeyOf[r])
  /\ holders' = [holders EXCEPT ![KeyOf[r]] = @ \cup {r}]
  /\ UNCHANGED waiting

\* A run that is cancelled leaves the line from wherever it is.
GiveUp(r) ==
  /\ r \in ToSet(waiting[KeyOf[r]])
  /\ waiting' = [waiting EXCEPT ![KeyOf[r]] = Without(@, r)]
  /\ UNCHANGED holders

Leave(r) ==
  /\ r \in holders[KeyOf[r]]
  /\ holders' = [holders EXCEPT ![KeyOf[r]] = @ \ {r}]
  /\ UNCHANGED waiting

Next ==
  \/ \E r \in Runs : Join(r) \/ WalkIn(r) \/ GiveUp(r) \/ Leave(r)
  \/ \E k \in Keys : Admit(k)
=============================================================================
