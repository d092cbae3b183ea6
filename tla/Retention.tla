----------------------------- MODULE Retention -----------------------------
(***************************************************************************)
(* Thinning the history of one monitor (services/retention.py): recent     *)
(* snapshots are all kept, older ones down to the last of each hour, then  *)
(* of each day, then of each week.  It runs again and again over what      *)
(* earlier runs left, while snapshots are taken, pinned and unpinned and   *)
(* the definition changes; a run plans first and deletes later.            *)
(*                                                                         *)
(* At most one snapshot is taken at an instant, so instants name them.     *)
(***************************************************************************)
EXTENDS Naturals, FiniteSets

CONSTANTS Hour, Day, Week,    \* lengths of the buckets
          KeepAll, KeepHourly, KeepDaily, Minimum, \* RetentionPolicy
          MaxTime, MaxRevision, MaxPins  \* bounds

ASSUME RetentionAssumption ==
  /\ {Hour, Day, Week} \subseteq Nat \ {0} /\ Day % Hour = 0 /\ Week % Day = 0
  /\ {KeepAll, KeepHourly, KeepDaily, Minimum} \subseteq Nat
  /\ KeepAll <= KeepHourly /\ KeepHourly <= KeepDaily

VARIABLES
  clock, revision, \* the present, and the revision of the definition
  shots,  \* the monitor's snapshots: instant -> revision
  pins,   \* snapshot_pins
  doomed, \* the prune_ids of a planned run
  taken   \* history: every snapshot ever taken

retentionVars == <<clock, revision, shots, pins, doomed, taken>>

RetentionTypeOK ==
  /\ clock \in 0..MaxTime /\ revision \in 1..MaxRevision
  /\ DOMAIN shots \subseteq DOMAIN taken
  /\ \A s \in DOMAIN shots : shots[s] = taken[s]
  /\ taken \in UNION {[S -> 1..MaxRevision] : S \in {DOMAIN taken}}
  /\ pins \subseteq DOMAIN shots
  /\ doomed \subseteq DOMAIN taken

RetentionInit ==
  /\ clock = 0 /\ revision = 1
  /\ shots = <<>> /\ taken = <<>>
  /\ pins = {} /\ doomed = {}

-----------------------------------------------------------------------------
(* _plan.                                                                  *)

\* the bucket of an instant at an age
Bucket(s, age) ==
  IF age <= KeepAll THEN <<"all", s>>
  ELSE IF age <= KeepHourly THEN <<"hourly", s \div Hour>>
  ELSE IF age <= KeepDaily THEN <<"daily", s \div Day>>
  ELSE <<"weekly", s \div Week>>

\* the snapshots that share the bucket of s
Peers(s) ==
  {t \in DOMAIN shots : shots[t] = shots[s]
                        /\ Bucket(t, clock - t) = Bucket(s, clock - s)}

\* mutant: the first of a bucket represents it
IsFirst(s) == \A t \in Peers(s) : s <= t

IsRepresentative(s) == \A t \in Peers(s) : t <= s

Newer(s) == {t \in DOMAIN shots : t > s}

AtLeast(n) == IF n = 0 THEN 1 ELSE n

Kept ==
  {s \in DOMAIN shots :
     \/ s \in pins
     \/ Cardinality(Newer(s)) < AtLeast(Minimum)
     \/ ~\E t \in Newer(s) : shots[t] = shots[s]
     \/ IsRepresentative(s)}

-----------------------------------------------------------------------------
\* the plan of a run
plan ==
  /\ doomed' = DOMAIN shots \ Kept
  /\ UNCHANGED <<clock, revision, shots, pins, taken>>

\* delete_retention_snapshots: pins are looked at again; it may die half-way
delete_retention_snapshots ==
  /\ doomed # {}
  /\ \E gone \in SUBSET (doomed \ (pins \cup {s \in DOMAIN shots : Newer(s) = {}})) :
       shots' = [s \in DOMAIN shots \ gone |-> shots[s]]
  /\ doomed' = {}
  /\ UNCHANGED <<clock, revision, pins, taken>>

\* time passes, and a scan may save a snapshot
take_snapshot ==
  /\ clock < MaxTime
  /\ clock' = clock + 1
  /\ \E new \in {{}, {clock}} :
       /\ shots' = [s \in DOMAIN shots \cup new |->
                      IF s \in new THEN revision ELSE shots[s]]
       /\ taken' = [s \in DOMAIN taken \cup new |->
                      IF s \in new THEN revision ELSE taken[s]]
  /\ UNCHANGED <<revision, pins, doomed>>

edit_definition ==
  /\ revision < MaxRevision /\ revision' = revision + 1
  /\ UNCHANGED <<clock, shots, pins, doomed, taken>>

pin_snapshot(s) ==
  /\ Cardinality(pins) < MaxPins
  /\ pins' = pins \cup {s}
  /\ UNCHANGED <<clock, revision, shots, doomed, taken>>

unpin_snapshot(s) ==
  /\ pins' = pins \ {s}
  /\ UNCHANGED <<clock, revision, shots, doomed, taken>>

RetentionNext ==
  \/ plan \/ delete_retention_snapshots \/ take_snapshot \/ edit_definition
  \/ \E s \in DOMAIN shots : pin_snapshot(s)
  \/ \E s \in pins : unpin_snapshot(s)

-----------------------------------------------------------------------------
(* Properties.                                                             *)

(* Whatever earlier runs have thinned, a snapshot ever taken is there      *)
(* while it is recent, and afterwards it or a later one of its revision    *)
(* stands for its hour, its day or its week; the newest of every revision  *)
(* is there.                                                               *)
HistoryIsRepresented ==
  \A s \in DOMAIN taken :
     /\ \E t \in DOMAIN shots :
          t >= s /\ shots[t] = taken[s] /\ Bucket(t, clock - s) = Bucket(s, clock - s)
     /\ (\A t \in DOMAIN taken : t > s => taken[t] # taken[s]) => s \in DOMAIN shots
=============================================================================
