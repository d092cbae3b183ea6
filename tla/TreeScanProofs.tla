---------------------------- MODULE TreeScanProofs ----------------------------
(***************************************************************************)
(* What is proved of TreeScan from TreeAssumption alone: for every finite  *)
(* tree, number of workers, chunk size and limit of a queue.               *)
(*                                                                         *)
(* - a directory is handed out once and listed once (OncePerDirectory);    *)
(* - a node in a published frame is never written again, the node of a     *)
(*   settled directory is not even replaced (FramesFrozen);                *)
(* - the table that goes out with a frame lists what is new in it          *)
(*   (FrameListsChanges);                                                  *)
(* - the paths the scheduler looks up lead somewhere (LiveMapSound).       *)
(*                                                                         *)
(* The argument has four layers.  A shape is a tree without its objects:   *)
(* names, cursors, counts.  What it has to be (ShapeSound) and what each   *)
(* kind of step makes of it is settled first, with sets and sequences      *)
(* only.  Then the objects: what may happen to a chain of node objects     *)
(* (Careful), and that copying, linking, adding differences, sorting and   *)
(* recording do no more.  Then the tasks: a directory is in one place      *)
(* between being handed out and being applied (Apart, TasksSound), and     *)
(* what workers send has not been sent before (ChunksSound, ReadersSound). *)
(* Last the books (Booked): which object each list holds, and which the    *)
(* table of changes.                                                       *)
(* Neither shape nor tasks can be had alone: a result is applied soundly   *)
(* because its directory has none yet, and that stays so because settling  *)
(* retires the cursor that would hand it out again.                        *)
(***************************************************************************)
EXTENDS TreeScan, FiniteSetTheorems, SequenceTheorems, WellFoundedInduction, TLAPS
-----------------------------------------------------------------------------
(* The tree of directories.                                                *)

LEMMA ParentSound ==
  ASSUME NEW d \in Dirs \ {Root}
  PROVE  ParentOf(d) \in Dirs /\ d \in Range(Listing[ParentOf(d)])
<1>1. \E p \in Dirs : d \in Range(Listing[p])
  BY TreeAssumption DEF TreeAssumption
<1> QED BY <1>1 DEF ParentOf

LEMMA OneParent ==
  ASSUME NEW p \in Dirs, NEW d \in Dirs, d \in Range(Listing[p])
  PROVE  d # Root /\ p = ParentOf(d)
<1>1. d # Root
  BY TreeAssumption DEF TreeAssumption
<1>2. PICK q \in Dirs : \A r \in Dirs \ {q} : d \notin Range(Listing[r])
  BY <1>1, TreeAssumption DEF TreeAssumption
<1>3. ParentOf(d) \in Dirs /\ d \in Range(Listing[ParentOf(d)])
  BY <1>1, ParentSound
<1> QED BY <1>1, <1>2, <1>3

LEMMA AboveItself ==
  ASSUME NEW d \in Dirs
  PROVE  d \in Above[d] /\ Above[d] \subseteq Dirs
BY DEF Above

LEMMA AboveLeast ==
  ASSUME NEW d \in Dirs, NEW S \in SUBSET Dirs, d \in S,
         \A b \in S \ {Root} : ParentOf(b) \in S
  PROVE  Above[d] \subseteq S
BY DEF Above

LEMMA AboveStep ==
  ASSUME NEW d \in Dirs, NEW a \in Above[d], a # Root
  PROVE  ParentOf(a) \in Above[d]
<1>1. a \in Dirs /\ ParentOf(a) \in Dirs
  BY AboveItself, ParentSound
<1>2. ASSUME NEW S \in SUBSET Dirs, d \in S, \A b \in S \ {Root} : ParentOf(b) \in S
      PROVE  ParentOf(a) \in S
  BY <1>2, AboveLeast
<1> QED BY <1>1, <1>2 DEF Above

LEMMA AboveThrough ==
  ASSUME NEW d \in Dirs, NEW b \in Above[d]
  PROVE  Above[b] \subseteq Above[d]
<1>1. b \in Dirs /\ Above[d] \in SUBSET Dirs
  BY AboveItself
<1>2. \A a \in Above[d] \ {Root} : ParentOf(a) \in Above[d]
  BY AboveStep
<1> QED BY <1>1, <1>2, AboveLeast

LEMMA AboveChild ==
  ASSUME NEW d \in Dirs, NEW a \in Above[d], a # d
  PROVE  \E b \in Above[d] \ {Root} : ParentOf(b) = a
<1> SUFFICES ASSUME \A b \in Above[d] \ {Root} : ParentOf(b) # a
             PROVE  FALSE
  OBVIOUS
<1>1. Above[d] \ {a} \in SUBSET Dirs /\ d \in Above[d] \ {a}
  BY AboveItself
<1>2. \A b \in (Above[d] \ {a}) \ {Root} : ParentOf(b) \in Above[d] \ {a}
  BY AboveStep
<1>3. Above[d] \subseteq Above[d] \ {a}
  BY <1>1, <1>2, AboveLeast
<1> QED BY <1>3

\* A run of ancestors is one without gaps.
LEMMA WhileSound ==
  ASSUME NEW d \in Dirs, NEW S, NEW a \in AboveWhile(d, S)
  PROVE  /\ a \in Above[d] /\ a \in Dirs /\ a \in S
         /\ \A b \in Above[d] : a \in Above[b] => b \in AboveWhile(d, S)
<1>1. a \in Above[d] /\ a \in Dirs /\ a \in Above[a]
  BY AboveItself DEF AboveWhile
<1>2. ASSUME NEW b \in Above[d], a \in Above[b], NEW c \in Above[d], b \in Above[c]
      PROVE  c \in S
  <2>1. c \in Dirs
    BY AboveItself
  <2>2. a \in Above[c]
    BY <2>1, <1>2, AboveThrough
  <2> QED BY <2>2 DEF AboveWhile
<1> QED BY <1>1, <1>2 DEF AboveWhile

LEMMA WhileChild ==
  ASSUME NEW d \in Dirs, NEW S, NEW a \in AboveWhile(d, S), a # d
  PROVE  \E b \in AboveWhile(d, S) \ {Root} : ParentOf(b) = a
<1>1. a \in Above[d]
  BY WhileSound
<1>2. PICK b \in Above[d] \ {Root} : ParentOf(b) = a
  BY <1>1, AboveChild
<1>3. b \in Dirs
  BY AboveItself
<1>4. a \in Above[b]
  BY <1>2, <1>3, AboveItself, AboveStep
<1> QED BY <1>2, <1>4, WhileSound

-----------------------------------------------------------------------------
(* Putting numbers in order.                                               *)

LEMMA LeastNumber ==
  ASSUME NEW S \in SUBSET Nat, S # {}
  PROVE  Min(S) \in S /\ \A x \in S : Min(S) <= x
<1>1. PICK m \in S : \A x \in S : ~ (<<x, m>> \in OpToRel(<, Nat))
  BY NatLessThanWellFounded, WFMin
<1>2. ASSUME NEW x \in S PROVE m <= x
  <2> SUFFICES ASSUME x < m PROVE FALSE
    OBVIOUS
  <2>1. <<x, m>> \in Nat \X Nat
    OBVIOUS
  <2>2. <<x, m>> \in OpToRel(<, Nat)
    BY <2>1 DEF OpToRel
  <2> QED BY <2>2, <1>1
<1> QED BY <1>2 DEF Min

Rank(S, k) == Cardinality({j \in S : j < k})

LEMMA RankSound ==
  ASSUME NEW S \in SUBSET Nat, IsFiniteSet(S), NEW k \in S
  PROVE  Rank(S, k) \in 0..(Cardinality(S) - 1)
<1> DEFINE T == {j \in S : j < k}
<1>1. T \subseteq S \ {k} /\ IsFiniteSet(S \ {k}) /\ Cardinality(S \ {k}) = Cardinality(S) - 1
  BY FS_RemoveElement
<1>2. IsFiniteSet(T) /\ Cardinality(T) <= Cardinality(S \ {k})
  BY <1>1, FS_Subset
<1>3. Cardinality(T) \in Nat /\ Cardinality(S) \in Nat
  BY <1>2, FS_CardinalityType
<1> HIDE DEF T
<1>4. Cardinality(T) \in 0..(Cardinality(S) - 1)
  BY <1>1, <1>2, <1>3
<1> QED BY <1>4 DEF Rank, T

LEMMA RankGrows ==
  ASSUME NEW S \in SUBSET Nat, IsFiniteSet(S), NEW j \in S, NEW k \in S, j < k
  PROVE  Rank(S, j) < Rank(S, k)
<1> DEFINE T == {i \in S : i < j}
           U == {i \in S : i < k}
<1>1. IsFiniteSet(T) /\ IsFiniteSet(U)
  BY FS_Subset
<1>2. T \subseteq U \ {j} /\ j \in U
  <2>1. \A i \in S : i < j => i < k /\ i # j
    OBVIOUS
  <2> QED BY <2>1
<1>3. Cardinality(U \ {j}) = Cardinality(U) - 1 /\ IsFiniteSet(U \ {j})
  BY <1>1, <1>2, FS_RemoveElement
<1>4. Cardinality(T) <= Cardinality(U \ {j})
  BY <1>2, <1>3, FS_Subset
<1>5. Cardinality(T) \in Nat /\ Cardinality(U) \in Nat
  BY <1>1, FS_CardinalityType
<1> HIDE DEF T, U
<1>6. Cardinality(T) < Cardinality(U)
  BY <1>3, <1>4, <1>5
<1> QED BY <1>6 DEF Rank, T, U

LEMMA RankReached ==
  ASSUME NEW S \in SUBSET Nat, IsFiniteSet(S), NEW i \in 1..Cardinality(S)
  PROVE  \E k \in S : Rank(S, k) = i - 1
<1> DEFINE n == Cardinality(S)
           f == [k \in S |-> Rank(S, k) + 1]
<1>1. n \in Nat
  BY FS_CardinalityType
<1>2. f \in [S -> 1..n]
  <2>1. \A k \in S : Rank(S, k) \in 0..(n - 1)
    BY RankSound
  <2> HIDE DEF n
  <2>2. \A k \in S : Rank(S, k) + 1 \in 1..n
    BY <2>1, <1>1
  <2> QED BY <2>2
<1>3. \A j, k \in S : f[j] = f[k] => j = k
  <2> SUFFICES ASSUME NEW j \in S, NEW k \in S, j # k PROVE f[j] # f[k]
    OBVIOUS
  <2>1. Rank(S, j) \in 0..(n - 1) /\ Rank(S, k) \in 0..(n - 1)
    BY RankSound
  <2>2. Rank(S, j) < Rank(S, k) \/ Rank(S, k) < Rank(S, j)
    <3>1. j < k \/ k < j
      OBVIOUS
    <3> QED BY <3>1, RankGrows
  <2> HIDE DEF n
  <2>3. Rank(S, j) + 1 # Rank(S, k) + 1
    BY <2>1, <2>2, <1>1
  <2> QED BY <2>3
<1>4. f \in Injection(S, 1..n)
  BY <1>2, <1>3 DEF Injection, IsInjective
<1>5. IsFiniteSet(1..n) /\ Cardinality(1..n) = n
  BY <1>1, FS_Interval
<1>6. f \in Surjection(S, 1..n)
  BY <1>4, <1>5, FS_Injection
<1>7. PICK k \in S : f[k] = i
  BY <1>6 DEF Surjection
<1>8. Rank(S, k) + 1 = i /\ Rank(S, k) \in 0..(n - 1)
  BY <1>7, RankSound
<1> HIDE DEF n, f
<1> QED BY <1>8, <1>1

LEMMA InOrderSound ==
  ASSUME NEW S \in SUBSET Nat, IsFiniteSet(S)
  PROVE  /\ InOrder(S) \in Seq(S) /\ Len(InOrder(S)) = Cardinality(S)
         /\ Cardinality(S) \in Nat /\ DOMAIN InOrder(S) = 1..Cardinality(S)
         /\ Range(InOrder(S)) = S
         /\ \A i, j \in DOMAIN InOrder(S) : InOrder(S)[i] = InOrder(S)[j] => i = j
<1> DEFINE n == Cardinality(S)
<1>1. n \in Nat
  BY FS_CardinalityType
<1>2. ASSUME NEW i \in 1..n
      PROVE  InOrder(S)[i] \in S /\ Rank(S, InOrder(S)[i]) = i - 1
  <2>1. \E k \in S : Rank(S, k) = i - 1
    BY <1>2, RankReached
  <2>2. InOrder(S)[i] = CHOOSE k \in S : Rank(S, k) = i - 1
    BY <1>2 DEF InOrder, Rank
  <2> QED BY <2>1, <2>2
<1>3. InOrder(S) \in [1..n -> S] /\ DOMAIN InOrder(S) = 1..n
  <2> DEFINE e(i) == CHOOSE k \in S : Rank(S, k) = i - 1
  <2>1. InOrder(S) = [i \in 1..n |-> e(i)]
    BY DEF InOrder, Rank
  <2>2. \A i \in 1..n : e(i) \in S
    BY <2>1, <1>2
  <2> HIDE DEF e, n
  <2> QED BY <2>1, <2>2
<1>4. InOrder(S) \in Seq(S) /\ Len(InOrder(S)) = n
  BY <1>1, <1>3
<1>5. \A i, j \in 1..n : InOrder(S)[i] = InOrder(S)[j] => i = j
  <2> HIDE DEF n
  <2> QED BY <1>2, <1>1
<1>6. ASSUME NEW k \in S PROVE k \in Range(InOrder(S))
  <2>1. Rank(S, k) \in 0..(n - 1)
    BY RankSound
  <2> DEFINE i == Rank(S, k) + 1
  <2>2. i \in 1..n /\ i - 1 = Rank(S, k)
    <3> HIDE DEF n
    <3> QED BY <2>1, <1>1
  <2>3. Rank(S, InOrder(S)[i]) = Rank(S, k) /\ InOrder(S)[i] \in S
    BY <2>2, <1>2
  <2>4. InOrder(S)[i] = k
    <3> SUFFICES ASSUME InOrder(S)[i] # k PROVE FALSE
      OBVIOUS
    <3> DEFINE m == InOrder(S)[i]
    <3>1. m \in S /\ m # k /\ m \in Nat /\ k \in Nat
      BY <2>3
    <3> HIDE DEF m
    <3>2. m < k \/ k < m
      BY <3>1
    <3>3. Rank(S, m) < Rank(S, k) \/ Rank(S, k) < Rank(S, m)
      BY <3>1, <3>2, RankGrows
    <3>4. Rank(S, m) = Rank(S, k) /\ Rank(S, k) \in Int
      BY <2>1, <2>3 DEF m
    <3> QED BY <3>3, <3>4
  <2> QED BY <2>2, <2>4, <1>3 DEF Range
<1>7. Range(InOrder(S)) \subseteq S
  BY <1>3 DEF Range
<1> QED BY <1>1, <1>3, <1>4, <1>5, <1>6, <1>7

\* The entries of sequence s are of d and stand there once.
EntriesOf(d, s) ==
  /\ s \in Seq(Entries)
  /\ \A i \in DOMAIN s : s[i] \in Range(Listing[d])
  /\ \A i, j \in DOMAIN s : s[i] = s[j] => i = j

\* As many places as elements, in a sequence without repetition.
LEMMA OncePlaces ==
  ASSUME NEW s, NEW T, IsFiniteSet(DOMAIN s), T \subseteq DOMAIN s,
         \A i, j \in DOMAIN s : s[i] = s[j] => i = j
  PROVE  /\ IsFiniteSet({s[i] : i \in T})
         /\ Cardinality({s[i] : i \in T}) = Cardinality(T)
<1> DEFINE f == [i \in T |-> s[i]]
           U == {s[i] : i \in T}
<1>1. f \in Bijection(T, U)
  BY DEF Bijection, Injection, Surjection, IsInjective
<1>2. ExistsBijection(T, U) /\ IsFiniteSet(T)
  BY <1>1, FS_Subset DEF ExistsBijection
<1> HIDE DEF f, U
<1>3. IsFiniteSet(U) /\ Cardinality(U) = Cardinality(T)
  BY <1>2, FS_Bijection
<1> QED BY <1>3 DEF U

LEMMA CountInCounts ==
  ASSUME NEW d, NEW s, EntriesOf(d, s)
  PROVE  /\ IsFiniteSet(Range(s) \cap Dirs)
         /\ CountIn(s, Dirs) = Cardinality(Range(s) \cap Dirs)
<1> DEFINE T == {i \in DOMAIN s : s[i] \in Dirs}
<1>1. s \in Seq(Entries) /\ DOMAIN s = 1..Len(s) /\ Len(s) \in Nat
  BY DEF EntriesOf
<1>2. IsFiniteSet(DOMAIN s)
  BY <1>1, FS_Interval
<1>3. {s[i] : i \in T} = Range(s) \cap Dirs
  BY DEF Range
<1>4. /\ IsFiniteSet({s[i] : i \in T})
      /\ Cardinality({s[i] : i \in T}) = Cardinality(T)
  <2>1. T \subseteq DOMAIN s /\ \A i, j \in DOMAIN s : s[i] = s[j] => i = j
    BY DEF EntriesOf
  <2> HIDE DEF T
  <2> QED BY <1>2, <2>1, OncePlaces
<1> QED BY <1>3, <1>4 DEF CountIn

LEMMA ListedSound ==
  ASSUME NEW d, NEW s, EntriesOf(d, s)
  PROVE  EntriesOf(d, Listed(s)) /\ Range(Listed(s)) = Range(s) \ Locked
<1> DEFINE T == {i \in DOMAIN s : s[i] \notin Locked}
           k == InOrder(T)
<1>1. s \in Seq(Entries) /\ DOMAIN s = 1..Len(s) /\ Len(s) \in Nat
  BY DEF EntriesOf
<1>2. IsFiniteSet(T) /\ T \in SUBSET Nat
  <2>1. IsFiniteSet(DOMAIN s) /\ DOMAIN s \subseteq Nat
    BY <1>1, FS_Interval
  <2> QED BY <2>1, FS_Subset
<1>3. /\ k \in Seq(T) /\ DOMAIN k = 1..Len(k) /\ Len(k) \in Nat /\ Range(k) = T
      /\ \A i, j \in DOMAIN k : k[i] = k[j] => i = j
  <2> HIDE DEF T
  <2> QED BY <1>2, InOrderSound
<1>4. Listed(s) = [i \in DOMAIN k |-> s[k[i]]]
  BY DEF Listed
<1>5. \A i \in DOMAIN k : k[i] \in DOMAIN s /\ s[k[i]] \notin Locked /\ s[k[i]] \in Entries
  <2>1. \A i \in DOMAIN k : k[i] \in T
    BY <1>3
  <2>2. \A i \in T : i \in DOMAIN s /\ s[i] \notin Locked /\ s[i] \in Entries
    BY <1>1
  <2> HIDE DEF T, k
  <2> QED BY <2>1, <2>2
<1>6. Listed(s) \in Seq(Entries) /\ DOMAIN Listed(s) = DOMAIN k
  <2> HIDE DEF k
  <2> QED BY <1>3, <1>4, <1>5
<1>7. EntriesOf(d, Listed(s))
  <2>1. \A i \in DOMAIN s : s[i] \in Range(Listing[d])
    BY DEF EntriesOf
  <2>2. \A i, j \in DOMAIN s : s[i] = s[j] => i = j
    BY DEF EntriesOf
  <2> HIDE DEF k
  <2> QED BY <1>3, <1>4, <1>5, <1>6, <2>1, <2>2 DEF EntriesOf
<1>8. Range(Listed(s)) \subseteq Range(s) \ Locked
  <2> HIDE DEF k, T
  <2> QED BY <1>4, <1>5 DEF Range
<1>9. ASSUME NEW e \in Range(s) \ Locked PROVE e \in Range(Listed(s))
  <2>1. PICK j \in DOMAIN s : s[j] = e
    BY DEF Range
  <2>2. j \in T
    BY <2>1
  <2>3. PICK i \in DOMAIN k : k[i] = j
    <3> HIDE DEF k, T
    <3> QED BY <2>2, <1>3 DEF Range
  <2> HIDE DEF k
  <2> QED BY <2>1, <2>3, <1>4 DEF Range
<1> QED BY <1>7, <1>8, <1>9

LEMMA RefsSound ==
  ASSUME NEW d, NEW s, EntriesOf(d, s)
  PROVE  /\ Refs(s) \in Seq(Entries \X Nat) /\ Len(Refs(s)) = Len(Listed(s))
         /\ \A i \in 1..Len(Listed(s)) : Refs(s)[i][1] = Listed(s)[i]
<1> DEFINE l == Listed(s)
<1>1. l \in Seq(Entries)
  BY ListedSound DEF EntriesOf
<1>2. Refs(s) = [i \in DOMAIN l |-> <<l[i], Flag(l[i] \in Dirs)>>]
  BY DEF Refs
<1>3. \A i \in DOMAIN l : <<l[i], Flag(l[i] \in Dirs)>> \in Entries \X Nat
  BY <1>1 DEF Flag
<1>4. DOMAIN l = 1..Len(l) /\ Len(l) \in Nat
  BY <1>1
<1> HIDE DEF l
<1>5. Refs(s) \in Seq(Entries \X Nat) /\ Len(Refs(s)) = Len(l) /\ DOMAIN Refs(s) = 1..Len(l)
  BY <1>2, <1>3, <1>4
<1>6. \A i \in 1..Len(l) : Refs(s)[i][1] = l[i]
  BY <1>2, <1>4
<1> QED BY <1>5, <1>6 DEF l

\* The names of a list of references.
NamesOf(kids) == [i \in DOMAIN kids |-> kids[i][1]]

\* A list whose names are names, each once, keeps them when it is sorted.
LEMMA ByPathSound ==
  ASSUME NEW kids \in Seq(Entries \X Nat),
         \A i, j \in DOMAIN kids : kids[i][1] = kids[j][1] => i = j
  PROVE  /\ ByPath(kids) \in Seq(Entries \X Nat) /\ Len(ByPath(kids)) = Len(kids)
         /\ Range(NamesOf(ByPath(kids))) = Range(NamesOf(kids))
         /\ \A i, j \in DOMAIN ByPath(kids) :
              ByPath(kids)[i][1] = ByPath(kids)[j][1] => i = j
<1> DEFINE s == NamesOf(kids)
           T == {s[i] : i \in DOMAIN s}
           o == InOrder(T)
<1>1. DOMAIN kids = 1..Len(kids) /\ Len(kids) \in Nat
  OBVIOUS
<1>2. DOMAIN s = DOMAIN kids /\ \A i \in DOMAIN s : s[i] = kids[i][1]
  BY DEF NamesOf
<1>3. T = {kids[i][1] : i \in DOMAIN kids} /\ T = Range(s)
  BY <1>2 DEF Range
<1>4. IsFiniteSet(T) /\ Cardinality(T) = Len(kids)
  <2>1. IsFiniteSet(DOMAIN s) /\ Cardinality(DOMAIN s) = Len(kids)
    <3>1. IsFiniteSet(1..Len(kids)) /\ Cardinality(1..Len(kids)) = Len(kids)
      BY <1>1, FS_Interval
    <3> QED BY <3>1, <1>1, <1>2
  <2>2. \A i, j \in DOMAIN s : s[i] = s[j] => i = j
    BY <1>2
  <2> HIDE DEF s
  <2>3. /\ IsFiniteSet({s[i] : i \in DOMAIN s})
        /\ Cardinality({s[i] : i \in DOMAIN s}) = Cardinality(DOMAIN s)
    BY <2>1, <2>2, OncePlaces
  <2> QED BY <2>1, <2>3
<1>5. T \in SUBSET Nat
  <2>1. Entries \subseteq Nat
    BY TreeAssumption DEF TreeAssumption, Entries
  <2>2. \A i \in DOMAIN kids : kids[i][1] \in Entries
    OBVIOUS
  <2> QED BY <2>1, <2>2, <1>3
<1> HIDE DEF T, s
<1>6. /\ o \in Seq(T) /\ DOMAIN o = 1..Len(kids) /\ Range(o) = T
      /\ \A i, j \in DOMAIN o : o[i] = o[j] => i = j
  BY <1>4, <1>5, InOrderSound
<1> DEFINE e(i) == CHOOSE k \in Range(kids) : k[1] = o[i]
<1>7. ByPath(kids) = [i \in DOMAIN o |-> e(i)]
  BY <1>3 DEF ByPath
<1>8. ASSUME NEW i \in DOMAIN o PROVE e(i) \in Entries \X Nat /\ e(i)[1] = o[i]
  <2>1. o[i] \in T
    BY <1>6
  <2>2. \E k \in Range(kids) : k[1] = o[i]
    BY <2>1, <1>3 DEF Range
  <2>3. Range(kids) \subseteq Entries \X Nat
    BY DEF Range
  <2> QED BY <2>2, <2>3
<1> HIDE DEF e, o
<1>9. ByPath(kids) \in Seq(Entries \X Nat) /\ Len(ByPath(kids)) = Len(kids) /\ DOMAIN ByPath(kids) = DOMAIN o
  BY <1>1, <1>6, <1>7, <1>8
<1>10. \A i \in DOMAIN o : ByPath(kids)[i][1] = o[i]
  BY <1>7, <1>8
<1>11. \A i, j \in DOMAIN ByPath(kids) :
              ByPath(kids)[i][1] = ByPath(kids)[j][1] => i = j
  BY <1>6, <1>9, <1>10
<1>12. Range(NamesOf(ByPath(kids))) = Range(o)
  <2>1. NamesOf(ByPath(kids)) = [i \in DOMAIN o |-> o[i]]
    BY <1>9, <1>10 DEF NamesOf
  <2> QED BY <2>1 DEF Range
<1>13. Range(NamesOf(ByPath(kids))) = Range(NamesOf(kids))
  BY <1>3, <1>6, <1>12 DEF s
<1> QED BY <1>9, <1>11, <1>13
-----------------------------------------------------------------------------
(* What a tree looks like when the objects of its nodes are left out.      *)

Kids(t, d) == Current(t, d).kids
Names(t, d) == NamesOf(Kids(t, d))

Shape(t) ==
  [names     |-> [d \in Dirs |-> Names(t, d)],
   index     |-> [d \in Dirs |-> t.at[d].index],
   cursor    |-> [d \in Dirs |-> t.at[d].cursor],
   remaining |-> [d \in Dirs |-> t.at[d].remaining],
   scanned   |-> {d \in Dirs : t.at[d].scanned},
   live      |-> {d \in Dirs : t.at[d].live},
   settled   |-> t.settled]

\* The directories that were handed out: the root, and what stands before a
\* cursor.
Out(sh) ==
  {d \in Dirs : d = Root \/ \E i \in 1..sh.cursor[ParentOf(d)] :
                              sh.names[ParentOf(d)][i] = d}

\* The child directories of d that have not settled.
Open(sh, d) == {e \in Dirs \ sh.settled : e \in Range(sh.names[d])}

\* What is listed in d was read there, once.
NamesSoundAt(d, names, cursor) == EntriesOf(d, names) /\ cursor \in 0..Len(names)
NamesSound(sh) == \A d \in Dirs : NamesSoundAt(d, sh.names[d], sh.cursor[d])

SettledSound(sh) ==
  /\ sh.settled \subseteq sh.scanned /\ sh.scanned \subseteq Dirs
  /\ \A d \in sh.settled : sh.cursor[d] = Len(sh.names[d]) /\ sh.remaining[d] = 0

RemainingCounts(sh) == \A d \in Dirs : sh.remaining[d] = Cardinality(Open(sh, d))

\* What was not handed out is as its parent's worker made it.
RestUntouched(sh) ==
  \A d \in Dirs \ Out(sh) : sh.names[d] = <<>> /\ d \notin sh.scanned

\* While a list is not sorted its directories know their places in it.
IndexSound(sh) ==
  \A d \in Out(sh) \ {Root} : ParentOf(d) \notin sh.settled =>
    /\ sh.index[d] \in 1..sh.cursor[ParentOf(d)]
    /\ sh.names[ParentOf(d)][sh.index[d]] = d

LiveSound(sh) == sh.live = {Root} \cup (Out(sh) \ sh.settled)

ShapeSound(sh) ==
  /\ NamesSound(sh) /\ SettledSound(sh) /\ RemainingCounts(sh)
  /\ RestUntouched(sh) /\ IndexSound(sh) /\ LiveSound(sh)

-----------------------------------------------------------------------------
(* The objects.                                                            *)

IsNode(n) ==
  /\ n = [f \in DOMAIN n |-> n[f]] /\ "kids" \in DOMAIN n
  /\ n.kids \in Seq(Entries \X Nat)

\* The objects of a directory's node: there is one, and the last is a node.
Chain(h) == h \in Seq(Range(h)) /\ h # <<>> /\ IsNode(h[Len(h)])

IsState(s) ==
  /\ {"live", "gen", "index", "cursor", "remaining", "locked", "found", "nextAt",
      "scanned", "settled"} \subseteq DOMAIN s
  /\ s.gen \in Int /\ s.index \in Nat /\ s.cursor \in Nat /\ s.remaining \in Int
  /\ s.scanned \in BOOLEAN /\ s.live \in BOOLEAN

IsTree(t) ==
  /\ {"heap", "at", "generation", "changed", "settled", "outstanding"} \subseteq DOMAIN t
  /\ DOMAIN t.heap = Dirs /\ DOMAIN t.at = Dirs
  /\ t.settled \subseteq Dirs /\ t.generation \in Nat

Formed(t) ==
  /\ IsTree(t)
  /\ \A d \in Dirs :
       /\ Chain(t.heap[d]) /\ IsState(t.at[d])
       /\ t.at[d].gen <= t.generation /\ t.at[d].settled = (d \in t.settled)

\* A directory with an object of this generation is in ones of this generation.
FreshUp(t) ==
  \A d \in Out(Shape(t)) \ {Root} : d \notin Stales(t) => ParentOf(d) \notin Stales(t)

\* The last object of a directory is in no frame if it is of this generation.
FrozenSound(t, f) ==
  \A ref \in f :
    /\ ref[1] \in Dirs /\ ref[2] \in DOMAIN t.heap[ref[1]]
    /\ ref[2] = Len(t.heap[ref[1]]) => ref[1] \in Stales(t)

\* What may be done to the objects of a directory: an object stays unless it is
\* the last and of this generation, and one of this generation is a new one.
CarefulAt(h, g, stale, fresh) ==
  /\ Len(h) <= Len(g)
  /\ \A k \in DOMAIN h : k < Len(h) \/ stale => g[k] = h[k]
  /\ stale /\ fresh => Len(h) < Len(g)
  /\ ~stale => fresh

Careful(t, u) ==
  /\ u.generation = t.generation /\ t.settled \subseteq u.settled
  /\ \A d \in Dirs :
       /\ CarefulAt(t.heap[d], u.heap[d], d \in Stales(t), d \notin Stales(u))
       /\ d \in t.settled => u.heap[d] = t.heap[d]

\* Nothing but objects changes.
Quiet(t, u) ==
  Formed(u) /\ Shape(u) = Shape(t) /\ u.settled = t.settled /\ Careful(t, u)

-----------------------------------------------------------------------------
(* Shapes: what follows of a sound one.                                    *)

LEMMA OutParents ==
  ASSUME NEW sh, NamesSound(sh), RestUntouched(sh), NEW d \in Out(sh) \ {Root}
  PROVE  /\ d \in Dirs /\ ParentOf(d) \in Out(sh) /\ ParentOf(d) \in Dirs
         /\ \E i \in DOMAIN sh.names[ParentOf(d)] :
              sh.names[ParentOf(d)][i] = d /\ i <= sh.cursor[ParentOf(d)]
<1> DEFINE p == ParentOf(d)
<1>1. d \in Dirs /\ p \in Dirs
  BY ParentSound DEF Out
<1>2. PICK i \in 1..sh.cursor[p] : sh.names[p][i] = d
  BY DEF Out
<1>3. /\ sh.names[p] \in Seq(Entries) /\ sh.cursor[p] \in 0..Len(sh.names[p])
      /\ DOMAIN sh.names[p] = 1..Len(sh.names[p]) /\ Len(sh.names[p]) \in Nat
  BY <1>1 DEF NamesSound, NamesSoundAt, EntriesOf
<1>4. i \in DOMAIN sh.names[p] /\ i <= sh.cursor[p]
  BY <1>2, <1>3
<1>5. sh.names[p] # <<>>
  BY <1>4
<1>6. p \in Out(sh)
  BY <1>1, <1>5 DEF RestUntouched
<1> QED BY <1>1, <1>2, <1>4, <1>6

LEMMA OutListed ==
  ASSUME NEW sh, NamesSound(sh), RestUntouched(sh), NEW d \in Out(sh) \ {Root}
  PROVE  d \in Range(sh.names[ParentOf(d)])
BY OutParents DEF Range

LEMMA OpenFinite ==
  ASSUME NEW sh, NEW d
  PROVE  IsFiniteSet(Open(sh, d)) /\ Cardinality(Open(sh, d)) \in Nat
<1>1. IsFiniteSet(Dirs) /\ Open(sh, d) \subseteq Dirs
  BY TreeAssumption DEF TreeAssumption, Open
<1> QED BY <1>1, FS_Subset, FS_CardinalityType

\* Where nothing remains nothing is open.
LEMMA NoneRemains ==
  ASSUME NEW sh, RemainingCounts(sh), NEW d \in Dirs, sh.remaining[d] = 0
  PROVE  Open(sh, d) = {}
<1>1. Cardinality(Open(sh, d)) = 0
  BY DEF RemainingCounts
<1> QED BY <1>1, OpenFinite, FS_EmptySet

\* What is above a directory that was handed out and has not settled was, and
\* has not, either.
LEMMA UnsettledAbove ==
  ASSUME NEW sh, ShapeSound(sh),
         NEW d \in Out(sh) \ sh.settled
  PROVE  Above[d] \subseteq Out(sh) \ sh.settled
<1> DEFINE S == Out(sh) \ sh.settled
<1>1. S \in SUBSET Dirs /\ d \in S
  BY DEF Out
<1>2. ASSUME NEW b \in S \ {Root} PROVE ParentOf(b) \in S
  <2>1. b \in Dirs /\ ParentOf(b) \in Out(sh) /\ ParentOf(b) \in Dirs
    BY OutParents DEF ShapeSound
  <2>2. b \in Open(sh, ParentOf(b))
    BY <2>1, OutListed DEF ShapeSound, Open
  <2>3. sh.remaining[ParentOf(b)] # 0
    BY <2>1, <2>2, NoneRemains DEF ShapeSound
  <2> QED BY <2>1, <2>3 DEF ShapeSound, SettledSound
<1> HIDE DEF S
<1>3. Above[d] \subseteq S
  BY <1>1, <1>2, AboveLeast
<1> QED BY <1>3 DEF S

\* A name that is not in its list was not handed out.
LEMMA UnlistedIsNew ==
  ASSUME NEW sh, ShapeSound(sh), NEW d \in Dirs, NEW e \in Dirs,
         e \in Range(Listing[d]), e \notin Range(sh.names[d])
  PROVE  e \notin Out(sh) /\ e \notin sh.settled /\ e \notin sh.scanned
<1>1. e # Root /\ ParentOf(e) = d
  BY OneParent
<1>2. e \notin Out(sh)
  BY <1>1, OutListed DEF ShapeSound
<1> QED BY <1>2 DEF ShapeSound, RestUntouched, SettledSound

\* Neither was one that stands after the cursor.
LEMMA AheadIsNew ==
  ASSUME NEW sh, ShapeSound(sh), NEW d \in Dirs, NEW i \in DOMAIN sh.names[d],
         i > sh.cursor[d], sh.names[d][i] \in Dirs
  PROVE  /\ sh.names[d][i] \notin Out(sh) /\ sh.names[d][i] # Root
         /\ ParentOf(sh.names[d][i]) = d
<1> DEFINE e == sh.names[d][i]
<1>1. e # Root /\ ParentOf(e) = d
  BY OneParent DEF ShapeSound, NamesSound, NamesSoundAt, EntriesOf
<1>2. e \notin Out(sh)
  <2> SUFFICES ASSUME e \in Out(sh) PROVE FALSE
    OBVIOUS
  <2>1. PICK j \in DOMAIN sh.names[d] : sh.names[d][j] = e /\ j <= sh.cursor[d]
    BY <1>1, OutParents DEF ShapeSound
  <2>2. j = i
    BY <2>1 DEF ShapeSound, NamesSound, NamesSoundAt, EntriesOf
  <2>3. i \in Int /\ sh.cursor[d] \in Int
    BY DEF ShapeSound, NamesSound, NamesSoundAt, EntriesOf
  <2> QED BY <2>1, <2>2, <2>3
<1> QED BY <1>1, <1>2

-----------------------------------------------------------------------------
(* Shapes: what the steps make of a sound one.                             *)

\* All is the same but the names, counts and places of directories not in S.
Agree(sh, th, S) ==
  /\ \A e \in Dirs \ S : th.names[e] = sh.names[e] /\ th.cursor[e] = sh.cursor[e]
                         /\ th.remaining[e] = sh.remaining[e]
  /\ th.settled = sh.settled

\* d is told of the names l.
Grows(sh, th, d, l) ==
  /\ Agree(sh, th, {d})
  /\ th.index = sh.index /\ th.live = sh.live /\ th.scanned = sh.scanned
  /\ th.names[d] = sh.names[d] \o l /\ th.cursor[d] = sh.cursor[d]
  /\ th.remaining[d] = sh.remaining[d] + Cardinality(Range(l) \cap Dirs)

LEMMA GrowingNames ==
  ASSUME NEW sh, NEW th, NEW d \in Dirs, NEW l, ShapeSound(sh),
         EntriesOf(d, l), Range(l) \cap Range(sh.names[d]) = {}, Grows(sh, th, d, l)
  PROVE  /\ NamesSound(th) /\ Range(th.names[d]) = Range(sh.names[d]) \cup Range(l)
         /\ \A i \in DOMAIN sh.names[d] :
              i \in DOMAIN th.names[d] /\ th.names[d][i] = sh.names[d][i]
<1> DEFINE s == sh.names[d]
           u == th.names[d]
<1>1. s \in Seq(Entries) /\ l \in Seq(Entries) /\ u = s \o l
  BY DEF EntriesOf, ShapeSound, NamesSound, NamesSoundAt, EntriesOf, Grows
<1>2. /\ \A i \in DOMAIN s : s[i] \in Range(Listing[d])
      /\ \A i, j \in DOMAIN s : s[i] = s[j] => i = j
      /\ sh.cursor[d] \in 0..Len(s)
  BY DEF ShapeSound, NamesSound, NamesSoundAt, EntriesOf
<1>3. /\ \A i \in DOMAIN l : l[i] \in Range(Listing[d])
      /\ \A i, j \in DOMAIN l : l[i] = l[j] => i = j
  BY DEF EntriesOf
<1>4. \A i \in DOMAIN s : \A j \in DOMAIN l : s[i] # l[j]
  BY DEF Range
<1> HIDE DEF s, u
<1>5. /\ DOMAIN s = 1..Len(s) /\ DOMAIN l = 1..Len(l) /\ Len(s) \in Nat /\ Len(l) \in Nat
  BY <1>1
<1>6. /\ u \in Seq(Entries) /\ Len(u) = Len(s) + Len(l) /\ DOMAIN u = 1..(Len(s) + Len(l))
      /\ \A i \in 1..(Len(s) + Len(l)) : u[i] = IF i <= Len(s) THEN s[i] ELSE l[i - Len(s)]
  BY <1>1, <1>5, ConcatProperties, LenProperties
<1>7. ASSUME NEW i \in DOMAIN u
      PROVE  \/ i \in DOMAIN s /\ u[i] = s[i]
             \/ /\ i > Len(s) /\ i - Len(s) \in DOMAIN l
                /\ u[i] = l[i - Len(s)]
  BY <1>5, <1>6
<1>8. \A i \in DOMAIN u : u[i] \in Range(Listing[d])
  BY <1>2, <1>3, <1>7
<1>9. ASSUME NEW i \in DOMAIN u, NEW j \in DOMAIN u, u[i] = u[j] PROVE i = j
  <2>1. CASE i \in DOMAIN s /\ j \in DOMAIN s
    BY <2>1, <1>2, <1>5, <1>6, <1>9
  <2>2. CASE i > Len(s) /\ j > Len(s)
    <3>1. i - Len(s) \in DOMAIN l /\ j - Len(s) \in DOMAIN l /\ l[i - Len(s)] = l[j - Len(s)]
      BY <2>2, <1>5, <1>6, <1>9
    <3>2. i - Len(s) = j - Len(s)
      BY <3>1, <1>3
    <3>3. i \in Int /\ j \in Int
      BY <1>6
    <3> QED BY <3>2, <3>3, <1>5
  <2>3. CASE i \in DOMAIN s /\ j > Len(s)
    BY <2>3, <1>4, <1>5, <1>6, <1>7, <1>9
  <2>4. CASE j \in DOMAIN s /\ i > Len(s)
    BY <2>4, <1>4, <1>5, <1>6, <1>7, <1>9
  <2> QED BY <2>1, <2>2, <2>3, <2>4, <1>5, <1>6
<1>10. \A i \in DOMAIN s : i \in DOMAIN u /\ u[i] = s[i]
  BY <1>5, <1>6
<1>11. Range(u) = Range(s) \cup Range(l)
  BY <1>1, RangeConcatenation
<1>12. sh.cursor[d] \in 0..Len(u)
  BY <1>2, <1>5, <1>6
<1>13. /\ th.names[d] \in Seq(Entries) /\ th.cursor[d] \in 0..Len(th.names[d])
       /\ \A i \in DOMAIN th.names[d] : th.names[d][i] \in Range(Listing[d])
       /\ \A i, j \in DOMAIN th.names[d] : th.names[d][i] = th.names[d][j] => i = j
  BY <1>6, <1>8, <1>9, <1>12 DEF u, Grows
<1>14. NamesSound(th)
  <2>1. NamesSoundAt(d, th.names[d], th.cursor[d])
    BY <1>13 DEF NamesSoundAt, EntriesOf
  <2>2. \A e \in Dirs \ {d} : NamesSoundAt(e, th.names[e], th.cursor[e])
    BY DEF ShapeSound, NamesSound, Grows, Agree
  <2> QED BY <2>1, <2>2 DEF NamesSound
<1> QED BY <1>10, <1>11, <1>14 DEF s, u

LEMMA GrowingOut ==
  ASSUME NEW sh, NEW th, NEW d \in Dirs, NEW l, ShapeSound(sh),
         EntriesOf(d, l), Range(l) \cap Range(sh.names[d]) = {}, Grows(sh, th, d, l)
  PROVE  Out(th) = Out(sh)
<1>1. ASSUME NEW e \in Dirs \ {Root}, NEW i \in 1..sh.cursor[ParentOf(e)]
      PROVE  /\ th.cursor[ParentOf(e)] = sh.cursor[ParentOf(e)]
             /\ th.names[ParentOf(e)][i] = sh.names[ParentOf(e)][i]
  <2>1. ParentOf(e) \in Dirs
    BY ParentSound
  <2>2. i \in DOMAIN sh.names[ParentOf(e)]
    <3>1. sh.names[ParentOf(e)] \in Seq(Entries) /\ sh.cursor[ParentOf(e)] \in 0..Len(sh.names[ParentOf(e)])
      BY <2>1 DEF ShapeSound, NamesSound, NamesSoundAt, EntriesOf
    <3> QED BY <3>1
  <2>3. CASE ParentOf(e) = d
    BY <2>2, <2>3, GrowingNames DEF Grows
  <2>4. CASE ParentOf(e) # d
    BY <2>1, <2>4 DEF Grows, Agree
  <2> QED BY <2>3, <2>4
<1>2. \A e \in Dirs \ {Root} : th.cursor[ParentOf(e)] = sh.cursor[ParentOf(e)]
  BY ParentSound DEF Grows, Agree
<1> QED BY <1>1, <1>2 DEF Out

LEMMA Growing ==
  ASSUME NEW sh, NEW th, NEW d \in Out(sh) \ sh.scanned, NEW l, ShapeSound(sh),
         EntriesOf(d, l), Range(l) \cap Range(sh.names[d]) = {}, Grows(sh, th, d, l)
  PROVE  ShapeSound(th) /\ Out(th) = Out(sh)
<1>1. d \in Dirs /\ d \notin sh.settled
  BY DEF Out, ShapeSound, SettledSound
<1>2. Out(th) = Out(sh)
  BY <1>1, GrowingOut
<1>3. /\ NamesSound(th) /\ Range(th.names[d]) = Range(sh.names[d]) \cup Range(l)
      /\ \A i \in DOMAIN sh.names[d] :
           i \in DOMAIN th.names[d] /\ th.names[d][i] = sh.names[d][i]
  BY <1>1, GrowingNames
<1>4. SettledSound(th)
  <2>1. \A e \in sh.settled : e \in Dirs \ {d}
    BY <1>1 DEF ShapeSound, SettledSound
  <2> QED BY <2>1 DEF ShapeSound, SettledSound, Grows, Agree
<1>5. RemainingCounts(th)
  <2>1. ASSUME NEW e \in Dirs \ {d} PROVE th.remaining[e] = Cardinality(Open(th, e))
    BY <2>1 DEF ShapeSound, RemainingCounts, Open, Grows, Agree
  <2>2. th.remaining[d] = Cardinality(Open(th, d))
    <3> DEFINE A == Open(sh, d)
               B == Range(l) \cap Dirs
    <3>1. Range(th.names[d]) = Range(sh.names[d]) \cup Range(l)
      BY <1>3
    <3>2. B \cap sh.settled = {}
      <4>1. ASSUME NEW e \in B PROVE e \notin sh.settled
        <5>1. e \in Dirs /\ e \in Range(l) /\ e \in Range(Listing[d])
          BY DEF EntriesOf, Range
        <5>2. e \notin Range(sh.names[d])
          BY <5>1
        <5> QED BY <1>1, <5>1, <5>2, UnlistedIsNew
      <4> QED BY <4>1
    <3>3. Open(th, d) = A \cup B
      BY <3>1, <3>2 DEF Open, Grows, Agree
    <3>4. A \cap B = {}
      BY DEF Open
    <3>5. IsFiniteSet(A) /\ IsFiniteSet(B)
      <4>1. IsFiniteSet(Dirs) /\ B \subseteq Dirs
        BY TreeAssumption DEF TreeAssumption
      <4> QED BY <4>1, OpenFinite, FS_Subset
    <3> HIDE DEF A, B
    <3>6. Cardinality(A \cup B) = Cardinality(A) + Cardinality(B)
      <4>1. /\ Cardinality(A \cup B) = Cardinality(A) + Cardinality(B) - Cardinality(A \cap B)
            /\ Cardinality(A \cap B) = 0
        BY <3>4, <3>5, FS_Union, FS_EmptySet
      <4>2. Cardinality(A) \in Nat /\ Cardinality(B) \in Nat
        BY <3>5, FS_CardinalityType
      <4> QED BY <4>1, <4>2
    <3>7. th.remaining[d] = sh.remaining[d] + Cardinality(B)
      BY DEF Grows, B
    <3>8. sh.remaining[d] = Cardinality(A)
      BY <1>1 DEF A, ShapeSound, RemainingCounts
    <3> QED BY <3>3, <3>6, <3>7, <3>8
  <2> QED BY <2>1, <2>2 DEF RemainingCounts
<1>6. RestUntouched(th)
  BY <1>2 DEF ShapeSound, RestUntouched, Grows, Agree
<1>7. IndexSound(th)
  <2>1. ASSUME NEW e \in Out(th) \ {Root}, ParentOf(e) \notin th.settled
        PROVE  /\ th.index[e] \in 1..th.cursor[ParentOf(e)]
               /\ th.names[ParentOf(e)][th.index[e]] = e
    <3> DEFINE p == ParentOf(e)
    <3>1. e \in Dirs \ {Root} /\ p \in Dirs /\ e \in Out(sh) \ {Root} /\ p \notin sh.settled
      BY <1>2, <2>1, ParentSound DEF Out, Grows, Agree
    <3>2. sh.index[e] \in 1..sh.cursor[p] /\ sh.names[p][sh.index[e]] = e
      BY <3>1 DEF ShapeSound, IndexSound
    <3>3. th.index[e] = sh.index[e] /\ th.cursor[p] = sh.cursor[p]
      BY <3>1 DEF Grows, Agree
    <3>4. sh.index[e] \in DOMAIN sh.names[p]
      <4>1. sh.names[p] \in Seq(Entries) /\ sh.cursor[p] \in 0..Len(sh.names[p])
        BY <3>1 DEF ShapeSound, NamesSound, NamesSoundAt, EntriesOf
      <4> HIDE DEF p
      <4> QED BY <3>2, <4>1
    <3>5. th.names[p][sh.index[e]] = sh.names[p][sh.index[e]]
      <4>1. CASE p = d
        BY <3>4, <4>1, <1>3
      <4>2. CASE p # d
        BY <3>1, <4>2 DEF Grows, Agree
      <4> QED BY <4>1, <4>2
    <3> QED BY <3>2, <3>3, <3>5
  <2> QED BY <2>1 DEF IndexSound
<1>8. LiveSound(th)
  BY <1>2 DEF ShapeSound, LiveSound, Grows, Agree
<1> QED BY <1>2, <1>3, <1>4, <1>5, <1>6, <1>7, <1>8 DEF ShapeSound

\* d's result is there.
Scans(sh, th, d) ==
  /\ Agree(sh, th, {})
  /\ th.index = sh.index /\ th.live = sh.live /\ th.scanned = sh.scanned \cup {d}

LEMMA Scanning ==
  ASSUME NEW sh, NEW th, NEW d \in Out(sh), ShapeSound(sh), Scans(sh, th, d)
  PROVE  ShapeSound(th) /\ Out(th) = Out(sh)
<1>1. \A e \in Dirs : th.names[e] = sh.names[e] /\ th.cursor[e] = sh.cursor[e]
                      /\ th.remaining[e] = sh.remaining[e]
  BY DEF Scans, Agree
<1>2. Out(th) = Out(sh)
  BY <1>1, ParentSound DEF Out
<1>3. NamesSound(th)
  BY <1>1 DEF ShapeSound, NamesSound, NamesSoundAt, EntriesOf
<1>4. SettledSound(th)
  <2>1. \A e \in sh.settled : e \in Dirs
    BY DEF ShapeSound, SettledSound
  <2>2. d \in Dirs
    BY DEF Out
  <2> QED BY <1>1, <2>1, <2>2 DEF ShapeSound, SettledSound, Scans, Agree
<1>5. RemainingCounts(th)
  BY <1>1 DEF ShapeSound, RemainingCounts, Open, Scans, Agree
<1>6. RestUntouched(th)
  BY <1>1, <1>2 DEF ShapeSound, RestUntouched, Scans
<1>7. IndexSound(th)
  BY <1>1, <1>2, ParentSound DEF ShapeSound, IndexSound, Scans, Agree, Out
<1>8. LiveSound(th)
  BY <1>2 DEF ShapeSound, LiveSound, Scans, Agree
<1> QED BY <1>2, <1>3, <1>4, <1>5, <1>6, <1>7, <1>8 DEF ShapeSound

\* d's cursor is at i, and the directory there, if there is one, is handed out.
Skips(sh, th, d) ==
  /\ th.names = sh.names /\ th.index = sh.index /\ th.remaining = sh.remaining
  /\ th.scanned = sh.scanned /\ th.live = sh.live /\ th.settled = sh.settled
  /\ \A e \in Dirs : th.cursor[e] = IF e = d THEN Len(sh.names[d]) ELSE sh.cursor[e]

HandsOut(sh, th, d, i) ==
  LET e == sh.names[d][i]
  IN /\ th.names = sh.names /\ th.settled = sh.settled
     /\ \A f \in Dirs : th.index[f] = IF f = e THEN i ELSE sh.index[f]
     /\ \A f \in Dirs : th.cursor[f] = IF f = e THEN 0 ELSE IF f = d THEN i ELSE sh.cursor[f]
     /\ \A f \in Dirs : th.remaining[f] = IF f = e THEN 0 ELSE sh.remaining[f]
     /\ th.scanned = sh.scanned \ {e} /\ th.live = sh.live \cup {e}

NothingAhead(sh, d, i) ==
  \A j \in DOMAIN sh.names[d] : j > sh.cursor[d] /\ j < i => sh.names[d][j] \notin Dirs

LEMMA CursorMoves ==
  ASSUME NEW sh, NEW th, NEW d \in Dirs, NamesSound(sh),
         th.names = sh.names, th.cursor[d] \in sh.cursor[d]..Len(sh.names[d]),
         NEW i \in Nat, i <= th.cursor[d], NothingAhead(sh, d, i),
         NEW e \in Dirs \ {Root}, ParentOf(e) = d, e # sh.names[d][i] \/ i = 0,
         i >= th.cursor[d] \/ i = 0,
         i = 0 => NothingAhead(sh, d, Len(sh.names[d]) + 1)
  PROVE  e \in Out(th) <=> e \in Out(sh)
<1>1. /\ sh.cursor[d] \in Nat /\ th.cursor[d] \in Nat /\ Len(sh.names[d]) \in Nat
      /\ DOMAIN sh.names[d] = 1..Len(sh.names[d])
      /\ sh.cursor[d] <= th.cursor[d] /\ th.cursor[d] <= Len(sh.names[d])
  BY DEF NamesSound, NamesSoundAt, EntriesOf
<1>2. e \in Out(sh) <=> \E j \in 1..sh.cursor[d] : sh.names[d][j] = e
  BY DEF Out
<1>3. e \in Out(th) <=> \E j \in 1..th.cursor[d] : sh.names[d][j] = e
  BY DEF Out
<1>4. ASSUME NEW j \in 1..th.cursor[d], sh.names[d][j] = e PROVE j \in 1..sh.cursor[d]
  <2> SUFFICES ASSUME j > sh.cursor[d] PROVE FALSE
    BY <1>1
  <2>1. j \in DOMAIN sh.names[d] /\ sh.names[d][j] \in Dirs
    BY <1>1, <1>4
  <2>2. CASE i = 0
    <3>1. j < Len(sh.names[d]) + 1
      BY <1>1
    <3> QED BY <2>1, <2>2, <3>1 DEF NothingAhead
  <2>3. CASE i # 0
    <3>1. j # i
      BY <1>4, <2>3
    <3>2. j < i
      BY <3>1, <1>1, <2>3
    <3> QED BY <2>1, <3>2 DEF NothingAhead
  <2> QED BY <2>2, <2>3
<1>5. \A j \in 1..sh.cursor[d] : j \in 1..th.cursor[d]
  BY <1>1
<1> QED BY <1>2, <1>3, <1>4, <1>5

LEMMA Skipping ==
  ASSUME NEW sh, NEW th, NEW d \in Dirs, ShapeSound(sh), Skips(sh, th, d),
         NothingAhead(sh, d, Len(sh.names[d]) + 1)
  PROVE  ShapeSound(th) /\ Out(th) = Out(sh)
<1>1. /\ sh.cursor[d] \in 0..Len(sh.names[d]) /\ Len(sh.names[d]) \in Nat
      /\ th.cursor[d] = Len(sh.names[d])
  BY DEF ShapeSound, NamesSound, NamesSoundAt, EntriesOf, Skips
<1>2. Out(th) = Out(sh)
  <2>1. ASSUME NEW e \in Dirs \ {Root} PROVE e \in Out(th) <=> e \in Out(sh)
    <3>1. CASE ParentOf(e) = d
      <4>1. NothingAhead(sh, d, 0)
        BY DEF NothingAhead, ShapeSound, NamesSound, NamesSoundAt
      <4>2. th.names = sh.names /\ th.cursor[d] \in sh.cursor[d]..Len(sh.names[d])
        BY <1>1 DEF Skips
      <4>3. 0 \in Nat /\ 0 <= th.cursor[d]
        BY <1>1
      <4> QED BY <3>1, <4>1, <4>2, <4>3, CursorMoves DEF ShapeSound
    <3>2. CASE ParentOf(e) # d
      BY <3>2, ParentSound DEF Out, Skips
    <3> QED BY <3>1, <3>2
  <2> QED BY <2>1 DEF Out
<1>3. NamesSound(th)
  BY <1>1 DEF ShapeSound, NamesSound, NamesSoundAt, Skips
<1>4. SettledSound(th)
  BY <1>1 DEF ShapeSound, SettledSound, Skips
<1>5. RemainingCounts(th)
  BY DEF ShapeSound, RemainingCounts, Open, Skips
<1>6. RestUntouched(th)
  BY <1>2 DEF ShapeSound, RestUntouched, Skips
<1>7. IndexSound(th)
  <2>1. ASSUME NEW e \in Out(sh) \ {Root}, ParentOf(e) \notin sh.settled
        PROVE  sh.index[e] \in 1..th.cursor[ParentOf(e)]
    <3>1. sh.index[e] \in 1..sh.cursor[ParentOf(e)] /\ ParentOf(e) \in Dirs
      BY <2>1, ParentSound DEF ShapeSound, IndexSound, Out
    <3>2. CASE ParentOf(e) = d
      BY <3>1, <3>2, <1>1
    <3>3. CASE ParentOf(e) # d
      BY <3>1, <3>3 DEF Skips
    <3> QED BY <3>2, <3>3
  <2> QED BY <2>1, <1>2 DEF ShapeSound, IndexSound, Skips
<1>8. LiveSound(th)
  BY <1>2 DEF ShapeSound, LiveSound, Skips
<1> QED BY <1>2, <1>3, <1>4, <1>5, <1>6, <1>7, <1>8 DEF ShapeSound

LEMMA HandingOut ==
  ASSUME NEW sh, NEW th, NEW d \in Dirs, NEW i \in DOMAIN sh.names[d],
         ShapeSound(sh), HandsOut(sh, th, d, i), i > sh.cursor[d],
         sh.names[d][i] \in Dirs, NothingAhead(sh, d, i)
  PROVE  /\ ShapeSound(th) /\ Out(th) = Out(sh) \cup {sh.names[d][i]}
         /\ sh.names[d][i] \notin Out(sh) /\ sh.names[d][i] # d
<1> DEFINE e == sh.names[d][i]
<1>1. e \in Dirs /\ e \notin Out(sh) /\ e # Root /\ ParentOf(e) = d
  BY AheadIsNew
<1>2. /\ sh.cursor[d] \in Nat /\ Len(sh.names[d]) \in Nat /\ i \in 1..Len(sh.names[d])
      /\ sh.cursor[d] < i
  BY DEF ShapeSound, NamesSound, NamesSoundAt, EntriesOf
<1>3. d \in Out(sh) /\ d # e
  <2>1. sh.names[d] # <<>>
    BY <1>2
  <2> QED BY <2>1, <1>1 DEF ShapeSound, RestUntouched
<1>4. sh.names[e] = <<>> /\ e \notin sh.scanned /\ e \notin sh.settled
  BY <1>1 DEF ShapeSound, RestUntouched, SettledSound
<1>5. sh.cursor[e] = 0 /\ sh.remaining[e] = 0
  <2>1. sh.cursor[e] = 0
    BY <1>1, <1>4 DEF ShapeSound, NamesSound, NamesSoundAt
  <2>2. Open(sh, e) = {}
    BY <1>4 DEF Open, Range
  <2> QED BY <2>1, <2>2, <1>1, FS_EmptySet DEF ShapeSound, RemainingCounts
<1>6. /\ th.names = sh.names /\ th.settled = sh.settled /\ th.scanned = sh.scanned
      /\ th.live = sh.live \cup {e}
      /\ \A f \in Dirs : th.remaining[f] = sh.remaining[f]
      /\ \A f \in Dirs : th.cursor[f] = IF f = d THEN i ELSE sh.cursor[f]
      /\ \A f \in Dirs : th.index[f] = IF f = e THEN i ELSE sh.index[f]
  BY <1>1, <1>3, <1>4, <1>5 DEF HandsOut
<1> HIDE DEF e
<1>7. e = sh.names[d][i]
  BY DEF e
<1>8. e \in Out(th)
  <2>1. i \in 1..th.cursor[d] /\ th.names[d][i] = e
    BY <1>2, <1>6, <1>7
  <2> QED BY <2>1, <1>1 DEF Out
<1>9. ASSUME NEW f \in Dirs \ {Root, e} PROVE f \in Out(th) <=> f \in Out(sh)
  <2>1. CASE ParentOf(f) = d
    <3>1. /\ th.cursor[d] \in sh.cursor[d]..Len(sh.names[d]) /\ i \in Nat
          /\ i <= th.cursor[d] /\ i >= th.cursor[d] /\ i # 0
      BY <1>2, <1>6
    <3>2. f # sh.names[d][i]
      BY <1>7, <1>9
    <3>3. NamesSound(sh) /\ th.names = sh.names
      BY <1>6 DEF ShapeSound
    <3> QED BY <2>1, <3>1, <3>2, <3>3, <1>9, CursorMoves
  <2>2. CASE ParentOf(f) # d
    BY <2>2, <1>6, <1>9, ParentSound DEF Out
  <2> QED BY <2>1, <2>2
<1>10. Out(th) = Out(sh) \cup {e}
  BY <1>1, <1>8, <1>9 DEF Out
<1>11. NamesSound(th)
  BY <1>2, <1>6 DEF ShapeSound, NamesSound, NamesSoundAt
<1>12. SettledSound(th)
  <2>1. d \notin sh.settled
    <3> SUFFICES ASSUME d \in sh.settled PROVE FALSE
      OBVIOUS
    <3>1. sh.cursor[d] = Len(sh.names[d])
      BY DEF ShapeSound, SettledSound
    <3> QED BY <3>1, <1>2
  <2>2. sh.settled \subseteq Dirs
    BY DEF ShapeSound, SettledSound
  <2> QED BY <1>6, <2>1, <2>2 DEF ShapeSound, SettledSound
<1>13. RemainingCounts(th)
  BY <1>6 DEF ShapeSound, RemainingCounts, Open
<1>14. RestUntouched(th)
  BY <1>6, <1>10 DEF ShapeSound, RestUntouched
<1>15. IndexSound(th)
  <2>1. ASSUME NEW f \in Out(th) \ {Root}, ParentOf(f) \notin sh.settled, f # e
        PROVE  /\ sh.index[f] \in 1..th.cursor[ParentOf(f)]
               /\ sh.names[ParentOf(f)][sh.index[f]] = f
    <3>1. f \in Out(sh) \ {Root}
      BY <2>1, <1>10
    <3>2. /\ sh.index[f] \in 1..sh.cursor[ParentOf(f)] /\ ParentOf(f) \in Dirs
          /\ sh.names[ParentOf(f)][sh.index[f]] = f
      BY <2>1, <3>1, ParentSound DEF ShapeSound, IndexSound, Out
    <3>3. CASE ParentOf(f) = d
      BY <3>2, <3>3, <1>2, <1>6
    <3>4. CASE ParentOf(f) # d
      BY <3>2, <3>4, <1>6
    <3> QED BY <3>2, <3>3, <3>4
  <2>2. th.index[e] \in 1..th.cursor[ParentOf(e)] /\ th.names[ParentOf(e)][th.index[e]] = e
    BY <1>1, <1>2, <1>6, <1>7
  <2>3. \A f \in Out(th) : f \in Dirs
    BY DEF Out
  <2> QED BY <2>1, <2>2, <2>3, <1>6 DEF IndexSound
<1>16. LiveSound(th)
  BY <1>1, <1>4, <1>6, <1>10 DEF ShapeSound, LiveSound
<1> QED BY <1>1, <1>3, <1>7, <1>10, <1>11, <1>12, <1>13, <1>14, <1>15, <1>16 DEF ShapeSound

\* Those in S settle, of which each but d had one open child, in S.
Run(sh, S, d) ==
  /\ S \subseteq sh.scanned \ sh.settled
  /\ \A a \in S : sh.remaining[a] = IF a = d THEN 0 ELSE 1
  /\ \A a \in S \ {d} : \E b \in S \ {Root} : ParentOf(b) = a

Settles(sh, th, S) ==
  /\ th.index = sh.index /\ th.scanned = sh.scanned /\ th.settled = sh.settled \cup S
  /\ th.live = {a \in Dirs : IF a \in S THEN a = Root ELSE a \in sh.live}
  /\ \A a \in Dirs : th.remaining[a] = sh.remaining[a] - Cardinality(Below(a, S))
  /\ \A a \in Dirs \ S : th.names[a] = sh.names[a] /\ th.cursor[a] = sh.cursor[a]
  /\ \A a \in S : /\ th.names[a] \in Seq(Entries) /\ Len(th.names[a]) = Len(sh.names[a])
                  /\ Range(th.names[a]) = Range(sh.names[a])
                  /\ \A i, j \in DOMAIN th.names[a] :
                       th.names[a][i] = th.names[a][j] => i = j
                  /\ th.cursor[a] = Len(th.names[a])

LEMMA RunIsOpen ==
  ASSUME NEW sh, NEW S, NEW d, ShapeSound(sh), Run(sh, S, d), NEW a \in Dirs
  PROVE  /\ Below(a, S) \subseteq Open(sh, a)
         /\ a \in S => Open(sh, a) = Below(a, S)
<1>1. S \subseteq Out(sh) /\ S \subseteq Dirs
  BY DEF Run, ShapeSound, RestUntouched, SettledSound
<1>2. Below(a, S) \subseteq Open(sh, a)
  <2>1. ASSUME NEW b \in Below(a, S) PROVE b \in Open(sh, a)
    <3>1. b \in S /\ b # Root /\ ParentOf(b) = a /\ b \notin sh.settled
      BY DEF Below, Run
    <3>2. b \in Range(sh.names[a])
      BY <3>1, <1>1, OutListed DEF ShapeSound
    <3> QED BY <3>1, <3>2, <1>1 DEF Open
  <2> QED BY <2>1
<1>3. ASSUME a \in S PROVE Open(sh, a) = Below(a, S)
  <2>1. sh.remaining[a] = Cardinality(Open(sh, a)) /\ IsFiniteSet(Open(sh, a))
    BY OpenFinite DEF ShapeSound, RemainingCounts
  <2>2. CASE a = d
    <3>1. Cardinality(Open(sh, a)) = 0
      BY <1>3, <2>1, <2>2 DEF Run
    <3>2. Open(sh, a) = {}
      BY <2>1, <3>1, FS_EmptySet
    <3> QED BY <3>2, <1>2
  <2>3. CASE a # d
    <3>1. Cardinality(Open(sh, a)) = 1
      BY <1>3, <2>1, <2>3 DEF Run
    <3>2. PICK b \in S \ {Root} : ParentOf(b) = a
      BY <1>3, <2>3 DEF Run
    <3>3. b \in Below(a, S)
      BY <3>2 DEF Below
    <3>4. PICK x : Open(sh, a) = {x}
      BY <2>1, <3>1, FS_Singleton
    <3> QED BY <3>3, <3>4, <1>2
  <2> QED BY <2>2, <2>3
<1> QED BY <1>2, <1>3

LEMMA RunOut ==
  ASSUME NEW sh, NEW th, NEW S, NEW d, ShapeSound(sh), Run(sh, S, d), Settles(sh, th, S)
  PROVE  Out(th) = Out(sh)
<1>1. S \subseteq Out(sh) /\ S \subseteq Dirs
  BY DEF Run, ShapeSound, RestUntouched, SettledSound
<1>2. ASSUME NEW e \in Dirs \ {Root} PROVE e \in Out(th) <=> e \in Out(sh)
  <2> DEFINE p == ParentOf(e)
  <2>1. p \in Dirs
    BY ParentSound
  <2>2. CASE p \notin S
    BY <2>1, <2>2 DEF Out, Settles
  <2>3. CASE p \in S
    <3>1. /\ th.names[p] \in Seq(Entries) /\ th.cursor[p] = Len(th.names[p])
          /\ Range(th.names[p]) = Range(sh.names[p])
      BY <2>3 DEF Settles
    <3>2. e \in Out(th) <=> e \in Range(sh.names[p])
      <4>1. e \in Out(th) <=> \E i \in 1..Len(th.names[p]) : th.names[p][i] = e
        BY <3>1 DEF Out
      <4>2. DOMAIN th.names[p] = 1..Len(th.names[p])
        BY <3>1
      <4> QED BY <3>1, <4>1, <4>2 DEF Range
    <3>3. e \in Out(sh) => e \in Range(sh.names[p])
      BY OutListed DEF ShapeSound
    <3>4. ASSUME e \in Range(sh.names[p]) PROVE e \in Out(sh)
      <4>1. CASE e \in sh.settled
        BY <4>1 DEF ShapeSound, SettledSound, RestUntouched
      <4>2. CASE e \notin sh.settled
        <5>1. e \in Open(sh, p)
          BY <3>4, <4>2 DEF Open
        <5>2. e \in Below(p, S)
          BY <5>1, <2>1, <2>3, RunIsOpen
        <5> QED BY <5>2, <1>1 DEF Below
      <4> QED BY <4>1, <4>2
    <3> QED BY <3>2, <3>3, <3>4
  <2> QED BY <2>2, <2>3
<1> QED BY <1>2 DEF Out

LEMMA Settling ==
  ASSUME NEW sh, NEW th, NEW S, NEW d, ShapeSound(sh), Run(sh, S, d), Settles(sh, th, S)
  PROVE  ShapeSound(th) /\ Out(th) = Out(sh)
<1>1. S \subseteq Out(sh) /\ S \subseteq Dirs
  BY DEF Run, ShapeSound, RestUntouched, SettledSound
<1>2. Out(th) = Out(sh)
  BY RunOut
<1>3. NamesSound(th)
  <2>1. ASSUME NEW a \in S PROVE NamesSoundAt(a, th.names[a], th.cursor[a])
    <3>1. /\ th.names[a] \in Seq(Entries) /\ th.cursor[a] = Len(th.names[a])
          /\ Range(th.names[a]) = Range(sh.names[a])
          /\ \A i, j \in DOMAIN th.names[a] :
               th.names[a][i] = th.names[a][j] => i = j
      BY DEF Settles
    <3>2. Range(sh.names[a]) \subseteq Range(Listing[a])
      <4>1. \A i \in DOMAIN sh.names[a] : sh.names[a][i] \in Range(Listing[a])
        BY <1>1 DEF ShapeSound, NamesSound, NamesSoundAt, EntriesOf
      <4> QED BY <4>1 DEF Range
    <3>3. \A i \in DOMAIN th.names[a] : th.names[a][i] \in Range(th.names[a])
      BY DEF Range
    <3>4. EntriesOf(a, th.names[a])
      BY <3>1, <3>2, <3>3 DEF EntriesOf
    <3>5. th.cursor[a] \in 0..Len(th.names[a])
      BY <3>1
    <3> QED BY <3>4, <3>5 DEF NamesSoundAt
  <2>2. \A a \in Dirs \ S : NamesSoundAt(a, th.names[a], th.cursor[a])
    BY DEF ShapeSound, NamesSound, Settles
  <2> QED BY <2>1, <2>2 DEF NamesSound
<1>4. ASSUME NEW a \in Dirs
      PROVE  /\ th.remaining[a] = Cardinality(Open(th, a))
             /\ a \in S => th.remaining[a] = 0
             /\ a \in sh.settled => th.remaining[a] = 0
  <2> DEFINE A == Open(sh, a)
             B == Below(a, S)
  <2>1. IsFiniteSet(A) /\ Cardinality(A) \in Nat /\ B \subseteq A /\ (a \in S => A = B)
    BY OpenFinite, RunIsOpen
  <2>2. Range(th.names[a]) = Range(sh.names[a])
    BY DEF Settles
  <2>3. Open(th, a) = A \ B
    <3>1. ASSUME NEW e \in A, e \in S PROVE e \in B
      <4>1. e \in Range(sh.names[a]) /\ e \in Dirs
        BY <3>1 DEF Open
      <4>2. e \in Range(Listing[a])
        BY <4>1 DEF ShapeSound, NamesSound, NamesSoundAt, EntriesOf, Range
      <4>3. e # Root /\ ParentOf(e) = a
        BY <4>1, <4>2, OneParent
      <4> QED BY <3>1, <4>3 DEF Below
    <3>2. B \subseteq S
      BY DEF Below
    <3> QED BY <2>2, <3>1, <3>2 DEF Open, Settles
  <2>4. sh.remaining[a] = Cardinality(A) /\ th.remaining[a] = sh.remaining[a] - Cardinality(B)
    BY DEF ShapeSound, RemainingCounts, Settles
  <2>5. a \in sh.settled => A = {}
    BY NoneRemains DEF ShapeSound, SettledSound
  <2> HIDE DEF A, B
  <2>6. IsFiniteSet(B) /\ Cardinality(B) \in Nat
    BY <2>1, FS_Subset, FS_CardinalityType
  <2>7. Cardinality(A \ B) = Cardinality(A) - Cardinality(B)
    <3>1. A \cap B = B
      BY <2>1
    <3> QED BY <2>1, <3>1, FS_Difference
  <2>8. a \in S => th.remaining[a] = 0
    BY <2>1, <2>4, <2>6
  <2>9. a \in sh.settled => th.remaining[a] = 0
    <3> SUFFICES ASSUME a \in sh.settled PROVE th.remaining[a] = 0
      OBVIOUS
    <3>1. A = {} /\ B = {}
      BY <2>1, <2>5
    <3>2. Cardinality(A) = 0 /\ Cardinality(B) = 0
      BY <3>1, FS_EmptySet
    <3> QED BY <2>4, <3>2
  <2> QED BY <2>3, <2>4, <2>7, <2>8, <2>9
<1>5. RemainingCounts(th)
  BY <1>4 DEF RemainingCounts
<1>6. SettledSound(th)
  <2>1. th.settled \subseteq th.scanned /\ th.scanned \subseteq Dirs
    BY DEF Settles, Run, ShapeSound, SettledSound
  <2>2. ASSUME NEW a \in th.settled
        PROVE  th.cursor[a] = Len(th.names[a]) /\ th.remaining[a] = 0
    <3>1. CASE a \in S
      BY <3>1, <1>1, <1>4 DEF Settles
    <3>2. CASE a \notin S
      <4>1. a \in sh.settled /\ a \in Dirs
        BY <3>2, <2>1 DEF Settles
      <4>2. sh.cursor[a] = Len(sh.names[a])
        BY <4>1 DEF ShapeSound, SettledSound
      <4> QED BY <3>2, <4>1, <4>2, <1>4 DEF Settles
    <3> QED BY <3>1, <3>2
  <2> QED BY <2>1, <2>2 DEF SettledSound
<1>7. RestUntouched(th)
  BY <1>1, <1>2 DEF ShapeSound, RestUntouched, Settles
<1>8. IndexSound(th)
  <2>1. ASSUME NEW e \in Out(th) \ {Root}, ParentOf(e) \notin th.settled
        PROVE  /\ th.index[e] \in 1..th.cursor[ParentOf(e)]
               /\ th.names[ParentOf(e)][th.index[e]] = e
    <3>1. e \in Out(sh) \ {Root} /\ ParentOf(e) \notin sh.settled /\ ParentOf(e) \notin S
      BY <2>1, <1>2 DEF Settles
    <3>2. ParentOf(e) \in Dirs
      BY <3>1, ParentSound DEF Out
    <3> QED BY <3>1, <3>2 DEF ShapeSound, IndexSound, Settles
  <2> QED BY <2>1 DEF IndexSound
<1>9. LiveSound(th)
  <2>1. sh.live = {Root} \cup (Out(sh) \ sh.settled) /\ Out(sh) \subseteq Dirs /\ Root \in Dirs
    BY TreeAssumption DEF ShapeSound, LiveSound, Out, TreeAssumption
  <2> QED BY <2>1, <1>2 DEF LiveSound, Settles
<1> QED BY <1>2, <1>3, <1>5, <1>6, <1>7, <1>8, <1>9 DEF ShapeSound

-----------------------------------------------------------------------------
(* Writing objects.                                                        *)

LEMMA ChainParts ==
  ASSUME NEW h, Chain(h)
  PROVE  /\ Len(h) \in Nat \ {0} /\ DOMAIN h = 1..Len(h) /\ h \in Seq(Range(h))
         /\ h = [i \in 1..Len(h) |-> h[i]] /\ Len(h) \in DOMAIN h
<1>1. h \in Seq(Range(h)) /\ h # <<>>
  BY DEF Chain
<1>2. Len(h) \in Nat /\ DOMAIN h = 1..Len(h) /\ h \in [1..Len(h) -> Range(h)]
  BY <1>1, LenProperties
<1>3. Len(h) # 0
  BY <1>1
<1> QED BY <1>1, <1>2, <1>3

LEMMA LastWritten ==
  ASSUME NEW h, NEW l \in Nat, NEW n, DOMAIN h = 1..l, h = [i \in 1..l |-> h[i]],
         NEW g, g = [h EXCEPT ![l] = n], l # 0
  PROVE  /\ DOMAIN g = 1..l /\ g = [i \in 1..l |-> g[i]] /\ g[l] = n
         /\ \A k \in 1..l : k # l => g[k] = h[k]
         /\ n = h[l] => g = h
<1>1. g = [i \in 1..l |-> IF i = l THEN n ELSE h[i]]
  OBVIOUS
<1>2. l \in 1..l
  OBVIOUS
<1>3. n = h[l] => [i \in 1..l |-> IF i = l THEN n ELSE h[i]] = [i \in 1..l |-> h[i]]
  OBVIOUS
<1>4. n = h[l] => g = h
  BY <1>1, <1>3
<1>5. DOMAIN g = 1..l /\ g[l] = n /\ \A k \in 1..l : k # l => g[k] = h[k]
  BY <1>1, <1>2
<1>6. g = [i \in 1..l |-> g[i]]
  BY <1>1
<1> QED BY <1>4, <1>5, <1>6

LEMMA FunctionIsSeq ==
  ASSUME NEW g, NEW l \in Nat, DOMAIN g = 1..l, g = [i \in 1..l |-> g[i]]
  PROVE  g \in Seq(Range(g)) /\ Len(g) = l
<1>1. \A i \in 1..l : g[i] \in Range(g)
  BY DEF Range
<1>2. g \in Seq(Range(g))
  BY <1>1
<1> QED BY <1>2

\* h with n for its last element.
WithLast(h, n) == [h EXCEPT ![Len(h)] = n]

LEMMA ChainWritten ==
  ASSUME NEW h, Chain(h), NEW n, IsNode(n)
  PROVE  /\ Chain(WithLast(h, n)) /\ Len(WithLast(h, n)) = Len(h)
         /\ WithLast(h, n)[Len(h)] = n
         /\ \A k \in DOMAIN h : k < Len(h) => WithLast(h, n)[k] = h[k]
         /\ n = h[Len(h)] => WithLast(h, n) = h
<1> DEFINE l == Len(h)
           g == WithLast(h, n)
<1>1. l \in Nat /\ l # 0 /\ DOMAIN h = 1..l /\ h = [i \in 1..l |-> h[i]]
  BY ChainParts
<1>2. g = [h EXCEPT ![l] = n]
  BY DEF WithLast
<1> HIDE DEF l, g
<1>3. DOMAIN g = 1..l /\ g = [i \in 1..l |-> g[i]] /\ g[l] = n
  BY ONLY <1>1, <1>2, LastWritten
<1>4. \A k \in 1..l : k # l => g[k] = h[k]
  BY ONLY <1>1, <1>2, LastWritten
<1>5. n = h[l] => g = h
  BY ONLY <1>1, <1>2, LastWritten
<1>6. g \in Seq(Range(g)) /\ Len(g) = l
  BY <1>1, <1>3, FunctionIsSeq
<1>7. g # <<>>
  BY <1>1, <1>6
<1>8. \A k \in DOMAIN h : k < l => g[k] = h[k]
  BY <1>1, <1>4
<1>9. Chain(g)
  BY <1>3, <1>6, <1>7 DEF Chain
<1> QED BY <1>3, <1>5, <1>6, <1>8, <1>9 DEF l, g

LEMMA ChainAppended ==
  ASSUME NEW h, Chain(h), NEW n, IsNode(n)
  PROVE  /\ Chain(Append(h, n)) /\ Len(Append(h, n)) = Len(h) + 1
         /\ Append(h, n)[Len(h) + 1] = n
         /\ \A k \in DOMAIN h : Append(h, n)[k] = h[k]
<1>1. /\ Len(h) \in Nat \ {0} /\ DOMAIN h = 1..Len(h) /\ h \in Seq(Range(h))
  BY ChainParts
<1> DEFINE T == Range(h) \cup {n}
           g == Append(h, n)
<1>2. h \in Seq(T) /\ n \in T
  BY <1>1, SeqMonotonic
<1>3. /\ g \in Seq(T) /\ g # <<>> /\ Len(g) = Len(h) + 1
      /\ \A i \in 1..Len(h) : g[i] = h[i]
      /\ g[Len(h) + 1] = n
  <2> HIDE DEF T
  <2> QED BY <1>2, AppendProperties
<1>4. g \in Seq(Range(g))
  BY <1>3, SeqOfRange
<1> QED BY <1>1, <1>3, <1>4 DEF Chain

\* u is t with the nodes of the function new.
Rewrites(t, u, new) ==
  /\ IsTree(u) /\ u.at = t.at /\ u.generation = t.generation
  /\ u.settled = t.settled
  /\ \A d \in Dirs :
       /\ Chain(u.heap[d]) /\ Len(u.heap[d]) = Len(t.heap[d]) /\ Current(u, d) = new[d]
       /\ \A k \in DOMAIN t.heap[d] : k < Len(t.heap[d]) => u.heap[d][k] = t.heap[d][k]
       /\ new[d] = Current(t, d) => u.heap[d] = t.heap[d]

LEMMA WrittenRewrites ==
  ASSUME NEW t, Formed(t), NEW new, \A d \in Dirs : IsNode(new[d])
  PROVE  Rewrites(t, Written(t, new), new)
<1> DEFINE u == Written(t, new)
           heap == [d \in Dirs |-> [t.heap[d] EXCEPT ![Len(t.heap[d])] = new[d]]]
<1>1. u = [t EXCEPT !.heap = heap]
  BY DEF Written
<1>2. IsTree(t)
  BY DEF Formed
<1> HIDE DEF heap, u
<1>3. /\ u.heap = heap /\ u.at = t.at /\ u.generation = t.generation
      /\ u.settled = t.settled /\ DOMAIN u = DOMAIN t
  BY <1>1, <1>2 DEF IsTree
<1>4. DOMAIN heap = Dirs
  BY DEF heap
<1>5. IsTree(u)
  BY <1>2, <1>3, <1>4 DEF IsTree
<1>6. ASSUME NEW d \in Dirs
      PROVE  /\ Chain(u.heap[d]) /\ Len(u.heap[d]) = Len(t.heap[d]) /\ Current(u, d) = new[d]
             /\ \A k \in DOMAIN t.heap[d] : k < Len(t.heap[d]) => u.heap[d][k] = t.heap[d][k]
             /\ new[d] = Current(t, d) => u.heap[d] = t.heap[d]
  <2>1. u.heap[d] = WithLast(t.heap[d], new[d])
    BY <1>3 DEF heap, WithLast
  <2>2. Chain(t.heap[d]) /\ IsNode(new[d])
    BY DEF Formed
  <2> QED BY <2>1, <2>2, ChainWritten DEF Current
<1> QED BY <1>3, <1>5, <1>6 DEF Rewrites, u

\* Shapes are told by names, states and the settled.
LEMMA SameShape ==
  ASSUME NEW t, NEW u, u.settled = t.settled,
         \A d \in Dirs :
           /\ Names(u, d) = Names(t, d)
           /\ u.at[d].index = t.at[d].index /\ u.at[d].cursor = t.at[d].cursor
           /\ u.at[d].remaining = t.at[d].remaining
           /\ u.at[d].scanned = t.at[d].scanned /\ u.at[d].live = t.at[d].live
  PROVE  Shape(u) = Shape(t)
<1>1. [d \in Dirs |-> Names(u, d)] = [d \in Dirs |-> Names(t, d)]
  OBVIOUS
<1>2. /\ [d \in Dirs |-> u.at[d].index] = [d \in Dirs |-> t.at[d].index]
      /\ [d \in Dirs |-> u.at[d].cursor] = [d \in Dirs |-> t.at[d].cursor]
      /\ [d \in Dirs |-> u.at[d].remaining] = [d \in Dirs |-> t.at[d].remaining]
  OBVIOUS
<1>3. /\ {d \in Dirs : u.at[d].scanned} = {d \in Dirs : t.at[d].scanned}
      /\ {d \in Dirs : u.at[d].live} = {d \in Dirs : t.at[d].live}
  OBVIOUS
<1> QED BY <1>1, <1>2, <1>3 DEF Shape

LEMMA RewritingKeepsStates ==
  ASSUME NEW t, Formed(t), NEW u, NEW new, Rewrites(t, u, new)
  PROVE  Formed(u) /\ Stales(u) = Stales(t)
BY DEF Formed, Rewrites, Stales

\* It is quiet if the names stay and those of an older generation, and the
\* settled ones, do.
LEMMA QuietRewriting ==
  ASSUME NEW t, Formed(t), NEW u, NEW new, Rewrites(t, u, new),
         \A d \in Dirs : NamesOf(new[d].kids) = Names(t, d),
         \A d \in Dirs : d \in Stales(t) \/ d \in t.settled => new[d] = Current(t, d)
  PROVE  Quiet(t, u)
<1>1. Formed(u) /\ Stales(u) = Stales(t)
  BY RewritingKeepsStates
<1>2. Shape(u) = Shape(t)
  <2>1. \A d \in Dirs : Names(u, d) = Names(t, d)
    BY DEF Names, Kids, Rewrites
  <2>2. u.at = t.at /\ u.settled = t.settled
    BY DEF Rewrites
  <2> QED BY <2>1, <2>2, SameShape
<1>3. ASSUME NEW d \in Dirs
      PROVE  /\ CarefulAt(t.heap[d], u.heap[d], d \in Stales(t), d \notin Stales(u))
             /\ d \in t.settled => u.heap[d] = t.heap[d]
  <2>1. /\ Len(u.heap[d]) = Len(t.heap[d])
        /\ \A k \in DOMAIN t.heap[d] : k < Len(t.heap[d]) => u.heap[d][k] = t.heap[d][k]
        /\ d \in Stales(t) \/ d \in t.settled => u.heap[d] = t.heap[d]
    BY DEF Rewrites
  <2>2. Len(t.heap[d]) \in Nat
    BY ChainParts DEF Formed
  <2>3. Len(t.heap[d]) <= Len(u.heap[d])
    BY <2>1, <2>2
  <2> QED BY <1>1, <2>1, <2>3 DEF CarefulAt
<1>4. Careful(t, u)
  BY <1>3 DEF Careful, Rewrites
<1> QED BY <1>1, <1>2, <1>4 DEF Quiet, Rewrites

LEMMA CarefulOn ==
  ASSUME NEW t, NEW u, NEW v, Formed(t), Formed(u), Formed(v), Careful(t, u), Careful(u, v)
  PROVE  Careful(t, v)
<1>1. ASSUME NEW d \in Dirs
      PROVE  CarefulAt(t.heap[d], v.heap[d], d \in Stales(t), d \notin Stales(v))
  <2> DEFINE h == t.heap[d]
             g == u.heap[d]
             f == v.heap[d]
  <2>1. /\ CarefulAt(h, g, d \in Stales(t), d \notin Stales(u))
        /\ CarefulAt(g, f, d \in Stales(u), d \notin Stales(v))
    BY DEF Careful
  <2>2. /\ Len(h) \in Nat /\ DOMAIN h = 1..Len(h) /\ Len(g) \in Nat /\ DOMAIN g = 1..Len(g)
        /\ Len(f) \in Nat
    BY ChainParts DEF Formed
  <2> HIDE DEF h, g, f
  <2>3. Len(h) <= Len(f)
    BY <2>1, <2>2 DEF CarefulAt
  <2>4. ASSUME NEW k \in DOMAIN h, k < Len(h) \/ d \in Stales(t) PROVE f[k] = h[k]
    <3>1. g[k] = h[k] /\ k \in DOMAIN g
      BY <2>1, <2>2, <2>4 DEF CarefulAt
    <3>2. k < Len(g) \/ d \in Stales(u)
      <4> SUFFICES ASSUME d \notin Stales(u) PROVE k < Len(g)
        OBVIOUS
      <4>1. CASE k < Len(h)
        BY <4>1, <2>1, <2>2 DEF CarefulAt
      <4>2. CASE d \in Stales(t)
        <5>1. Len(h) < Len(g)
          BY <4>2, <2>1 DEF CarefulAt
        <5> QED BY <5>1, <2>2
      <4> QED BY <4>1, <4>2, <2>4
    <3> QED BY <3>1, <3>2, <2>1 DEF CarefulAt
  <2>5. d \in Stales(t) /\ d \notin Stales(v) => Len(h) < Len(f)
    BY <2>1, <2>2 DEF CarefulAt
  <2>6. d \notin Stales(t) => d \notin Stales(v)
    BY <2>1 DEF CarefulAt
  <2> QED BY <2>3, <2>4, <2>5, <2>6 DEF CarefulAt, h, f
<1>2. \A d \in Dirs : d \in t.settled => v.heap[d] = t.heap[d]
  BY DEF Careful
<1> QED BY <1>1, <1>2 DEF Careful

LEMMA QuietOn ==
  ASSUME NEW t, NEW u, NEW v, Formed(t), Quiet(t, u), Quiet(u, v)
  PROVE  Quiet(t, v)
<1>1. Careful(t, v)
  BY CarefulOn DEF Quiet
<1> QED BY <1>1 DEF Quiet

-----------------------------------------------------------------------------
(* Copy on write does nothing but to objects.                              *)

LEMMA ShiftedNode ==
  ASSUME NEW n, IsNode(n), NEW by, NEW failed
  PROVE  IsNode(Shifted(n, by, failed)) /\ Shifted(n, by, failed).kids = n.kids
BY DEF IsNode, Shifted

LEMMA RecalculatedNode ==
  ASSUME NEW n, IsNode(n), NEW heap
  PROVE  IsNode(Recalculated(n, heap)) /\ Recalculated(n, heap).kids = n.kids
BY DEF IsNode, Recalculated

LEMMA KidsNode ==
  ASSUME NEW n, IsNode(n), NEW kids \in Seq(Entries \X Nat)
  PROVE  /\ IsNode([n EXCEPT !.kids = kids]) /\ [n EXCEPT !.kids = kids].kids = kids
         /\ kids = n.kids => [n EXCEPT !.kids = kids] = n
BY DEF IsNode

Active(t) == Out(Shape(t)) \ t.settled

Sound(t) == Formed(t) /\ ShapeSound(Shape(t)) /\ FreshUp(t)

LEMMA ShapeOf ==
  ASSUME NEW t, Formed(t)
  PROVE  /\ Shape(t).settled = t.settled /\ t.settled \subseteq Dirs
         /\ \A d \in Dirs :
              /\ Shape(t).names[d] = Names(t, d) /\ Shape(t).index[d] = t.at[d].index
              /\ Shape(t).cursor[d] = t.at[d].cursor
              /\ Shape(t).remaining[d] = t.at[d].remaining
              /\ d \in Shape(t).scanned <=> t.at[d].scanned
              /\ d \in Shape(t).live <=> t.at[d].live
BY DEF Shape, Formed, IsTree

LEMMA CurrentNode ==
  ASSUME NEW t, Formed(t), NEW d \in Dirs
  PROVE  /\ IsNode(Current(t, d)) /\ Kids(t, d) \in Seq(Entries \X Nat)
         /\ DOMAIN Names(t, d) = DOMAIN Kids(t, d)
         /\ \A i \in DOMAIN Kids(t, d) : Names(t, d)[i] = Kids(t, d)[i][1]
<1>1. IsNode(Current(t, d))
  BY DEF Formed, Chain, Current
<1>2. Kids(t, d) \in Seq(Entries \X Nat)
  BY <1>1 DEF IsNode, Kids
<1> QED BY <1>1, <1>2 DEF Names, NamesOf

LEMMA ActiveAbove ==
  ASSUME NEW t, Sound(t), NEW d \in Active(t)
  PROVE  Above[d] \subseteq Active(t) /\ d \in Dirs
<1>1. d \in Out(Shape(t)) \ Shape(t).settled
  BY ShapeOf DEF Active, Sound
<1>2. Above[d] \subseteq Out(Shape(t)) \ Shape(t).settled
  BY <1>1, UnsettledAbove DEF Sound
<1> QED BY <1>1, <1>2, ShapeOf DEF Active, Sound, Out

\* A directory in work stands in its parent's list where it says.
LEMMA PlaceOf ==
  ASSUME NEW t, Formed(t), ShapeSound(Shape(t)), NEW b \in Active(t) \ {Root}
  PROVE  /\ ParentOf(b) \in Active(t) /\ ParentOf(b) \in Dirs
         /\ t.at[b].index \in DOMAIN Kids(t, ParentOf(b))
         /\ Kids(t, ParentOf(b))[t.at[b].index][1] = b
<1> DEFINE p == ParentOf(b)
           sh == Shape(t)
<1>1. b \in Out(sh) \ sh.settled /\ b \in Dirs \ {Root} /\ p \in Dirs
  BY ShapeOf, ParentSound DEF Active, Out
<1>2. p \in Out(sh) \ sh.settled
  <2>1. p \in Above[b]
    BY <1>1, AboveItself, AboveStep
  <2> QED BY <1>1, <2>1, UnsettledAbove
<1>3. sh.index[b] \in 1..sh.cursor[p] /\ sh.names[p][sh.index[b]] = b
  BY <1>1, <1>2 DEF ShapeSound, IndexSound
<1>4. sh.names[p] \in Seq(Entries) /\ sh.cursor[p] \in 0..Len(sh.names[p])
  BY <1>1 DEF ShapeSound, NamesSound, NamesSoundAt, EntriesOf
<1> HIDE DEF sh, p
<1>5. sh.index[b] \in DOMAIN sh.names[p]
  BY <1>3, <1>4
<1>6. sh.index[b] = t.at[b].index /\ sh.names[p] = Names(t, p) /\ sh.settled = t.settled
  BY <1>1, ShapeOf DEF sh
<1>7. p \in Active(t)
  BY <1>2, <1>6 DEF Active, sh
<1>8. t.at[b].index \in DOMAIN Kids(t, p) /\ Kids(t, p)[t.at[b].index][1] = b
  BY <1>1, <1>3, <1>5, <1>6, CurrentNode
<1> QED BY <1>1, <1>7, <1>8 DEF p

LinkedKids(t, S, d) ==
  [i \in DOMAIN Kids(t, d) |->
     IF \E b \in Below(d, S) : t.at[b].index = i
     THEN Ref(t, CHOOSE b \in Below(d, S) : t.at[b].index = i)
     ELSE Kids(t, d)[i]]

LEMMA LinkedNames ==
  ASSUME NEW t, Formed(t), ShapeSound(Shape(t)), NEW S \in SUBSET Active(t), NEW d \in Dirs
  PROVE  /\ LinkedKids(t, S, d) \in Seq(Entries \X Nat)
         /\ NamesOf(LinkedKids(t, S, d)) = Names(t, d)
         /\ Below(d, S) = {} => LinkedKids(t, S, d) = Kids(t, d)
<1> DEFINE k == Kids(t, d)
           l == LinkedKids(t, S, d)
<1>1. k \in Seq(Entries \X Nat) /\ DOMAIN k = 1..Len(k) /\ Len(k) \in Nat
  BY CurrentNode
<1>2. ASSUME NEW i \in DOMAIN k
      PROVE  /\ l[i] \in Entries \X Nat /\ l[i][1] = k[i][1]
             /\ Below(d, S) = {} => l[i] = k[i]
  <2>1. CASE \E b \in Below(d, S) : t.at[b].index = i
    <3> DEFINE c == CHOOSE b \in Below(d, S) : t.at[b].index = i
    <3>1. c \in Below(d, S) /\ t.at[c].index = i
      BY <2>1
    <3> HIDE DEF c
    <3>2. c \in Active(t) \ {Root} /\ ParentOf(c) = d
      BY <3>1 DEF Below
    <3>3. k[i][1] = c
      BY <3>1, <3>2, PlaceOf
    <3>4. c \in Entries /\ c \in Dirs
      BY <3>2 DEF Entries, Active, Out
    <3>5. Len(t.heap[c]) \in Nat
      BY <3>4, ChainParts DEF Formed
    <3>6. l[i] = <<c, Len(t.heap[c])>>
      BY <2>1 DEF c, LinkedKids, Ref
    <3> QED BY <3>1, <3>3, <3>4, <3>5, <3>6
  <2>2. CASE ~\E b \in Below(d, S) : t.at[b].index = i
    <3>1. l[i] = k[i]
      BY <2>2 DEF LinkedKids
    <3> QED BY <3>1, <1>1
  <2> QED BY <2>1, <2>2
<1>3. DOMAIN l = 1..Len(k) /\ l = [i \in 1..Len(k) |-> l[i]]
  BY <1>1 DEF LinkedKids
<1>4. NamesOf(l) = Names(t, d)
  BY <1>1, <1>2, <1>3 DEF NamesOf, Names
<1>5. Below(d, S) = {} => l = k
  <2> SUFFICES ASSUME Below(d, S) = {} PROVE l = k
    OBVIOUS
  <2>1. k = [i \in 1..Len(k) |-> k[i]]
    BY <1>1
  <2> QED BY <2>1, <1>1, <1>2, <1>3
<1> HIDE DEF l
<1>6. l \in Seq(Entries \X Nat)
  BY <1>1, <1>2, <1>3
<1> QED BY <1>4, <1>5, <1>6 DEF l

LEMMA Linking ==
  ASSUME NEW t, Sound(t), NEW S \in SUBSET Active(t),
         \A b \in S \ {Root} : ParentOf(b) \notin Stales(t)
  PROVE  Quiet(t, Linked(t, S)) /\ Stales(Linked(t, S)) = Stales(t)
<1> DEFINE new == [d \in Dirs |-> [Current(t, d) EXCEPT !.kids = LinkedKids(t, S, d)]]
           u == Linked(t, S)
<1>1. u = Written(t, new)
  BY DEF Linked, LinkedKids, Kids
<1>2. ASSUME NEW d \in Dirs
      PROVE  /\ IsNode(new[d]) /\ NamesOf(new[d].kids) = Names(t, d)
             /\ Below(d, S) = {} => new[d] = Current(t, d)
  <2>1. IsNode(Current(t, d))
    BY CurrentNode DEF Sound
  <2>2. /\ LinkedKids(t, S, d) \in Seq(Entries \X Nat)
        /\ NamesOf(LinkedKids(t, S, d)) = Names(t, d)
        /\ Below(d, S) = {} => LinkedKids(t, S, d) = Current(t, d).kids
    BY LinkedNames DEF Sound, Kids
  <2>3. new[d] = [Current(t, d) EXCEPT !.kids = LinkedKids(t, S, d)]
    OBVIOUS
  <2> DEFINE n == Current(t, d)
             l == LinkedKids(t, S, d)
  <2> HIDE DEF new, n, l
  <2>4. /\ IsNode([n EXCEPT !.kids = l]) /\ [n EXCEPT !.kids = l].kids = l
        /\ l = n.kids => [n EXCEPT !.kids = l] = n
    BY <2>1, <2>2, KidsNode DEF n, l
  <2> QED BY <2>2, <2>3, <2>4 DEF n, l
<1> HIDE DEF new
<1>3. Rewrites(t, u, new)
  BY <1>1, <1>2, WrittenRewrites DEF Sound
<1>4. ASSUME NEW d \in Dirs, d \in Stales(t) \/ d \in t.settled
      PROVE  new[d] = Current(t, d)
  <2>1. ASSUME NEW b \in Below(d, S) PROVE FALSE
    <3>1. b \in S \ {Root} /\ ParentOf(b) = d /\ b \in Active(t) \ {Root}
      BY DEF Below
    <3>2. d \notin Stales(t)
      BY <3>1
    <3>3. d \in Active(t)
      BY <3>1, PlaceOf DEF Sound
    <3> QED BY <3>2, <3>3, <1>4 DEF Active
  <2> QED BY <2>1, <1>2
<1> HIDE DEF u
<1>5. Quiet(t, u)
  BY <1>2, <1>3, <1>4, QuietRewriting DEF Sound
<1>6. Stales(u) = Stales(t)
  BY <1>3, RewritingKeepsStates DEF Sound
<1> QED BY <1>5, <1>6 DEF u

\* What is added to the lists of the objects of those in S is theirs alone.
Adds(t, u, S, new) ==
  /\ IsTree(u) /\ u.generation = t.generation /\ u.settled = t.settled
  /\ \A d \in Dirs : u.heap[d] = IF d \in S THEN Append(t.heap[d], new[d]) ELSE t.heap[d]
  /\ \A d \in Dirs :
       /\ IsState(u.at[d]) /\ u.at[d].settled = t.at[d].settled
       /\ u.at[d].gen = IF d \in S THEN t.generation ELSE t.at[d].gen

LEMMA Adding ==
  ASSUME NEW t, Formed(t), NEW u, NEW S \in SUBSET (Dirs \ t.settled), NEW new,
         \A d \in S : IsNode(new[d]), Adds(t, u, S, new)
  PROVE  /\ Formed(u) /\ Careful(t, u) /\ Stales(u) = Stales(t) \ S
         /\ \A d \in Dirs : Current(u, d) = IF d \in S THEN new[d] ELSE Current(t, d)
<1>1. ASSUME NEW d \in Dirs
      PROVE  /\ Chain(u.heap[d]) /\ Len(t.heap[d]) <= Len(u.heap[d])
             /\ \A k \in DOMAIN t.heap[d] : u.heap[d][k] = t.heap[d][k]
             /\ d \in S => Len(t.heap[d]) < Len(u.heap[d])
             /\ d \notin S => u.heap[d] = t.heap[d]
             /\ Current(u, d) = IF d \in S THEN new[d] ELSE Current(t, d)
  <2>1. Chain(t.heap[d]) /\ Len(t.heap[d]) \in Nat
    BY ChainParts DEF Formed
  <2>2. CASE d \notin S
    <3>1. u.heap[d] = t.heap[d]
      BY <2>2 DEF Adds
    <3> QED BY <2>1, <2>2, <3>1 DEF Current
  <2>3. CASE d \in S
    <3>1. u.heap[d] = Append(t.heap[d], new[d]) /\ IsNode(new[d])
      BY <2>3 DEF Adds
    <3>2. /\ Chain(u.heap[d]) /\ Len(u.heap[d]) = Len(t.heap[d]) + 1
          /\ u.heap[d][Len(t.heap[d]) + 1] = new[d]
          /\ \A k \in DOMAIN t.heap[d] : u.heap[d][k] = t.heap[d][k]
      BY <2>1, <3>1, ChainAppended
    <3> QED BY <2>1, <2>3, <3>2 DEF Current
  <2> QED BY <2>2, <2>3
<1>2. /\ IsTree(u) /\ u.generation = t.generation /\ u.settled = t.settled
      /\ \A d \in Dirs :
           /\ IsState(u.at[d]) /\ u.at[d].settled = t.at[d].settled
           /\ u.at[d].gen = IF d \in S THEN t.generation ELSE t.at[d].gen
  BY DEF Adds
<1>3. t.generation \in Nat
  BY DEF Formed, IsTree
<1>4. Formed(u)
  <2>1. ASSUME NEW d \in Dirs
        PROVE  u.at[d].gen <= u.generation /\ u.at[d].settled = (d \in u.settled)
    BY <1>2, <1>3 DEF Formed
  <2> QED BY <1>1, <1>2, <2>1 DEF Formed
<1>5. Stales(u) = Stales(t) \ S
  BY <1>2 DEF Stales
<1>6. ASSUME NEW d \in Dirs
      PROVE  /\ CarefulAt(t.heap[d], u.heap[d], d \in Stales(t), d \notin Stales(u))
             /\ d \in t.settled => u.heap[d] = t.heap[d]
  <2>1. d \in Stales(t) /\ d \notin Stales(u) => d \in S
    BY <1>5
  <2>2. d \notin Stales(t) => d \notin Stales(u)
    BY <1>5
  <2>3. d \in t.settled => u.heap[d] = t.heap[d]
    BY <1>1
  <2> QED BY <1>1, <2>1, <2>2, <2>3 DEF CarefulAt
<1>7. Careful(t, u)
  BY <1>2, <1>6 DEF Careful
<1> QED BY <1>1, <1>4, <1>5, <1>7

LEMMA QuietActive ==
  ASSUME NEW t, NEW u, Quiet(t, u)
  PROVE  Active(u) = Active(t)
BY DEF Quiet, Active

\* The copies, before they are put into the lists of their parents.
Copied(t, S) ==
  [t EXCEPT
    !.heap = [d \in Dirs |-> IF d \in S THEN Append(t.heap[d], Current(t, d)) ELSE t.heap[d]],
    !.at   = [d \in Dirs |-> IF d \in S THEN [t.at[d] EXCEPT !.gen = t.generation]
                             ELSE t.at[d]]]

LEMMA Copying ==
  ASSUME NEW t, Sound(t), NEW S \in SUBSET Active(t)
  PROVE  /\ Quiet(t, Copied(t, S)) /\ Stales(Copied(t, S)) = Stales(t) \ S
         /\ \A d \in Dirs : /\ Current(Copied(t, S), d) = Current(t, d)
                            /\ Copied(t, S).heap[d] = IF d \in S THEN Append(t.heap[d], Current(t, d))
                                                      ELSE t.heap[d]
         /\ Copied(t, S).changed = t.changed
<1> DEFINE new == [d \in Dirs |-> Current(t, d)]
           heap == [d \in Dirs |-> IF d \in S THEN Append(t.heap[d], Current(t, d)) ELSE t.heap[d]]
           at == [d \in Dirs |-> IF d \in S THEN [t.at[d] EXCEPT !.gen = t.generation]
                                 ELSE t.at[d]]
           u == Copied(t, S)
<1>1. IsTree(t) /\ S \subseteq Dirs \ t.settled /\ t.generation \in Int
  BY DEF Sound, Formed, Active, Out, IsTree
<1>2. DOMAIN heap = Dirs /\ DOMAIN at = Dirs
  OBVIOUS
<1>3. ASSUME NEW d \in Dirs
      PROVE  /\ heap[d] = IF d \in S THEN Append(t.heap[d], new[d]) ELSE t.heap[d]
             /\ IsState(at[d]) /\ at[d].settled = t.at[d].settled
             /\ at[d].gen = IF d \in S THEN t.generation ELSE t.at[d].gen
             /\ at[d].index = t.at[d].index /\ at[d].cursor = t.at[d].cursor
             /\ at[d].remaining = t.at[d].remaining
             /\ at[d].scanned = t.at[d].scanned /\ at[d].live = t.at[d].live
  <2>1. heap[d] = IF d \in S THEN Append(t.heap[d], new[d]) ELSE t.heap[d]
    OBVIOUS
  <2>2. at[d] = IF d \in S THEN [t.at[d] EXCEPT !.gen = t.generation] ELSE t.at[d]
    OBVIOUS
  <2>3. IsState(t.at[d])
    BY DEF Sound, Formed
  <2> HIDE DEF heap, at, new
  <2> QED BY <1>1, <2>1, <2>2, <2>3 DEF IsState
<1>4. u = [t EXCEPT !.heap = heap, !.at = at]
  BY DEF Copied
<1> HIDE DEF heap, at, u
<1>5. /\ u.heap = heap /\ u.at = at /\ u.generation = t.generation /\ u.settled = t.settled
      /\ DOMAIN u = DOMAIN t /\ u.changed = t.changed
  BY <1>1, <1>4 DEF IsTree
<1>6. Adds(t, u, S, new)
  BY <1>1, <1>2, <1>3, <1>5 DEF Adds, IsTree
<1>7. \A d \in S : IsNode(new[d])
  BY <1>1, CurrentNode DEF Sound
<1>8. /\ Formed(u) /\ Careful(t, u) /\ Stales(u) = Stales(t) \ S
      /\ \A d \in Dirs : Current(u, d) = IF d \in S THEN new[d] ELSE Current(t, d)
  <2>1. Formed(t) /\ S \in SUBSET (Dirs \ t.settled)
    BY <1>1 DEF Sound
  <2> HIDE DEF new
  <2>2. Formed(u) /\ Careful(t, u) /\ Stales(u) = Stales(t) \ S
    BY ONLY <2>1, <1>6, <1>7, Adding
  <2>3. \A d \in Dirs : Current(u, d) = IF d \in S THEN new[d] ELSE Current(t, d)
    BY ONLY <2>1, <1>6, <1>7, Adding
  <2> QED BY <2>2, <2>3
<1>9. Shape(u) = Shape(t)
  <2>1. \A d \in Dirs : Names(u, d) = Names(t, d)
    BY <1>8 DEF Names, Kids
  <2> QED BY <2>1, <1>3, <1>5, SameShape
<1>10. Quiet(t, u)
  BY <1>5, <1>8, <1>9 DEF Quiet
<1>11. \A d \in Dirs : Current(u, d) = Current(t, d)
  BY <1>8
<1> QED BY <1>3, <1>5, <1>8, <1>10, <1>11 DEF u

LEMMA Cloning ==
  ASSUME NEW t, Sound(t), NEW S \in SUBSET Active(t),
         \A b \in Active(t) \ {Root} : b \in S => ParentOf(b) \in S \/ ParentOf(b) \notin Stales(t)
  PROVE  /\ Quiet(t, Cloned(t, S)) /\ Sound(Cloned(t, S))
         /\ Stales(Cloned(t, S)) = Stales(t) \ S
<1> DEFINE u == Copied(t, S)
<1>1. Quiet(t, u) /\ Stales(u) = Stales(t) \ S
  BY Copying
<1>2. Cloned(t, S) = Linked(u, S)
  BY DEF Cloned, Copied
<1> HIDE DEF u
<1>3. Formed(u) /\ Shape(u) = Shape(t) /\ Active(u) = Active(t)
  BY <1>1, QuietActive DEF Quiet
<1>4. ASSUME NEW b \in S \ {Root} PROVE ParentOf(b) \notin Stales(u)
  BY <1>1
<1>5. FreshUp(u)
  <2>1. ASSUME NEW d \in Out(Shape(t)) \ {Root}, d \notin Stales(u)
        PROVE  ParentOf(d) \notin Stales(u)
    <3>1. CASE d \in S
      BY <3>1, <1>4
    <3>2. CASE d \notin S
      <4>1. ParentOf(d) \notin Stales(t)
        BY <2>1, <3>2, <1>1 DEF Sound, FreshUp
      <4> QED BY <4>1, <1>1
    <3> QED BY <3>1, <3>2
  <2> QED BY <2>1, <1>3 DEF FreshUp
<1>6. Sound(u)
  BY <1>3, <1>5 DEF Sound
<1>7. Quiet(u, Linked(u, S)) /\ Stales(Linked(u, S)) = Stales(u)
  <2>1. S \in SUBSET Active(u)
    BY <1>3
  <2> QED BY <2>1, <1>4, <1>6, Linking
<1>8. Quiet(t, Linked(u, S))
  BY <1>1, <1>7, QuietOn DEF Sound
<1>9. Sound(Linked(u, S))
  <2>1. Formed(Linked(u, S)) /\ Shape(Linked(u, S)) = Shape(u)
    BY <1>7 DEF Quiet
  <2> QED BY <2>1, <1>6, <1>7 DEF Sound, FreshUp
<1> QED BY <1>1, <1>2, <1>7, <1>8, <1>9

LEMMA QuietItself ==
  ASSUME NEW t, Formed(t)
  PROVE  Quiet(t, t)
<1>1. \A d \in Dirs : Len(t.heap[d]) \in Nat
  BY ChainParts DEF Formed
<1> QED BY <1>1 DEF Quiet, Careful, CarefulAt

LEMMA FreshAbove ==
  ASSUME NEW t, Sound(t), NEW d \in Active(t), d \notin Stales(t)
  PROVE  Above[d] \cap Stales(t) = {}
<1> DEFINE S == Active(t) \ Stales(t)
<1>1. S \in SUBSET Dirs /\ d \in S /\ d \in Dirs
  BY DEF Active, Out
<1>2. ASSUME NEW b \in S \ {Root} PROVE ParentOf(b) \in S
  BY PlaceOf DEF Sound, FreshUp, Active
<1>3. Above[d] \subseteq S
  BY <1>1, <1>2, AboveLeast
<1> QED BY <1>3

\* The current nodes from d up may be written.
Writable(t, d) == Above[d] \cap Stales(t) = {}

LEMMA Ensuring ==
  ASSUME NEW t, Sound(t), NEW d \in Active(t)
  PROVE  /\ Quiet(t, EnsureMutable(t, d)) /\ Sound(EnsureMutable(t, d))
         /\ Writable(EnsureMutable(t, d), d)
         /\ Stales(EnsureMutable(t, d)) \subseteq Stales(t)
<1> DEFINE S == AboveWhile(d, Stales(t))
<1>1. Above[d] \subseteq Active(t) /\ d \in Dirs
  BY ActiveAbove
<1>2. S \subseteq Above[d] /\ S \subseteq Stales(t)
  BY <1>1, WhileSound
<1>3. ASSUME NEW a \in Above[d], a \notin S PROVE a \notin Stales(t)
  <2>1. PICK b \in Above[d] : a \in Above[b] /\ b \notin Stales(t)
    BY <1>3 DEF AboveWhile
  <2>2. Above[b] \cap Stales(t) = {}
    BY <2>1, <1>1, FreshAbove
  <2> QED BY <2>1, <2>2
<1>4. ASSUME NEW b \in S, b # Root PROVE ParentOf(b) \in S \/ ParentOf(b) \notin Stales(t)
  BY <1>1, <1>2, <1>3, <1>4, AboveStep
<1> HIDE DEF S
<1>5. /\ Quiet(t, Cloned(t, S)) /\ Sound(Cloned(t, S))
      /\ Stales(Cloned(t, S)) = Stales(t) \ S
  BY <1>1, <1>2, <1>4, Cloning
<1>6. EnsureMutable(t, d) = Cloned(t, S)
  BY DEF EnsureMutable, S
<1>7. Writable(Cloned(t, S), d)
  BY <1>3, <1>5 DEF Writable
<1> QED BY <1>5, <1>6, <1>7

LEMMA QuietSound ==
  ASSUME NEW t, Sound(t), NEW u, Quiet(t, u), Stales(u) = Stales(t)
  PROVE  Sound(u)
<1>1. Formed(u) /\ Shape(u) = Shape(t)
  BY DEF Quiet
<1> QED BY <1>1 DEF Sound, FreshUp

LEMMA Raising ==
  ASSUME NEW t, Sound(t), NEW up \in Active(t), Writable(t, up),
         NEW parent, IsNode(parent), parent.kids = Kids(t, up), NEW above
  PROVE  /\ Quiet(t, Raised(t, up, parent, above))
         /\ Stales(Raised(t, up, parent, above)) = Stales(t)
<1> DEFINE new == [a \in Dirs |-> IF a = up THEN parent
                     ELSE IF a \in Above[up] THEN Shifted(Current(t, a), above, 0)
                     ELSE Current(t, a)]
           u == Raised(t, up, parent, above)
<1>1. u = Written(t, new)
  BY DEF Raised
<1>2. up \in Dirs /\ up \in Above[up] /\ Above[up] \subseteq Active(t)
  BY ActiveAbove, AboveItself
<1>3. ASSUME NEW d \in Dirs
      PROVE  /\ IsNode(new[d]) /\ NamesOf(new[d].kids) = Names(t, d)
             /\ d \notin Above[up] => new[d] = Current(t, d)
  <2>1. IsNode(Current(t, d)) /\ NamesOf(Current(t, d).kids) = Names(t, d)
    BY CurrentNode DEF Sound, Names, Kids
  <2>2. /\ IsNode(Shifted(Current(t, d), above, 0))
        /\ Shifted(Current(t, d), above, 0).kids = Current(t, d).kids
    BY <2>1, ShiftedNode
  <2>3. new[d] = IF d = up THEN parent
                 ELSE IF d \in Above[up] THEN Shifted(Current(t, d), above, 0)
                 ELSE Current(t, d)
    OBVIOUS
  <2> HIDE DEF new
  <2> QED BY <2>1, <2>2, <2>3, <1>2 DEF Kids
<1> HIDE DEF new, u
<1>4. Rewrites(t, u, new)
  BY <1>1, <1>3, WrittenRewrites DEF Sound
<1>5. ASSUME NEW d \in Dirs, d \in Stales(t) \/ d \in t.settled
      PROVE  new[d] = Current(t, d)
  <2>1. d \notin Above[up]
    BY <1>2, <1>5 DEF Writable, Active
  <2> QED BY <2>1, <1>3
<1>6. Quiet(t, u)
  BY <1>3, <1>4, <1>5, QuietRewriting DEF Sound
<1>7. Stales(u) = Stales(t)
  BY <1>4, RewritingKeepsStates DEF Sound
<1> QED BY <1>6, <1>7 DEF u

\* What a step that is quiet leaves one to go on with.
Calm(t, u) == Quiet(t, u) /\ Sound(u) /\ Stales(u) \subseteq Stales(t)

LEMMA CalmOn ==
  ASSUME NEW t, NEW u, NEW v, Sound(t), Calm(t, u), Calm(u, v)
  PROVE  Calm(t, v)
<1>1. Quiet(t, v)
  BY QuietOn DEF Calm, Sound
<1> QED BY <1>1 DEF Calm

LEMMA CalmWritable ==
  ASSUME NEW t, NEW u, Calm(t, u), NEW d, Writable(t, d)
  PROVE  Writable(u, d)
BY DEF Calm, Writable

LEMMA Propagating ==
  ASSUME NEW t, Sound(t), NEW d \in Active(t), NEW before
  PROVE  Calm(t, Propagate(t, d, before))
<1>1. CASE d = Root
  <2>1. Propagate(t, d, before) = t
    BY <1>1 DEF Propagate
  <2> QED BY <2>1, QuietItself DEF Calm, Sound
<1>2. CASE d # Root
  <2> DEFINE after  == Contribution(Current(t, d))
             by     == [f \in DOMAIN after |-> after[f] - before[f]]
             up     == ParentOf(d)
             made   == EnsureMutable(t, up)
             linked == Linked(made, {d})
             parent == Shifted(Current(linked, up), by, by.failed)
             turn   == Flag(IsPartial(parent)) - Flag(IsPartial(Current(linked, up)))
             above  == [by EXCEPT !.partial = @ + turn]
  <2>1. up \in Active(t)
    BY <1>2, PlaceOf DEF Sound
  <2>2. Quiet(t, made) /\ Sound(made) /\ Writable(made, up) /\ Stales(made) \subseteq Stales(t)
    <3> HIDE DEF up
    <3> QED BY <2>1, Ensuring
  <2>3. Propagate(t, d, before) = linked
        \/ Propagate(t, d, before) = Raised(linked, up, parent, above)
    BY <1>2 DEF Propagate
  <2> HIDE DEF made, above
  <2>4. Active(made) = Active(t)
    BY <2>2, QuietActive
  <2>5. Quiet(made, linked) /\ Stales(linked) = Stales(made)
    <3>1. up \in Above[up]
      BY <2>1, AboveItself DEF Active, Out
    <3>2. {d} \in SUBSET Active(made) /\ up \notin Stales(made)
      BY <2>2, <2>4, <3>1 DEF Writable
    <3>3. \A b \in {d} \ {Root} : ParentOf(b) \notin Stales(made)
      BY <3>2
    <3> QED BY <2>2, <3>2, <3>3, Linking
  <2> HIDE DEF linked, parent
  <2>6. Sound(linked) /\ Active(linked) = Active(t)
    BY <2>2, <2>4, <2>5, QuietSound, QuietActive
  <2>7. Calm(t, linked)
    <3>1. Calm(t, made) /\ Calm(made, linked)
      BY <2>2, <2>5, <2>6 DEF Calm
    <3> QED BY <3>1, CalmOn
  <2>8. IsNode(parent) /\ parent.kids = Kids(linked, up)
    <3>1. IsNode(Current(linked, up))
      BY <2>1, <2>6, CurrentNode DEF Sound, Active, Out
    <3> QED BY <3>1, ShiftedNode DEF parent, Kids
  <2>9. Writable(linked, up)
    BY <2>2, <2>5 DEF Writable
  <2> HIDE DEF up
  <2>10. /\ Quiet(linked, Raised(linked, up, parent, above))
         /\ Stales(Raised(linked, up, parent, above)) = Stales(linked)
    BY <2>1, <2>6, <2>8, <2>9, Raising
  <2>11. Calm(linked, Raised(linked, up, parent, above))
    BY <2>6, <2>10, QuietSound DEF Calm
  <2>12. Calm(t, Raised(linked, up, parent, above))
    BY <2>7, <2>11, CalmOn
  <2> QED BY <2>3, <2>7, <2>12
<1> QED BY <1>1, <1>2

\* t and u differ in nothing a tree is judged by.
LEMMA Alike ==
  ASSUME NEW t, Sound(t), NEW u, IsTree(u), u.heap = t.heap, u.at = t.at,
         u.generation = t.generation, u.settled = t.settled
  PROVE  Calm(t, u)
<1>1. \A d \in Dirs : Current(u, d) = Current(t, d)
  BY DEF Current
<1>2. Stales(u) = Stales(t)
  BY DEF Stales
<1>3. Shape(u) = Shape(t)
  BY <1>1, SameShape DEF Names, Kids
<1>4. Formed(u)
  BY DEF Formed, Sound
<1>5. \A d \in Dirs : Len(t.heap[d]) \in Nat
  BY ChainParts DEF Formed, Sound
<1>6. Careful(t, u)
  BY <1>2, <1>5 DEF Careful, CarefulAt
<1>7. Quiet(t, u)
  BY <1>3, <1>4, <1>6 DEF Quiet
<1> QED BY <1>2, <1>7, QuietSound DEF Calm

LEMMA Recording ==
  ASSUME NEW t, Sound(t), NEW d
  PROVE  Calm(t, RecordChanged(t, d))
<1> DEFINE u == RecordChanged(t, d)
<1>1. /\ u.heap = t.heap /\ u.at = t.at /\ u.generation = t.generation
      /\ u.settled = t.settled /\ DOMAIN u = DOMAIN t
  BY DEF RecordChanged, Recorded, Sound, Formed, IsTree
<1>2. IsTree(u)
  BY <1>1 DEF Sound, Formed, IsTree
<1> HIDE DEF u
<1>3. Calm(t, u)
  BY <1>1, <1>2, Alike
<1> QED BY <1>3 DEF u

-----------------------------------------------------------------------------
(* What chunks and results do to the tree.                                 *)

\* What u has more objects of than t are those in N; the table is the same.
Lengthens(t, u, N) ==
  /\ u.changed = t.changed
  /\ \A d \in Dirs : IF d \in N THEN Len(u.heap[d]) > Len(t.heap[d])
                     ELSE Len(u.heap[d]) = Len(t.heap[d])

\* At most d's node and what its state says of it are others.
Alters(t, u, d) ==
  /\ IsTree(u) /\ u.generation = t.generation /\ u.settled = t.settled
  /\ \A e \in Dirs \ {d} : u.heap[e] = t.heap[e] /\ u.at[e] = t.at[e]
  /\ Chain(u.heap[d]) /\ CarefulAt(t.heap[d], u.heap[d], FALSE, TRUE)
  /\ IsState(u.at[d]) /\ u.at[d].settled = t.at[d].settled
  /\ u.at[d].gen = t.generation
  /\ u.at[d].index = t.at[d].index /\ u.at[d].cursor = t.at[d].cursor
  /\ u.at[d].live = t.at[d].live

LEMMA Altering ==
  ASSUME NEW t, Sound(t), NEW d \in Active(t), Writable(t, d), NEW u, Alters(t, u, d)
  PROVE  /\ Formed(u) /\ Careful(t, u) /\ Stales(u) = Stales(t)
         /\ \A e \in Dirs \ {d} : Names(u, e) = Names(t, e)
<1>1. d \in Dirs /\ d \notin Stales(t) /\ d \notin t.settled
  BY AboveItself DEF Active, Out, Writable
<1>2. t.generation \in Nat
  BY DEF Sound, Formed, IsTree
<1>3. Formed(u)
  <2>1. ASSUME NEW e \in Dirs
        PROVE  /\ Chain(u.heap[e]) /\ IsState(u.at[e]) /\ u.at[e].gen <= u.generation
               /\ u.at[e].settled = (e \in u.settled)
    <3>1. CASE e = d
      BY <3>1, <1>2 DEF Alters, Sound, Formed
    <3>2. CASE e # d
      BY <3>2 DEF Alters, Sound, Formed
    <3> QED BY <3>1, <3>2
  <2> QED BY <2>1 DEF Formed, Alters
<1>4. Stales(u) = Stales(t)
  <2>1. \A e \in Dirs : e \in Stales(u) <=> e \in Stales(t)
    BY <1>1 DEF Alters, Stales
  <2> QED BY <2>1 DEF Stales
<1>5. ASSUME NEW e \in Dirs
      PROVE  /\ CarefulAt(t.heap[e], u.heap[e], e \in Stales(t), e \notin Stales(u))
             /\ e \in t.settled => u.heap[e] = t.heap[e]
  <2>1. CASE e = d
    <3>1. CarefulAt(t.heap[d], u.heap[d], FALSE, TRUE)
      BY DEF Alters
    <3> QED BY <2>1, <3>1, <1>1, <1>4 DEF CarefulAt
  <2>2. CASE e # d
    <3>1. u.heap[e] = t.heap[e] /\ Len(t.heap[e]) \in Nat
      BY <2>2, ChainParts DEF Alters, Sound, Formed
    <3> QED BY <3>1, <1>4 DEF CarefulAt
  <2> QED BY <2>1, <2>2
<1>6. Careful(t, u)
  BY <1>5 DEF Careful, Alters
<1>7. \A e \in Dirs \ {d} : Names(u, e) = Names(t, e)
  BY DEF Alters, Names, Kids, Current
<1> QED BY <1>3, <1>4, <1>6, <1>7

\* If d's names grow, its shape does.
LEMMA AlteringGrows ==
  ASSUME NEW t, Sound(t), NEW d \in Active(t), Writable(t, d), NEW u, Alters(t, u, d),
         NEW l, Names(u, d) = Names(t, d) \o l, u.at[d].scanned = t.at[d].scanned,
         u.at[d].remaining = t.at[d].remaining + Cardinality(Range(l) \cap Dirs)
  PROVE  Grows(Shape(t), Shape(u), d, l)
<1>1. d \in Dirs
  BY DEF Active, Out
<1>2. /\ Formed(u) /\ \A e \in Dirs \ {d} : Names(u, e) = Names(t, e)
  BY Altering
<1>3. ASSUME NEW e \in Dirs
      PROVE  /\ u.at[e].index = t.at[e].index /\ u.at[e].cursor = t.at[e].cursor
             /\ u.at[e].live = t.at[e].live /\ u.at[e].scanned = t.at[e].scanned
             /\ e # d => u.at[e].remaining = t.at[e].remaining
  BY DEF Alters
<1>4. Shape(u).settled = Shape(t).settled
  BY ShapeOf, <1>2 DEF Alters, Sound
<1>5. Agree(Shape(t), Shape(u), {d})
  <2>1. ASSUME NEW e \in Dirs \ {d}
        PROVE  /\ Shape(u).names[e] = Shape(t).names[e]
               /\ Shape(u).cursor[e] = Shape(t).cursor[e]
               /\ Shape(u).remaining[e] = Shape(t).remaining[e]
    BY <1>2, <1>3, ShapeOf DEF Sound
  <2> QED BY <2>1, <1>4 DEF Agree
<1>6. /\ Shape(u).index = Shape(t).index /\ Shape(u).live = Shape(t).live
      /\ Shape(u).scanned = Shape(t).scanned
  BY <1>3 DEF Shape
<1>7. /\ Shape(u).names[d] = Shape(t).names[d] \o l /\ Shape(u).cursor[d] = Shape(t).cursor[d]
      /\ Shape(u).remaining[d] = Shape(t).remaining[d] + Cardinality(Range(l) \cap Dirs)
  BY <1>1, <1>2, <1>3, ShapeOf DEF Sound
<1> QED BY <1>5, <1>6, <1>7 DEF Grows

LEMMA AlteringFresh ==
  ASSUME NEW t, Sound(t), NEW d \in Active(t), Writable(t, d), NEW u, Alters(t, u, d),
         ShapeSound(Shape(u)), Out(Shape(u)) = Out(Shape(t))
  PROVE  Sound(u) /\ Careful(t, u) /\ Active(u) = Active(t) /\ Writable(u, d)
<1>1. Formed(u) /\ Careful(t, u) /\ Stales(u) = Stales(t)
  BY Altering
<1>2. FreshUp(u)
  BY <1>1 DEF FreshUp, Sound
<1> QED BY <1>1, <1>2 DEF Sound, Active, Alters, Writable

\* The chunk's entries are found.
LEMMA FoundInOrder ==
  ASSUME NEW d, NEW s, EntriesOf(d, s)
  PROVE  /\ EntriesOf(d, Listed(s)) /\ NamesOf(Refs(s)) = Listed(s)
         /\ Refs(s) \in Seq(Entries \X Nat)
         /\ Range(Listed(s)) \subseteq Range(s)
         /\ CountIn(s, Dirs) = Cardinality(Range(Listed(s)) \cap Dirs)
         /\ CountIn(s, Dirs) \in Nat
<1>1. EntriesOf(d, Listed(s)) /\ Range(Listed(s)) = Range(s) \ Locked
  BY ListedSound
<1>2. /\ Refs(s) \in Seq(Entries \X Nat) /\ Len(Refs(s)) = Len(Listed(s))
      /\ \A i \in 1..Len(Listed(s)) : Refs(s)[i][1] = Listed(s)[i]
  BY RefsSound
<1>3. /\ IsFiniteSet(Range(s) \cap Dirs)
      /\ CountIn(s, Dirs) = Cardinality(Range(s) \cap Dirs)
  BY CountInCounts
<1>4. Range(Listed(s)) \cap Dirs = Range(s) \cap Dirs
  BY <1>1, TreeAssumption DEF TreeAssumption
<1>5. CountIn(s, Dirs) \in Nat
  BY <1>3, FS_CardinalityType
<1>6. NamesOf(Refs(s)) = Listed(s)
  <2>1. Listed(s) = [i \in 1..Len(Listed(s)) |-> Listed(s)[i]]
    BY <1>1 DEF EntriesOf
  <2>2. DOMAIN Refs(s) = 1..Len(Listed(s))
    BY <1>2
  <2> QED BY <2>1, <2>2, <1>2 DEF NamesOf
<1> QED BY <1>1, <1>2, <1>3, <1>4, <1>5, <1>6

LEMMA NamesOfBoth ==
  ASSUME NEW k \in Seq(Entries \X Nat), NEW l \in Seq(Entries \X Nat)
  PROVE  k \o l \in Seq(Entries \X Nat) /\ NamesOf(k \o l) = NamesOf(k) \o NamesOf(l)
<1>1. /\ k \o l \in Seq(Entries \X Nat) /\ DOMAIN (k \o l) = 1..(Len(k) + Len(l))
      /\ Len(k) \in Nat /\ Len(l) \in Nat /\ DOMAIN k = 1..Len(k) /\ DOMAIN l = 1..Len(l)
      /\ \A i \in 1..(Len(k) + Len(l)) :
           (k \o l)[i] = IF i <= Len(k) THEN k[i] ELSE l[i - Len(k)]
  BY ConcatProperties, LenProperties
<1>2. /\ NamesOf(k) \in Seq(Entries) /\ Len(NamesOf(k)) = Len(k)
      /\ NamesOf(l) \in Seq(Entries) /\ Len(NamesOf(l)) = Len(l)
  BY <1>1 DEF NamesOf
<1> DEFINE p == NamesOf(k)
           q == NamesOf(l)
           f == p \o q
           g == NamesOf(k \o l)
           n == Len(k) + Len(l)
<1> HIDE DEF p, q
<1>3. /\ p \in Seq(Entries) /\ q \in Seq(Entries) /\ Len(p) = Len(k) /\ Len(q) = Len(l)
  BY <1>2 DEF p, q
<1>9. /\ f \in Seq(Entries) /\ Len(f) = n
      /\ \A i \in 1..n : f[i] = IF i <= Len(k) THEN p[i] ELSE q[i - Len(k)]
  <2>1. /\ f \in Seq(Entries) /\ Len(f) = Len(p) + Len(q)
        /\ \A i \in 1..(Len(p) + Len(q)) :
             f[i] = IF i <= Len(p) THEN p[i] ELSE q[i - Len(p)]
    BY ONLY <1>3, ConcatProperties
  <2> HIDE DEF f
  <2> QED BY <2>1, <1>3
<1>4. ASSUME NEW i \in 1..(Len(k) + Len(l))
      PROVE  g[i] = f[i]
  <2>1. g[i] = (k \o l)[i][1]
    BY <1>1 DEF NamesOf
  <2>2. CASE i <= Len(k)
    <3>1. i \in DOMAIN k
      BY <2>2, <1>1
    <3>2. p[i] = k[i][1]
      BY <3>1 DEF NamesOf, p
    <3> QED BY <2>1, <2>2, <3>2, <1>1, <1>9
  <2>3. CASE ~(i <= Len(k))
    <3>1. i - Len(k) \in DOMAIN l
      BY <2>3, <1>1
    <3>2. q[i - Len(k)] = l[i - Len(k)][1]
      BY <3>1 DEF NamesOf, q
    <3> QED BY <2>1, <2>3, <3>2, <1>1, <1>9
  <2> QED BY <2>2, <2>3
<1>5. g = [i \in 1..n |-> g[i]]
  BY <1>1 DEF NamesOf
<1>6. f = [i \in 1..n |-> f[i]]
  <2> HIDE DEF f, n
  <2> QED BY <1>9
<1>7. \A i \in 1..n : g[i] = f[i]
  BY <1>4
<1> HIDE DEF f, g, n
<1>8. f = g
  BY <1>5, <1>6, <1>7
<1> QED BY <1>1, <1>8 DEF f, g, p, q

LEMMA CalmShape ==
  ASSUME NEW t, NEW u, Formed(t), Calm(t, u)
  PROVE  /\ Shape(u) = Shape(t) /\ Active(u) = Active(t) /\ u.settled = t.settled
         /\ Careful(t, u) /\ Sound(u)
         /\ \A d \in Dirs : Names(u, d) = Names(t, d)
<1>1. Shape(u) = Shape(t) /\ Formed(u)
  BY DEF Calm, Quiet
<1>2. \A d \in Dirs : Names(u, d) = Names(t, d)
  BY <1>1, ShapeOf
<1> QED BY <1>1, <1>2 DEF Calm, Quiet, Active

LEMMA EnsuringCalm ==
  ASSUME NEW t, Sound(t), NEW d \in Active(t)
  PROVE  Calm(t, EnsureMutable(t, d)) /\ Writable(EnsureMutable(t, d), d)
BY Ensuring DEF Calm

\* u is what a chunk with the names l of d made of t.
Brought(t, u, d, l) ==
  /\ Sound(u) /\ Careful(t, u) /\ Out(Shape(u)) = Out(Shape(t))
  /\ Shape(u).scanned = Shape(t).scanned /\ u.settled = t.settled
  /\ Names(u, d) = Names(t, d) \o l
  /\ \A e \in Dirs \ {d} : Names(u, e) = Names(t, e)

Grown(n, r, own, dirs, locked) ==
  [n EXCEPT !.kids = @ \o r, !.own = @ + own, !.size = @ + own,
            !.dirs = @ + dirs, !.direct = @ + locked, !.unread = @ + locked]

LEMMA GrownNode ==
  ASSUME NEW n, IsNode(n), NEW r \in Seq(Entries \X Nat), NEW own, NEW dirs, NEW locked
  PROVE  /\ IsNode(Grown(n, r, own, dirs, locked))
         /\ Grown(n, r, own, dirs, locked).kids = n.kids \o r
<1> DEFINE m == Grown(n, r, own, dirs, locked)
<1>1. n.kids \o r \in Seq(Entries \X Nat)
  BY ConcatProperties DEF IsNode
<1> DEFINE k == n.kids \o r
<1>2. m = [n EXCEPT !.kids = k, !.own = @ + own, !.size = @ + own,
             !.dirs = @ + dirs, !.direct = @ + locked, !.unread = @ + locked]
  BY DEF Grown
<1> HIDE DEF k, m
<1>3. m.kids = k /\ m = [f \in DOMAIN m |-> m[f]] /\ "kids" \in DOMAIN m
  BY <1>2 DEF IsNode
<1>4. k \in Seq(Entries \X Nat)
  BY <1>1 DEF k
<1>5. IsNode(m)
  BY <1>3, <1>4 DEF IsNode
<1> QED BY <1>3, <1>5 DEF k, m

\* d's node becomes n and its state s.
Told(t, d, n, s, outstanding) ==
  [InState(Written(t, [a \in Dirs |-> IF a = d THEN n ELSE Current(t, a)]), d, s)
   EXCEPT !.outstanding = outstanding]

LEMMA Telling ==
  ASSUME NEW t, Sound(t), NEW d \in Active(t), Writable(t, d), NEW n, IsNode(n),
         NEW s, IsState(s), s.settled = t.at[d].settled, s.gen = t.at[d].gen,
         s.index = t.at[d].index, s.cursor = t.at[d].cursor, s.live = t.at[d].live,
         NEW outstanding
  PROVE  /\ Alters(t, Told(t, d, n, s, outstanding), d)
         /\ Current(Told(t, d, n, s, outstanding), d) = n
         /\ Told(t, d, n, s, outstanding).at[d] = s
         /\ Lengthens(t, Told(t, d, n, s, outstanding), {})
<1> DEFINE new == [a \in Dirs |-> IF a = d THEN n ELSE Current(t, a)]
           v == Written(t, new)
           at == [v.at EXCEPT ![d] = s]
           w == [v EXCEPT !.at = at]
           u == Told(t, d, n, s, outstanding)
<1>1. d \in Dirs /\ t.at[d].gen = t.generation
  BY AboveItself DEF Active, Out, Writable, Stales
<1>2. \A e \in Dirs : IsNode(new[e])
  BY CurrentNode DEF Sound
<1>3. new[d] = n /\ \A e \in Dirs \ {d} : new[e] = Current(t, e)
  BY <1>1
<1> HIDE DEF new
<1>4. Rewrites(t, v, new)
  BY <1>2, WrittenRewrites DEF Sound
<1>5. u = [w EXCEPT !.outstanding = outstanding]
  BY DEF InState, new, Told
<1> HIDE DEF v, u
<1>6. IsTree(v) /\ v.at = t.at /\ v.generation = t.generation /\ v.settled = t.settled
  BY <1>4 DEF Rewrites
<1>7. at[d] = s /\ DOMAIN at = Dirs /\ \A e \in Dirs \ {d} : at[e] = t.at[e]
  BY <1>1, <1>6 DEF IsTree
<1> HIDE DEF at
<1>8. w.at = at /\ w.heap = v.heap /\ w.generation = v.generation /\ w.settled = v.settled
      /\ DOMAIN w = DOMAIN v
  BY <1>6 DEF IsTree
<1> HIDE DEF w
<1>9. u.at = at /\ u.heap = v.heap /\ u.generation = t.generation /\ u.settled = t.settled
      /\ DOMAIN u = DOMAIN v
  BY <1>5, <1>6, <1>8 DEF IsTree
<1>10. IsTree(u)
  BY <1>6, <1>7, <1>9 DEF IsTree
<1>11. /\ Chain(u.heap[d]) /\ CarefulAt(t.heap[d], u.heap[d], FALSE, TRUE)
       /\ Current(u, d) = n
  <2>1. /\ Chain(v.heap[d]) /\ Len(v.heap[d]) = Len(t.heap[d]) /\ Current(v, d) = n
        /\ \A k \in DOMAIN t.heap[d] : k < Len(t.heap[d]) => v.heap[d][k] = t.heap[d][k]
    BY <1>1, <1>3, <1>4 DEF Rewrites
  <2>2. Len(t.heap[d]) \in Nat
    BY <1>1, ChainParts DEF Sound, Formed
  <2>3. Len(t.heap[d]) <= Len(v.heap[d])
    BY <2>1, <2>2
  <2> QED BY <2>1, <2>3, <1>9 DEF CarefulAt, Current
<1>12. \A e \in Dirs \ {d} : u.heap[e] = t.heap[e] /\ u.at[e] = t.at[e]
  BY <1>3, <1>4, <1>7, <1>9 DEF Rewrites
<1>13. Lengthens(t, u, {})
  <2>1. v.changed = t.changed
    BY DEF v, Written, Sound, Formed, IsTree
  <2>2. u.changed = v.changed
    BY <1>5, <1>6 DEF w, IsTree
  <2> QED BY <2>1, <2>2, <1>4, <1>9 DEF Lengthens, Rewrites
<1> QED BY <1>1, <1>7, <1>9, <1>10, <1>11, <1>12, <1>13 DEF Alters, u

\* The directory of c with what c brings.
ChunkPlaced(t1, c) ==
  LET d      == c.path
      dirs   == CountIn(c.entries, Dirs)
      own    == CountIn(c.entries, Files)
      locked == CountIn(c.entries, Locked)
      grown  == Grown(Current(t1, d), Refs(c.entries), own, dirs, locked)
      s      == [t1.at[d] EXCEPT
                  !.locked = @ + locked, !.remaining = @ + dirs,
                  !.found = @ + Len(c.entries)]
      placed == Written(t1, [a \in Dirs |-> IF a = d THEN grown ELSE Current(t1, a)])
  IN Told(t1, d, grown, s, InState(placed, d, s).outstanding + dirs)

\* t2 is t1 with another node and state for d, of which nothing is lost.
Remade(t1, t2, d) ==
  /\ Alters(t1, t2, d) /\ Sound(t2) /\ Careful(t1, t2)
  /\ Active(t2) = Active(t1) /\ Writable(t2, d) /\ Out(Shape(t2)) = Out(Shape(t1))
  /\ \A e \in Dirs \ {d} : Names(t2, e) = Names(t1, e)

LEMMA PlacingChunk ==
  ASSUME NEW t1, Sound(t1), NEW c, c.path \in Active(t1), Writable(t1, c.path),
         c.path \notin Shape(t1).scanned, EntriesOf(c.path, c.entries),
         Range(c.entries) \cap Range(Names(t1, c.path)) = {}
  PROVE  LET t2 == ChunkPlaced(t1, c)
         IN /\ Remade(t1, t2, c.path) /\ Lengthens(t1, t2, {})
            /\ Kids(t2, c.path) = Kids(t1, c.path) \o Refs(c.entries)
            /\ Names(t2, c.path) = Names(t1, c.path) \o Listed(c.entries)
            /\ Shape(t2).scanned = Shape(t1).scanned /\ t2.settled = t1.settled
<1> DEFINE d      == c.path
           l      == Listed(c.entries)
           dirs   == CountIn(c.entries, Dirs)
           own    == CountIn(c.entries, Files)
           locked == CountIn(c.entries, Locked)
           was    == Current(t1, d)
           grown  == Grown(was, Refs(c.entries), own, dirs, locked)
           s      == [t1.at[d] EXCEPT
                       !.locked = @ + locked, !.remaining = @ + dirs,
                       !.found = @ + Len(c.entries)]
           placed == Written(t1, [a \in Dirs |-> IF a = d THEN grown ELSE Current(t1, a)])
           more   == InState(placed, d, s).outstanding + dirs
           t2     == Told(t1, d, grown, s, more)
<1>1. ChunkPlaced(t1, c) = t2
  BY DEF ChunkPlaced
<1>3. /\ EntriesOf(d, l) /\ NamesOf(Refs(c.entries)) = l
      /\ Refs(c.entries) \in Seq(Entries \X Nat)
      /\ Range(l) \subseteq Range(c.entries)
      /\ dirs = Cardinality(Range(l) \cap Dirs) /\ dirs \in Nat
  BY FoundInOrder
<1> HIDE DEF l, dirs, own, locked
<1>4. Sound(t1) /\ Writable(t1, d)
  OBVIOUS
<1>5. d \in Dirs /\ d \in Active(t1) /\ d \in Out(Shape(t1)) \ Shape(t1).scanned
  BY DEF Active, Out
<1>6. IsNode(was) /\ IsState(t1.at[d]) /\ Names(t1, d) = NamesOf(was.kids)
      /\ was.kids \in Seq(Entries \X Nat)
  BY <1>4, <1>5, CurrentNode DEF Sound, Formed, Names, Kids
<1> HIDE DEF was
<1>7. IsNode(grown) /\ grown.kids = was.kids \o Refs(c.entries)
  <2> DEFINE r == Refs(c.entries)
  <2>1. IsNode(was) /\ r \in Seq(Entries \X Nat)
    BY <1>3, <1>6
  <2> HIDE DEF r
  <2>2. IsNode(Grown(was, r, own, dirs, locked))
    BY ONLY <2>1, GrownNode
  <2>3. Grown(was, r, own, dirs, locked).kids = was.kids \o r
    BY ONLY <2>1, GrownNode
  <2> QED BY <2>2, <2>3 DEF r
<1>8. /\ IsState(s) /\ s.settled = t1.at[d].settled /\ s.gen = t1.at[d].gen
      /\ s.index = t1.at[d].index /\ s.cursor = t1.at[d].cursor /\ s.live = t1.at[d].live
      /\ s.scanned = t1.at[d].scanned /\ s.remaining = t1.at[d].remaining + dirs
  BY <1>3, <1>6 DEF IsState
<1> HIDE DEF grown, s
<1>9. Alters(t1, t2, d) /\ Current(t2, d) = grown /\ t2.at[d] = s /\ Lengthens(t1, t2, {})
  <2> HIDE DEF d, more
  <2> QED BY <1>4, <1>5, <1>7, <1>8, Telling
<1> HIDE DEF t2
<1>10. Names(t2, d) = Names(t1, d) \o l
  <2>1. Names(t2, d) = NamesOf(was.kids \o Refs(c.entries))
    BY <1>7, <1>9 DEF Names, Kids
  <2> QED BY <2>1, <1>3, <1>6, NamesOfBoth
<1>11. Grows(Shape(t1), Shape(t2), d, l)
  BY <1>3, <1>4, <1>5, <1>8, <1>9, <1>10, AlteringGrows
<1>12. ShapeSound(Shape(t2)) /\ Out(Shape(t2)) = Out(Shape(t1))
  <2>1. Range(l) \cap Range(Shape(t1).names[d]) = {}
    BY <1>3, <1>4, <1>5, ShapeOf DEF Sound
  <2> QED BY <2>1, <1>3, <1>4, <1>5, <1>11, Growing DEF Sound
<1>13. Sound(t2) /\ Careful(t1, t2) /\ Active(t2) = Active(t1) /\ Writable(t2, d)
  BY <1>4, <1>5, <1>9, <1>12, AlteringFresh
<1>14. \A e \in Dirs \ {d} : Names(t2, e) = Names(t1, e)
  BY <1>4, <1>5, <1>9, Altering
<1>15. Shape(t2).scanned = Shape(t1).scanned /\ t2.settled = t1.settled
  BY <1>9, <1>11 DEF Grows, Alters
<1>16. Kids(t2, d) = Kids(t1, d) \o Refs(c.entries)
  BY <1>7, <1>9 DEF Kids, was
<1> QED BY <1>1, <1>9, <1>10, <1>12, <1>13, <1>14, <1>15, <1>16 DEF Remade, l

LEMMA ApplyingChunk ==
  ASSUME NEW t, Sound(t), NEW c, c.path \in Active(t), c.path \notin Shape(t).scanned,
         EntriesOf(c.path, c.entries), Range(c.entries) \cap Range(Names(t, c.path)) = {}
  PROVE  Brought(t, ApplyChunk(t, c), c.path, Listed(c.entries))
<1> DEFINE d  == c.path
           l  == Listed(c.entries)
           t1 == EnsureMutable(t, d)
           t2 == ChunkPlaced(t1, c)
           t3 == Propagate(t2, d, Contribution(Current(t1, d)))
           u  == RecordChanged(t3, d)
<1>1. ApplyChunk(t, c) = u
  BY DEF ApplyChunk, ChunkPlaced, Grown, Told
<1>2. Calm(t, t1) /\ Writable(t1, d)
  BY EnsuringCalm
<1> HIDE DEF t1, l
<1>4. /\ Sound(t1) /\ Shape(t1) = Shape(t) /\ Active(t1) = Active(t) /\ Careful(t, t1)
      /\ t1.settled = t.settled /\ \A e \in Dirs : Names(t1, e) = Names(t, e)
  BY <1>2, CalmShape DEF Sound
<1>5. d \in Dirs /\ d \in Active(t1)
  BY <1>4 DEF Active, Out
<1>13. /\ Remade(t1, t2, d) /\ Names(t2, d) = Names(t1, d) \o l
       /\ Shape(t2).scanned = Shape(t1).scanned /\ t2.settled = t1.settled
  <2>1. Range(c.entries) \cap Range(Names(t1, d)) = {}
    BY <1>4, <1>5
  <2> QED BY <2>1, <1>2, <1>4, <1>5, PlacingChunk DEF l
<1> HIDE DEF t2
<1>14. Sound(t2) /\ Careful(t1, t2) /\ Out(Shape(t2)) = Out(Shape(t1)) /\ d \in Active(t2)
  BY <1>5, <1>13 DEF Remade
<1>15. Calm(t2, u)
  <2>1. Calm(t2, t3)
    BY <1>14, Propagating
  <2>2. Sound(t3)
    BY <2>1 DEF Calm
  <2> HIDE DEF t3
  <2>3. Calm(t3, u)
    BY <2>2, Recording
  <2> QED BY <2>1, <2>3, <1>14, CalmOn
<1> HIDE DEF u
<1>16. /\ Sound(u) /\ Shape(u) = Shape(t2) /\ Careful(t2, u) /\ u.settled = t2.settled
       /\ \A e \in Dirs : Names(u, e) = Names(t2, e)
  BY <1>14, <1>15, CalmShape DEF Sound
<1>17. Careful(t, u)
  <2>1. Formed(t) /\ Formed(t1) /\ Formed(t2) /\ Formed(u)
    BY <1>4, <1>14, <1>16 DEF Sound
  <2>2. Careful(t, t2)
    BY <2>1, <1>4, <1>14, CarefulOn
  <2> QED BY <2>1, <2>2, <1>16, CarefulOn
<1>19. Brought(t, u, d, l)
  <2>1. Names(u, d) = Names(t, d) \o l
    BY <1>4, <1>5, <1>13, <1>16
  <2>2. \A e \in Dirs \ {d} : Names(u, e) = Names(t, e)
    BY <1>4, <1>13, <1>16 DEF Remade
  <2> QED BY <2>1, <2>2, <1>4, <1>13, <1>14, <1>16, <1>17 DEF Brought
<1> QED BY <1>1, <1>19 DEF u, l

LEMMA NamesOfSeq ==
  ASSUME NEW k \in Seq(Entries \X Nat)
  PROVE  NamesOf(k) \in Seq(Entries) /\ Len(NamesOf(k)) = Len(k) /\ DOMAIN NamesOf(k) = DOMAIN k
BY DEF NamesOf

\* A run of ancestors settles.
LEMMA SortedNode ==
  ASSUME NEW t, Sound(t), NEW d \in Dirs
  PROVE  /\ IsNode([Current(t, d) EXCEPT !.kids = ByPath(@)])
         /\ [Current(t, d) EXCEPT !.kids = ByPath(@)].kids = ByPath(Kids(t, d))
         /\ NamesOf(ByPath(Kids(t, d))) \in Seq(Entries)
         /\ Len(NamesOf(ByPath(Kids(t, d)))) = Len(Names(t, d))
         /\ Range(NamesOf(ByPath(Kids(t, d)))) = Range(Names(t, d))
         /\ \A i, j \in DOMAIN NamesOf(ByPath(Kids(t, d))) :
              NamesOf(ByPath(Kids(t, d)))[i] = NamesOf(ByPath(Kids(t, d)))[j] => i = j
<1> DEFINE n == Current(t, d)
           k == Kids(t, d)
           b == ByPath(k)
<1>1. IsNode(n) /\ k = n.kids /\ k \in Seq(Entries \X Nat) /\ Names(t, d) = NamesOf(k)
  BY CurrentNode DEF Sound, Kids, Names
<1>2. \A i, j \in DOMAIN k : k[i][1] = k[j][1] => i = j
  <2>1. EntriesOf(d, Names(t, d))
    BY ShapeOf DEF Sound, ShapeSound, NamesSound, NamesSoundAt
  <2> QED BY <1>1, <2>1 DEF EntriesOf, NamesOf
<1> HIDE DEF k
<1>3. /\ b \in Seq(Entries \X Nat) /\ Len(b) = Len(k)
      /\ Range(NamesOf(b)) = Range(NamesOf(k))
      /\ \A i, j \in DOMAIN b : b[i][1] = b[j][1] => i = j
  BY <1>1, <1>2, ByPathSound
<1> HIDE DEF b, n
<1>4. [n EXCEPT !.kids = ByPath(@)] = [n EXCEPT !.kids = b]
  BY <1>1 DEF b
<1>5. IsNode([n EXCEPT !.kids = b]) /\ [n EXCEPT !.kids = b].kids = b
  BY <1>1, <1>3, KidsNode
<1>6. /\ NamesOf(b) \in Seq(Entries) /\ Len(NamesOf(b)) = Len(b) /\ DOMAIN NamesOf(b) = DOMAIN b
      /\ Len(NamesOf(k)) = Len(k)
  BY <1>1, <1>3, NamesOfSeq
<1>7. \A i, j \in DOMAIN NamesOf(b) : NamesOf(b)[i] = NamesOf(b)[j] => i = j
  BY <1>3, <1>6 DEF NamesOf
<1> QED BY <1>1, <1>3, <1>4, <1>5, <1>6, <1>7 DEF n, k, b

\* What happens to the trees of a run that settles.
Retires(t, u, S) ==
  /\ IsTree(u) /\ u.generation = t.generation /\ u.settled = t.settled \cup S
  /\ \A d \in Dirs :
       /\ Chain(u.heap[d]) /\ CarefulAt(t.heap[d], u.heap[d], FALSE, TRUE)
       /\ IF d \in S THEN Kids(u, d) = ByPath(Kids(t, d)) ELSE u.heap[d] = t.heap[d]
       /\ IsState(u.at[d]) /\ u.at[d].settled = (d \in u.settled)
       /\ u.at[d].gen = t.at[d].gen /\ u.at[d].index = t.at[d].index
       /\ u.at[d].scanned = t.at[d].scanned
       /\ u.at[d].cursor = IF d \in S THEN Len(Kids(t, d)) ELSE t.at[d].cursor
       /\ u.at[d].live = IF d \in S THEN d = Root ELSE t.at[d].live
       /\ u.at[d].remaining = t.at[d].remaining - Cardinality(Below(d, S))

LEMMA SettleRetires ==
  ASSUME NEW t, Sound(t), NEW S \in SUBSET Dirs
  PROVE  Retires(t, Settle(t, S), S)
<1> DEFINE new == [d \in Dirs |-> LET n == Current(t, d) IN
                    IF d \in S THEN [n EXCEPT !.kids = ByPath(@)] ELSE n]
           sorted == Written(t, new)
           at == [d \in Dirs |-> LET s == t.at[d] IN
                   [s EXCEPT !.cursor = IF d \in S THEN Len(Current(t, d).kids) ELSE @,
                             !.settled = @ \/ d \in S,
                             !.live = IF d \in S THEN d = Root ELSE @,
                             !.remaining = @ - Cardinality(Below(d, S))]]
           changed == [d \in Dirs |-> IF d \in S THEN Len(t.heap[d]) ELSE t.changed[d]]
           u == [sorted EXCEPT !.at = at, !.changed = changed, !.settled = @ \cup S]
<1>1. Settle(t, S) = u
  BY DEF Settle, Settled
<1>2. ASSUME NEW d \in Dirs
      PROVE  /\ IsNode(new[d])
             /\ d \in S => new[d].kids = ByPath(Kids(t, d))
             /\ d \notin S => new[d] = Current(t, d)
  <2>1. IsNode(Current(t, d))
    BY CurrentNode DEF Sound
  <2>2. /\ IsNode([Current(t, d) EXCEPT !.kids = ByPath(@)])
        /\ [Current(t, d) EXCEPT !.kids = ByPath(@)].kids = ByPath(Kids(t, d))
    BY SortedNode
  <2>3. new[d] = IF d \in S THEN [Current(t, d) EXCEPT !.kids = ByPath(@)] ELSE Current(t, d)
    OBVIOUS
  <2> HIDE DEF new
  <2> QED BY <2>1, <2>2, <2>3
<1> HIDE DEF new
<1>3. Rewrites(t, sorted, new)
  BY <1>2, WrittenRewrites DEF Sound
<1>4. ASSUME NEW d \in Dirs
      PROVE  /\ IsState(at[d]) /\ at[d].settled = (d \in t.settled \cup S)
             /\ at[d].gen = t.at[d].gen /\ at[d].index = t.at[d].index
             /\ at[d].scanned = t.at[d].scanned
             /\ at[d].cursor = IF d \in S THEN Len(Kids(t, d)) ELSE t.at[d].cursor
             /\ at[d].live = IF d \in S THEN d = Root ELSE t.at[d].live
             /\ at[d].remaining = t.at[d].remaining - Cardinality(Below(d, S))
  <2> DEFINE s == t.at[d]
             c == IF d \in S THEN Len(Current(t, d).kids) ELSE s.cursor
             l == IF d \in S THEN d = Root ELSE s.live
             r == s.remaining - Cardinality(Below(d, S))
             e == s.settled \/ d \in S
  <2>1. IsState(s) /\ s.settled = (d \in t.settled)
    BY DEF Sound, Formed
  <2>2. at[d] = [s EXCEPT !.cursor = c, !.settled = e, !.live = l, !.remaining = r]
    BY <2>1 DEF IsState
  <2>3. Cardinality(Below(d, S)) \in Nat
    <3>1. Below(d, S) \subseteq Dirs
      BY DEF Below
    <3> QED BY <3>1, TreeAssumption, FS_Subset, FS_CardinalityType DEF TreeAssumption
  <2>4. c \in Nat
    BY <2>1, CurrentNode DEF IsState, Sound, Kids
  <2>5. l \in BOOLEAN
    BY <2>1 DEF IsState
  <2>10. r \in Int
    BY <2>1, <2>3 DEF IsState
  <2>6. e = (d \in t.settled \cup S)
    <3>1. e = ((d \in t.settled) \/ d \in S)
      BY <2>1
    <3>2. ((d \in t.settled) \/ d \in S) <=> d \in t.settled \cup S
      OBVIOUS
    <3> QED BY <3>1, <3>2
  <2>7. c = IF d \in S THEN Len(Kids(t, d)) ELSE s.cursor
    BY DEF Kids
  <2> HIDE DEF s, c, l, r, e, at
  <2>8. at[d].cursor = c /\ at[d].settled = e /\ at[d].live = l /\ at[d].remaining = r
        /\ at[d].gen = s.gen /\ at[d].index = s.index /\ at[d].scanned = s.scanned
        /\ DOMAIN at[d] = DOMAIN s
    BY <2>1, <2>2 DEF IsState
  <2>9. IsState(at[d])
    BY <2>1, <2>4, <2>5, <2>8, <2>10 DEF IsState
  <2> QED BY <2>6, <2>7, <2>8, <2>9 DEF s, l, r
<1>5. DOMAIN at = Dirs
  OBVIOUS
<1> HIDE DEF at, sorted, changed
<1>6. IsTree(sorted) /\ sorted.generation = t.generation /\ sorted.settled = t.settled
  BY <1>3 DEF Rewrites
<1>7. /\ u.at = at /\ u.heap = sorted.heap /\ u.generation = t.generation
      /\ u.settled = t.settled \cup S /\ DOMAIN u = DOMAIN sorted
  BY <1>6 DEF IsTree
<1> HIDE DEF u
<1>8. IsTree(u)
  BY <1>5, <1>6, <1>7 DEF IsTree
<1>9. ASSUME NEW d \in Dirs
      PROVE  /\ Chain(u.heap[d]) /\ CarefulAt(t.heap[d], u.heap[d], FALSE, TRUE)
             /\ IF d \in S THEN Kids(u, d) = ByPath(Kids(t, d)) ELSE u.heap[d] = t.heap[d]
  <2>1. /\ Chain(sorted.heap[d]) /\ Len(sorted.heap[d]) = Len(t.heap[d])
        /\ Current(sorted, d) = new[d]
        /\ \A k \in DOMAIN t.heap[d] : k < Len(t.heap[d]) => sorted.heap[d][k] = t.heap[d][k]
        /\ new[d] = Current(t, d) => sorted.heap[d] = t.heap[d]
    BY <1>3 DEF Rewrites
  <2>2. Len(t.heap[d]) \in Nat
    BY ChainParts DEF Sound, Formed
  <2>3. Current(u, d) = Current(sorted, d)
    BY <1>7 DEF Current
  <2>4. Len(t.heap[d]) <= Len(sorted.heap[d])
    BY <2>1, <2>2
  <2>5. CarefulAt(t.heap[d], u.heap[d], FALSE, TRUE)
    BY <2>1, <2>4, <1>7 DEF CarefulAt
  <2> QED BY <2>1, <2>3, <2>5, <1>2, <1>7 DEF Kids
<1>10. Retires(t, u, S)
  BY <1>4, <1>7, <1>8, <1>9 DEF Retires
<1> QED BY <1>1, <1>10

LEMMA RetiringSettles ==
  ASSUME NEW t, Sound(t), NEW S \in SUBSET Dirs, NEW u, Retires(t, u, S), Formed(u)
  PROVE  Settles(Shape(t), Shape(u), S)
<1> DEFINE sh == Shape(t)
           th == Shape(u)
<1>1. /\ sh.settled = t.settled /\ th.settled = u.settled
      /\ \A d \in Dirs :
           /\ sh.names[d] = Names(t, d) /\ th.names[d] = Names(u, d)
           /\ sh.cursor[d] = t.at[d].cursor /\ th.cursor[d] = u.at[d].cursor
           /\ sh.remaining[d] = t.at[d].remaining /\ th.remaining[d] = u.at[d].remaining
           /\ d \in sh.live <=> t.at[d].live
           /\ d \in th.live <=> u.at[d].live
  BY ShapeOf DEF Sound
<1>2. th.index = sh.index /\ th.scanned = sh.scanned
  BY DEF Shape, Retires
<1>3. th.settled = sh.settled \cup S
  BY <1>1 DEF Retires
<1>4. th.live = {a \in Dirs : IF a \in S THEN a = Root ELSE a \in sh.live}
  <2>1. th.live \subseteq Dirs
    BY DEF Shape
  <2>2. \A d \in Dirs : u.at[d].live = IF d \in S THEN d = Root ELSE t.at[d].live
    BY DEF Retires
  <2> HIDE DEF sh, th
  <2> QED BY <2>1, <2>2, <1>1
<1>5. ASSUME NEW a \in Dirs
      PROVE  /\ th.remaining[a] = sh.remaining[a] - Cardinality(Below(a, S))
             /\ a \notin S => th.names[a] = sh.names[a] /\ th.cursor[a] = sh.cursor[a]
  <2>1. a \notin S => Names(u, a) = Names(t, a)
    BY DEF Retires, Names, Kids, Current
  <2>2. /\ u.at[a].remaining = t.at[a].remaining - Cardinality(Below(a, S))
        /\ a \notin S => u.at[a].cursor = t.at[a].cursor
    BY DEF Retires
  <2> HIDE DEF sh, th
  <2> QED BY <2>1, <2>2, <1>1
<1>6. ASSUME NEW a \in S
      PROVE  /\ th.names[a] \in Seq(Entries) /\ Len(th.names[a]) = Len(sh.names[a])
             /\ Range(th.names[a]) = Range(sh.names[a])
             /\ \A i, j \in DOMAIN th.names[a] :
                  th.names[a][i] = th.names[a][j] => i = j
             /\ th.cursor[a] = Len(th.names[a])
  <2> DEFINE m == NamesOf(ByPath(Kids(t, a)))
  <2>1. /\ m \in Seq(Entries) /\ Len(m) = Len(Names(t, a)) /\ Range(m) = Range(Names(t, a))
        /\ \A i, j \in DOMAIN m : m[i] = m[j] => i = j
    BY SortedNode
  <2>2. Names(u, a) = m
    BY DEF Retires, Names
  <2>3. Len(Names(t, a)) = Len(Kids(t, a))
    BY CurrentNode DEF Sound, Names, NamesOf
  <2>4. u.at[a].cursor = Len(Kids(t, a))
    BY DEF Retires
  <2> HIDE DEF m, sh, th
  <2> QED BY <2>1, <2>2, <2>3, <2>4, <1>1
<1> HIDE DEF sh, th
<1>7. Settles(sh, th, S)
  BY <1>2, <1>3, <1>4, <1>5, <1>6 DEF Settles
<1> QED BY <1>7 DEF sh, th

\* u is t with some of its scanned directories settled.
Finished(t, u) ==
  /\ Sound(u) /\ Careful(t, u) /\ Out(Shape(u)) = Out(Shape(t))
  /\ Shape(u).scanned = Shape(t).scanned
  /\ \A e \in Dirs \ Shape(t).scanned : Names(u, e) = Names(t, e)

LEMMA Marking ==
  ASSUME NEW t, Sound(t), NEW d \in Active(t), Writable(t, d)
  PROVE  Finished(t, MarkSettled(t, d))
<1> DEFINE R == {a \in Dirs : /\ t.at[a].scanned /\ ~t.at[a].settled
                              /\ t.at[a].remaining = IF a = d THEN 0 ELSE 1}
           S == AboveWhile(d, R)
           u == Settle(t, S)
           sh == Shape(t)
           th == Shape(u)
<1>1. MarkSettled(t, d) = u
  BY DEF MarkSettled
<1>2. d \in Dirs /\ Above[d] \subseteq Active(t)
  BY ActiveAbove
<1>3. S \subseteq Above[d] /\ S \subseteq R /\ S \subseteq Dirs
  BY <1>2, WhileSound
<1>4. Run(sh, S, d)
  <2>1. ASSUME NEW a \in S
        PROVE  a \in sh.scanned \ sh.settled /\ sh.remaining[a] = IF a = d THEN 0 ELSE 1
    <3>1. a \in Dirs /\ t.at[a].scanned /\ ~t.at[a].settled
          /\ t.at[a].remaining = IF a = d THEN 0 ELSE 1
      BY <1>3
    <3>2. t.at[a].settled = (a \in t.settled)
      BY <3>1 DEF Sound, Formed
    <3>3. a \in sh.scanned /\ sh.remaining[a] = t.at[a].remaining /\ sh.settled = t.settled
      BY <3>1, ShapeOf DEF Sound
    <3> HIDE DEF sh
    <3> QED BY <3>1, <3>2, <3>3
  <2>2. ASSUME NEW a \in S \ {d} PROVE \E b \in S \ {Root} : ParentOf(b) = a
    <3> HIDE DEF R
    <3> QED BY <1>2, WhileChild
  <2> QED BY <2>1, <2>2 DEF Run
<1> HIDE DEF S
<1>5. Retires(t, u, S)
  BY <1>3, SettleRetires
<1> HIDE DEF u, R
<1>6. S \cap t.settled = {}
  BY <1>2, <1>3 DEF Active
<1>7. Stales(u) = Stales(t)
  <2>1. u.generation = t.generation /\ \A a \in Dirs : u.at[a].gen = t.at[a].gen
    BY <1>5 DEF Retires
  <2> QED BY <2>1 DEF Stales
<1>8. Formed(u)
  BY <1>5 DEF Retires, Sound, Formed
<1>9. ASSUME NEW a \in Dirs
      PROVE  /\ CarefulAt(t.heap[a], u.heap[a], a \in Stales(t), a \notin Stales(u))
             /\ a \in t.settled => u.heap[a] = t.heap[a]
  <2>1. CASE a \in S
    <3>1. CarefulAt(t.heap[a], u.heap[a], FALSE, TRUE)
      BY <1>5 DEF Retires
    <3>2. a \notin Stales(t) /\ a \notin t.settled
      BY <2>1, <1>3, <1>6 DEF Writable
    <3> QED BY <3>1, <3>2, <1>7 DEF CarefulAt
  <2>2. CASE a \notin S
    <3>1. u.heap[a] = t.heap[a] /\ Len(t.heap[a]) \in Nat
      BY <2>2, <1>5, ChainParts DEF Retires, Sound, Formed
    <3> QED BY <3>1, <1>7 DEF CarefulAt
  <2> QED BY <2>1, <2>2
<1>10. Careful(t, u)
  BY <1>5, <1>9 DEF Careful, Retires
<1>11. Settles(sh, th, S)
  BY <1>3, <1>5, <1>8, RetiringSettles
<1>12. ShapeSound(th) /\ Out(th) = Out(sh)
  <2>1. ShapeSound(sh)
    BY DEF Sound
  <2> HIDE DEF sh, th
  <2> QED BY <2>1, <1>4, <1>11, Settling
<1>13. Sound(u)
  BY <1>7, <1>8, <1>12 DEF Sound, FreshUp
<1>14. th.scanned = sh.scanned
  BY <1>11 DEF Settles
<1>15. ASSUME NEW e \in Dirs \ sh.scanned PROVE Names(u, e) = Names(t, e)
  <2>1. e \notin S
    BY <1>4 DEF Run
  <2> QED BY <2>1, <1>5 DEF Retires, Names, Kids, Current
<1>16. Finished(t, u)
  BY <1>10, <1>12, <1>13, <1>14, <1>15 DEF Finished
<1> QED BY <1>1, <1>16

\* d's result is put where t says that it is to go.
Put(t, d, n, s, outstanding) ==
  [InState(t, d, s) EXCEPT !.heap = [t.heap EXCEPT ![d] = Append(t.heap[d], n)],
                           !.outstanding = outstanding]

ScannedState(t, d) == [t.at[d] EXCEPT !.gen = t.generation, !.scanned = TRUE]

\* v is t with another state for d.
Primes(t, v, d) ==
  /\ IsTree(v) /\ v.heap = t.heap /\ v.generation = t.generation /\ v.settled = t.settled
  /\ v.changed = t.changed
  /\ \A e \in Dirs \ {d} : v.at[e] = t.at[e]
  /\ IsState(v.at[d]) /\ v.at[d].settled = t.at[d].settled
  /\ v.at[d].index = t.at[d].index /\ v.at[d].cursor = t.at[d].cursor
  /\ v.at[d].live = t.at[d].live

Puts(t, u, d, n, v) ==
  /\ Alters(t, u, d) /\ Current(u, d) = n /\ u.at[d].scanned = TRUE
  /\ u.at[d].remaining = v.at[d].remaining /\ Lengthens(t, u, {d})

LEMMA Putting ==
  ASSUME NEW t, Sound(t), NEW d \in Active(t), Writable(t, d), NEW v, Primes(t, v, d),
         NEW n, IsNode(n), NEW outstanding
  PROVE  Puts(t, Put(v, d, n, ScannedState(v, d), outstanding), d, n, v)
<1> DEFINE s == ScannedState(v, d)
           u == Put(v, d, n, s, outstanding)
           at == [v.at EXCEPT ![d] = s]
           w == [v EXCEPT !.at = at]
           heap == [v.heap EXCEPT ![d] = Append(v.heap[d], n)]
<1>1. d \in Dirs /\ t.generation \in Int
  BY DEF Active, Out, Sound, Formed, IsTree
<1>2. IsTree(v) /\ v.heap = t.heap /\ v.generation = t.generation /\ v.settled = t.settled
  BY DEF Primes
<1>3. /\ IsState(s) /\ s.settled = t.at[d].settled /\ s.gen = t.generation
      /\ s.index = t.at[d].index /\ s.cursor = t.at[d].cursor /\ s.live = t.at[d].live
      /\ s.scanned = TRUE /\ s.remaining = v.at[d].remaining
  <2>1. /\ IsState(v.at[d]) /\ v.at[d].settled = t.at[d].settled
        /\ v.at[d].index = t.at[d].index /\ v.at[d].cursor = t.at[d].cursor
        /\ v.at[d].live = t.at[d].live
    BY DEF Primes
  <2>2. s = [v.at[d] EXCEPT !.gen = v.generation, !.scanned = TRUE]
    BY DEF ScannedState
  <2> HIDE DEF s
  <2> QED BY <2>1, <2>2, <1>1, <1>2 DEF IsState
<1>4. at[d] = s /\ DOMAIN at = Dirs /\ \A e \in Dirs \ {d} : at[e] = t.at[e]
  BY <1>1 DEF Primes, IsTree
<1>5. /\ heap[d] = Append(t.heap[d], n) /\ DOMAIN heap = Dirs
      /\ \A e \in Dirs \ {d} : heap[e] = t.heap[e]
  BY <1>1, <1>2 DEF IsTree
<1>6. u = [w EXCEPT !.heap = heap, !.outstanding = outstanding]
  BY DEF Put, InState
<1> HIDE DEF at, heap
<1>7. w.at = at /\ w.generation = v.generation /\ w.settled = v.settled /\ DOMAIN w = DOMAIN v
  BY <1>2 DEF IsTree
<1> HIDE DEF w, u, s
<1>8. u.at = at /\ u.heap = heap /\ u.generation = t.generation /\ u.settled = t.settled
      /\ DOMAIN u = DOMAIN v
  BY <1>2, <1>6, <1>7 DEF IsTree
<1>9. IsTree(u)
  BY <1>2, <1>4, <1>5, <1>8 DEF IsTree
<1>10. Chain(t.heap[d]) /\ Len(t.heap[d]) \in Nat /\ DOMAIN t.heap[d] = 1..Len(t.heap[d])
  BY <1>1, ChainParts DEF Sound, Formed
<1>11. /\ Chain(u.heap[d]) /\ Len(u.heap[d]) = Len(t.heap[d]) + 1
       /\ u.heap[d][Len(t.heap[d]) + 1] = n
       /\ \A k \in DOMAIN t.heap[d] : u.heap[d][k] = t.heap[d][k]
  <2> DEFINE h == t.heap[d]
  <2>1. Chain(h)
    BY <1>10
  <2> HIDE DEF h
  <2>2. /\ Chain(Append(h, n)) /\ Len(Append(h, n)) = Len(h) + 1
        /\ Append(h, n)[Len(h) + 1] = n
        /\ \A k \in DOMAIN h : Append(h, n)[k] = h[k]
    BY <2>1, ChainAppended
  <2>3. u.heap[d] = Append(h, n)
    BY <1>5, <1>8 DEF h
  <2> QED BY <2>2, <2>3 DEF h
<1>12. CarefulAt(t.heap[d], u.heap[d], FALSE, TRUE) /\ Current(u, d) = n
  BY <1>10, <1>11 DEF CarefulAt, Current
<1>13. \A e \in Dirs \ {d} : u.heap[e] = t.heap[e] /\ u.at[e] = t.at[e]
  BY <1>4, <1>5, <1>8
<1>14. Alters(t, u, d)
  BY <1>3, <1>4, <1>8, <1>9, <1>11, <1>12, <1>13 DEF Alters
<1>15. Lengthens(t, u, {d})
  <2>1. u.changed = t.changed
    BY <1>6, <1>7 DEF w, Primes, IsTree
  <2>2. Len(u.heap[d]) > Len(t.heap[d])
    BY <1>10, <1>11
  <2> QED BY <2>1, <2>2, <1>13 DEF Lengthens
<1> QED BY <1>3, <1>4, <1>8, <1>12, <1>14, <1>15 DEF u, s, Puts

\* If d is scanned besides, one may think of that as a second step.
LEMMA AlteringScans ==
  ASSUME NEW t, Sound(t), NEW d \in Active(t), Writable(t, d), NEW u, Alters(t, u, d),
         NEW l, Names(u, d) = Names(t, d) \o l, u.at[d].scanned = TRUE,
         u.at[d].remaining = t.at[d].remaining + Cardinality(Range(l) \cap Dirs)
  PROVE  \E th : Grows(Shape(t), th, d, l) /\ Scans(th, Shape(u), d)
<1> DEFINE sh == Shape(t)
           uh == Shape(u)
           th == [names |-> uh.names, index |-> uh.index, cursor |-> uh.cursor,
                  remaining |-> uh.remaining, scanned |-> sh.scanned,
                  live |-> uh.live, settled |-> uh.settled]
<1>1. d \in Dirs
  BY DEF Active, Out
<1>2. /\ Formed(u) /\ \A e \in Dirs \ {d} : Names(u, e) = Names(t, e)
  BY Altering
<1>3. ASSUME NEW e \in Dirs
      PROVE  /\ u.at[e].index = t.at[e].index /\ u.at[e].cursor = t.at[e].cursor
             /\ u.at[e].live = t.at[e].live
             /\ e # d => u.at[e].remaining = t.at[e].remaining /\ u.at[e].scanned = t.at[e].scanned
  BY DEF Alters
<1>4. uh.settled = sh.settled
  BY ShapeOf, <1>2 DEF Alters, Sound
<1>5. ASSUME NEW e \in Dirs \ {d}
      PROVE  /\ uh.names[e] = sh.names[e] /\ uh.cursor[e] = sh.cursor[e]
             /\ uh.remaining[e] = sh.remaining[e]
  BY <1>2, <1>3, ShapeOf DEF Sound
<1>6. uh.index = sh.index /\ uh.live = sh.live
  BY <1>3 DEF Shape
<1>7. /\ uh.names[d] = sh.names[d] \o l /\ uh.cursor[d] = sh.cursor[d]
      /\ uh.remaining[d] = sh.remaining[d] + Cardinality(Range(l) \cap Dirs)
  BY <1>1, <1>2, <1>3, ShapeOf DEF Sound
<1>8. uh.scanned = sh.scanned \cup {d}
  <2>1. uh.scanned \subseteq Dirs /\ sh.scanned \subseteq Dirs
    BY DEF Shape
  <2>2. ASSUME NEW e \in Dirs PROVE e \in uh.scanned <=> e \in sh.scanned \/ e = d
    BY <1>1, <1>2, <1>3, ShapeOf DEF Sound
  <2> HIDE DEF uh, sh
  <2> QED BY <2>1, <2>2, <1>1
<1> HIDE DEF uh, sh
<1>9. /\ th.names = uh.names /\ th.index = uh.index /\ th.cursor = uh.cursor
      /\ th.remaining = uh.remaining /\ th.scanned = sh.scanned /\ th.live = uh.live
      /\ th.settled = uh.settled
  OBVIOUS
<1> HIDE DEF th
<1>10. Grows(sh, th, d, l)
  BY <1>4, <1>5, <1>6, <1>7, <1>9 DEF Grows, Agree
<1>11. Scans(th, uh, d)
  BY <1>8, <1>9 DEF Scans, Agree
<1> QED BY <1>10, <1>11 DEF uh, sh

\* u is what d's result made of t.
Took(t, u, d) ==
  /\ Sound(u) /\ Careful(t, u) /\ Out(Shape(u)) = Out(Shape(t))
  /\ Shape(u).scanned = Shape(t).scanned \cup {d}
  /\ \A e \in Dirs \ Shape(u).scanned : Names(u, e) = Names(t, e)

\* u is t with the result n of d.
HasResult(t, u, d, n) ==
  /\ Remade(t, u, d) /\ Lengthens(t, u, {d}) /\ Kids(u, d) = n.kids
  /\ Shape(u).scanned = Shape(t).scanned \cup {d}

LEMMA PlacingResult ==
  ASSUME NEW t, Sound(t), NEW d \in Active(t), Writable(t, d), d \notin Shape(t).scanned,
         NEW v, Primes(t, v, d), NEW n, IsNode(n), NEW outstanding,
         NEW l, EntriesOf(d, l), Range(l) \cap Range(Names(t, d)) = {},
         NamesOf(n.kids) = Names(t, d) \o l,
         v.at[d].remaining = t.at[d].remaining + Cardinality(Range(l) \cap Dirs)
  PROVE  HasResult(t, Put(v, d, n, ScannedState(v, d), outstanding), d, n)
<1> DEFINE put == Put(v, d, n, ScannedState(v, d), outstanding)
<1>2. /\ Alters(t, put, d) /\ Current(put, d) = n /\ put.at[d].scanned = TRUE
      /\ put.at[d].remaining = v.at[d].remaining /\ Lengthens(t, put, {d})
  <2>1. /\ Sound(t) /\ d \in Active(t) /\ Writable(t, d) /\ Primes(t, v, d)
        /\ IsNode(n)
    OBVIOUS
  <2>2. Puts(t, Put(v, d, n, ScannedState(v, d), outstanding), d, n, v)
    BY ONLY <2>1, Putting
  <2> HIDE DEF put
  <2> QED BY <2>2 DEF Puts, put
<1> HIDE DEF put
<1>3. Names(put, d) = Names(t, d) \o l
  BY <1>2 DEF Names, Kids
<1>4. PICK th : Grows(Shape(t), th, d, l) /\ Scans(th, Shape(put), d)
  <2>1. put.at[d].remaining = t.at[d].remaining + Cardinality(Range(l) \cap Dirs)
    BY <1>2
  <2> QED BY <2>1, <1>2, <1>3, AlteringScans
<1>5. d \in Dirs /\ d \in Out(Shape(t)) \ Shape(t).scanned
  BY DEF Active, Out
<1>6. ShapeSound(th) /\ Out(th) = Out(Shape(t))
  <2>1. Range(l) \cap Range(Shape(t).names[d]) = {}
    BY <1>5, ShapeOf DEF Sound
  <2> QED BY <2>1, <1>4, <1>5, Growing DEF Sound
<1>7. ShapeSound(Shape(put)) /\ Out(Shape(put)) = Out(Shape(t))
  <2>1. d \in Out(th)
    BY <1>5, <1>6
  <2> QED BY <2>1, <1>4, <1>6, Scanning
<1>8. Sound(put) /\ Careful(t, put) /\ Active(put) = Active(t) /\ Writable(put, d)
  BY <1>2, <1>7, AlteringFresh
<1>9. Shape(put).scanned = Shape(t).scanned \cup {d}
  BY <1>4 DEF Grows, Scans
<1>10. \A e \in Dirs \ {d} : Names(put, e) = Names(t, e)
  BY <1>2, Altering
<1> QED BY <1>2, <1>7, <1>8, <1>9, <1>10 DEF Remade, put, Kids, HasResult

LEMMA Installing ==
  ASSUME NEW t, Sound(t), NEW d \in Active(t), Writable(t, d), d \notin Shape(t).scanned,
         NEW v, Primes(t, v, d), NEW n, IsNode(n), NEW before,
         NEW l, EntriesOf(d, l), Range(l) \cap Range(Names(t, d)) = {},
         NamesOf(n.kids) = Names(t, d) \o l,
         v.at[d].remaining = t.at[d].remaining + Cardinality(Range(l) \cap Dirs)
  PROVE  Took(t, Install(v, d, n, before), d)
<1> DEFINE s    == ScannedState(v, d)
           done == InState(v, d, s)
           more == Max({0, done.outstanding - 1})
           put  == Put(v, d, n, s, more)
           t3   == Propagate(put, d, before)
           told == RecordChanged(t3, d)
           u    == IF told.at[d].remaining = 0 THEN MarkSettled(told, d) ELSE told
<1>1. Install(v, d, n, before) = u
  BY DEF Install, Put, ScannedState
<1> HIDE DEF more
<1>2. /\ Remade(t, put, d) /\ Shape(put).scanned = Shape(t).scanned \cup {d}
  <2>1. /\ Sound(t) /\ d \in Active(t) /\ Writable(t, d) /\ d \notin Shape(t).scanned
        /\ Primes(t, v, d) /\ IsNode(n) /\ EntriesOf(d, l)
        /\ Range(l) \cap Range(Names(t, d)) = {} /\ NamesOf(n.kids) = Names(t, d) \o l
        /\ v.at[d].remaining = t.at[d].remaining + Cardinality(Range(l) \cap Dirs)
    OBVIOUS
  <2>2. HasResult(t, Put(v, d, n, ScannedState(v, d), more), d, n)
    BY ONLY <2>1, PlacingResult
  <2> HIDE DEF put
  <2> QED BY <2>2 DEF HasResult, put
<1> HIDE DEF put
<1>3. d \in Dirs
  BY DEF Active, Out
<1>8. /\ Sound(put) /\ Careful(t, put) /\ Active(put) = Active(t) /\ Writable(put, d)
      /\ Out(Shape(put)) = Out(Shape(t))
      /\ \A e \in Dirs \ {d} : Names(put, e) = Names(t, e)
  BY <1>2 DEF Remade
<1>11. Calm(put, told)
  <2>1. Calm(put, t3)
    BY <1>8, Propagating
  <2>2. Sound(t3)
    BY <2>1 DEF Calm
  <2> HIDE DEF t3
  <2>3. Calm(t3, told)
    BY <2>2, Recording
  <2> QED BY <2>1, <2>3, <1>8, CalmOn
<1> HIDE DEF told
<1>12. /\ Sound(told) /\ Shape(told) = Shape(put) /\ Careful(put, told)
       /\ Active(told) = Active(put)
       /\ \A e \in Dirs : Names(told, e) = Names(put, e)
  BY <1>8, <1>11, CalmShape DEF Sound
<1>13. Writable(told, d)
  BY <1>8, <1>11, CalmWritable
<1>14. Finished(told, u)
  <2>1. CASE told.at[d].remaining = 0
    <3>1. u = MarkSettled(told, d)
      BY <2>1
    <3>2. d \in Active(told)
      BY <1>8, <1>12
    <3> HIDE DEF u
    <3> QED BY <3>1, <3>2, <1>12, <1>13, Marking
  <2>2. CASE told.at[d].remaining # 0
    <3>1. u = told
      BY <2>2
    <3>2. Careful(told, told)
      BY <1>12, QuietItself DEF Sound, Quiet
    <3> HIDE DEF u
    <3> QED BY <3>1, <3>2, <1>12 DEF Finished
  <2> QED BY <2>1, <2>2
<1> HIDE DEF u
<1>15. /\ Sound(u) /\ Careful(told, u) /\ Out(Shape(u)) = Out(Shape(told))
       /\ Shape(u).scanned = Shape(told).scanned
       /\ \A e \in Dirs \ Shape(told).scanned : Names(u, e) = Names(told, e)
  BY <1>14 DEF Finished
<1>16. Careful(t, u)
  <2>1. Formed(t) /\ Formed(put) /\ Formed(told) /\ Formed(u)
    BY <1>8, <1>12, <1>15 DEF Sound
  <2>2. Careful(t, told)
    BY <2>1, <1>8, <1>12, CarefulOn
  <2> QED BY <2>1, <2>2, <1>15, CarefulOn
<1>17. ASSUME NEW e \in Dirs \ Shape(u).scanned PROVE Names(u, e) = Names(t, e)
  <2>1. e # d /\ e \notin Shape(told).scanned
    BY <1>2, <1>12, <1>15
  <2> QED BY <2>1, <1>8, <1>12, <1>15
<1>18. Took(t, u, d)
  BY <1>2, <1>8, <1>12, <1>15, <1>16, <1>17 DEF Took
<1> QED BY <1>1, <1>18

ResultOf(own, direct, error, kids, heap) ==
  Recalculated([Blank EXCEPT !.own = own, !.direct = direct, !.error = error,
                             !.kids = kids], heap)

HasKids(n, kids) == IsNode(n) /\ n.kids = kids

LEMMA ResultNode ==
  ASSUME NEW kids \in Seq(Entries \X Nat), NEW own, NEW direct, NEW error, NEW heap
  PROVE  HasKids(ResultOf(own, direct, error, kids, heap), kids)
<1> DEFINE m == [Blank EXCEPT !.own = own, !.direct = direct, !.error = error, !.kids = kids]
<1>1. DOMAIN m = DOMAIN Blank /\ "kids" \in DOMAIN Blank
  BY DEF Blank
<1>2. m.kids = kids
  BY <1>1
<1>3. m = [f \in DOMAIN m |-> m[f]]
  OBVIOUS
<1> HIDE DEF m
<1>4. IsNode(m)
  BY <1>1, <1>2, <1>3 DEF IsNode
<1>5. IsNode(Recalculated(m, heap)) /\ Recalculated(m, heap).kids = m.kids
  BY <1>4, RecalculatedNode
<1> QED BY <1>2, <1>5 DEF m, ResultOf, HasKids

LEMMA NothingMore ==
  ASSUME NEW d
  PROVE  /\ EntriesOf(d, <<>>) /\ Range(<<>>) = {} /\ Cardinality(Range(<<>>) \cap Dirs) = 0
         /\ \A s \in Seq(Entries) : s \o <<>> = s
<1>1. Range(<<>>) = {}
  BY DEF Range
<1>2. Cardinality(Range(<<>>) \cap Dirs) = 0
  <2>1. Range(<<>>) \cap Dirs = {}
    BY <1>1
  <2> QED BY <2>1, FS_EmptySet
<1>3. EntriesOf(d, <<>>)
  BY DEF EntriesOf
<1>4. ASSUME NEW s \in Seq(Entries) PROVE s \o <<>> = s
  BY ConcatEmptySeq
<1> QED BY <1>1, <1>2, <1>3, <1>4

\* The entries of r are of its directory, whose result it is.
Awaits(t, r) ==
  /\ r.path \in Active(t) /\ r.path \notin Shape(t).scanned
  /\ EntriesOf(r.path, r.entries)

\* Entries as a chunk or a result brings them, of which none was handed out.
NewRef(t, e) ==
  \/ e[1] \notin Dirs
  \/ e[1] \in Dirs \ Out(Shape(t)) /\ e = <<e[1], 1>>

\* The entries of a chunk or a result are new.
LEMMA NewRefs ==
  ASSUME NEW t, Sound(t), NEW d \in Dirs, NEW s, EntriesOf(d, s),
         Range(s) \cap Range(Names(t, d)) = {}, NEW i \in DOMAIN Refs(s)
  PROVE  NewRef(t, Refs(s)[i])
<1> DEFINE l == Listed(s)
<1>1. /\ Refs(s) = [k \in DOMAIN l |-> <<l[k], Flag(l[k] \in Dirs)>>]
      /\ EntriesOf(d, l) /\ Range(l) \subseteq Range(s)
  BY FoundInOrder DEF Refs
<1>2. i \in DOMAIN l /\ Refs(s)[i] = <<l[i], Flag(l[i] \in Dirs)>>
  BY <1>1
<1>3. ASSUME l[i] \in Dirs PROVE l[i] \notin Out(Shape(t))
  <2>1. l[i] \in Range(Listing[d]) /\ l[i] \in Range(s)
    BY <1>1, <1>2 DEF EntriesOf, Range
  <2>2. l[i] \notin Range(Shape(t).names[d])
    BY <2>1, ShapeOf DEF Sound
  <2> QED BY <1>3, <2>1, <2>2, UnlistedIsNew DEF Sound
<1> HIDE DEF l
<1>4. CASE l[i] \in Dirs
  <2>1. Refs(s)[i] = <<l[i], 1>>
    BY <1>2, <1>4 DEF Flag
  <2> QED BY <2>1, <1>3, <1>4 DEF NewRef
<1>5. CASE l[i] \notin Dirs
  BY <1>2, <1>5 DEF NewRef
<1> QED BY <1>4, <1>5

\* n may be installed as d's result; the directories it brings are those of l.
Installable(t, d, v, n, l) ==
  /\ Sound(t) /\ d \in Active(t) /\ Writable(t, d) /\ d \notin Shape(t).scanned
  /\ Primes(t, v, d) /\ IsNode(n) /\ EntriesOf(d, l)
  /\ Range(l) \cap Range(Names(t, d)) = {} /\ NamesOf(n.kids) = Names(t, d) \o l
  /\ v.at[d].remaining = t.at[d].remaining + Cardinality(Range(l) \cap Dirs)

\* u comes from t by installing a result for d that lists what it listed before,
\* and what is new.
Installs(t, d, u) ==
  \E v, n, before, l :
    /\ Installable(EnsureMutable(t, d), d, v, n, l) /\ u = Install(v, d, n, before)
    /\ \A i \in DOMAIN n.kids :
         \/ n.kids[i] \in Range(Kids(EnsureMutable(t, d), d))
         \/ NewRef(EnsureMutable(t, d), n.kids[i])

LEMMA WholeInstalls ==
  ASSUME NEW t, Sound(t), NEW r, Awaits(t, r), Kids(t, r.path) = <<>>
  PROVE  Installs(t, r.path, ApplyWhole(t, r))
<1> DEFINE d    == r.path
           dirs == CountIn(r.entries, Dirs)
           l    == Listed(r.entries)
           n    == ResultOf(r.own, r.locked, r.error, Refs(r.entries), t.heap)
           found == Len([Blank EXCEPT !.own = r.own, !.direct = r.locked,
                                      !.error = r.error, !.kids = Refs(r.entries)].kids)
           t1   == EnsureMutable(t, d)
           s    == [t1.at[d] EXCEPT !.locked = r.locked, !.remaining = dirs, !.found = found]
           told == InState(t1, d, s)
           t2   == [told EXCEPT !.outstanding = @ + dirs]
<1>1. ApplyWhole(t, r) = Install(t2, d, n, Untouched)
  BY DEF ApplyWhole, ResultOf
<1>2. /\ EntriesOf(d, l) /\ NamesOf(Refs(r.entries)) = l
      /\ Refs(r.entries) \in Seq(Entries \X Nat)
      /\ dirs = Cardinality(Range(l) \cap Dirs) /\ dirs \in Nat
  BY FoundInOrder DEF Awaits
<1>3. IsNode(n) /\ n.kids = Refs(r.entries)
  <2>1. HasKids(n, Refs(r.entries))
    BY <1>2, ResultNode
  <2> QED BY <2>1 DEF HasKids
<1>4. Calm(t, t1) /\ Writable(t1, d)
  BY EnsuringCalm DEF Awaits
<1> HIDE DEF t1, n, dirs, l, found
<1>5. /\ Sound(t1) /\ Shape(t1) = Shape(t) /\ Active(t1) = Active(t)
      /\ \A e \in Dirs : Names(t1, e) = Names(t, e)
  BY <1>4, CalmShape DEF Sound
<1>6. d \in Active(t1) /\ d \in Dirs /\ d \notin Shape(t1).scanned
  BY <1>5 DEF Awaits, Active, Out
<1>7. Names(t1, d) = <<>> /\ Range(Names(t1, d)) = {}
  <2>1. Names(t, d) = <<>>
    BY DEF Names, NamesOf
  <2> QED BY <2>1, <1>5, <1>6, NothingMore
<1>8. t1.at[d].remaining = 0
  <2>1. Open(Shape(t1), d) = {}
    BY <1>5, <1>6, <1>7, ShapeOf DEF Open, Sound
  <2>2. Shape(t1).remaining[d] = Cardinality(Open(Shape(t1), d))
    BY <1>5, <1>6 DEF Sound, ShapeSound, RemainingCounts
  <2> QED BY <2>1, <2>2, <1>5, <1>6, FS_EmptySet, ShapeOf DEF Sound
<1>9. IsState(t1.at[d]) /\ IsTree(t1)
  BY <1>5, <1>6 DEF Sound, Formed
<1>10. /\ IsState(s) /\ s.settled = t1.at[d].settled
       /\ s.index = t1.at[d].index /\ s.cursor = t1.at[d].cursor /\ s.live = t1.at[d].live
       /\ s.remaining = dirs
  BY <1>2, <1>9 DEF IsState
<1> HIDE DEF s
<1>11. /\ t2.heap = t1.heap /\ t2.generation = t1.generation /\ t2.settled = t1.settled
       /\ t2.changed = t1.changed
       /\ t2.at = [t1.at EXCEPT ![d] = s] /\ DOMAIN t2 = DOMAIN t1
  BY <1>9 DEF InState, IsTree
<1> HIDE DEF t2
<1>12. Primes(t1, t2, d) /\ t2.at[d] = s
  <2>1. DOMAIN t2.at = Dirs /\ t2.at[d] = s /\ \A e \in Dirs \ {d} : t2.at[e] = t1.at[e]
    BY <1>6, <1>9, <1>11 DEF IsTree
  <2>2. IsTree(t2)
    BY <2>1, <1>9, <1>11 DEF IsTree
  <2> QED BY <2>1, <2>2, <1>10, <1>11 DEF Primes
<1>13. NamesOf(n.kids) = Names(t1, d) \o l
  <2>1. l \in Seq(Entries)
    BY <1>2 DEF EntriesOf
  <2>2. <<>> \o l = l
    BY <2>1, ConcatEmptySeq
  <2> QED BY <2>2, <1>2, <1>3, <1>7
<1>14. t2.at[d].remaining = t1.at[d].remaining + Cardinality(Range(l) \cap Dirs)
  BY <1>2, <1>8, <1>10, <1>12
<1>15. Range(l) \cap Range(Names(t1, d)) = {}
  BY <1>7
<1>16. Installable(t1, d, t2, n, l)
  BY <1>2, <1>3, <1>4, <1>5, <1>6, <1>12, <1>13, <1>14, <1>15 DEF Installable
<1>17. \A i \in DOMAIN n.kids : NewRef(t1, n.kids[i])
  <2>1. EntriesOf(d, r.entries) /\ Range(r.entries) \cap Range(Names(t1, d)) = {}
    BY <1>7 DEF Awaits
  <2> QED BY <2>1, <1>3, <1>5, <1>6, NewRefs
<1> QED BY <1>1, <1>16, <1>17 DEF Installs, t1

LEMMA StreamedInstalls ==
  ASSUME NEW t, Sound(t), NEW r, Awaits(t, r)
  PROVE  Installs(t, r.path, ApplyStreamed(t, r))
<1> DEFINE d     == r.path
           t1    == EnsureMutable(t, d)
           was   == Current(t1, d)
           carry == r.error /\ ~r.streamed /\ was.kids # <<>>
           own   == IF carry THEN was.own ELSE r.own
           direct == IF carry THEN t1.at[d].locked ELSE r.locked
           node  == [Blank EXCEPT !.own = own, !.direct = direct,
                                  !.error = r.error, !.kids = was.kids]
           s     == [t1.at[d] EXCEPT !.locked = node.direct]
           t2    == InState(t1, d, s)
           n     == ResultOf(own, direct, r.error, was.kids, t1.heap)
<1>1. ApplyStreamed(t, r) = Install(t2, d, n, Contribution(was))
  BY DEF ApplyStreamed, ResultOf
<1>4. Calm(t, t1) /\ Writable(t1, d)
  BY EnsuringCalm DEF Awaits
<1> HIDE DEF t1
<1>5. /\ Sound(t1) /\ Shape(t1) = Shape(t) /\ Active(t1) = Active(t)
  BY <1>4, CalmShape DEF Sound
<1>6. d \in Active(t1) /\ d \in Dirs /\ d \notin Shape(t1).scanned
  BY <1>5 DEF Awaits, Active, Out
<1>7. /\ was.kids \in Seq(Entries \X Nat) /\ Names(t1, d) = NamesOf(was.kids)
      /\ Names(t1, d) \in Seq(Entries)
  <2>1. was.kids \in Seq(Entries \X Nat) /\ Names(t1, d) = NamesOf(was.kids)
    BY <1>5, <1>6, CurrentNode DEF Sound, Names, Kids
  <2> QED BY <2>1, NamesOfSeq
<1> HIDE DEF own, direct, was
<1>3. IsNode(n) /\ n.kids = was.kids
  <2>1. HasKids(n, was.kids)
    BY <1>7, ResultNode
  <2> QED BY <2>1 DEF HasKids
<1> HIDE DEF n, node
<1>9. IsState(t1.at[d]) /\ IsTree(t1)
  BY <1>5, <1>6 DEF Sound, Formed
<1>10. /\ IsState(s) /\ s.settled = t1.at[d].settled
       /\ s.index = t1.at[d].index /\ s.cursor = t1.at[d].cursor /\ s.live = t1.at[d].live
       /\ s.remaining = t1.at[d].remaining /\ s.remaining \in Int
  BY <1>9 DEF IsState
<1> HIDE DEF s
<1>11. /\ t2.heap = t1.heap /\ t2.generation = t1.generation /\ t2.settled = t1.settled
       /\ t2.changed = t1.changed
       /\ t2.at = [t1.at EXCEPT ![d] = s] /\ DOMAIN t2 = DOMAIN t1
  BY <1>9 DEF InState, IsTree
<1> HIDE DEF t2
<1>12. Primes(t1, t2, d) /\ t2.at[d] = s
  <2>1. DOMAIN t2.at = Dirs /\ t2.at[d] = s /\ \A e \in Dirs \ {d} : t2.at[e] = t1.at[e]
    BY <1>6, <1>9, <1>11 DEF IsTree
  <2>2. IsTree(t2)
    BY <2>1, <1>9, <1>11 DEF IsTree
  <2> QED BY <2>1, <2>2, <1>10, <1>11 DEF Primes
<1> DEFINE l == <<>>
<1>13. /\ EntriesOf(d, l) /\ Range(l) \cap Range(Names(t1, d)) = {}
       /\ NamesOf(n.kids) = Names(t1, d) \o l
       /\ Cardinality(Range(l) \cap Dirs) = 0
  BY <1>3, <1>7, NothingMore
<1> HIDE DEF l
<1>14. t2.at[d].remaining = t1.at[d].remaining + Cardinality(Range(l) \cap Dirs)
  BY <1>10, <1>12, <1>13
<1>15. Installable(t1, d, t2, n, l)
  BY <1>3, <1>4, <1>5, <1>6, <1>12, <1>13, <1>14 DEF Installable
<1>16. \A i \in DOMAIN n.kids : n.kids[i] \in Range(Kids(t1, d))
  BY <1>3 DEF was, Kids, Range
<1> QED BY <1>1, <1>15, <1>16 DEF Installs, t1

LEMMA TookThrough ==
  ASSUME NEW t, NEW t1, NEW u, NEW d, Sound(t), Calm(t, t1), Took(t1, u, d)
  PROVE  Took(t, u, d)
<1>1. /\ Shape(t1) = Shape(t) /\ Careful(t, t1) /\ Sound(t1)
      /\ \A e \in Dirs : Names(t1, e) = Names(t, e)
  BY CalmShape DEF Sound
<1>2. Careful(t, u)
  BY <1>1, CarefulOn DEF Took, Sound
<1> QED BY <1>1, <1>2 DEF Took

LEMMA ResultInstalls ==
  ASSUME NEW t, Sound(t), NEW r, Awaits(t, r)
  PROVE  Installs(t, r.path, ApplyResult(t, r))
BY WholeInstalls, StreamedInstalls DEF ApplyResult, Kids

LEMMA ApplyingResult ==
  ASSUME NEW t, Sound(t), NEW r, Awaits(t, r)
  PROVE  Took(t, ApplyResult(t, r), r.path)
<1> DEFINE d == r.path
           t1 == EnsureMutable(t, d)
<1>1. PICK v, n, before, l :
        Installable(t1, d, v, n, l) /\ ApplyResult(t, r) = Install(v, d, n, before)
  BY ResultInstalls DEF Installs
<1>2. Calm(t, t1)
  BY EnsuringCalm DEF Awaits
<1> HIDE DEF t1
<1>3. Took(t1, Install(v, d, n, before), d)
  BY <1>1, Installing DEF Installable
<1> QED BY <1>1, <1>2, <1>3, TookThrough

-----------------------------------------------------------------------------
(* Frames.                                                                 *)

\* What a step may not do to the nodes of frames and of settled directories.
Kept(t, u, f) ==
  /\ \A ref \in f : u.heap[ref[1]][ref[2]] = t.heap[ref[1]][ref[2]]
  /\ \A d \in t.settled : d \in u.settled /\ u.heap[d] = t.heap[d]

LEMMA CarefulKeeps ==
  ASSUME NEW t, Formed(t), NEW u, Formed(u), Careful(t, u), NEW f, FrozenSound(t, f)
  PROVE  Kept(t, u, f) /\ FrozenSound(u, f)
<1>1. ASSUME NEW ref \in f
      PROVE  /\ u.heap[ref[1]][ref[2]] = t.heap[ref[1]][ref[2]]
             /\ ref[1] \in Dirs /\ ref[2] \in DOMAIN u.heap[ref[1]]
             /\ ref[2] = Len(u.heap[ref[1]]) => ref[1] \in Stales(u)
  <2> DEFINE d == ref[1]
             k == ref[2]
             h == t.heap[d]
             g == u.heap[d]
  <2>1. d \in Dirs /\ k \in DOMAIN h /\ (k = Len(h) => d \in Stales(t))
    BY DEF FrozenSound
  <2>2. CarefulAt(h, g, d \in Stales(t), d \notin Stales(u))
    BY <2>1 DEF Careful
  <2>3. /\ DOMAIN h = 1..Len(h) /\ Len(h) \in Nat /\ DOMAIN g = 1..Len(g) /\ Len(g) \in Nat
    BY <2>1, ChainParts DEF Formed
  <2> HIDE DEF d, k, h, g
  <2>4. g[k] = h[k]
    <3>1. k < Len(h) \/ d \in Stales(t)
      BY <2>1, <2>3
    <3> QED BY <3>1, <2>1, <2>2 DEF CarefulAt
  <2>5. k \in DOMAIN g
    BY <2>1, <2>2, <2>3 DEF CarefulAt
  <2>6. ASSUME k = Len(g), d \notin Stales(u) PROVE FALSE
    <3>1. Len(h) <= Len(g) /\ (d \in Stales(t) => Len(h) < Len(g))
      BY <2>2, <2>6 DEF CarefulAt
    <3>2. k <= Len(h)
      BY <2>1, <2>3
    <3>4. Len(g) <= Len(h) /\ k = Len(g)
      BY <3>2, <2>6
    <3>5. Len(h) = Len(g)
      BY <3>1, <3>4, <2>3
    <3>3. k = Len(h)
      BY <3>4, <3>5
    <3> QED BY <3>1, <3>3, <2>1, <2>3, <2>6
  <2> QED BY <2>1, <2>4, <2>5, <2>6 DEF d, k, h, g
<1>2. \A d \in t.settled : d \in u.settled /\ u.heap[d] = t.heap[d]
  BY DEF Careful, Formed, IsTree
<1> QED BY <1>1, <1>2 DEF Kept, FrozenSound

LEMMA NextGenerationSound ==
  ASSUME NEW t, Sound(t), NEW f, FrozenSound(t, f)
  PROVE  /\ Sound(NextGeneration(t)) /\ Shape(NextGeneration(t)) = Shape(t)
         /\ NextGeneration(t).heap = t.heap /\ NextGeneration(t).settled = t.settled
         /\ FrozenSound(NextGeneration(t), f \cup SeenRefs(t))
<1> DEFINE u == NextGeneration(t)
<1>1. /\ u.heap = t.heap /\ u.at = t.at /\ u.generation = t.generation + 1
      /\ u.settled = t.settled /\ DOMAIN u = DOMAIN t /\ t.generation \in Nat
  BY DEF NextGeneration, Sound, Formed, IsTree
<1> HIDE DEF u
<1>2. IsTree(u)
  BY <1>1 DEF Sound, Formed, IsTree
<1>3. ASSUME NEW d \in Dirs
      PROVE  /\ u.at[d].gen <= u.generation /\ d \in Stales(u)
  <2>1. t.at[d].gen \in Int /\ t.at[d].gen <= t.generation
    BY DEF Sound, Formed, IsState
  <2> QED BY <2>1, <1>1 DEF Stales
<1>4. Formed(u)
  BY <1>1, <1>2, <1>3 DEF Sound, Formed
<1>5. Shape(u) = Shape(t)
  <2>1. \A d \in Dirs : Names(u, d) = Names(t, d)
    BY <1>1 DEF Names, Kids, Current
  <2> QED BY <2>1, <1>1, SameShape
<1>6. FreshUp(u)
  BY <1>3 DEF FreshUp, Out
<1>7. Sound(u)
  BY <1>4, <1>5, <1>6 DEF Sound
<1>8. FrozenSound(u, f \cup SeenRefs(t))
  <2>1. ASSUME NEW ref \in f \cup SeenRefs(t)
        PROVE  ref[1] \in Dirs /\ ref[2] \in DOMAIN u.heap[ref[1]]
    <3>1. CASE ref \in f
      BY <3>1, <1>1 DEF FrozenSound
    <3>2. CASE ref \in SeenRefs(t)
      <4> DEFINE seen == Seen(t)
      <4> HIDE DEF seen
      <4>1. SeenRefs(t) = {<<d, seen[d]>> : d \in {e \in Dirs : seen[e] \in DOMAIN t.heap[e]}}
        BY DEF SeenRefs, seen
      <4>2. PICK d \in Dirs : ref = <<d, seen[d]>> /\ seen[d] \in DOMAIN t.heap[d]
        BY <3>2, <4>1
      <4> QED BY <4>2, <1>1
    <3> QED BY <3>1, <3>2
  <2> QED BY <2>1, <1>3 DEF FrozenSound
<1> QED BY <1>1, <1>5, <1>7, <1>8 DEF u

\* What every step that may publish leaves.
Shown(t) ==
  /\ Sound(tree') /\ Shape(tree') = Shape(t)
  /\ FrozenSound(tree', frozen') /\ Kept(tree, tree', frozen)

LEMMA NamesByShape ==
  ASSUME NEW t, Formed(t), NEW u, Formed(u), Shape(u) = Shape(t)
  PROVE  \A d \in Dirs : Names(u, d) = Names(t, d)
BY ShapeOf

LEMMA Publishing ==
  ASSUME Formed(tree), FrozenSound(tree, frozen), NEW t, Sound(t), Careful(tree, t),
         NEW force, Publish(t, force) \/ (tree' = t /\ UNCHANGED viewVars)
  PROVE  Shown(t)
<1>1. Formed(t)
  BY DEF Sound
<1>2. Kept(tree, t, frozen) /\ FrozenSound(t, frozen)
  BY <1>1, CarefulKeeps
<1>3. CASE tree' = t /\ UNCHANGED viewVars
  BY <1>2, <1>3 DEF Shown, viewVars
<1>4. CASE tree' = NextGeneration(t) /\ frozen' = frozen \cup SeenRefs(t)
  <2>1. /\ Sound(tree') /\ Shape(tree') = Shape(t) /\ tree'.heap = t.heap
        /\ tree'.settled = t.settled /\ FrozenSound(tree', frozen')
    BY <1>2, <1>4, NextGenerationSound
  <2> QED BY <2>1, <1>2 DEF Shown, Kept
<1> QED BY <1>3, <1>4 DEF Publish

LEMMA Noting ==
  ASSUME NEW t, Sound(t), NEW d \in Dirs, NEW next
  PROVE  Calm(t, InState(t, d, [t.at[d] EXCEPT !.nextAt = next]))
<1> DEFINE s == [t.at[d] EXCEPT !.nextAt = next]
           u == InState(t, d, s)
<1>1. IsState(t.at[d]) /\ IsTree(t)
  BY DEF Sound, Formed
<1>2. /\ IsState(s) /\ s.settled = t.at[d].settled /\ s.gen = t.at[d].gen
      /\ s.index = t.at[d].index /\ s.cursor = t.at[d].cursor /\ s.live = t.at[d].live
      /\ s.scanned = t.at[d].scanned /\ s.remaining = t.at[d].remaining
  BY <1>1 DEF IsState
<1> HIDE DEF s
<1>3. /\ u.heap = t.heap /\ u.generation = t.generation /\ u.settled = t.settled
      /\ u.at = [t.at EXCEPT ![d] = s] /\ DOMAIN u = DOMAIN t
  BY <1>1 DEF InState, IsTree
<1> HIDE DEF u
<1>4. DOMAIN u.at = Dirs /\ \A e \in Dirs : u.at[e] = IF e = d THEN s ELSE t.at[e]
  BY <1>1, <1>3 DEF IsTree
<1>5. ASSUME NEW e \in Dirs
      PROVE  /\ IsState(u.at[e]) /\ u.at[e].settled = t.at[e].settled
             /\ u.at[e].gen = t.at[e].gen /\ u.at[e].index = t.at[e].index
             /\ u.at[e].cursor = t.at[e].cursor /\ u.at[e].live = t.at[e].live
             /\ u.at[e].scanned = t.at[e].scanned /\ u.at[e].remaining = t.at[e].remaining
  BY <1>2, <1>4 DEF Sound, Formed
<1>6. IsTree(u)
  BY <1>1, <1>3, <1>4 DEF IsTree
<1>7. Formed(u)
  BY <1>3, <1>5, <1>6 DEF Sound, Formed
<1>8. Stales(u) = Stales(t)
  BY <1>3, <1>5 DEF Stales
<1>9. Shape(u) = Shape(t)
  <2>1. \A e \in Dirs : Names(u, e) = Names(t, e)
    BY <1>3 DEF Names, Kids, Current
  <2> QED BY <2>1, <1>3, <1>5, SameShape
<1>10. Careful(t, u)
  <2>1. \A e \in Dirs : Len(t.heap[e]) \in Nat
    BY ChainParts DEF Formed, Sound
  <2> QED BY <2>1, <1>3, <1>8 DEF Careful, CarefulAt
<1>11. Quiet(t, u)
  BY <1>3, <1>7, <1>9, <1>10 DEF Quiet
<1>12. Calm(t, u)
  BY <1>8, <1>11, QuietSound DEF Calm
<1> QED BY <1>12 DEF u, s

-----------------------------------------------------------------------------
(* Handing out.                                                            *)

\* u is t with those in D handed out.
Opened(t, u, D) ==
  /\ Sound(u) /\ u.heap = t.heap /\ u.settled = t.settled
  /\ Stales(t) \subseteq Stales(u)
  /\ Shape(u).scanned = Shape(t).scanned /\ Shape(u).names = Shape(t).names
  /\ Out(Shape(u)) = Out(Shape(t)) \cup D

\* u is t with other states.
Restates(t, u) ==
  /\ IsTree(u) /\ u.heap = t.heap /\ u.settled = t.settled /\ u.generation = t.generation
  /\ \A e \in Dirs :
       /\ IsState(u.at[e]) /\ u.at[e].gen <= u.generation
       /\ u.at[e].settled = (e \in u.settled)

LEMMA Restating ==
  ASSUME NEW t, Sound(t), NEW u, Restates(t, u)
  PROVE  /\ Formed(u) /\ Shape(u).names = Shape(t).names /\ Shape(u).settled = Shape(t).settled
         /\ \A e \in Dirs : Names(u, e) = Names(t, e)
<1>1. Formed(u)
  BY DEF Restates, Sound, Formed
<1>2. \A e \in Dirs : Names(u, e) = Names(t, e)
  BY DEF Restates, Names, Kids, Current
<1>3. [e \in Dirs |-> Names(u, e)] = [e \in Dirs |-> Names(t, e)]
  BY <1>2
<1> QED BY <1>1, <1>2, <1>3 DEF Shape, Restates

LEMMA Advancing ==
  ASSUME NEW t, Sound(t), NEW d \in Dirs,
         {i \in DOMAIN Kids(t, d) : i > t.at[d].cursor /\ Kids(t, d)[i][1] \in Dirs} = {}
  PROVE  Opened(t, [t EXCEPT !.at = [t.at EXCEPT ![d].cursor = Len(Kids(t, d))]], {})
<1> DEFINE s == [t.at[d] EXCEPT !.cursor = Len(Kids(t, d))]
           at == [t.at EXCEPT ![d] = s]
           u == [t EXCEPT !.at = at]
           sh == Shape(t)
           th == Shape(u)
<1>1. IsState(t.at[d]) /\ IsTree(t) /\ Len(Kids(t, d)) \in Nat /\ t.at[d].settled = (d \in t.settled)
  BY CurrentNode DEF Sound, Formed
<1>2. /\ IsState(s) /\ s.settled = t.at[d].settled /\ s.gen = t.at[d].gen
      /\ s.index = t.at[d].index /\ s.cursor = Len(Kids(t, d)) /\ s.live = t.at[d].live
      /\ s.scanned = t.at[d].scanned /\ s.remaining = t.at[d].remaining
  BY <1>1 DEF IsState
<1> HIDE DEF s
<1>3. DOMAIN at = Dirs /\ \A e \in Dirs : at[e] = IF e = d THEN s ELSE t.at[e]
  BY <1>1 DEF IsTree
<1> HIDE DEF at
<1>4. /\ u.heap = t.heap /\ u.generation = t.generation /\ u.settled = t.settled
      /\ u.at = at /\ DOMAIN u = DOMAIN t
  BY <1>1 DEF IsTree
<1> HIDE DEF u
<1>5. ASSUME NEW e \in Dirs
      PROVE  /\ IsState(u.at[e]) /\ u.at[e].settled = (e \in u.settled)
             /\ u.at[e].gen <= u.generation
             /\ u.at[e].gen = t.at[e].gen /\ u.at[e].index = t.at[e].index
             /\ u.at[e].live = t.at[e].live
             /\ u.at[e].scanned = t.at[e].scanned /\ u.at[e].remaining = t.at[e].remaining
             /\ u.at[e].cursor = IF e = d THEN Len(Kids(t, d)) ELSE t.at[e].cursor
  BY <1>2, <1>3, <1>4 DEF Sound, Formed
<1>6. Restates(t, u)
  BY <1>1, <1>3, <1>4, <1>5 DEF Restates, IsTree
<1>7. Formed(u) /\ th.names = sh.names /\ th.settled = sh.settled
  BY <1>6, Restating
<1>8. Stales(u) = Stales(t)
  BY <1>4, <1>5 DEF Stales
<1>9. th.index = sh.index /\ th.remaining = sh.remaining /\ th.scanned = sh.scanned
      /\ th.live = sh.live
  BY <1>5 DEF Shape
<1>10. Len(sh.names[d]) = Len(Kids(t, d)) /\ sh.names[d] = Names(t, d)
  BY CurrentNode, ShapeOf, NamesOfSeq DEF Sound, Names
<1>11. \A e \in Dirs : th.cursor[e] = IF e = d THEN Len(sh.names[d]) ELSE sh.cursor[e]
  BY <1>5, <1>7, <1>10, ShapeOf DEF Sound
<1>12. Skips(sh, th, d)
  BY <1>7, <1>9, <1>11 DEF Skips
<1>13. NothingAhead(sh, d, Len(sh.names[d]) + 1)
  <2>1. ASSUME NEW j \in DOMAIN sh.names[d], j > sh.cursor[d] PROVE sh.names[d][j] \notin Dirs
    <3>1. j \in DOMAIN Kids(t, d) /\ sh.names[d][j] = Kids(t, d)[j][1]
      BY <1>10, CurrentNode DEF Sound
    <3>2. sh.cursor[d] = t.at[d].cursor
      BY ShapeOf DEF Sound
    <3> QED BY <2>1, <3>1, <3>2
  <2> QED BY <2>1 DEF NothingAhead
<1>14. ShapeSound(th) /\ Out(th) = Out(sh)
  <2>1. ShapeSound(sh)
    BY DEF Sound
  <2> HIDE DEF sh, th
  <2> QED BY <2>1, <1>12, <1>13, Skipping
<1>15. Sound(u)
  BY <1>7, <1>8, <1>14 DEF Sound, FreshUp
<1>16. Opened(t, u, {})
  BY <1>4, <1>7, <1>8, <1>9, <1>14, <1>15 DEF Opened
<1>17. [t EXCEPT !.at = [t.at EXCEPT ![d].cursor = Len(Kids(t, d))]] = u
  BY DEF u, at, s
<1> QED BY <1>16, <1>17

LEMMA Opening ==
  ASSUME NEW t, Sound(t), NEW d \in Dirs, NEW i \in DOMAIN Kids(t, d),
         i > t.at[d].cursor, Kids(t, d)[i][1] \in Dirs,
         \A j \in DOMAIN Kids(t, d) : j > t.at[d].cursor /\ j < i => Kids(t, d)[j][1] \notin Dirs
  PROVE  /\ Opened(t, [t EXCEPT !.at = [[t.at EXCEPT ![d].cursor = i]
                                        EXCEPT ![Kids(t, d)[i][1]] = Fresh(Stale, i)]],
                   {Kids(t, d)[i][1]})
         /\ Kids(t, d)[i][1] \notin Out(Shape(t)) /\ Names(t, Kids(t, d)[i][1]) = <<>>
<1> DEFINE c == Kids(t, d)[i][1]
           s == [t.at[d] EXCEPT !.cursor = i]
           at == [[t.at EXCEPT ![d] = s] EXCEPT ![c] = Fresh(Stale, i)]
           u == [t EXCEPT !.at = at]
           sh == Shape(t)
           th == Shape(u)
<1>1. /\ IsState(t.at[d]) /\ IsTree(t) /\ Len(Kids(t, d)) \in Nat
      /\ t.at[d].settled = (d \in t.settled) /\ i \in Nat
      /\ t.generation \in Nat
  BY CurrentNode DEF Sound, Formed, IsTree
<1>2. /\ sh.names[d] = Names(t, d) /\ DOMAIN Names(t, d) = DOMAIN Kids(t, d)
      /\ \A j \in DOMAIN Kids(t, d) : Names(t, d)[j] = Kids(t, d)[j][1]
      /\ sh.cursor[d] = t.at[d].cursor /\ sh.settled = t.settled
  BY CurrentNode, ShapeOf DEF Sound
<1> HIDE DEF c
<1>3. /\ i \in DOMAIN sh.names[d] /\ sh.names[d][i] = c /\ i > sh.cursor[d] /\ c \in Dirs
      /\ NothingAhead(sh, d, i)
  BY <1>2 DEF c, NothingAhead
<1>4. c \notin Out(sh) /\ c # Root
  <2>1. ShapeSound(sh)
    BY DEF Sound
  <2> HIDE DEF sh
  <2> QED BY <2>1, <1>3, AheadIsNew
<1>5. c \notin t.settled /\ Names(t, c) = <<>> /\ c \notin sh.scanned
  <2>1. sh.names[c] = <<>> /\ c \notin sh.scanned
    BY <1>3, <1>4 DEF Sound, ShapeSound, RestUntouched
  <2>2. c \notin sh.settled
    BY <2>1 DEF Sound, ShapeSound, SettledSound
  <2> QED BY <2>1, <2>2, <1>2, <1>3, ShapeOf DEF Sound
<1>6. /\ IsState(s) /\ s.settled = t.at[d].settled /\ s.gen = t.at[d].gen
      /\ s.index = t.at[d].index /\ s.cursor = i /\ s.live = t.at[d].live
      /\ s.scanned = t.at[d].scanned /\ s.remaining = t.at[d].remaining
  BY <1>1 DEF IsState
<1> DEFINE f == Fresh(Stale, i)
<1>7. /\ IsState(f) /\ f.settled = FALSE /\ f.gen = -1 /\ f.index = i /\ f.cursor = 0
      /\ f.live = TRUE /\ f.scanned = FALSE /\ f.remaining = 0
  BY <1>1 DEF Fresh, IsState, Stale
<1> HIDE DEF s, f
<1>8. DOMAIN at = Dirs /\ \A e \in Dirs : at[e] = IF e = c THEN f ELSE IF e = d THEN s ELSE t.at[e]
  BY <1>1, <1>3 DEF IsTree, f
<1> HIDE DEF at
<1>9. /\ u.heap = t.heap /\ u.generation = t.generation /\ u.settled = t.settled
      /\ u.at = at /\ DOMAIN u = DOMAIN t
  BY <1>1 DEF IsTree
<1> HIDE DEF u
<1>10a. /\ u.at[c] = f /\ c \in Dirs
        /\ \A e \in Dirs : e # c /\ e = d => u.at[e] = s
        /\ \A e \in Dirs : e # c /\ e # d => u.at[e] = t.at[e]
  BY <1>3, <1>8, <1>9
<1>10b. \A e \in Dirs : e # c =>
         /\ IsState(u.at[e]) /\ u.at[e].settled = t.at[e].settled
         /\ u.at[e].gen = t.at[e].gen
         /\ u.at[e].index = t.at[e].index
         /\ u.at[e].live = t.at[e].live
         /\ u.at[e].scanned = t.at[e].scanned
         /\ u.at[e].remaining = t.at[e].remaining
         /\ u.at[e].cursor = IF e = d THEN i ELSE t.at[e].cursor
  <2>1. ASSUME NEW e \in Dirs, e # c, e # d
        PROVE  IsState(u.at[e]) /\ u.at[e] = t.at[e]
    BY <2>1, <1>10a DEF Sound, Formed
  <2>2. d # c => u.at[d] = s
    BY <1>10a
  <2>3. d # c =>
         /\ IsState(u.at[d]) /\ u.at[d].settled = t.at[d].settled
         /\ u.at[d].gen = t.at[d].gen
         /\ u.at[d].index = t.at[d].index
         /\ u.at[d].live = t.at[d].live
         /\ u.at[d].scanned = t.at[d].scanned
         /\ u.at[d].remaining = t.at[d].remaining
         /\ u.at[d].cursor = i
    BY <1>6, <2>2
  <2> QED BY <2>1, <2>3
<1>10c. /\ IsState(u.at[c]) /\ u.at[c].settled = FALSE /\ u.at[c].gen = -1
        /\ u.at[c].index = i /\ u.at[c].cursor = 0
        /\ u.at[c].live = TRUE /\ u.at[c].scanned = FALSE /\ u.at[c].remaining = 0
  BY <1>7, <1>10a
<1>10d. t.generation # -1 /\ -1 <= t.generation /\ t.at[c].gen <= t.generation
  BY <1>1, <1>3 DEF Sound, Formed
<1>10. \A e \in Dirs : IsState(u.at[e]) /\ u.at[e].settled = (e \in u.settled)
                        /\ u.at[e].gen <= u.generation
  <2>1. ASSUME NEW e \in Dirs, e # c
        PROVE  IsState(u.at[e]) /\ u.at[e].settled = (e \in u.settled)
               /\ u.at[e].gen <= u.generation
    <3>1. t.at[e].gen <= t.generation /\ t.at[e].settled = (e \in t.settled)
      BY DEF Sound, Formed
    <3> QED BY <3>1, <2>1, <1>10b, <1>9
  <2>2. u.at[c].settled = (c \in u.settled)
    <3>1. ~(c \in u.settled)
      BY <1>5, <1>9
    <3>2. ~u.at[c].settled
      BY <1>10c
    <3>3. u.at[c].settled = FALSE
      BY <1>10c
    <3>4. (c \in u.settled) = FALSE
      BY <3>1
    <3> QED BY <3>3, <3>4
  <2>3. u.at[c].gen <= u.generation
    <3>1. u.at[c].gen = -1 /\ u.generation = t.generation
      BY <1>10c, <1>9
    <3> QED BY <3>1, <1>10d
  <2> QED BY <2>1, <2>2, <2>3, <1>10c
<1>11. Restates(t, u)
  BY <1>1, <1>8, <1>9, <1>10 DEF Restates, IsTree
<1>12. Formed(u) /\ th.names = sh.names /\ th.settled = sh.settled
  BY <1>11, Restating
<1>13a. c \in Stales(u)
  <2>1. u.at[c].gen = -1 /\ u.generation = t.generation
    BY <1>10c, <1>9
  <2>2. u.at[c].gen # u.generation
    BY <2>1, <1>10d
  <2> QED BY <2>2, <1>3 DEF Stales
<1>13b. \A e \in Dirs : e # c => (e \in Stales(u) <=> e \in Stales(t))
  BY <1>9, <1>10b DEF Stales
<1>13. Stales(t) \subseteq Stales(u)
  BY <1>13a, <1>13b DEF Stales
<1>14. HandsOut(sh, th, d, i)
  <2>1. \A e \in Dirs : e # c =>
          /\ th.index[e] = sh.index[e]
          /\ th.cursor[e] = IF e = d THEN i ELSE sh.cursor[e]
          /\ th.remaining[e] = sh.remaining[e]
          /\ e \in th.scanned <=> e \in sh.scanned
          /\ e \in th.live <=> e \in sh.live
    BY <1>10b DEF Shape
  <2>2. th.index[c] = i /\ th.cursor[c] = 0 /\ th.remaining[c] = 0
    BY <1>10c, <1>3 DEF Shape
  <2>2a. c \notin th.scanned
    BY <1>10c, <1>3 DEF Shape
  <2>2b. c \in th.live
    BY <1>10c, <1>3 DEF Shape
  <2>3. th.scanned \subseteq Dirs /\ sh.scanned \subseteq Dirs /\ th.live \subseteq Dirs
        /\ sh.live \subseteq Dirs
    BY DEF Shape
  <2> HIDE DEF sh, th
  <2>4. th.scanned = sh.scanned \ {c}
    BY <2>1, <2>2a, <2>3, <1>3
  <2>5. th.live = sh.live \cup {c}
    BY <2>1, <2>2b, <2>3, <1>3
  <2>6. \A e \in Dirs :
          /\ th.index[e] = IF e = c THEN i ELSE sh.index[e]
          /\ th.cursor[e] = IF e = c THEN 0 ELSE IF e = d THEN i ELSE sh.cursor[e]
          /\ th.remaining[e] = IF e = c THEN 0 ELSE sh.remaining[e]
    BY <2>1, <2>2
  <2> QED BY <2>4, <2>5, <2>6, <1>3, <1>12 DEF HandsOut
<1>15. ShapeSound(th) /\ Out(th) = Out(sh) \cup {c} /\ c # d
  <2>1. ShapeSound(sh)
    BY DEF Sound
  <2>2. i \in DOMAIN sh.names[d] /\ i > sh.cursor[d] /\ sh.names[d][i] \in Dirs
        /\ NothingAhead(sh, d, i) /\ HandsOut(sh, th, d, i) /\ d \in Dirs
    BY <1>3, <1>14
  <2>3. sh.names[d][i] = c
    BY <1>3
  <2> HIDE DEF sh, th
  <2>4. /\ ShapeSound(th) /\ Out(th) = Out(sh) \cup {sh.names[d][i]}
        /\ sh.names[d][i] \notin Out(sh) /\ sh.names[d][i] # d
    BY ONLY <2>1, <2>2, HandingOut
  <2> QED BY <2>3, <2>4
<1>16. FreshUp(u)
  <2>1. ASSUME NEW e \in Out(th) \ {Root}, e \notin Stales(u) PROVE ParentOf(e) \notin Stales(u)
    <3>1. e # c
      BY <1>13a, <2>1
    <3>2. e \in Out(sh) \ {Root} /\ e \notin Stales(t)
      BY <2>1, <3>1, <1>13b, <1>15 DEF Out
    <3>3. ParentOf(e) \in Out(sh) /\ ParentOf(e) \in Dirs
      BY <3>2, OutParents DEF Sound, ShapeSound
    <3>4. ParentOf(e) \notin Stales(t)
      BY <3>2 DEF Sound, FreshUp
    <3>5. ParentOf(e) # c
      BY <3>3, <1>4
    <3> QED BY <3>3, <3>4, <3>5, <1>13b
  <2> QED BY <2>1 DEF FreshUp
<1>17. Sound(u)
  BY <1>12, <1>15, <1>16 DEF Sound
<1>18. th.scanned = sh.scanned
  BY <1>3, <1>5, <1>14 DEF HandsOut
<1>19. Opened(t, u, {c})
  BY <1>9, <1>12, <1>13, <1>15, <1>17, <1>18 DEF Opened
<1>20. [t EXCEPT !.at = [[t.at EXCEPT ![d].cursor = i]
                         EXCEPT ![Kids(t, d)[i][1]] = Fresh(Stale, i)]] = u
  BY DEF u, at, s, c
<1> QED BY <1>4, <1>5, <1>19, <1>20 DEF c
-----------------------------------------------------------------------------
(* The tasks.                                                              *)

InPending == Range(pending)
InJobs == Range(jobs) \ {Stop}
InWork == {wk[w].job : w \in Pool} \ {Stop}
InFinished == {finished[i].path : i \in DOMAIN finished}
InBatch == {r.path : r \in batch}

Apart ==
  /\ \A i, j \in DOMAIN pending : pending[i] = pending[j] => i = j
  /\ \A i, j \in DOMAIN jobs : jobs[i] = jobs[j] /\ jobs[i] # Stop => i = j
  /\ \A v, w \in Pool : wk[v].job = wk[w].job /\ wk[v].job # Stop => v = w
  /\ \A i, j \in DOMAIN finished : finished[i].path = finished[j].path => i = j
  /\ \A r, s \in batch : r.path = s.path => r = s
  /\ InPending \cap (InJobs \cup InWork \cup InFinished \cup InBatch) = {}
  /\ InJobs \cap (InWork \cup InFinished \cup InBatch) = {}
  /\ InWork \cap (InFinished \cup InBatch) = {}
  /\ InFinished \cap InBatch = {}

\* Those handed out and not yet applied.
Tasks == InPending \cup InJobs \cup InWork \cup InFinished \cup InBatch

TasksSound == Tasks \subseteq Out(Shape(tree)) \ Shape(tree).scanned

\* Chunks bring what nobody has brought before, of directories being read or
\* whose result is there.
ChunksSound ==
  /\ \A i \in DOMAIN chunks :
       /\ chunks[i].path \in InWork \cup InFinished \cup InBatch
       /\ EntriesOf(chunks[i].path, chunks[i].entries)
       /\ Range(chunks[i].entries) \cap Range(Names(tree, chunks[i].path)) = {}
  /\ \A i, j \in DOMAIN chunks : i # j /\ chunks[i].path = chunks[j].path =>
       Range(chunks[i].entries) \cap Range(chunks[j].entries) = {}

ReadUpTo(w) == {Here(w)[k] : k \in {i \in DOMAIN Here(w) : i <= ReadTo(w)}}

\* A reader has brought what stands before its place, and no more.
ReadersSound ==
  \A w \in Pool :
    /\ wk[w].doing = "reading" <=> wk[w].job # Stop
    /\ wk[w].job # Stop =>
         /\ Range(Names(tree, wk[w].job)) \subseteq ReadUpTo(w)
         /\ \A i \in DOMAIN chunks : chunks[i].path = wk[w].job =>
              Range(chunks[i].entries) \subseteq ReadUpTo(w)

\* Of a directory no worker has taken nothing is known.
WaitingBlank ==
  \A d \in InPending \cup InJobs : Names(tree, d) = <<>>

\* While results are applied nothing is left of what they were streamed ahead of.
ResultsSound ==
  /\ \A i \in DOMAIN finished :
       finished[i].path \in Dirs /\ EntriesOf(finished[i].path, finished[i].entries)
  /\ \A r \in batch : r.path \in Dirs /\ EntriesOf(r.path, r.entries)
  /\ batch # {} => pc \in {"drainAgain", "apply", "joining", "done"}
  /\ pc = "apply" => \A i \in DOMAIN chunks : chunks[i].path \notin InBatch

QueuesTyped ==
  /\ pending \in Seq(Dirs) /\ sources \in Seq(Dirs) /\ jobs \in Seq(Dirs \cup {Stop})
  /\ chunks \in Seq(Range(chunks)) /\ finished \in Seq(Range(finished))
  /\ threads \in Nat /\ inFlight \in Int
  /\ wk \in [Pool -> [doing : {"idle", "reading", "gone"}, job : Dirs \cup {Stop}, sent : Nat]]

TreeInv == Sound(tree) /\ FrozenSound(tree, frozen)

IInv ==
  /\ TreeInv /\ QueuesTyped /\ Apart /\ TasksSound
  /\ ChunksSound /\ ReadersSound /\ WaitingBlank /\ ResultsSound

-----------------------------------------------------------------------------
(* Queues.                                                                 *)

\* What stays of a queue whose head is taken.
Popped(s, t) ==
  /\ t \in Seq(Range(t)) /\ 1 \in DOMAIN s /\ Head(s) = s[1] /\ Range(t) \subseteq Range(s)
  /\ \A i \in DOMAIN t : i + 1 \in DOMAIN s /\ t[i] = s[i + 1] /\ i \in Nat /\ i + 1 # 1
  /\ \A i \in DOMAIN s : i = 1 \/ \E j \in DOMAIN t : i = j + 1

LEMMA Popping ==
  ASSUME NEW T, NEW s \in Seq(T), s # <<>>
  PROVE  Popped(s, Tail(s)) /\ Tail(s) \in Seq(T) /\ Head(s) \in T
<1>1. /\ Len(s) \in Nat \ {0} /\ DOMAIN s = 1..Len(s) /\ Head(s) = s[1] /\ s[1] \in T
      /\ Tail(s) \in Seq(T) /\ Len(Tail(s)) = Len(s) - 1
      /\ DOMAIN Tail(s) = 1..(Len(s) - 1)
      /\ \A i \in 1..(Len(s) - 1) : Tail(s)[i] = s[i + 1]
  OBVIOUS
<1> DEFINE t == Tail(s)
<1>3. t \in Seq(Range(t))
  BY <1>1, SeqOfRange
<1>4. \A i \in DOMAIN t : i + 1 \in DOMAIN s /\ t[i] = s[i + 1] /\ i \in Nat /\ i + 1 # 1
  BY <1>1 DEF t
<1>5. \A i \in DOMAIN s : i = 1 \/ \E j \in DOMAIN t : i = j + 1
  <2>1. ASSUME NEW i \in DOMAIN s, i # 1 PROVE i - 1 \in DOMAIN t /\ i = (i - 1) + 1
    BY <1>1, <2>1 DEF t
  <2> QED BY <2>1
<1>6. Range(t) \subseteq Range(s)
  BY <1>4 DEF Range
<1> QED BY <1>1, <1>3, <1>4, <1>5, <1>6 DEF Popped, t

LEMMA PoppedRange ==
  ASSUME NEW s, NEW t, Popped(s, t)
  PROVE  /\ Range(s) = {s[1]} \cup Range(t)
         /\ (\A i, j \in DOMAIN s : s[i] = s[j] => i = j) =>
              Range(t) = Range(s) \ {s[1]}
<1>1. Range(s) = {s[1]} \cup Range(t)
  <2>1. ASSUME NEW x \in Range(s) PROVE x \in {s[1]} \cup Range(t)
    <3>1. PICK i \in DOMAIN s : s[i] = x
      BY DEF Range
    <3>2. CASE i = 1
      BY <3>1, <3>2
    <3>3. CASE \E j \in DOMAIN t : i = j + 1
      <4>1. PICK j \in DOMAIN t : i = j + 1
        BY <3>3
      <4>2. t[j] = x
        BY <4>1, <3>1 DEF Popped
      <4> QED BY <4>2 DEF Range
    <3> QED BY <3>2, <3>3 DEF Popped
  <2>2. s[1] \in Range(s)
    BY DEF Popped, Range
  <2> QED BY <2>1, <2>2 DEF Popped
<1>2. ASSUME \A i, j \in DOMAIN s : s[i] = s[j] => i = j
      PROVE  s[1] \notin Range(t)
  <2> SUFFICES ASSUME NEW k \in DOMAIN t, t[k] = s[1] PROVE FALSE
    BY DEF Range
  <2>1. k + 1 \in DOMAIN s /\ s[k + 1] = s[1] /\ k + 1 # 1 /\ 1 \in DOMAIN s
    BY DEF Popped
  <2> QED BY <2>1, <1>2
<1> QED BY <1>1, <1>2

\* A queue with x at its end.
Pushed(s, t, x) ==
  /\ t \in Seq(Range(t)) /\ Range(t) = Range(s) \cup {x}
  /\ \A i \in DOMAIN t : \/ i \in DOMAIN s /\ t[i] = s[i]
                         \/ i = Len(s) + 1 /\ t[i] = x
  /\ Len(s) + 1 \notin DOMAIN s /\ Len(s) + 1 \in DOMAIN t /\ t[Len(s) + 1] = x
  /\ \A i \in DOMAIN s : i \in DOMAIN t /\ t[i] = s[i]

LEMMA Pushing ==
  ASSUME NEW T, NEW s \in Seq(T), NEW x
  PROVE  Pushed(s, Append(s, x), x)
<1> DEFINE t == Append(s, x)
           l == Len(s)
<1>1. /\ l \in Nat /\ DOMAIN s = 1..l /\ t \in Seq(T \cup {x}) /\ Len(t) = l + 1
      /\ DOMAIN t = 1..(l + 1) /\ t[l + 1] = x /\ \A i \in 1..l : t[i] = s[i]
  <2>1. s \in Seq(T \cup {x}) /\ x \in T \cup {x}
    OBVIOUS
  <2> QED BY <2>1
<1>3. t \in Seq(Range(t))
  BY <1>1, SeqOfRange
<1>4. Range(t) = Range(s) \cup {x}
  BY <1>1 DEF Range
<1> QED BY <1>1, <1>3, <1>4 DEF Pushed, t, l

LEMMA PushedKeys ==
  ASSUME NEW s, NEW t, NEW x, Pushed(s, t, x), x \notin Range(s),
         \A i, j \in DOMAIN s : s[i] = s[j] => i = j
  PROVE  \A i, j \in DOMAIN t : t[i] = t[j] => i = j
<1>1. \A i \in DOMAIN s : s[i] # x
  BY DEF Range
<1> QED BY <1>1 DEF Pushed

\* A queue of numbers with stops at its end.
LEMMA WithStops ==
  ASSUME NEW s \in Seq(Dirs \cup {Stop}), NEW n \in Nat
  PROVE  LET t == s \o [i \in 1..n |-> Stop]
         IN /\ t \in Seq(Dirs \cup {Stop}) /\ Range(t) \ {Stop} = Range(s) \ {Stop}
            /\ \A i \in DOMAIN t : t[i] # Stop => i \in DOMAIN s /\ t[i] = s[i]
<1> DEFINE e == [i \in 1..n |-> Stop]
           t == s \o e
<1>1. e \in Seq(Dirs \cup {Stop}) /\ Len(e) = n /\ \A i \in 1..n : e[i] = Stop
  OBVIOUS
<1> HIDE DEF e
<1>2. /\ Len(s) \in Nat /\ DOMAIN s = 1..Len(s) /\ t \in Seq(Dirs \cup {Stop})
      /\ DOMAIN t = 1..(Len(s) + n) /\ \A i \in 1..Len(s) : t[i] = s[i]
      /\ \A i \in 1..n : t[Len(s) + i] = Stop
  BY <1>1
<1>3. \A i \in DOMAIN t : t[i] # Stop => i \in DOMAIN s /\ t[i] = s[i]
  <2>1. ASSUME NEW i \in DOMAIN t, i \notin DOMAIN s PROVE t[i] = Stop
    <3>1. i - Len(s) \in 1..n /\ Len(s) + (i - Len(s)) = i
      BY <1>2, <2>1
    <3> QED BY <3>1, <1>2
  <2> QED BY <2>1, <1>2
<1>4. \A i \in DOMAIN s : i \in DOMAIN t /\ t[i] = s[i]
  BY <1>2
<1>5. Range(t) \ {Stop} = Range(s) \ {Stop}
  BY <1>3, <1>4 DEF Range
<1> QED BY <1>2, <1>3, <1>5 DEF t, e

LEMMA MaxOfTwo ==
  ASSUME NEW a \in Int, NEW b \in Int
  PROVE  Max({a, b}) \in {a, b} /\ Max({a, b}) >= a /\ Max({a, b}) >= b
<1>1. \E x \in {a, b} : \A y \in {a, b} : x >= y
  BY DEF Max
<1> QED BY <1>1 DEF Max

LEMMA MinOfTwo ==
  ASSUME NEW a \in Int, NEW b \in Int
  PROVE  Min({a, b}) \in {a, b} /\ Min({a, b}) <= a /\ Min({a, b}) <= b
<1>1. \E x \in {a, b} : \A y \in {a, b} : x =< y
  BY DEF Min
<1> QED BY <1>1 DEF Min

-----------------------------------------------------------------------------
(* Steps that leave the tree alone.                                        *)

LEMMA TreeStays ==
  ASSUME TreeInv, tree' = tree, frozen' = frozen
  PROVE  TreeInv'
BY DEF TreeInv

\* A step that moves no task.
LEMMA MovingOn ==
  ASSUME IInv, UNCHANGED <<tree, frozen, batch, pending, sources, jobs, chunks, finished, wk>>,
         threads' \in Nat, inFlight' \in Int, pc' = pc \/ pc' # "apply",
         batch # {} => pc' \in {"drainAgain", "apply", "joining", "done"}
  PROVE  IInv'
<1>1. TreeInv'
  BY TreeStays DEF IInv
<1>2. QueuesTyped'
  BY DEF IInv, QueuesTyped
<1>3. /\ InPending' = InPending /\ InJobs' = InJobs /\ InWork' = InWork
      /\ InFinished' = InFinished /\ InBatch' = InBatch /\ Tasks' = Tasks
  BY DEF InPending, InJobs, InWork, InFinished, InBatch, Tasks
<1>4. Apart'
  BY <1>3 DEF IInv, Apart
<1>5. TasksSound'
  BY <1>3 DEF IInv, TasksSound
<1>6. ChunksSound'
  BY <1>3 DEF IInv, ChunksSound
<1>7. ReadersSound'
  BY DEF IInv, ReadersSound, ReadUpTo, Here, ReadTo
<1>8. WaitingBlank'
  BY <1>3 DEF IInv, WaitingBlank
<1>9. ResultsSound'
  BY <1>3 DEF IInv, ResultsSound
<1> QED BY <1>1, <1>2, <1>4, <1>5, <1>6, <1>7, <1>8, <1>9 DEF IInv

\* The scan ends: what waits may be dropped, each thread is told to stop.
LEMMA ScanStops ==
  ASSUME IInv, UNCHANGED <<tree, frozen, batch, chunks, finished, wk, threads, inFlight>>,
         jobs' = jobs \o [i \in 1..threads |-> Stop], pc' = "joining",
         pending' = pending \/ pending' = <<>>, sources' = sources \/ sources' = <<>>
  PROVE  IInv'
<1>1. TreeInv'
  BY TreeStays DEF IInv
<1>2. /\ jobs' \in Seq(Dirs \cup {Stop}) /\ InJobs' = InJobs
      /\ \A i \in DOMAIN jobs' : jobs'[i] # Stop => i \in DOMAIN jobs /\ jobs'[i] = jobs[i]
  BY WithStops DEF IInv, QueuesTyped, InJobs
<1>3. /\ pending' \in Seq(Dirs) /\ InPending' \subseteq InPending
      /\ \A i \in DOMAIN pending' : i \in DOMAIN pending /\ pending'[i] = pending[i]
  <2>1. CASE pending' = pending
    BY <2>1 DEF IInv, QueuesTyped, InPending
  <2>2. CASE pending' = <<>>
    BY <2>2 DEF InPending, Range
  <2> QED BY <2>1, <2>2
<1>4. QueuesTyped'
  <2>1. sources' \in Seq(Dirs)
    <3>1. sources \in Seq(Dirs)
      BY DEF IInv, QueuesTyped
    <3>2. CASE sources' = <<>>
      BY <3>2
    <3> QED BY <3>1, <3>2
  <2> QED BY <2>1, <1>2, <1>3 DEF IInv, QueuesTyped
<1>5. InWork' = InWork /\ InFinished' = InFinished /\ InBatch' = InBatch
  BY DEF InWork, InFinished, InBatch
<1>6. Apart'
  <2>1. \A i, j \in DOMAIN pending' : pending'[i] = pending'[j] => i = j
    BY <1>3 DEF IInv, Apart
  <2>2. \A i, j \in DOMAIN jobs' : jobs'[i] = jobs'[j] /\ jobs'[i] # Stop => i = j
    BY <1>2 DEF IInv, Apart
  <2> QED BY <2>1, <2>2, <1>2, <1>3, <1>5 DEF IInv, Apart
<1>7. TasksSound'
  BY <1>2, <1>3, <1>5 DEF IInv, TasksSound, Tasks
<1>8. ChunksSound'
  BY <1>5 DEF IInv, ChunksSound
<1>9. ReadersSound'
  BY DEF IInv, ReadersSound, ReadUpTo, Here, ReadTo
<1>10. WaitingBlank'
  BY <1>2, <1>3 DEF IInv, WaitingBlank
<1>11. ResultsSound'
  BY <1>5 DEF IInv, ResultsSound
<1> QED BY <1>1, <1>4, <1>6, <1>7, <1>8, <1>9, <1>10, <1>11 DEF IInv

LEMMA TopKeeps ==
  ASSUME IInv, Top
  PROVE  IInv'
<1>1. CASE Stopping /\ UNCHANGED <<pending, sources>>
  BY <1>1, ScanStops DEF Top, Stopping, viewVars
<1>2. CASE Stopping /\ pending' = <<>> /\ sources' = <<>>
  BY <1>2, ScanStops DEF Top, Stopping, viewVars
<1>3. CASE pc' = "drain" /\ UNCHANGED <<jobs, pending, sources>>
  <2>1. batch = {} /\ threads' \in Nat /\ inFlight' \in Int
    BY DEF Top, IInv, ResultsSound, QueuesTyped
  <2> QED BY <2>1, <1>3, MovingOn DEF Top, viewVars
<1> QED BY <1>1, <1>2, <1>3 DEF Top

LEMMA AbortKeeps ==
  ASSUME IInv, Abort
  PROVE  IInv'
BY ScanStops DEF Abort, Stopping, viewVars, planVars

LEMMA FilledKeeps ==
  ASSUME IInv, Filled
  PROVE  IInv'
<1>1. batch = {} /\ threads' \in Nat /\ inFlight' \in Int
  BY DEF Filled, Filling, IInv, ResultsSound, QueuesTyped, planVars
<1> QED BY <1>1, MovingOn DEF Filled, viewVars, planVars

LEMMA StartWorkersKeeps ==
  ASSUME IInv, StartWorkers
  PROVE  IInv'
<1>1. batch = {} /\ threads \in Nat /\ inFlight \in Int
  BY DEF StartWorkers, IInv, ResultsSound, QueuesTyped
<1>2. threads' \in Nat
  <2> DEFINE more == Max({inFlight, InitialWorkers})
             new  == Min({Workers, more})
  <2>1. Workers \in Int /\ InitialWorkers \in Int
    BY TreeAssumption DEF TreeAssumption
  <2>2. more \in Int
    BY <1>1, <2>1, MaxOfTwo
  <2> HIDE DEF more
  <2>3. new \in Int
    BY <2>1, <2>2, MinOfTwo
  <2>4. threads' = IF inFlight = 0 THEN threads ELSE Max({threads, new})
    BY DEF StartWorkers, more
  <2> HIDE DEF new
  <2>5. Max({threads, new}) \in Nat
    BY <1>1, <2>3, MaxOfTwo
  <2> QED BY <1>1, <2>4, <2>5
<1> QED BY <1>1, <1>2, MovingOn DEF StartWorkers, viewVars

LEMMA JoinKeeps ==
  ASSUME IInv, Join
  PROVE  IInv'
<1>1. threads' \in Nat /\ inFlight' \in Int
  BY DEF Join, IInv, QueuesTyped, planVars
<1> QED BY <1>1, MovingOn DEF Join, viewVars, planVars

LEMMA CancelKeeps ==
  ASSUME IInv, Cancel
  PROVE  IInv'
<1>1. threads' \in Nat /\ inFlight' \in Int
  BY DEF Cancel, IInv, QueuesTyped, planVars
<1>2. batch # {} => pc \in {"drainAgain", "apply", "joining", "done"}
  BY DEF IInv, ResultsSound
<1> QED BY <1>1, <1>2, MovingOn DEF Cancel, viewVars, planVars

LEMMA StayingKeeps ==
  ASSUME IInv, UNCHANGED vars
  PROVE  IInv'
<1>1. threads' \in Nat /\ inFlight' \in Int
  BY DEF vars, IInv, QueuesTyped, planVars
<1>2. batch # {} => pc \in {"drainAgain", "apply", "joining", "done"}
  BY DEF IInv, ResultsSound
<1> QED BY <1>1, <1>2, MovingOn DEF vars, viewVars, planVars

LEMMA SubmitKeeps ==
  ASSUME IInv, Submit
  PROVE  IInv'
<1> DEFINE d == Head(pending)
<1>1. /\ pending \in Seq(Dirs) /\ pending # <<>> /\ jobs \in Seq(Dirs \cup {Stop})
      /\ pending' = Tail(pending) /\ jobs' = Append(jobs, d)
      /\ UNCHANGED <<tree, frozen, batch, sources, chunks, finished, wk, threads, pc>>
      /\ inFlight' \in Int
  BY DEF Submit, CanSubmit, IInv, QueuesTyped, viewVars
<1>2. Popped(pending, pending') /\ pending' \in Seq(Dirs) /\ d \in Dirs
  BY <1>1, Popping
<1>3. Pushed(jobs, jobs', d) /\ jobs' \in Seq(Dirs \cup {Stop})
  <2>1. Pushed(jobs, Append(jobs, d), d)
    BY <1>1, Pushing
  <2> QED BY <2>1, <1>1, <1>2
<1>4. /\ d # Stop /\ d = pending[1]
      /\ \A i, j \in DOMAIN pending : pending[i] = pending[j] => i = j
  BY <1>2, TreeAssumption DEF IInv, Apart, Popped, TreeAssumption, Stop
<1> HIDE DEF d
<1>5. /\ InPending = {d} \cup InPending' /\ InPending' = InPending \ {d}
      /\ InJobs' = InJobs \cup {d}
  <2>1. InPending = {d} \cup InPending' /\ InPending' = InPending \ {d}
    BY <1>2, <1>4, PoppedRange DEF InPending
  <2>2. InJobs' = InJobs \cup {d}
    BY <1>3, <1>4 DEF InJobs, Pushed
  <2> QED BY <2>1, <2>2
<1>6. InWork' = InWork /\ InFinished' = InFinished /\ InBatch' = InBatch
  BY <1>1 DEF InWork, InFinished, InBatch
<1>7. d \notin InJobs
  BY <1>5 DEF IInv, Apart
<1>8. Apart'
  <2>1. \A i, j \in DOMAIN pending' : pending'[i] = pending'[j] => i = j
    BY <1>2, <1>4 DEF Popped
  <2>2. \A i, j \in DOMAIN jobs' : jobs'[i] = jobs'[j] /\ jobs'[i] # Stop => i = j
    <3>1. \A i \in DOMAIN jobs : jobs[i] # d
      BY <1>4, <1>7 DEF InJobs, Range
    <3>2. \A i, j \in DOMAIN jobs : jobs[i] = jobs[j] /\ jobs[i] # Stop => i = j
      BY DEF IInv, Apart
    <3> QED BY <1>3, <3>1, <3>2 DEF Pushed
  <2> QED BY <2>1, <2>2, <1>1, <1>5, <1>6 DEF IInv, Apart
<1>9. TreeInv'
  BY <1>1, TreeStays DEF IInv
<1>10. QueuesTyped'
  BY <1>1, <1>2, <1>3 DEF IInv, QueuesTyped
<1>11. TasksSound'
  BY <1>1, <1>5, <1>6 DEF IInv, TasksSound, Tasks
<1>12. ChunksSound'
  BY <1>1, <1>6 DEF IInv, ChunksSound
<1>13. ReadersSound'
  BY <1>1 DEF IInv, ReadersSound, ReadUpTo, Here, ReadTo
<1>14. WaitingBlank'
  BY <1>1, <1>5 DEF IInv, WaitingBlank
<1>15. ResultsSound'
  BY <1>1, <1>6 DEF IInv, ResultsSound
<1> QED BY <1>8, <1>9, <1>10, <1>11, <1>12, <1>13, <1>14, <1>15 DEF IInv

-----------------------------------------------------------------------------
(* Steps of the workers, and the results they leave.                       *)

\* The results that are there are taken.
LEMMA CollectKeeps ==
  ASSUME IInv, Collect
  PROVE  IInv'
<1>1. batch = {} /\ inFlight \in Int /\ threads \in Nat
  BY DEF Collect, IInv, ResultsSound, QueuesTyped
<1>2. CASE finished = <<>>
  <2>1. UNCHANGED <<tree, frozen, batch, pending, sources, jobs, chunks, finished, wk>>
        /\ threads' \in Nat /\ inFlight' \in Int /\ pc' # "apply"
    BY <1>1, <1>2 DEF Collect, viewVars
  <2> QED BY <1>1, <2>1, MovingOn
<1>3. CASE finished # <<>>
  <2>1. /\ UNCHANGED <<tree, frozen, pending, sources, jobs, chunks, wk, threads>>
        /\ batch' = Range(finished) /\ finished' = <<>> /\ pc' = "drainAgain"
        /\ inFlight' \in Int
    <3>1. inFlight' = inFlight - Len(finished) /\ Len(finished) \in Nat
      BY <1>3 DEF Collect, IInv, QueuesTyped
    <3> QED BY <3>1, <1>1, <1>3 DEF Collect, viewVars
  <2>2. /\ InPending' = InPending /\ InJobs' = InJobs /\ InWork' = InWork
        /\ InFinished' = {} /\ InBatch' = InFinished /\ InBatch = {}
    <3>1. InPending' = InPending /\ InJobs' = InJobs /\ InWork' = InWork
      BY <2>1 DEF InPending, InJobs, InWork
    <3>2. InFinished' = {} /\ InBatch' = InFinished
      BY <2>1 DEF InFinished, InBatch, Range
    <3> QED BY <1>1, <3>1, <3>2 DEF InBatch
  <2>3. TreeInv'
    BY <2>1, TreeStays DEF IInv
  <2>4. QueuesTyped'
    <3>1. finished' \in Seq(Range(finished'))
      BY <2>1 DEF Range
    <3> QED BY <2>1, <3>1 DEF IInv, QueuesTyped
  <2>5. Apart'
    <3>1. \A r, s \in batch' : r.path = s.path => r = s
      BY <2>1 DEF IInv, Apart, Range
    <3>2. \A i, j \in DOMAIN finished' : finished'[i].path = finished'[j].path => i = j
      BY <2>1
    <3> QED BY <2>1, <2>2, <3>1, <3>2 DEF IInv, Apart
  <2>6. TasksSound'
    BY <2>1, <2>2 DEF IInv, TasksSound, Tasks
  <2>7. ChunksSound'
    BY <2>1, <2>2 DEF IInv, ChunksSound
  <2>8. ReadersSound'
    BY <2>1 DEF IInv, ReadersSound, ReadUpTo, Here, ReadTo
  <2>9. WaitingBlank'
    BY <2>1, <2>2 DEF IInv, WaitingBlank
  <2>10. ResultsSound'
    BY <2>1 DEF IInv, ResultsSound, Range
  <2> QED BY <2>3, <2>4, <2>5, <2>6, <2>7, <2>8, <2>9, <2>10 DEF IInv
<1> QED BY <1>2, <1>3

\* A worker: w has the state r from now on, the others keep theirs.
Turns(w, r) ==
  /\ wk' \in [Pool -> [doing : {"idle", "reading", "gone"}, job : Dirs \cup {Stop}, sent : Nat]]
  /\ wk'[w] = r /\ \A v \in Pool \ {w} : wk'[v] = wk[v]

LEMMA Turning ==
  ASSUME QueuesTyped, NEW w \in Pool,
         NEW r \in [doing : {"idle", "reading", "gone"}, job : Dirs \cup {Stop}, sent : Nat],
         wk' = [wk EXCEPT ![w] = r]
  PROVE  Turns(w, r)
BY DEF QueuesTyped, Turns

\* Other workers have what they had.
LEMMA OthersWork ==
  ASSUME IInv, NEW w \in Pool, NEW r, Turns(w, r)
  PROVE  /\ InWork' = (InWork \ {wk[w].job}) \cup ({r.job} \ {Stop})
         /\ (r.job \in {wk[w].job, Stop} \/ r.job \notin InWork) =>
              \A u, v \in Pool : wk'[u].job = wk'[v].job /\ wk'[u].job # Stop => u = v
<1>1. \A u, v \in Pool : wk[u].job = wk[v].job /\ wk[u].job # Stop => u = v
  BY DEF IInv, Apart
<1>2. /\ \A v \in Pool : v # w => wk'[v].job = wk[v].job
      /\ wk'[w].job = r.job
  BY DEF Turns
<1>3. InWork' = (InWork \ {wk[w].job}) \cup ({r.job} \ {Stop})
  <2>1. ASSUME NEW d \in InWork' PROVE d \in (InWork \ {wk[w].job}) \cup ({r.job} \ {Stop})
    <3>1. PICK v \in Pool : d = wk'[v].job /\ d # Stop
      BY DEF InWork
    <3>2. CASE v = w
      BY <3>1, <3>2, <1>2
    <3>3. CASE v # w
      BY <3>1, <3>3, <1>1, <1>2 DEF InWork
    <3> QED BY <3>2, <3>3
  <2>2. ASSUME NEW d \in InWork \ {wk[w].job} PROVE d \in InWork'
    <3>1. PICK v \in Pool : d = wk[v].job /\ d # Stop
      BY DEF InWork
    <3> QED BY <3>1, <2>2, <1>2 DEF InWork
  <2>3. ASSUME r.job # Stop PROVE r.job \in InWork'
    BY <2>3, <1>2 DEF InWork
  <2> QED BY <2>1, <2>2, <2>3
<1>4. ASSUME r.job \in {wk[w].job, Stop} \/ r.job \notin InWork,
             NEW u \in Pool, NEW v \in Pool, wk'[u].job = wk'[v].job, wk'[u].job # Stop
      PROVE  u = v
  <2>1. ASSUME NEW x \in Pool, x # w, wk[x].job = r.job, r.job # Stop PROVE FALSE
    <3>1. r.job \in InWork
      BY <2>1 DEF InWork
    <3>2. r.job = wk[w].job
      BY <3>1, <2>1, <1>4
    <3> QED BY <3>2, <2>1, <1>1
  <2>2. CASE u = w /\ v # w
    BY <2>1, <2>2, <1>2, <1>4
  <2>3. CASE v = w /\ u # w
    BY <2>1, <2>3, <1>2, <1>4
  <2>4. CASE u # w /\ v # w
    BY <2>4, <1>1, <1>2, <1>4
  <2> QED BY <2>2, <2>3, <2>4
<1> QED BY <1>3, <1>4

\* A reader who stays where it is has read what it had.
LEMMA OthersRead ==
  ASSUME NEW w \in Pool, NEW r, Turns(w, r)
  PROVE  \A v \in Pool \ {w} : ReadUpTo(v)' = ReadUpTo(v)
BY DEF Turns, ReadUpTo, Here, ReadTo

\* A job is taken from the queue.
JobTaken ==
  /\ jobs # <<>> /\ jobs' = Tail(jobs)
  /\ UNCHANGED <<tree, frozen, pc, batch, pending, sources, inFlight, threads, chunks, finished>>

LEMMA JobTaking ==
  ASSUME IInv, JobTaken
  PROVE  /\ jobs' \in Seq(Dirs \cup {Stop}) /\ Head(jobs) \in Dirs \cup {Stop}
         /\ InJobs' = InJobs \ {Head(jobs)} /\ (Head(jobs) # Stop => Head(jobs) \in InJobs)
         /\ \A i, j \in DOMAIN jobs' : jobs'[i] = jobs'[j] /\ jobs'[i] # Stop => i = j
         /\ InPending' = InPending /\ InFinished' = InFinished /\ InBatch' = InBatch
<1>1. /\ Popped(jobs, jobs') /\ jobs' \in Seq(Dirs \cup {Stop}) /\ Head(jobs) \in Dirs \cup {Stop}
      /\ Head(jobs) = jobs[1]
  BY Popping DEF JobTaken, IInv, QueuesTyped, Popped
<1>2. \A i, j \in DOMAIN jobs : jobs[i] = jobs[j] /\ jobs[i] # Stop => i = j
  BY DEF IInv, Apart
<1>3. \A i, j \in DOMAIN jobs' : jobs'[i] = jobs'[j] /\ jobs'[i] # Stop => i = j
  BY <1>1, <1>2 DEF Popped
<1>4. Range(jobs) = {jobs[1]} \cup Range(jobs')
  BY <1>1, PoppedRange
<1>5. jobs[1] # Stop => jobs[1] \notin Range(jobs')
  <2> SUFFICES ASSUME jobs[1] # Stop, NEW k \in DOMAIN jobs', jobs'[k] = jobs[1] PROVE FALSE
    BY DEF Range
  <2>1. k + 1 \in DOMAIN jobs /\ jobs[k + 1] = jobs[1] /\ k + 1 # 1 /\ 1 \in DOMAIN jobs
    BY <1>1 DEF Popped
  <2> QED BY <2>1, <1>2
<1>6. InJobs' = InJobs \ {jobs[1]} /\ (jobs[1] # Stop => jobs[1] \in InJobs)
  BY <1>4, <1>5 DEF InJobs
<1>7. InPending' = InPending /\ InFinished' = InFinished /\ InBatch' = InBatch
  BY DEF JobTaken, InPending, InFinished, InBatch
<1> QED BY <1>1, <1>3, <1>6, <1>7

\* A sentinel, or a job nobody wants any more.
LEMMA JobDropped ==
  ASSUME IInv, JobTaken, NEW w \in Pool, wk[w].doing = "idle", NEW r, Turns(w, r),
         r.doing # "reading", r.job = wk[w].job
  PROVE  IInv'
<1>1. wk[w].job = Stop
  BY DEF IInv, ReadersSound
<1>2. InWork' = InWork
  BY <1>1, OthersWork DEF InWork
<1>3. \A u, v \in Pool : wk'[u].job = wk'[v].job /\ wk'[u].job # Stop => u = v
  BY OthersWork
<1>4. /\ jobs' \in Seq(Dirs \cup {Stop}) /\ InJobs' \subseteq InJobs
      /\ \A i, j \in DOMAIN jobs' : jobs'[i] = jobs'[j] /\ jobs'[i] # Stop => i = j
      /\ InPending' = InPending /\ InFinished' = InFinished /\ InBatch' = InBatch
  BY JobTaking
<1>5. UNCHANGED <<tree, frozen, pc, batch, pending, sources, inFlight, threads, chunks, finished>>
  BY DEF JobTaken
<1>6. TreeInv'
  BY <1>5, TreeStays DEF IInv
<1>7. QueuesTyped'
  BY <1>4, <1>5 DEF IInv, QueuesTyped, Turns
<1>8. Apart'
  BY <1>2, <1>3, <1>4, <1>5 DEF IInv, Apart
<1>9. TasksSound'
  BY <1>2, <1>4, <1>5 DEF IInv, TasksSound, Tasks
<1>10. ChunksSound'
  BY <1>2, <1>4, <1>5 DEF IInv, ChunksSound
<1>11. ReadersSound'
  <2>1. ASSUME NEW v \in Pool \ {w}
        PROVE  wk'[v] = wk[v] /\ ReadUpTo(v)' = ReadUpTo(v)
    BY OthersRead DEF Turns
  <2>2. wk'[w].doing # "reading" /\ wk'[w].job = Stop
    BY <1>1 DEF Turns
  <2> QED BY <2>1, <2>2, <1>5 DEF IInv, ReadersSound
<1>12. WaitingBlank'
  BY <1>4, <1>5 DEF IInv, WaitingBlank
<1>13. ResultsSound'
  BY <1>4, <1>5 DEF IInv, ResultsSound
<1> QED BY <1>6, <1>7, <1>8, <1>9, <1>10, <1>11, <1>12, <1>13 DEF IInv

\* A directory to read.
LEMMA JobStarted ==
  ASSUME IInv, JobTaken, Head(jobs) # Stop, NEW w \in Pool, wk[w].doing = "idle",
         Turns(w, [doing |-> "reading", job |-> Head(jobs), sent |-> 0])
  PROVE  IInv'
<1> DEFINE d == Head(jobs)
           r == [doing |-> "reading", job |-> d, sent |-> 0]
<1>1. wk[w].job = Stop
  BY DEF IInv, ReadersSound
<1>2. /\ jobs' \in Seq(Dirs \cup {Stop}) /\ d \in Dirs /\ d \in InJobs /\ InJobs' = InJobs \ {d}
      /\ \A i, j \in DOMAIN jobs' : jobs'[i] = jobs'[j] /\ jobs'[i] # Stop => i = j
      /\ InPending' = InPending /\ InFinished' = InFinished /\ InBatch' = InBatch
  BY JobTaking
<1>3. d # Stop /\ Turns(w, r) /\ r.job = d /\ r.doing = "reading"
  OBVIOUS
<1> HIDE DEF d, r
<1>4. d \notin InWork /\ d \notin InPending /\ d \notin InFinished /\ d \notin InBatch
  BY <1>2 DEF IInv, Apart
<1>5. InWork' = InWork \cup {d}
  <2>1. InWork' = (InWork \ {wk[w].job}) \cup ({r.job} \ {Stop})
    BY <1>3, OthersWork
  <2> QED BY <2>1, <1>1, <1>3 DEF InWork
<1>6. \A u, v \in Pool : wk'[u].job = wk'[v].job /\ wk'[u].job # Stop => u = v
  BY <1>3, <1>4, OthersWork
<1>7. UNCHANGED <<tree, frozen, pc, batch, pending, sources, inFlight, threads, chunks, finished>>
  BY DEF JobTaken
<1>8. TreeInv'
  BY <1>7, TreeStays DEF IInv
<1>9. QueuesTyped'
  BY <1>2, <1>3, <1>7 DEF IInv, QueuesTyped, Turns
<1>10. Apart'
  BY <1>2, <1>4, <1>5, <1>6, <1>7 DEF IInv, Apart
<1>11. TasksSound'
  BY <1>2, <1>5, <1>7 DEF IInv, TasksSound, Tasks
<1>12. ChunksSound'
  BY <1>2, <1>5, <1>7 DEF IInv, ChunksSound
<1>13. ReadersSound'
  <2>1. ASSUME NEW v \in Pool \ {w}
        PROVE  wk'[v] = wk[v] /\ ReadUpTo(v)' = ReadUpTo(v)
    BY <1>3, OthersRead DEF Turns
  <2>2. wk'[w].doing = "reading" /\ wk'[w].job = d
    BY <1>3 DEF Turns
  <2>3. Names(tree', d) = <<>>
    BY <1>2, <1>7 DEF IInv, WaitingBlank
  <2>4. Range(Names(tree', d)) = {}
    BY <2>3 DEF Range
  <2>5. \A i \in DOMAIN chunks' : chunks'[i].path # d
    BY <1>2, <1>4, <1>7 DEF IInv, ChunksSound
  <2> QED BY <2>1, <2>2, <2>4, <2>5, <1>3, <1>7 DEF IInv, ReadersSound
<1>14. WaitingBlank'
  BY <1>2, <1>7 DEF IInv, WaitingBlank
<1>15. ResultsSound'
  BY <1>2, <1>7 DEF IInv, ResultsSound
<1> QED BY <1>8, <1>9, <1>10, <1>11, <1>12, <1>13, <1>14, <1>15 DEF IInv

LEMMA TakeJobKeeps ==
  ASSUME IInv, NEW w \in Pool, TakeJob(w)
  PROVE  IInv'
<1>1. /\ JobTaken /\ wk[w].doing = "idle"
      /\ wk[w] \in [doing : {"idle", "reading", "gone"}, job : Dirs \cup {Stop}, sent : Nat]
      /\ QueuesTyped
  BY DEF TakeJob, JobTaken, viewVars, planVars, IInv, QueuesTyped
<1> DEFINE kind == [doing : {"idle", "reading", "gone"}, job : Dirs \cup {Stop}, sent : Nat]
<1>2. CASE Head(jobs) = Stop
  <2> DEFINE r == [wk[w] EXCEPT !.doing = "gone"]
  <2>1. wk' = [wk EXCEPT ![w] = r]
    BY <1>2 DEF TakeJob
  <2>2. r \in kind /\ r.doing # "reading" /\ r.job = wk[w].job
    BY <1>1
  <2> HIDE DEF r
  <2>3. Turns(w, r)
    BY <1>1, <2>1, <2>2, Turning
  <2> QED BY <1>1, <2>2, <2>3, JobDropped
<1>3. CASE Head(jobs) # Stop /\ cancel
  <2> DEFINE r == wk[w]
  <2>1. wk' = [wk EXCEPT ![w] = r]
    BY <1>3 DEF TakeJob
  <2>2. r \in kind /\ r.doing # "reading" /\ r.job = wk[w].job
    BY <1>1
  <2>3. Turns(w, r)
    BY <1>1, <2>1, <2>2, Turning
  <2> QED BY <1>1, <2>2, <2>3, JobDropped
<1>4. CASE Head(jobs) # Stop /\ ~cancel
  <2> DEFINE r == [doing |-> "reading", job |-> Head(jobs), sent |-> 0]
  <2>1. wk' = [wk EXCEPT ![w] = r]
    BY <1>4 DEF TakeJob
  <2>2. r \in kind
    <3>1. Head(jobs) \in Dirs \cup {Stop}
      BY <1>1, JobTaking
    <3> QED BY <3>1
  <2>3. Turns(w, r)
    BY <1>1, <2>1, <2>2, Turning
  <2> QED BY <1>1, <1>4, <2>3, JobStarted
<1> QED BY <1>2, <1>3, <1>4

\* A stretch of the listing of d, read from the place after m on.
LEMMA Stretch ==
  ASSUME NEW d \in Dirs, NEW m \in Nat, NEW n \in Nat, m + n <= Len(Listing[d])
  PROVE  LET e == SubSeq(Listing[d], m + 1, m + n)
         IN /\ EntriesOf(d, e)
            /\ \A x \in Range(e) : \E k \in DOMAIN Listing[d] :
                 x = Listing[d][k] /\ m < k /\ k <= m + n
<1> DEFINE s == Listing[d]
           e == SubSeq(s, m + 1, m + n)
<1>1. /\ s \in Seq(Entries) /\ Len(s) \in Nat /\ DOMAIN s = 1..Len(s)
      /\ \A i, j \in DOMAIN s : s[i] = s[j] => i = j
  BY TreeAssumption DEF TreeAssumption, Entries
<1>2. m + n <= Len(s)
  OBVIOUS
<1> HIDE DEF s
<1>3. /\ m + 1 \in 1..(Len(s) + 1) /\ m + n \in ((m + 1) - 1)..Len(s)
  BY <1>1, <1>2
<1>4. /\ e \in Seq(Entries) /\ Len(e) = (m + n) - (m + 1) + 1
      /\ \A i \in 1..((m + n) - (m + 1) + 1) : e[i] = s[(m + 1) + i - 1]
  BY <1>1, <1>3, SubSeqProperties
<1> HIDE DEF e
<1>5. /\ DOMAIN e = 1..n
      /\ \A i \in DOMAIN e : e[i] = s[m + i] /\ m + i \in DOMAIN s /\ m < m + i /\ m + i <= m + n
  <2>1. (m + n) - (m + 1) + 1 = n
    OBVIOUS
  <2>2. DOMAIN e = 1..n
    BY <2>1, <1>4
  <2>3. ASSUME NEW i \in 1..n
        PROVE  /\ m + i \in DOMAIN s /\ m < m + i /\ m + i <= m + n
               /\ (m + 1) + i - 1 = m + i
    BY <1>1, <1>2
  <2>4. ASSUME NEW i \in 1..n PROVE e[i] = s[m + i]
    BY <2>1, <2>3, <1>4
  <2> QED BY <2>2, <2>3, <2>4
<1>6. \A i, j \in DOMAIN e : e[i] = e[j] => i = j
  <2>1. ASSUME NEW i \in DOMAIN e, NEW j \in DOMAIN e, e[i] = e[j] PROVE i = j
    <3>1. m + i = m + j
      BY <1>1, <1>5, <2>1
    <3>2. i \in Int /\ j \in Int
      BY <1>5
    <3> QED BY <3>1, <3>2
  <2> QED BY <2>1
<1>7. EntriesOf(d, e)
  BY <1>4, <1>5, <1>6 DEF EntriesOf, s, Range
<1>8. \A x \in Range(e) : \E k \in DOMAIN s : x = s[k] /\ m < k /\ k <= m + n
  BY <1>5 DEF Range
<1> QED BY <1>7, <1>8 DEF e, s

LEMMA SendChunkKeeps ==
  ASSUME IInv, NEW w \in Pool, SendChunk(w)
  PROVE  IInv'
<1> DEFINE d    == wk[w].job
           m    == ReadTo(w)
           n    == Min({ChunkSize, Len(Here(w)) - m})
           e    == SubSeq(Listing[d], m + 1, m + n)
           c    == [path |-> d, entries |-> e]
           r    == [wk[w] EXCEPT !.sent = @ + 1]
<1>1. /\ wk[w] \in [doing : {"idle", "reading", "gone"}, job : Dirs \cup {Stop}, sent : Nat]
      /\ wk[w].doing = "reading" /\ d # Stop /\ d \in Dirs /\ wk[w].sent \in Nat
      /\ QueuesTyped
  BY DEF SendChunk, Reading, IInv, QueuesTyped, ReadersSound
<1>2. /\ ChunkSize \in Nat \ {0} /\ m = wk[w].sent * ChunkSize /\ Here(w) = Listing[d]
      /\ m \in Nat /\ Len(Listing[d]) \in Nat
  BY <1>1, TreeAssumption DEF TreeAssumption, ReadTo, Here
<1>3. /\ chunks' = Append(chunks, c) /\ wk' = [wk EXCEPT ![w] = r]
      /\ n = ChunkSize \/ n > 0
      /\ UNCHANGED <<tree, frozen, pc, batch, pending, sources, inFlight, threads, jobs, finished>>
  BY <1>2 DEF SendChunk, viewVars, planVars
<1>4. n \in Nat \ {0} /\ n <= ChunkSize /\ m + n <= Len(Listing[d])
  <2>1. /\ n \in {ChunkSize, Len(Listing[d]) - m} /\ n <= ChunkSize /\ n <= Len(Listing[d]) - m
    <3> DEFINE a == Len(Here(w)) - m
    <3>1. a = Len(Listing[d]) - m /\ a \in Int /\ ChunkSize \in Int
      BY <1>2
    <3> HIDE DEF a
    <3>2. Min({ChunkSize, a}) \in {ChunkSize, a} /\ Min({ChunkSize, a}) <= ChunkSize
          /\ Min({ChunkSize, a}) <= a
      BY <3>1, MinOfTwo
    <3> QED BY <3>1, <3>2 DEF a
  <2> HIDE DEF n, m
  <2> QED BY <2>1, <1>2, <1>3
<1> HIDE DEF n, m
<1>5. /\ EntriesOf(d, e)
      /\ \A x \in Range(e) : \E k \in DOMAIN Listing[d] :
           x = Listing[d][k] /\ m < k /\ k <= m + n
  BY <1>1, <1>2, <1>4, Stretch
<1> HIDE DEF e
<1>6. /\ r \in [doing : {"idle", "reading", "gone"}, job : Dirs \cup {Stop}, sent : Nat]
      /\ r.job = d /\ r.doing = "reading" /\ r.sent = wk[w].sent + 1
  BY <1>1
<1> HIDE DEF r
<1>7. Turns(w, r)
  BY <1>1, <1>3, <1>6, Turning
<1>8. InWork' = InWork /\ \A u, v \in Pool : wk'[u].job = wk'[v].job /\ wk'[u].job # Stop => u = v
  <2>1. InWork' = (InWork \ {d}) \cup ({d} \ {Stop})
    BY <1>6, <1>7, OthersWork
  <2>2. d \in InWork
    BY <1>1 DEF InWork
  <2> QED BY <2>1, <2>2, <1>1, <1>6, <1>7, OthersWork
<1>9. /\ InPending' = InPending /\ InJobs' = InJobs /\ InFinished' = InFinished
      /\ InBatch' = InBatch /\ Tasks' = Tasks
  BY <1>3, <1>8 DEF InPending, InJobs, InFinished, InBatch, Tasks
<1>10. Pushed(chunks, chunks', c) /\ c.path = d /\ c.entries = e
  BY <1>1, <1>3, Pushing DEF QueuesTyped
<1> HIDE DEF c
<1>11. ReadUpTo(w) = {Listing[d][k] : k \in {i \in DOMAIN Listing[d] : i <= m}}
  BY <1>2 DEF ReadUpTo, m
<1>12. ReadUpTo(w)' = {Listing[d][k] : k \in {i \in DOMAIN Listing[d] : i <= m + ChunkSize}}
  <2>1. wk'[w].job = d /\ wk'[w].sent * ChunkSize = m + ChunkSize
    BY <1>1, <1>2, <1>6, <1>7 DEF Turns
  <2> QED BY <2>1 DEF ReadUpTo, Here, ReadTo
<1>13. Range(e) \cap ReadUpTo(w) = {} /\ Range(e) \subseteq ReadUpTo(w)'
       /\ ReadUpTo(w) \subseteq ReadUpTo(w)'
  <2>1. /\ DOMAIN Listing[d] = 1..Len(Listing[d])
        /\ \A i, j \in DOMAIN Listing[d] : Listing[d][i] = Listing[d][j] => i = j
    BY <1>1, TreeAssumption DEF TreeAssumption
  <2>2. ASSUME NEW x \in Range(e) PROVE x \notin ReadUpTo(w) /\ x \in ReadUpTo(w)'
    <3>1. PICK k \in DOMAIN Listing[d] : x = Listing[d][k] /\ m < k /\ k <= m + n
      BY <1>5
    <3>2. k \in Nat /\ k <= m + ChunkSize
      BY <3>1, <2>1, <1>2, <1>4
    <3>3. x \in ReadUpTo(w)'
      BY <3>1, <3>2, <1>12
    <3>4. ASSUME NEW j \in DOMAIN Listing[d], j <= m, x = Listing[d][j] PROVE FALSE
      <4>1. k = j
        BY <3>1, <3>4, <2>1
      <4> QED BY <4>1, <3>1, <3>2, <3>4, <1>2
    <3> QED BY <3>3, <3>4, <1>11
  <2>3. \A i \in DOMAIN Listing[d] : i <= m => i <= m + ChunkSize
    BY <2>1, <1>2
  <2> QED BY <2>2, <2>3, <1>11, <1>12
<1>14. /\ Range(Names(tree, d)) \subseteq ReadUpTo(w)
       /\ \A i \in DOMAIN chunks : chunks[i].path = d => Range(chunks[i].entries) \subseteq ReadUpTo(w)
  BY <1>1 DEF IInv, ReadersSound
<1>15. TreeInv'
  BY <1>3, TreeStays DEF IInv
<1>16. QueuesTyped'
  BY <1>1, <1>3, <1>7, <1>10 DEF QueuesTyped, Turns, Pushed
<1>17. Apart'
  BY <1>3, <1>8, <1>9 DEF IInv, Apart
<1>18. TasksSound'
  BY <1>3, <1>9 DEF IInv, TasksSound
<1>19. ChunksSound'
  <2>1. ASSUME NEW i \in DOMAIN chunks'
        PROVE  /\ chunks'[i].path \in InWork' \cup InFinished' \cup InBatch'
               /\ EntriesOf(chunks'[i].path, chunks'[i].entries)
               /\ Range(chunks'[i].entries) \cap Range(Names(tree', chunks'[i].path)) = {}
    <3>1. CASE i \in DOMAIN chunks /\ chunks'[i] = chunks[i]
      BY <3>1, <1>3, <1>8, <1>9 DEF IInv, ChunksSound
    <3>2. CASE chunks'[i] = c
      <4>1. d \in InWork
        BY <1>1 DEF InWork
      <4> QED BY <3>2, <4>1, <1>3, <1>5, <1>8, <1>10, <1>13, <1>14
    <3> QED BY <3>1, <3>2, <1>10 DEF Pushed
  <2>2. ASSUME NEW i \in DOMAIN chunks', NEW j \in DOMAIN chunks', i # j,
               chunks'[i].path = chunks'[j].path
        PROVE  Range(chunks'[i].entries) \cap Range(chunks'[j].entries) = {}
    <3>1. CASE i \in DOMAIN chunks /\ j \in DOMAIN chunks
      BY <3>1, <2>2, <1>10 DEF IInv, ChunksSound, Pushed
    <3>2. CASE i \in DOMAIN chunks /\ j \notin DOMAIN chunks
      BY <3>2, <2>2, <1>10, <1>13, <1>14 DEF Pushed
    <3>3. CASE i \notin DOMAIN chunks /\ j \in DOMAIN chunks
      BY <3>3, <2>2, <1>10, <1>13, <1>14 DEF Pushed
    <3>4. CASE i \notin DOMAIN chunks /\ j \notin DOMAIN chunks
      BY <3>4, <2>2, <1>10 DEF Pushed
    <3> QED BY <3>1, <3>2, <3>3, <3>4
  <2> QED BY <2>1, <2>2 DEF ChunksSound
<1>20. ReadersSound'
  <2>1. ASSUME NEW v \in Pool
        PROVE  /\ wk'[v].doing = "reading" <=> wk'[v].job # Stop
               /\ wk'[v].job # Stop =>
                    /\ Range(Names(tree', wk'[v].job)) \subseteq ReadUpTo(v)'
                    /\ \A i \in DOMAIN chunks' : chunks'[i].path = wk'[v].job =>
                         Range(chunks'[i].entries) \subseteq ReadUpTo(v)'
    <3>1. CASE v = w
      <4>1. wk'[w].doing = "reading" /\ wk'[w].job = d
        BY <1>6, <1>7 DEF Turns
      <4>2. \A i \in DOMAIN chunks' : chunks'[i].path = d =>
              Range(chunks'[i].entries) \subseteq ReadUpTo(w)'
        BY <1>10, <1>13, <1>14 DEF Pushed
      <4>3. Range(Names(tree', d)) \subseteq ReadUpTo(w)'
        BY <1>3, <1>13, <1>14
      <4> QED BY <3>1, <4>1, <4>2, <4>3, <1>1
    <3>2. CASE v # w
      <4>1. wk'[v] = wk[v] /\ ReadUpTo(v)' = ReadUpTo(v)
        BY <3>2, <1>7, OthersRead DEF Turns
      <4>2. wk[v].job = d => FALSE
        BY <3>2, <1>1 DEF IInv, Apart
      <4>3. \A i \in DOMAIN chunks' : chunks'[i].path # d =>
              i \in DOMAIN chunks /\ chunks'[i] = chunks[i]
        BY <1>10 DEF Pushed
      <4> QED BY <4>1, <4>2, <4>3, <1>3 DEF IInv, ReadersSound
    <3> QED BY <3>1, <3>2
  <2> QED BY <2>1 DEF ReadersSound
<1>21. WaitingBlank'
  BY <1>3, <1>9 DEF IInv, WaitingBlank
<1>22. ResultsSound'
  <2>1. pc = "apply" => \A i \in DOMAIN chunks' : chunks'[i].path \notin InBatch
    <3>1. d \notin InBatch
      BY <1>1 DEF IInv, Apart, InWork
    <3> QED BY <3>1, <1>10 DEF IInv, ResultsSound, Pushed
  <2> QED BY <2>1, <1>3, <1>9 DEF IInv, ResultsSound
<1> QED BY <1>15, <1>16, <1>17, <1>18, <1>19, <1>20, <1>21, <1>22 DEF IInv

\* What the directory's worker hands back are entries of the directory.
LEMMA ResultSound ==
  ASSUME QueuesTyped, NEW w \in Pool, wk[w].job \in Dirs, NEW n \in 0..Len(Here(w)),
         NEW error, NEW streamed
  PROVE  /\ Result(w, n, error, streamed).path = wk[w].job
         /\ EntriesOf(wk[w].job, Result(w, n, error, streamed).entries)
<1> DEFINE d == wk[w].job
           e == SubSeq(Listing[d], 1, n)
<1>1. n \in Nat /\ 0 + n <= Len(Listing[d]) /\ 0 + 1 = 1 /\ 0 + n = n
  BY TreeAssumption DEF TreeAssumption, Here
<1>2. EntriesOf(d, e)
  <2>1. EntriesOf(d, SubSeq(Listing[d], 0 + 1, 0 + n))
    BY <1>1, Stretch
  <2> QED BY <2>1, <1>1
<1>3. EntriesOf(d, <<>>)
  BY DEF EntriesOf
<1> QED BY <1>2, <1>3 DEF Result, Here

LEMMA HandBackKeeps ==
  ASSUME IInv, NEW w \in Pool, Reading(w), NEW n \in 0..Len(Here(w)), NEW error, NEW streamed,
         HandBack(w, Result(w, n, error, streamed))
  PROVE  IInv'
<1> DEFINE d   == wk[w].job
           res == Result(w, n, error, streamed)
           r   == [doing |-> "idle", job |-> Stop, sent |-> 0]
<1>1. d # Stop /\ d \in Dirs /\ QueuesTyped
  BY DEF Reading, IInv, QueuesTyped, ReadersSound
<1>2. res.path = d /\ EntriesOf(d, res.entries)
  BY <1>1, ResultSound
<1>3. /\ finished' = Append(finished, res) /\ wk' = [wk EXCEPT ![w] = r]
      /\ UNCHANGED <<tree, frozen, pc, batch, pending, sources, inFlight, threads, jobs, chunks>>
  BY DEF HandBack, viewVars, planVars
<1> HIDE DEF res
<1>4. r \in [doing : {"idle", "reading", "gone"}, job : Dirs \cup {Stop}, sent : Nat]
      /\ r.job = Stop /\ r.doing = "idle"
  OBVIOUS
<1> HIDE DEF r
<1>5. Turns(w, r)
  BY <1>1, <1>3, <1>4, Turning
<1>6. InWork' = InWork \ {d} /\ d \in InWork
      /\ \A u, v \in Pool : wk'[u].job = wk'[v].job /\ wk'[u].job # Stop => u = v
  <2>1. InWork' = (InWork \ {d}) \cup ({Stop} \ {Stop})
    BY <1>4, <1>5, OthersWork
  <2>2. d \in InWork
    BY <1>1 DEF InWork
  <2> QED BY <2>1, <2>2, <1>4, <1>5, OthersWork
<1>7. Pushed(finished, finished', res)
  BY <1>1, <1>3, Pushing DEF QueuesTyped
<1>8. /\ InPending' = InPending /\ InJobs' = InJobs /\ InFinished' = InFinished \cup {d}
      /\ InBatch' = InBatch
  <2>1. InPending' = InPending /\ InJobs' = InJobs /\ InBatch' = InBatch
    BY <1>3 DEF InPending, InJobs, InBatch
  <2>2. InFinished' = InFinished \cup {d}
    BY <1>2, <1>7 DEF InFinished, Pushed
  <2> QED BY <2>1, <2>2
<1>9. d \notin InPending /\ d \notin InJobs /\ d \notin InFinished /\ d \notin InBatch
  BY <1>6 DEF IInv, Apart
<1>10. TreeInv'
  BY <1>3, TreeStays DEF IInv
<1>11. QueuesTyped'
  BY <1>1, <1>3, <1>5, <1>7 DEF QueuesTyped, Turns, Pushed
<1>12. Apart'
  <2>1. \A i, j \in DOMAIN finished' : finished'[i].path = finished'[j].path => i = j
    <3>1. \A i \in DOMAIN finished : finished[i].path # d
      BY <1>9 DEF InFinished
    <3>2. \A i, j \in DOMAIN finished : finished[i].path = finished[j].path => i = j
      BY DEF IInv, Apart
    <3> QED BY <3>1, <3>2, <1>2, <1>7 DEF Pushed
  <2> QED BY <2>1, <1>3, <1>6, <1>8, <1>9 DEF IInv, Apart
<1>13. TasksSound'
  BY <1>3, <1>6, <1>8 DEF IInv, TasksSound, Tasks
<1>14. ChunksSound'
  BY <1>3, <1>6, <1>8 DEF IInv, ChunksSound
<1>15. ReadersSound'
  <2>1. ASSUME NEW v \in Pool \ {w}
        PROVE  wk'[v] = wk[v] /\ ReadUpTo(v)' = ReadUpTo(v)
    BY <1>5, OthersRead DEF Turns
  <2>2. wk'[w].doing # "reading" /\ wk'[w].job = Stop
    BY <1>4, <1>5 DEF Turns
  <2> QED BY <2>1, <2>2, <1>3 DEF IInv, ReadersSound
<1>16. WaitingBlank'
  BY <1>3, <1>8 DEF IInv, WaitingBlank
<1>17. ResultsSound'
  <2>1. \A i \in DOMAIN finished' :
          finished'[i].path \in Dirs /\ EntriesOf(finished'[i].path, finished'[i].entries)
    BY <1>1, <1>2, <1>7 DEF IInv, ResultsSound, Pushed
  <2> QED BY <2>1, <1>3, <1>8 DEF IInv, ResultsSound
<1> QED BY <1>10, <1>11, <1>12, <1>13, <1>14, <1>15, <1>16, <1>17 DEF IInv

LEMMA WorkerKeeps ==
  ASSUME IInv, NEW w \in Pool, WorkerStep(w)
  PROVE  IInv'
<1>1. CASE Return(w) \/ Crash(w) \/ StopReading(w)
  <2>1. Reading(w) /\ wk[w].job \in Dirs
    BY <1>1 DEF Return, Crash, StopReading, Reading, IInv, QueuesTyped, ReadersSound
  <2>2. 0 \in 0..Len(Here(w)) /\ Len(Here(w)) \in 0..Len(Here(w))
    <3>1. Len(Listing[wk[w].job]) \in Nat
      BY <2>1, TreeAssumption DEF TreeAssumption
    <3> QED BY <3>1 DEF Here
  <2>3. CASE Return(w)
    BY <2>1, <2>2, <2>3, HandBackKeeps DEF Return
  <2>4. CASE Crash(w)
    BY <2>1, <2>2, <2>4, HandBackKeeps DEF Crash
  <2>5. CASE StopReading(w)
    BY <2>1, <2>5, HandBackKeeps DEF StopReading
  <2> QED BY <1>1, <2>3, <2>4, <2>5
<1> QED BY <1>1, TakeJobKeeps, SendChunkKeeps DEF WorkerStep

-----------------------------------------------------------------------------
(* Steps that change the tree.                                             *)

\* The tree is sound and keeps what frames and settled directories have.
Holds == Sound(tree') /\ FrozenSound(tree', frozen') /\ Kept(tree, tree', frozen)

\* The chunk c has been applied.
ChunkGone(c) ==
  /\ Holds
  /\ Out(Shape(tree')) = Out(Shape(tree)) /\ Shape(tree').scanned = Shape(tree).scanned
  /\ Names(tree', c.path) = Names(tree, c.path) \o Listed(c.entries)
  /\ \A e \in Dirs \ {c.path} : Names(tree', e) = Names(tree, e)

\* The first chunk's directory awaits it.
LEMMA ChunkAwaited ==
  ASSUME IInv, chunks # <<>>
  PROVE  LET c == Head(chunks)
         IN /\ Popped(chunks, Tail(chunks)) /\ c = chunks[1] /\ 1 \in DOMAIN chunks
            /\ c.path \in InWork \cup InFinished \cup InBatch
            /\ c.path \in Active(tree) /\ c.path \in Dirs /\ c.path \notin Shape(tree).scanned
            /\ EntriesOf(c.path, c.entries)
            /\ Range(c.entries) \cap Range(Names(tree, c.path)) = {}
<1> DEFINE c == Head(chunks)
<1>1. Popped(chunks, Tail(chunks)) /\ c = chunks[1] /\ 1 \in DOMAIN chunks
  BY Popping DEF IInv, QueuesTyped, Popped
<1>2. /\ c.path \in InWork \cup InFinished \cup InBatch
      /\ EntriesOf(c.path, c.entries)
      /\ Range(c.entries) \cap Range(Names(tree, c.path)) = {}
  BY <1>1 DEF IInv, ChunksSound
<1> HIDE DEF c
<1>3. c.path \in Out(Shape(tree)) /\ c.path \notin Shape(tree).scanned
  BY <1>2 DEF IInv, TasksSound, Tasks
<1>4. c.path \notin tree.settled /\ c.path \in Dirs
  BY <1>3, ShapeOf DEF IInv, TreeInv, Sound, ShapeSound, SettledSound, Out
<1> QED BY <1>1, <1>2, <1>3, <1>4 DEF Active, c

LEMMA ChunkDrained ==
  ASSUME IInv, DrainChunk
  PROVE  ChunkGone(Head(chunks))
<1> DEFINE c    == Head(chunks)
           t    == ApplyChunk(tree, c)
           s    == t.at[c.path]
           next == Ahead(s.found, s.nextAt)
           t1   == InState(t, c.path, [s EXCEPT !.nextAt = next])
<1>1. /\ chunks # <<>>
      /\ IF s.found >= s.nextAt THEN Publish(t1, TRUE) ELSE tree' = t /\ UNCHANGED viewVars
  BY DEF DrainChunk
<1>2. /\ Sound(tree) /\ Formed(tree) /\ FrozenSound(tree, frozen)
  BY DEF IInv, TreeInv, Sound
<1>3. /\ c.path \in Active(tree) /\ c.path \in Dirs /\ c.path \notin Shape(tree).scanned
      /\ EntriesOf(c.path, c.entries)
      /\ Range(c.entries) \cap Range(Names(tree, c.path)) = {}
  BY <1>1, ChunkAwaited
<1> HIDE DEF c, next
<1>4. Brought(tree, t, c.path, Listed(c.entries))
  BY <1>2, <1>3, ApplyingChunk
<1> HIDE DEF t
<1>5. Sound(t) /\ Careful(tree, t) /\ Formed(t)
  BY <1>4 DEF Brought, Sound
<1>6. /\ Sound(t1) /\ Shape(t1) = Shape(t) /\ Careful(tree, t1)
  <2>1. Calm(t, t1)
    BY <1>3, <1>5, Noting
  <2> HIDE DEF t1
  <2>2. Sound(t1) /\ Shape(t1) = Shape(t) /\ Careful(t, t1) /\ Formed(t1)
    BY <2>1, <1>5, CalmShape DEF Calm, Sound
  <2> QED BY <2>2, <1>2, <1>5, CarefulOn
<1> HIDE DEF t1, s
<1>7. Shown(t) \/ Shown(t1)
  BY <1>1, <1>2, <1>5, <1>6, Publishing
<1>8. Holds /\ Shape(tree') = Shape(t)
  BY <1>6, <1>7 DEF Shown, Holds
<1>9. \A d \in Dirs : Names(tree', d) = Names(t, d)
  BY <1>5, <1>8, NamesByShape DEF Holds, Sound
<1>10. ChunkGone(c)
  BY <1>3, <1>4, <1>8, <1>9 DEF ChunkGone, Brought
<1> QED BY <1>10 DEF c

LEMMA QueuedSound ==
  ASSUME QueuesTyped, NEW t, NEW d \in Dirs
  PROVE  Queued(t, d) \in Seq(Dirs)
BY DEF QueuesTyped, Queued

LEMMA DrainChunkKeeps ==
  ASSUME IInv, DrainChunk
  PROVE  IInv'
<1> DEFINE c == Head(chunks)
<1>1. /\ chunks # <<>> /\ chunks' = Tail(chunks)
      /\ UNCHANGED <<pc, batch, pending, inFlight, threads, jobs, finished, wk>>
  BY DEF DrainChunk
<1>2. /\ Popped(chunks, chunks') /\ c = chunks[1] /\ 1 \in DOMAIN chunks
      /\ c.path \in InWork \cup InFinished \cup InBatch /\ c.path \in Dirs
      /\ EntriesOf(c.path, c.entries)
  BY <1>1, ChunkAwaited
<1>3. ChunkGone(c)
  BY ChunkDrained
<1>4. sources' \in Seq(Dirs)
  <2>1. QueuesTyped
    BY DEF IInv
  <2>2. sources' = sources \/ \E t : sources' = Queued(t, c.path)
    BY DEF DrainChunk
  <2> QED BY <2>1, <2>2, <1>2, QueuedSound DEF QueuesTyped
<1> HIDE DEF c
<1>5. /\ InPending' = InPending /\ InJobs' = InJobs /\ InWork' = InWork
      /\ InFinished' = InFinished /\ InBatch' = InBatch /\ Tasks' = Tasks
  BY <1>1 DEF InPending, InJobs, InWork, InFinished, InBatch, Tasks
<1>6. Range(Names(tree', c.path)) \subseteq Range(Names(tree, c.path)) \cup Range(c.entries)
  <2>1. /\ Names(tree', c.path) = Names(tree, c.path) \o Listed(c.entries)
        /\ EntriesOf(c.path, Listed(c.entries)) /\ Range(Listed(c.entries)) \subseteq Range(c.entries)
    BY <1>2, <1>3, ListedSound DEF ChunkGone
  <2>2. Names(tree, c.path) \in Seq(Entries)
    <3>1. Kids(tree, c.path) \in Seq(Entries \X Nat)
      BY <1>2, CurrentNode DEF IInv, TreeInv, Sound
    <3> QED BY <3>1, NamesOfSeq DEF Names
  <2>3. Listed(c.entries) \in Seq(Entries)
    BY <2>1 DEF EntriesOf
  <2> DEFINE a == Names(tree, c.path)
             b == Listed(c.entries)
  <2>4. Range(a \o b) \subseteq Range(a) \cup Range(b)
    <3> HIDE DEF a, b
    <3>1. a \in Seq(Entries) /\ b \in Seq(Entries)
      BY <2>2, <2>3 DEF a, b
    <3> QED BY <3>1 DEF Range
  <2> QED BY <2>1, <2>4
<1>7. TreeInv'
  BY <1>3 DEF ChunkGone, Holds, TreeInv
<1>8. QueuesTyped'
  BY <1>1, <1>2, <1>4 DEF IInv, QueuesTyped, Popped
<1>9. Apart'
  BY <1>1, <1>5 DEF IInv, Apart
<1>10. TasksSound'
  BY <1>3, <1>5 DEF IInv, TasksSound, ChunkGone
<1>11. \A d \in Dirs : d # c.path => Names(tree', d) = Names(tree, d)
  BY <1>3 DEF ChunkGone
<1>12. \A i \in DOMAIN chunks' : chunks'[i].path = c.path =>
         Range(chunks'[i].entries) \cap Range(c.entries) = {}
  <2>1. ASSUME NEW i \in DOMAIN chunks', chunks'[i].path = c.path
        PROVE  Range(chunks'[i].entries) \cap Range(c.entries) = {}
    <3>1. i + 1 \in DOMAIN chunks /\ chunks'[i] = chunks[i + 1] /\ i + 1 # 1
      BY <1>2 DEF Popped
    <3> QED BY <3>1, <2>1, <1>2 DEF IInv, ChunksSound
  <2> QED BY <2>1
<1>13. ChunksSound'
  <2>1. ASSUME NEW i \in DOMAIN chunks'
        PROVE  /\ chunks'[i].path \in InWork' \cup InFinished' \cup InBatch'
               /\ EntriesOf(chunks'[i].path, chunks'[i].entries)
               /\ Range(chunks'[i].entries) \cap Range(Names(tree', chunks'[i].path)) = {}
    <3>1. i + 1 \in DOMAIN chunks /\ chunks'[i] = chunks[i + 1]
      BY <1>2 DEF Popped
    <3>2. /\ chunks'[i].path \in InWork \cup InFinished \cup InBatch
          /\ EntriesOf(chunks'[i].path, chunks'[i].entries)
          /\ Range(chunks'[i].entries) \cap Range(Names(tree, chunks'[i].path)) = {}
      BY <3>1 DEF IInv, ChunksSound
    <3>3. chunks'[i].path \in Dirs
      BY <3>2 DEF IInv, TasksSound, Tasks, Out
    <3>4. CASE chunks'[i].path = c.path
      BY <3>2, <3>4, <1>5, <1>6, <1>12
    <3>5. CASE chunks'[i].path # c.path
      BY <3>2, <3>3, <3>5, <1>5, <1>11
    <3> QED BY <3>4, <3>5
  <2>2. ASSUME NEW i \in DOMAIN chunks', NEW j \in DOMAIN chunks', i # j,
               chunks'[i].path = chunks'[j].path
        PROVE  Range(chunks'[i].entries) \cap Range(chunks'[j].entries) = {}
    <3>1. /\ i + 1 \in DOMAIN chunks /\ chunks'[i] = chunks[i + 1] /\ i \in Nat
          /\ j + 1 \in DOMAIN chunks /\ chunks'[j] = chunks[j + 1] /\ j \in Nat
      BY <1>2 DEF Popped
    <3>2. i + 1 # j + 1
      BY <3>1, <2>2
    <3> QED BY <3>1, <3>2, <2>2 DEF IInv, ChunksSound
  <2> QED BY <2>1, <2>2 DEF ChunksSound
<1>14. ReadersSound'
  <2>1. ASSUME NEW v \in Pool
        PROVE  /\ wk[v].doing = "reading" <=> wk[v].job # Stop
               /\ wk[v].job # Stop =>
                    /\ Range(Names(tree', wk[v].job)) \subseteq ReadUpTo(v)
                    /\ \A i \in DOMAIN chunks' : chunks'[i].path = wk[v].job =>
                         Range(chunks'[i].entries) \subseteq ReadUpTo(v)
    <3>1. wk[v].doing = "reading" <=> wk[v].job # Stop
      BY DEF IInv, ReadersSound
    <3>2. ASSUME wk[v].job # Stop
          PROVE  /\ Range(Names(tree, wk[v].job)) \subseteq ReadUpTo(v)
                 /\ \A i \in DOMAIN chunks : chunks[i].path = wk[v].job =>
                      Range(chunks[i].entries) \subseteq ReadUpTo(v)
                 /\ wk[v].job \in Dirs
      BY <3>2 DEF IInv, ReadersSound, QueuesTyped
    <3>3. ASSUME wk[v].job # Stop
          PROVE  Range(Names(tree', wk[v].job)) \subseteq ReadUpTo(v)
      <4>1. CASE wk[v].job = c.path
        BY <3>2, <3>3, <4>1, <1>2, <1>6
      <4>2. CASE wk[v].job # c.path
        BY <3>2, <3>3, <4>2, <1>11
      <4> QED BY <4>1, <4>2
    <3>4. ASSUME wk[v].job # Stop, NEW i \in DOMAIN chunks', chunks'[i].path = wk[v].job
          PROVE  Range(chunks'[i].entries) \subseteq ReadUpTo(v)
      <4>1. i + 1 \in DOMAIN chunks /\ chunks'[i] = chunks[i + 1]
        BY <1>2 DEF Popped
      <4> QED BY <4>1, <3>2, <3>4
    <3> QED BY <3>1, <3>3, <3>4
  <2>2. \A v \in Pool : ReadUpTo(v)' = ReadUpTo(v)
    BY <1>1 DEF ReadUpTo, Here, ReadTo
  <2> QED BY <2>1, <2>2, <1>1 DEF ReadersSound
<1>15. WaitingBlank'
  <2>1. ASSUME NEW d \in InPending \cup InJobs PROVE d \in Dirs /\ d # c.path
    BY <1>2 DEF IInv, Apart, TasksSound, Tasks, Out
  <2> QED BY <2>1, <1>5, <1>11 DEF IInv, WaitingBlank
<1>16. ResultsSound'
  <2>1. pc = "apply" => \A i \in DOMAIN chunks' : chunks'[i].path \notin InBatch
    BY <1>2 DEF IInv, ResultsSound, Popped
  <2> QED BY <2>1, <1>1, <1>5 DEF IInv, ResultsSound
<1> QED BY <1>7, <1>8, <1>9, <1>10, <1>13, <1>14, <1>15, <1>16 DEF IInv

\* The result r has been applied.
ResultGone(r) ==
  /\ Holds
  /\ Out(Shape(tree')) = Out(Shape(tree))
  /\ Shape(tree').scanned = Shape(tree).scanned \cup {r.path}
  /\ \A e \in Dirs \ Shape(tree').scanned : Names(tree', e) = Names(tree, e)

\* A result's directory awaits it.
LEMMA ResultAwaited ==
  ASSUME IInv, NEW r \in batch
  PROVE  Awaits(tree, r)
<1>1. EntriesOf(r.path, r.entries) /\ r.path \in Dirs
  BY DEF IInv, ResultsSound
<1>2. r.path \in Out(Shape(tree)) /\ r.path \notin Shape(tree).scanned
  BY DEF IInv, TasksSound, Tasks, InBatch
<1>3. r.path \notin tree.settled
  BY <1>2, ShapeOf DEF IInv, TreeInv, Sound, ShapeSound, SettledSound
<1> QED BY <1>1, <1>2, <1>3 DEF Awaits, Active

LEMMA ResultApplied ==
  ASSUME IInv, NEW r \in batch, Publish(ApplyResult(tree, r), r.path = Root)
  PROVE  ResultGone(r)
<1> DEFINE t == ApplyResult(tree, r)
<1>1. /\ Sound(tree) /\ Formed(tree) /\ FrozenSound(tree, frozen)
  BY DEF IInv, TreeInv, Sound
<1>2. Awaits(tree, r)
  BY ResultAwaited
<1>3. Took(tree, t, r.path)
  BY <1>1, <1>2, ApplyingResult
<1> HIDE DEF t
<1>4. Sound(t) /\ Careful(tree, t) /\ Formed(t)
  BY <1>3 DEF Took, Sound
<1>5. Shown(t)
  <2>1. Publish(t, r.path = Root)
    BY DEF t
  <2> QED BY <2>1, <1>1, <1>4, Publishing
<1>6. Holds /\ Shape(tree') = Shape(t)
  BY <1>5 DEF Shown, Holds
<1>7. \A d \in Dirs : Names(tree', d) = Names(t, d)
  BY <1>4, <1>6, NamesByShape DEF Holds, Sound
<1> QED BY <1>3, <1>6, <1>7 DEF ResultGone, Took

LEMMA ApplyKeeps ==
  ASSUME IInv, Apply
  PROVE  IInv'
<1>1. PICK r \in batch :
        /\ sources' = IF ApplyResult(tree, r).at[r.path].remaining > 0
                      THEN Queued(ApplyResult(tree, r), r.path) ELSE sources
        /\ Publish(ApplyResult(tree, r), r.path = Root)
        /\ batch' = batch \ {r}
        /\ pc' = IF batch' = {} THEN "top" ELSE "apply"
  BY DEF Apply
<1>2. /\ UNCHANGED <<pending, inFlight, threads, jobs, chunks, finished, wk>>
      /\ pc = "apply" \/ chunks = <<>>
  BY DEF Apply
<1>3. ResultGone(r)
  BY <1>1, ResultApplied
<1> DEFINE d == r.path
<1>4. d \in InBatch /\ d \in Dirs
  BY DEF InBatch, IInv, ResultsSound
<1>5. d \notin InPending /\ d \notin InJobs /\ d \notin InWork /\ d \notin InFinished
  BY <1>4 DEF IInv, Apart
<1>6. InBatch' = InBatch \ {d}
  BY <1>1 DEF InBatch, IInv, Apart
<1>7. /\ InPending' = InPending /\ InJobs' = InJobs /\ InWork' = InWork
      /\ InFinished' = InFinished
  BY <1>2 DEF InPending, InJobs, InWork, InFinished
<1>8. Tasks' = Tasks \ {d}
  BY <1>4, <1>5, <1>6, <1>7 DEF Tasks
<1>9. sources' \in Seq(Dirs)
  <2>1. QueuesTyped
    BY DEF IInv
  <2>2. sources' = sources \/ \E t : sources' = Queued(t, d)
    BY <1>1
  <2> QED BY <2>1, <2>2, <1>4, QueuedSound DEF QueuesTyped
<1> HIDE DEF d
<1>10. \A e \in Tasks' : e \in Dirs /\ Names(tree', e) = Names(tree, e)
  BY <1>3, <1>8 DEF IInv, TasksSound, Out, ResultGone, d
<1>11. TreeInv'
  BY <1>3 DEF ResultGone, Holds, TreeInv
<1>12. QueuesTyped'
  BY <1>2, <1>9 DEF IInv, QueuesTyped
<1>13. Apart'
  <2>1. \A q, s \in batch' : q.path = s.path => q = s
    BY <1>1 DEF IInv, Apart
  <2> QED BY <2>1, <1>2, <1>6, <1>7 DEF IInv, Apart
<1>14. TasksSound'
  BY <1>3, <1>8 DEF IInv, TasksSound, ResultGone, d
<1>15. \A i \in DOMAIN chunks : chunks[i].path # d
  BY <1>2, <1>4 DEF IInv, ResultsSound
<1>16. ChunksSound'
  <2>1. ASSUME NEW i \in DOMAIN chunks
        PROVE  /\ chunks[i].path \in InWork' \cup InFinished' \cup InBatch'
               /\ EntriesOf(chunks[i].path, chunks[i].entries)
               /\ Range(chunks[i].entries) \cap Range(Names(tree', chunks[i].path)) = {}
    <3>1. /\ chunks[i].path \in InWork \cup InFinished \cup InBatch
          /\ EntriesOf(chunks[i].path, chunks[i].entries)
          /\ Range(chunks[i].entries) \cap Range(Names(tree, chunks[i].path)) = {}
      BY DEF IInv, ChunksSound
    <3>2. chunks[i].path \in InWork' \cup InFinished' \cup InBatch'
      BY <3>1, <1>6, <1>7, <1>15
    <3>3. Names(tree', chunks[i].path) = Names(tree, chunks[i].path)
      BY <3>2, <1>10 DEF Tasks
    <3> QED BY <3>1, <3>2, <3>3
  <2> QED BY <2>1, <1>2 DEF IInv, ChunksSound
<1>17. ReadersSound'
  <2>1. \A v \in Pool : ReadUpTo(v)' = ReadUpTo(v)
    BY <1>2 DEF ReadUpTo, Here, ReadTo
  <2>2. ASSUME NEW v \in Pool, wk[v].job # Stop
        PROVE  Names(tree', wk[v].job) = Names(tree, wk[v].job)
    <3>1. wk[v].job \in InWork'
      BY <2>2, <1>7 DEF InWork
    <3> QED BY <3>1, <1>10 DEF Tasks
  <2> QED BY <2>1, <2>2, <1>2 DEF IInv, ReadersSound
<1>18. WaitingBlank'
  <2>1. \A e \in InPending' \cup InJobs' : Names(tree', e) = Names(tree, e)
    BY <1>10 DEF Tasks
  <2> QED BY <2>1, <1>7 DEF IInv, WaitingBlank
<1>19. ResultsSound'
  <2>1. pc' = "apply" => \A i \in DOMAIN chunks' : chunks'[i].path \notin InBatch'
    BY <1>2, <1>6 DEF IInv, ResultsSound
  <2>2. batch' # {} => pc' = "apply"
    BY <1>1
  <2>3. \A q \in batch' : q.path \in Dirs /\ EntriesOf(q.path, q.entries)
    BY <1>1 DEF IInv, ResultsSound
  <2> QED BY <2>1, <2>2, <2>3, <1>2 DEF IInv, ResultsSound
<1> QED BY <1>11, <1>12, <1>13, <1>14, <1>16, <1>17, <1>18, <1>19 DEF IInv

\* Directory c, or none, has been handed out.
TurnTaken ==
  \/ Opened(tree, tree', {}) /\ pending' = pending
  \/ \E c \in Dirs :
       /\ Opened(tree, tree', {c}) /\ pending' = Append(pending, c)
       /\ c \notin Out(Shape(tree)) /\ Names(tree, c) = <<>>

LEMMA SourceTurns ==
  ASSUME IInv, HandOut
  PROVE  TurnTaken /\ sources' \in Seq(Dirs)
<1> DEFINE d    == Head(sources)
           kids == Kids(tree, d)
           left == {i \in DOMAIN kids : i > tree.at[d].cursor /\ kids[i][1] \in Dirs}
           i    == IF left = {} THEN Len(kids) ELSE Min(left)
           read == [tree.at EXCEPT ![d].cursor = i]
<1>1. /\ sources \in Seq(Dirs) /\ sources # <<>> /\ d \in Dirs /\ Tail(sources) \in Seq(Dirs)
      /\ Sound(tree)
  BY Popping DEF HandOut, IInv, QueuesTyped, TreeInv
<1>2. /\ sources' = IF i < Len(kids) THEN Append(Tail(sources), d) ELSE Tail(sources)
      /\ IF left = {} THEN tree' = [tree EXCEPT !.at = read] /\ pending' = pending
         ELSE /\ tree' = [tree EXCEPT !.at = [read EXCEPT ![kids[i][1]] = Fresh(Stale, i)]]
              /\ pending' = Append(pending, kids[i][1])
  BY DEF HandOut, Kids
<1>3. sources' \in Seq(Dirs)
  BY <1>1, <1>2
<1>4. kids \in Seq(Entries \X Nat) /\ DOMAIN kids = 1..Len(kids) /\ Len(kids) \in Nat
  BY <1>1, CurrentNode DEF Sound
<1>5. CASE left = {}
  <2>1. Opened(tree, [tree EXCEPT !.at = [tree.at EXCEPT ![d].cursor = Len(kids)]], {})
    BY <1>1, <1>5, Advancing
  <2> QED BY <2>1, <1>2, <1>3, <1>5 DEF TurnTaken
<1>6. CASE left # {}
  <2>1. left \in SUBSET Nat
    BY <1>4
  <2>2. i \in left /\ \A x \in left : i <= x
    BY <2>1, <1>6, LeastNumber
  <2> DEFINE k == i
  <2>3. /\ k \in DOMAIN kids /\ k > tree.at[d].cursor /\ kids[k][1] \in Dirs
        /\ \A j \in DOMAIN kids : j > tree.at[d].cursor /\ j < k => kids[j][1] \notin Dirs
    <3>1. k \in DOMAIN kids /\ k > tree.at[d].cursor /\ kids[k][1] \in Dirs
      BY <2>2
    <3>2. ASSUME NEW j \in DOMAIN kids, j > tree.at[d].cursor, j < k, kids[j][1] \in Dirs
          PROVE  FALSE
      <4>1. j \in left /\ j \in Nat
        BY <3>2, <1>4
      <4>2. k <= j
        BY <4>1, <2>2
      <4>3. k \in Nat
        BY <3>1, <1>4
      <4> HIDE DEF i, k
      <4> QED BY <4>1, <4>2, <4>3, <3>2
    <3> QED BY <3>1, <3>2
  <2>4. /\ tree' = [tree EXCEPT !.at = [[tree.at EXCEPT ![d].cursor = k]
                                        EXCEPT ![kids[k][1]] = Fresh(Stale, k)]]
        /\ pending' = Append(pending, kids[k][1])
    BY <1>2, <1>6
  <2> HIDE DEF i, left, k, read
  <2>5. /\ Opened(tree, [tree EXCEPT !.at = [[tree.at EXCEPT ![d].cursor = k]
                                             EXCEPT ![kids[k][1]] = Fresh(Stale, k)]],
                  {kids[k][1]})
        /\ kids[k][1] \notin Out(Shape(tree)) /\ Names(tree, kids[k][1]) = <<>>
    BY <1>1, <2>3, Opening
  <2> QED BY <2>3, <2>4, <2>5, <1>3 DEF TurnTaken
<1> QED BY <1>5, <1>6

\* A tree with other states keeps what frames and settled directories have.
LEMMA OpenedHolds ==
  ASSUME IInv, frozen' = frozen, NEW D, Opened(tree, tree', D)
  PROVE  Holds /\ \A e \in Dirs : Names(tree', e) = Names(tree, e)
<1>1. \A e \in Dirs : Names(tree', e) = Names(tree, e)
  BY DEF Opened, Names, Kids, Current
<1>2. FrozenSound(tree', frozen')
  BY DEF Opened, IInv, TreeInv, FrozenSound
<1>3. Kept(tree, tree', frozen)
  BY DEF Opened, Kept
<1> QED BY <1>1, <1>2, <1>3 DEF Opened, Holds

LEMMA HandOutKeeps ==
  ASSUME IInv, HandOut
  PROVE  IInv'
<1>1. /\ UNCHANGED <<frozen, batch, jobs, inFlight, threads, chunks, finished, wk>>
      /\ pc' = "fill" /\ batch = {}
  BY DEF HandOut, Filling, viewVars, IInv, ResultsSound
<1>2. TurnTaken /\ sources' \in Seq(Dirs)
  BY SourceTurns
<1>3. PICK D : /\ Opened(tree, tree', D) /\ D \subseteq Dirs /\ D \cap Out(Shape(tree)) = {}
               /\ \A e \in D : Names(tree, e) = <<>>
               /\ \/ D = {} /\ pending' = pending
                  \/ \E c \in Dirs : D = {c} /\ pending' = Append(pending, c)
  BY <1>2 DEF TurnTaken
<1>4. Holds /\ \A e \in Dirs : Names(tree', e) = Names(tree, e)
  BY <1>1, <1>3, OpenedHolds
<1>5. Tasks \subseteq Out(Shape(tree)) /\ D \cap Tasks = {} /\ Tasks \subseteq Dirs
  BY <1>3 DEF IInv, TasksSound, Out
<1>6. /\ pending' \in Seq(Dirs) /\ InPending' = InPending \cup D
      /\ \A i, j \in DOMAIN pending' : pending'[i] = pending'[j] => i = j
  <2>1. /\ pending \in Seq(Dirs)
        /\ \A i, j \in DOMAIN pending : pending[i] = pending[j] => i = j
    BY DEF IInv, QueuesTyped, Apart
  <2>2. CASE D = {} /\ pending' = pending
    BY <2>1, <2>2 DEF InPending
  <2>3. CASE \E c \in Dirs : D = {c} /\ pending' = Append(pending, c)
    <3>1. PICK c \in Dirs : D = {c} /\ pending' = Append(pending, c)
      BY <2>3
    <3>2. Pushed(pending, pending', c) /\ pending' \in Seq(Dirs)
      <4>1. Pushed(pending, Append(pending, c), c)
        BY <2>1, Pushing
      <4> QED BY <4>1, <3>1, <2>1
    <3>3. c \notin Range(pending)
      BY <3>1, <1>5 DEF Tasks, InPending
    <3> QED BY <2>1, <3>1, <3>2, <3>3, PushedKeys DEF Pushed, InPending
  <2> QED BY <2>2, <2>3, <1>3
<1>7. /\ InJobs' = InJobs /\ InWork' = InWork /\ InFinished' = InFinished /\ InBatch' = InBatch
  BY <1>1 DEF InJobs, InWork, InFinished, InBatch
<1>8. TreeInv'
  BY <1>4 DEF Holds, TreeInv
<1>9. QueuesTyped'
  BY <1>1, <1>2, <1>6 DEF IInv, QueuesTyped
<1>10. Apart'
  BY <1>1, <1>5, <1>6, <1>7 DEF IInv, Apart, Tasks
<1>11. TasksSound'
  <2>1. /\ Out(Shape(tree')) = Out(Shape(tree)) \cup D
        /\ Shape(tree').scanned = Shape(tree).scanned
    BY <1>3 DEF Opened
  <2>2. D \cap Shape(tree).scanned = {}
    BY <1>3 DEF IInv, TreeInv, Sound, ShapeSound, RestUntouched
  <2> QED BY <2>1, <2>2, <1>6, <1>7 DEF IInv, TasksSound, Tasks
<1>12. \A i \in DOMAIN chunks : chunks[i].path \in Dirs
  BY <1>5 DEF IInv, ChunksSound, Tasks
<1>13. ChunksSound'
  BY <1>1, <1>4, <1>7, <1>12 DEF IInv, ChunksSound
<1>14. ReadersSound'
  <2>1. \A v \in Pool : ReadUpTo(v)' = ReadUpTo(v)
    BY <1>1 DEF ReadUpTo, Here, ReadTo
  <2>2. ASSUME NEW v \in Pool, wk[v].job # Stop PROVE wk[v].job \in Dirs
    BY <2>2 DEF IInv, QueuesTyped
  <2> QED BY <2>1, <2>2, <1>1, <1>4 DEF IInv, ReadersSound
<1>15. WaitingBlank'
  <2>1. ASSUME NEW e \in InPending' \cup InJobs' PROVE Names(tree', e) = <<>>
    <3>1. e \in D \/ e \in InPending \cup InJobs
      BY <1>6, <1>7
    <3>2. Names(tree, e) = <<>> /\ e \in Dirs
      BY <3>1, <1>3, <1>5 DEF IInv, WaitingBlank, Tasks
    <3> QED BY <3>2, <1>4
  <2> QED BY <2>1 DEF WaitingBlank
<1>16. ResultsSound'
  BY <1>1 DEF IInv, ResultsSound
<1> QED BY <1>8, <1>9, <1>10, <1>11, <1>13, <1>14, <1>15, <1>16 DEF IInv

-----------------------------------------------------------------------------
(* The theorems.                                                           *)

LEMMA InitKeeps ==
  ASSUME Init
  PROVE  IInv
<1>1. Root \in Dirs /\ Stop \notin Dirs /\ Root # Stop
  BY TreeAssumption DEF TreeAssumption, Stop
<1>2. /\ tree.heap = [d \in Dirs |-> <<Blank>>] /\ tree.generation = 0 /\ tree.settled = {}
      /\ DOMAIN tree = {"heap", "at", "generation", "changed", "settled", "outstanding"}
      /\ tree.at = [d \in Dirs |-> [Fresh(0, 0) EXCEPT !.live = (d = Root)]]
  BY DEF Init
<1>3. \A b \in BOOLEAN :
        LET s == [Fresh(0, 0) EXCEPT !.live = b]
        IN /\ IsState(s) /\ s.live = b /\ s.gen = 0 /\ s.index = 0 /\ s.cursor = 0
           /\ s.remaining = 0 /\ s.scanned = FALSE /\ s.settled = FALSE
  BY DEF Fresh, IsState
<1>4. \A d \in Dirs :
        LET s == tree.at[d]
        IN /\ IsState(s) /\ s.gen = 0 /\ s.cursor = 0 /\ s.index = 0
           /\ s.remaining = 0 /\ s.scanned = FALSE /\ s.settled = FALSE /\ s.live = (d = Root)
  <2>1. ASSUME NEW d \in Dirs
        PROVE  LET s == [Fresh(0, 0) EXCEPT !.live = (d = Root)]
               IN /\ IsState(s) /\ s.live = (d = Root) /\ s.gen = 0 /\ s.index = 0 /\ s.cursor = 0
                  /\ s.remaining = 0 /\ s.scanned = FALSE /\ s.settled = FALSE
    <3>1. (d = Root) \in BOOLEAN
      OBVIOUS
    <3> QED BY <3>1, <1>3
  <2>2. \A d \in Dirs : tree.at[d] = [Fresh(0, 0) EXCEPT !.live = (d = Root)]
    BY <1>2
  <2> QED BY <2>1, <2>2
<1>5. Chain(<<Blank>>) /\ Len(<<Blank>>) = 1 /\ <<Blank>>[1] = Blank /\ Blank.kids = <<>>
  <2>1. IsNode(Blank)
    <3>1. Blank = [x \in DOMAIN Blank |-> Blank[x]]
      BY DEF Blank
    <3>2. "kids" \in DOMAIN Blank /\ Blank.kids = <<>>
      BY DEF Blank
    <3>3. <<>> \in Seq(Entries \X Nat)
      OBVIOUS
    <3> QED BY <3>1, <3>2, <3>3 DEF IsNode
  <2>2. Blank.kids = <<>>
    BY DEF Blank
  <2> DEFINE b == Blank
             h == <<b>>
  <2>3. Len(h) = 1 /\ h[1] = b /\ h # <<>> /\ h \in Seq(Range(h))
    <3> HIDE DEF b
    <3>1. h \in Seq({b}) /\ Len(h) = 1 /\ h[1] = b
      OBVIOUS
    <3>2. h \in Seq(Range(h))
      BY <3>1, SeqOfRange
    <3> QED BY <3>1, <3>2
  <2> QED BY <2>1, <2>2, <2>3 DEF Chain
<1>6. Formed(tree)
  <2>1. IsTree(tree)
    BY <1>2 DEF IsTree
  <2>2. \A d \in Dirs : Chain(tree.heap[d])
    BY <1>2, <1>5
  <2>3. \A d \in Dirs : IsState(tree.at[d]) /\ tree.at[d].gen <= tree.generation
    BY <1>2, <1>4
  <2>4. ASSUME NEW d \in Dirs PROVE tree.at[d].settled = (d \in tree.settled)
    <3>1. tree.at[d].settled = FALSE
      BY <1>4
    <3>2. (d \in tree.settled) = FALSE
      BY <1>2
    <3> QED BY <3>1, <3>2
  <2> QED BY <2>1, <2>2, <2>3, <2>4 DEF Formed
<1>7. \A d \in Dirs : Names(tree, d) = <<>>
  <2>1. \A d \in Dirs : Kids(tree, d) = <<>>
    BY <1>2, <1>5 DEF Kids, Current
  <2> QED BY <2>1 DEF Names, NamesOf
<1> DEFINE sh == Shape(tree)
<1>8. /\ sh.settled = {} /\ sh.scanned = {} /\ sh.live = {Root}
      /\ \A d \in Dirs : /\ sh.names[d] = <<>> /\ sh.cursor[d] = 0
                         /\ sh.remaining[d] = 0
  <2>1. /\ sh.settled = {}
        /\ \A d \in Dirs : /\ sh.names[d] = <<>> /\ sh.cursor[d] = 0
                           /\ sh.remaining[d] = 0
    BY <1>2, <1>4, <1>7 DEF Shape
  <2>2. sh.scanned = {}
    BY <1>4 DEF Shape
  <2>3. sh.live = {Root}
    BY <1>1, <1>4 DEF Shape
  <2> QED BY <2>1, <2>2, <2>3
<1> HIDE DEF sh
<1>9. Out(sh) = {Root}
  <2>1. ASSUME NEW d \in Dirs \ {Root} PROVE d \notin Out(sh)
    <3>1. 1..sh.cursor[ParentOf(d)] = {}
      BY <1>8, ParentSound
    <3> QED BY <3>1 DEF Out
  <2> QED BY <2>1, <1>1 DEF Out
<1>10. ShapeSound(sh)
  <2>1. NamesSound(sh)
    <3>1. \A d : EntriesOf(d, <<>>)
      BY DEF EntriesOf
    <3>2. \A d \in Dirs : NamesSoundAt(d, <<>>, 0)
      BY <3>1 DEF NamesSoundAt
    <3> QED BY <3>2, <1>8 DEF NamesSound
  <2>2. SettledSound(sh)
    BY <1>8 DEF SettledSound
  <2>3. RemainingCounts(sh)
    <3>1. \A d \in Dirs : Open(sh, d) = {}
      BY <1>8 DEF Open, Range
    <3> QED BY <3>1, <1>8, FS_EmptySet DEF RemainingCounts
  <2>4. RestUntouched(sh)
    BY <1>8 DEF RestUntouched
  <2>5. IndexSound(sh)
    BY <1>9 DEF IndexSound
  <2>6. LiveSound(sh)
    BY <1>8, <1>9 DEF LiveSound
  <2> QED BY <2>1, <2>2, <2>3, <2>4, <2>5, <2>6 DEF ShapeSound
<1>11. TreeInv
  <2>1. FreshUp(tree)
    BY <1>9 DEF FreshUp, sh
  <2>2. FrozenSound(tree, frozen)
    BY DEF Init, FrozenSound
  <2> QED BY <2>1, <2>2, <1>6, <1>10 DEF TreeInv, Sound, sh
<1>12. /\ InPending = {Root} /\ InJobs = {} /\ InWork = {} /\ InFinished = {} /\ InBatch = {}
  <2>1. InPending = {Root}
    BY DEF Init, InPending, Range
  <2>2. InJobs = {} /\ InFinished = {} /\ InBatch = {}
    BY DEF Init, InJobs, InFinished, InBatch, Range
  <2>3. InWork = {}
    BY DEF Init, InWork
  <2> QED BY <2>1, <2>2, <2>3
<1>13. QueuesTyped
  <2>1. pending \in Seq(Dirs) /\ sources \in Seq(Dirs) /\ jobs \in Seq(Dirs \cup {Stop})
        /\ threads \in Nat /\ inFlight \in Int
    BY <1>1 DEF Init
  <2>2. chunks \in Seq(Range(chunks)) /\ finished \in Seq(Range(finished))
    BY DEF Init
  <2>3. wk \in [Pool -> [doing : {"idle", "reading", "gone"}, job : Dirs \cup {Stop}, sent : Nat]]
    BY DEF Init
  <2> QED BY <2>1, <2>2, <2>3 DEF QueuesTyped
<1>14. Apart
  <2>1. \A i, j \in DOMAIN pending : pending[i] = pending[j] => i = j
    BY DEF Init
  <2>2. \A i, j \in DOMAIN jobs : jobs[i] = jobs[j] /\ jobs[i] # Stop => i = j
    BY DEF Init
  <2>3. \A v, w \in Pool : wk[v].job = wk[w].job /\ wk[v].job # Stop => v = w
    BY DEF Init
  <2>4. \A i, j \in DOMAIN finished : finished[i].path = finished[j].path => i = j
    BY DEF Init
  <2>5. \A r, s \in batch : r.path = s.path => r = s
    BY DEF Init
  <2> QED BY <2>1, <2>2, <2>3, <2>4, <2>5, <1>12 DEF Apart
<1>15. TasksSound
  BY <1>8, <1>9, <1>12 DEF TasksSound, Tasks, sh
<1>16. DOMAIN chunks = {}
  BY DEF Init
<1>17. ChunksSound
  BY <1>16 DEF ChunksSound
<1>18. ReadersSound
  BY <1>16 DEF Init, ReadersSound
<1>19. WaitingBlank
  BY <1>1, <1>7, <1>12 DEF WaitingBlank
<1>20. ResultsSound
  BY DEF Init, ResultsSound
<1> QED BY <1>11, <1>13, <1>14, <1>15, <1>17, <1>18, <1>19, <1>20 DEF IInv

LEMMA StepKeeps ==
  ASSUME IInv, [Next]_vars
  PROVE  IInv'
<1>1. CASE SchedulerStep
  BY <1>1, TopKeeps, DrainChunkKeeps, HandOutKeeps, FilledKeeps, SubmitKeeps, StartWorkersKeeps,
     CollectKeeps, ApplyKeeps, JoinKeeps DEF SchedulerStep
<1>2. CASE \E w \in Pool : WorkerStep(w)
  BY <1>2, WorkerKeeps
<1> QED BY <1>1, <1>2, AbortKeeps, CancelKeeps, StayingKeeps DEF Next

\* The tables of the scheduler, the queues and the workers agree in every state
\* of a scan.
THEOREM ScanInvariant == Spec => []IInv
<1>1. Init => IInv
  BY InitKeeps
<1>2. IInv /\ [Next]_vars => IInv'
  BY StepKeeps
<1> QED BY <1>1, <1>2, PTL DEF Spec

\* A set of which any two elements are the same.
LEMMA AtMostOne ==
  ASSUME NEW S, \A x, y \in S : x = y
  PROVE  Cardinality(S) <= 1
<1>1. CASE S = {}
  BY <1>1, FS_EmptySet
<1>2. CASE S # {}
  <2>1. PICK x \in S : TRUE
    BY <1>2
  <2>2. S = {x}
    BY <2>1
  <2> QED BY <2>2, FS_Singleton
<1> QED BY <1>1, <1>2

LEMMA OnceEach ==
  ASSUME IInv
  PROVE  OncePerDirectory
<1>1. Formed(tree) /\ ShapeSound(Shape(tree))
  BY DEF IInv, TreeInv, Sound
<1> SUFFICES ASSUME NEW d \in Dirs
             PROVE  /\ Cardinality(Held(d)) <= 1
                    /\ d \in tree.settled => Held(d) = {} /\ tree.at[d].settled
                    /\ \A i, j \in DOMAIN Kids(tree, d) :
                         Kids(tree, d)[i][1] = Kids(tree, d)[j][1] => i = j
  BY DEF OncePerDirectory, Kids
<1>2. d # Stop
  BY TreeAssumption DEF TreeAssumption, Stop
<1> DEFINE P == {<<"pending", i>> : i \in {j \in DOMAIN pending : pending[j] = d}}
           J == {<<"jobs", i>> : i \in {j \in DOMAIN jobs : jobs[j] = d}}
           W == {<<"worker", w>> : w \in {v \in Pool : wk[v].job = d}}
           F == {<<"finished", i>> : i \in {j \in DOMAIN finished : finished[j].path = d}}
           B == {<<"batch", r>> : r \in {s \in batch : s.path = d}}
<1>3. /\ P # {} => d \in InPending
      /\ J # {} => d \in InJobs
      /\ W # {} => d \in InWork
      /\ F # {} => d \in InFinished
      /\ B # {} => d \in InBatch
  BY <1>2 DEF InPending, InJobs, InWork, InFinished, InBatch, Range
<1>4. \A x, y \in P : x = y
  BY DEF IInv, Apart
<1>5. \A x, y \in J : x = y
  BY <1>2 DEF IInv, Apart
<1>6. \A x, y \in W : x = y
  BY <1>2 DEF IInv, Apart
<1>7. \A x, y \in F : x = y
  BY DEF IInv, Apart
<1>8. \A x, y \in B : x = y
  BY DEF IInv, Apart
<1>9. Held(d) = P \cup J \cup W \cup F \cup B
  BY DEF Held
<1> HIDE DEF P, J, W, F, B
<1>10. \A x, y \in Held(d) : x = y
  BY <1>3, <1>4, <1>5, <1>6, <1>7, <1>8, <1>9 DEF IInv, Apart
<1>11. Held(d) # {} => d \in Tasks
  BY <1>3, <1>9 DEF Tasks
<1>12. d \in tree.settled => Held(d) = {}
  <2>1. d \in tree.settled => d \in Shape(tree).scanned
    BY <1>1, ShapeOf DEF ShapeSound, SettledSound
  <2> QED BY <2>1, <1>11 DEF IInv, TasksSound
<1>13. d \in tree.settled => tree.at[d].settled
  BY <1>1 DEF Formed
<1>14. \A i, j \in DOMAIN Kids(tree, d) : Kids(tree, d)[i][1] = Kids(tree, d)[j][1] => i = j
  <2>1. \A i, j \in DOMAIN Names(tree, d) : Names(tree, d)[i] = Names(tree, d)[j] => i = j
    BY <1>1, ShapeOf DEF ShapeSound, NamesSound, NamesSoundAt, EntriesOf
  <2> QED BY <2>1, <1>1, CurrentNode
<1> QED BY <1>10, <1>12, <1>13, <1>14, AtMostOne

\* A directory waits, is read or has its result waiting in one place at most,
\* is never again on its way once it has settled, and is listed once.
THEOREM EachDirectoryOnce == Spec => []OncePerDirectory
BY ScanInvariant, OnceEach, PTL

LEMMA TreeKept ==
  ASSUME IInv, tree' = tree
  PROVE  Kept(tree, tree', frozen)
BY DEF Kept

LEMMA StepFreezes ==
  ASSUME IInv, [Next]_vars
  PROVE  Kept(tree, tree', frozen)
<1>1. CASE DrainChunk
  BY <1>1, ChunkDrained DEF ChunkGone, Holds
<1>2. CASE Apply
  BY <1>2, ResultApplied DEF Apply, ResultGone, Holds
<1>3. CASE HandOut
  <2>1. frozen' = frozen /\ \E D : Opened(tree, tree', D)
    BY <1>3, SourceTurns DEF HandOut, viewVars, TurnTaken
  <2> QED BY <2>1, OpenedHolds DEF Holds
<1>4. CASE Top \/ Filled \/ Submit \/ StartWorkers \/ Collect \/ Join \/ Abort \/ Cancel
  <2>1. tree' = tree
    BY <1>4 DEF Top, Filled, Submit, StartWorkers, Collect, Join, Abort, Cancel
  <2> QED BY <2>1, TreeKept
<1>5. CASE \E w \in Pool : WorkerStep(w)
  <2>1. tree' = tree
    BY <1>5 DEF WorkerStep, TakeJob, SendChunk, Return, StopReading, Crash, HandBack
  <2> QED BY <2>1, TreeKept
<1>6. CASE UNCHANGED vars
  BY <1>6, TreeKept DEF vars
<1> QED BY <1>1, <1>2, <1>3, <1>4, <1>5, <1>6 DEF Next, SchedulerStep

\* No step writes a node of a frame that was handed out, nor writes or replaces
\* one of a settled directory.
THEOREM FramesStayFrozen == Spec => FramesFrozen
<1>1. IInv /\ [Next]_vars =>
        [/\ \A ref \in frozen : tree'.heap[ref[1]][ref[2]] = tree.heap[ref[1]][ref[2]]
         /\ \A d \in tree.settled : d \in tree'.settled /\ tree'.heap[d] = tree.heap[d]]_vars
  BY StepFreezes DEF Kept
<1> QED BY <1>1, ScanInvariant, PTL DEF Spec, FramesFrozen
-----------------------------------------------------------------------------
(* Which object a list holds, and which the table of changes.              *)

\* The lists of the current nodes hold the current nodes, but for those in S.
PlacesBut(t, S) ==
  \A p \in Dirs : \A i \in DOMAIN Kids(t, p) :
    Kids(t, p)[i][1] \in Dirs \ S => Kids(t, p)[i] = Ref(t, Kids(t, p)[i][1])

\* What was not handed out is still the placeholder.
RestNew(t) == \A d \in Dirs \ Out(Shape(t)) : Len(t.heap[d]) = 1

\* What was handed out is in the root.
Rooted(t) == \A d \in Out(Shape(t)) : Root \in Above[d]

\* A current node is in the table or in a frame, unless it is a placeholder.
NotedAt(t, f, d) ==
  /\ t.changed[d] \in {0, Len(t.heap[d])}
  /\ Len(t.heap[d]) = 1 \/ t.changed[d] = Len(t.heap[d]) \/ Ref(t, d) \in f
Noted(t, f) == \A d \in Dirs : NotedAt(t, f, d)

Booked(t, f) == PlacesBut(t, {}) /\ RestNew(t) /\ Rooted(t) /\ Noted(t, f)

BookInv == Booked(tree, frozen) /\ missed = {}

LEMMA WrittenLengthens ==
  ASSUME NEW t, Formed(t), NEW new, \A d \in Dirs : IsNode(new[d])
  PROVE  Lengthens(t, Written(t, new), {})
<1>1. Rewrites(t, Written(t, new), new)
  BY WrittenRewrites
<1>2. Written(t, new).changed = t.changed
  BY DEF Written, Formed, IsTree
<1> QED BY <1>1, <1>2 DEF Rewrites, Lengthens

LEMMA LengthensOn ==
  ASSUME NEW t, NEW u, NEW v, NEW N, Lengthens(t, u, N), Lengthens(u, v, {})
  PROVE  Lengthens(t, v, N)
BY DEF Lengthens

LEMMA LengthsHere ==
  ASSUME NEW t, Formed(t), NEW d \in Dirs
  PROVE  Len(t.heap[d]) \in Nat \ {0}
BY ChainParts DEF Formed

\* Writing without touching the lists of children.
LEMMA PlacesRewritten ==
  ASSUME NEW t, Formed(t), NEW u, NEW new, Rewrites(t, u, new), NEW R,
         \A d \in Dirs : new[d].kids = Kids(t, d), PlacesBut(t, R)
  PROVE  PlacesBut(u, R)
<1>1. \A d \in Dirs : Kids(u, d) = Kids(t, d) /\ Len(u.heap[d]) = Len(t.heap[d])
  BY DEF Rewrites, Kids
<1> QED BY <1>1 DEF PlacesBut, Ref

\* A directory in work stands where its index says, and nowhere else.
LEMMA PlaceIsIndex ==
  ASSUME NEW t, Formed(t), ShapeSound(Shape(t)), NEW p \in Dirs, NEW i \in DOMAIN Kids(t, p),
         Kids(t, p)[i][1] \in Active(t)
  PROVE  /\ Kids(t, p)[i][1] # Root /\ ParentOf(Kids(t, p)[i][1]) = p
         /\ t.at[Kids(t, p)[i][1]].index = i
<1> DEFINE e == Kids(t, p)[i][1]
           s == Names(t, p)
<1>1. e \in Dirs /\ i \in DOMAIN s /\ s[i] = e
  BY CurrentNode DEF Active, Out
<1>2. EntriesOf(p, s)
  BY ShapeOf DEF ShapeSound, NamesSound, NamesSoundAt
<1>3. e \in Range(Listing[p])
  BY <1>1, <1>2 DEF EntriesOf, Range
<1> HIDE DEF e, s
<1>4. e # Root /\ p = ParentOf(e)
  BY <1>1, <1>3, OneParent
<1>5. e \in Active(t) \ {Root}
  BY <1>4 DEF e
<1>6. t.at[e].index \in DOMAIN Kids(t, p) /\ Kids(t, p)[t.at[e].index][1] = e
  BY <1>4, <1>5, PlaceOf
<1>7. t.at[e].index \in DOMAIN s /\ s[t.at[e].index] = e
  BY <1>6, CurrentNode DEF s
<1>8. t.at[e].index = i
  BY <1>1, <1>2, <1>7 DEF EntriesOf
<1> QED BY <1>4, <1>8 DEF e

LEMMA PlacesLinked ==
  ASSUME NEW t, Formed(t), ShapeSound(Shape(t)), NEW S \in SUBSET Active(t),
         NEW R, PlacesBut(t, R \cup S)
  PROVE  PlacesBut(Linked(t, S), R) /\ Lengthens(t, Linked(t, S), {})
<1> DEFINE new == [d \in Dirs |-> [Current(t, d) EXCEPT !.kids = LinkedKids(t, S, d)]]
           u == Linked(t, S)
<1>1. u = Written(t, new)
  BY DEF Linked, LinkedKids, Kids
<1>2. ASSUME NEW d \in Dirs
      PROVE  IsNode(new[d]) /\ new[d].kids = LinkedKids(t, S, d)
  <2>1. IsNode(Current(t, d)) /\ LinkedKids(t, S, d) \in Seq(Entries \X Nat)
    BY CurrentNode, LinkedNames
  <2> DEFINE n == Current(t, d)
             l == LinkedKids(t, S, d)
  <2>2. new[d] = [n EXCEPT !.kids = l]
    OBVIOUS
  <2> HIDE DEF new, n, l
  <2>3. IsNode([n EXCEPT !.kids = l]) /\ [n EXCEPT !.kids = l].kids = l
    BY <2>1, KidsNode DEF n, l
  <2> QED BY <2>2, <2>3 DEF l
<1> HIDE DEF new
<1>3. Rewrites(t, u, new) /\ Lengthens(t, u, {})
  BY <1>1, <1>2, WrittenRewrites, WrittenLengthens
<1> HIDE DEF u
<1>4. \A d \in Dirs : Kids(u, d) = LinkedKids(t, S, d) /\ Len(u.heap[d]) = Len(t.heap[d])
  BY <1>2, <1>3 DEF Rewrites, Kids
<1>5. ASSUME NEW p \in Dirs, NEW i \in DOMAIN Kids(u, p), Kids(u, p)[i][1] \in Dirs \ R
      PROVE  Kids(u, p)[i] = Ref(u, Kids(u, p)[i][1])
  <2> DEFINE e == Kids(u, p)[i][1]
  <2>1. i \in DOMAIN Kids(t, p) /\ Kids(u, p)[i] = LinkedKids(t, S, p)[i]
    BY <1>4, <1>5 DEF LinkedKids
  <2>2. CASE \E b \in Below(p, S) : t.at[b].index = i
    <3> DEFINE c == CHOOSE b \in Below(p, S) : t.at[b].index = i
    <3>1. c \in Below(p, S)
      BY <2>2
    <3>2. Kids(u, p)[i] = Ref(t, c)
      BY <2>1, <2>2 DEF LinkedKids
    <3> HIDE DEF c
    <3>3. c \in Dirs
      BY <3>1 DEF Below, Active, Out
    <3>4. Kids(u, p)[i] = Ref(u, c)
      BY <1>4, <3>2, <3>3 DEF Ref
    <3>5. Kids(u, p)[i][1] = c
      BY <3>4 DEF Ref
    <3> QED BY <3>4, <3>5
  <2>3. CASE ~\E b \in Below(p, S) : t.at[b].index = i
    <3>1. Kids(u, p)[i] = Kids(t, p)[i]
      BY <2>1, <2>3 DEF LinkedKids
    <3>2. e \notin S
      <4> SUFFICES ASSUME e \in S PROVE FALSE
        OBVIOUS
      <4>1. e \in Active(t) /\ e = Kids(t, p)[i][1]
        BY <3>1
      <4>2. e # Root /\ ParentOf(e) = p /\ t.at[e].index = i
        BY <2>1, <4>1, PlaceIsIndex
      <4> QED BY <4>2, <2>3 DEF Below
    <3>3. Kids(t, p)[i] = Ref(t, e)
      BY <1>5, <2>1, <3>1, <3>2 DEF PlacesBut
    <3> QED BY <1>4, <1>5, <3>1, <3>3 DEF Ref
  <2> QED BY <2>2, <2>3
<1> QED BY <1>3, <1>5 DEF PlacesBut, u

LEMMA PlacesCopied ==
  ASSUME NEW t, Sound(t), NEW S \in SUBSET Active(t), NEW R, PlacesBut(t, R)
  PROVE  PlacesBut(Copied(t, S), R \cup S) /\ Lengthens(t, Copied(t, S), S)
<1> DEFINE u == Copied(t, S)
<1>1. /\ u.changed = t.changed
      /\ \A d \in Dirs : /\ Current(u, d) = Current(t, d)
                         /\ u.heap[d] = IF d \in S THEN Append(t.heap[d], Current(t, d))
                                        ELSE t.heap[d]
  BY Copying
<1> HIDE DEF u
<1>2. ASSUME NEW d \in Dirs
      PROVE  IF d \in S THEN Len(u.heap[d]) > Len(t.heap[d])
             ELSE Len(u.heap[d]) = Len(t.heap[d])
  <2>1. CASE d \notin S
    BY <1>1, <2>1
  <2>2. CASE d \in S
    <3>1. Chain(t.heap[d]) /\ IsNode(Current(t, d)) /\ Len(t.heap[d]) \in Nat
      BY CurrentNode, ChainParts DEF Sound, Formed
    <3>2. u.heap[d] = Append(t.heap[d], Current(t, d))
      BY <1>1, <2>2
    <3>3. Len(u.heap[d]) = Len(t.heap[d]) + 1
      BY <3>1, <3>2, ChainAppended
    <3> QED BY <2>2, <3>1, <3>3
  <2> QED BY <2>1, <2>2
<1>3. PlacesBut(u, R \cup S)
  <2>1. \A d \in Dirs : Kids(u, d) = Kids(t, d)
    BY <1>1 DEF Kids
  <2> QED BY <1>1, <2>1 DEF PlacesBut, Ref
<1> QED BY <1>1, <1>2, <1>3 DEF Lengthens, u

LEMMA PlacesCloned ==
  ASSUME NEW t, Sound(t), NEW S \in SUBSET Active(t), NEW R, PlacesBut(t, R)
  PROVE  PlacesBut(Cloned(t, S), R) /\ Lengthens(t, Cloned(t, S), S)
<1> DEFINE u == Copied(t, S)
<1>1. Quiet(t, u)
  BY Copying
<1>2. PlacesBut(u, R \cup S) /\ Lengthens(t, u, S)
  BY PlacesCopied
<1>3. Cloned(t, S) = Linked(u, S)
  BY DEF Cloned, Copied
<1> HIDE DEF u
<1>4. Formed(u) /\ ShapeSound(Shape(u)) /\ Active(u) = Active(t)
  BY <1>1, QuietActive DEF Quiet, Sound
<1>5. PlacesBut(Linked(u, S), R) /\ Lengthens(u, Linked(u, S), {})
  BY <1>2, <1>4, PlacesLinked
<1> QED BY <1>2, <1>3, <1>5, LengthensOn

\* What is above d and stale is copied, and nothing if nothing is.
LEMMA PlacesEnsured ==
  ASSUME NEW t, Sound(t), NEW d \in Active(t), NEW R, PlacesBut(t, R)
  PROVE  /\ PlacesBut(EnsureMutable(t, d), R)
         /\ Lengthens(t, EnsureMutable(t, d), AboveWhile(d, Stales(t)))
         /\ Writable(t, d) => Lengthens(t, EnsureMutable(t, d), {})
<1> DEFINE S == AboveWhile(d, Stales(t))
<1>1. S \subseteq Active(t)
  BY ActiveAbove, WhileSound
<1>2. Writable(t, d) => S = {}
  BY ActiveAbove, WhileSound DEF Writable
<1>3. EnsureMutable(t, d) = Cloned(t, S)
  BY DEF EnsureMutable
<1> HIDE DEF S
<1>4. PlacesBut(Cloned(t, S), R) /\ Lengthens(t, Cloned(t, S), S)
  BY <1>1, PlacesCloned
<1> QED BY <1>2, <1>3, <1>4 DEF S

LEMMA PlacesRaised ==
  ASSUME NEW t, Sound(t), NEW up \in Active(t), NEW parent, IsNode(parent),
         parent.kids = Kids(t, up), NEW above, NEW R, PlacesBut(t, R)
  PROVE  /\ PlacesBut(Raised(t, up, parent, above), R)
         /\ Lengthens(t, Raised(t, up, parent, above), {})
<1> DEFINE new == [a \in Dirs |-> IF a = up THEN parent
                     ELSE IF a \in Above[up] THEN Shifted(Current(t, a), above, 0)
                     ELSE Current(t, a)]
           u == Raised(t, up, parent, above)
<1>1. u = Written(t, new)
  BY DEF Raised
<1>2. ASSUME NEW d \in Dirs
      PROVE  IsNode(new[d]) /\ new[d].kids = Kids(t, d)
  <2>1. IsNode(Current(t, d))
    BY CurrentNode DEF Sound
  <2>2. /\ IsNode(Shifted(Current(t, d), above, 0))
        /\ Shifted(Current(t, d), above, 0).kids = Current(t, d).kids
    BY <2>1, ShiftedNode
  <2>3. new[d] = IF d = up THEN parent
                 ELSE IF d \in Above[up] THEN Shifted(Current(t, d), above, 0)
                 ELSE Current(t, d)
    OBVIOUS
  <2> HIDE DEF new
  <2> QED BY <2>1, <2>2, <2>3 DEF Kids
<1> HIDE DEF new, u
<1>3. Rewrites(t, u, new) /\ Lengthens(t, u, {})
  BY <1>1, <1>2, WrittenRewrites, WrittenLengthens DEF Sound
<1>4. PlacesBut(u, R)
  BY <1>2, <1>3, PlacesRewritten DEF Sound
<1> QED BY <1>3, <1>4 DEF u

\* The root is in no list.
LEMMA RootIsUnlisted ==
  ASSUME NEW t, Formed(t), ShapeSound(Shape(t)), PlacesBut(t, {Root})
  PROVE  PlacesBut(t, {})
<1> SUFFICES ASSUME NEW p \in Dirs, NEW i \in DOMAIN Kids(t, p), Kids(t, p)[i][1] = Root
             PROVE  FALSE
  BY DEF PlacesBut
<1>1. EntriesOf(p, Names(t, p)) /\ i \in DOMAIN Names(t, p) /\ Names(t, p)[i] = Root
  BY ShapeOf, CurrentNode DEF ShapeSound, NamesSound, NamesSoundAt
<1>2. Root \in Range(Listing[p])
  BY <1>1 DEF EntriesOf
<1> QED BY <1>2, TreeAssumption DEF TreeAssumption

LEMMA PlacesPropagated ==
  ASSUME NEW t, Sound(t), NEW d \in Active(t), Writable(t, d), NEW before, PlacesBut(t, {d})
  PROVE  /\ PlacesBut(Propagate(t, d, before), {})
         /\ Lengthens(t, Propagate(t, d, before), {})
<1>1. CASE d = Root
  <2>1. Propagate(t, d, before) = t
    BY <1>1 DEF Propagate
  <2>2. PlacesBut(t, {})
    BY <1>1, RootIsUnlisted DEF Sound
  <2> QED BY <2>1, <2>2 DEF Lengthens
<1>2. CASE d # Root
  <2> DEFINE after  == Contribution(Current(t, d))
             by     == [f \in DOMAIN after |-> after[f] - before[f]]
             up     == ParentOf(d)
             made   == EnsureMutable(t, up)
             linked == Linked(made, {d})
             parent == Shifted(Current(linked, up), by, by.failed)
             turn   == Flag(IsPartial(parent)) - Flag(IsPartial(Current(linked, up)))
             above  == [by EXCEPT !.partial = @ + turn]
  <2>1. up \in Active(t) /\ Writable(t, up)
    <3>1. up \in Active(t) /\ d \in Dirs
      BY <1>2, PlaceOf DEF Sound, Active, Out
    <3>2. Above[up] \subseteq Above[d]
      BY <1>2, <3>1, AboveItself, AboveStep, AboveThrough
    <3> QED BY <3>1, <3>2 DEF Writable
  <2>2. Quiet(t, made) /\ Sound(made) /\ Writable(made, up)
    <3> HIDE DEF up
    <3> QED BY <2>1, Ensuring
  <2>3. Propagate(t, d, before) = linked
        \/ Propagate(t, d, before) = Raised(linked, up, parent, above)
    BY <1>2 DEF Propagate
  <2>4. PlacesBut(made, {d}) /\ Lengthens(t, made, {})
    <3> HIDE DEF up
    <3> QED BY <2>1, PlacesEnsured
  <2> HIDE DEF made, above
  <2>5. Active(made) = Active(t)
    BY <2>2, QuietActive
  <2>6. Quiet(made, linked) /\ Stales(linked) = Stales(made)
    <3>1. up \in Above[up]
      BY <2>1, AboveItself DEF Active, Out
    <3>2. {d} \in SUBSET Active(made) /\ up \notin Stales(made)
      BY <2>2, <2>5, <3>1 DEF Writable
    <3>3. \A b \in {d} \ {Root} : ParentOf(b) \notin Stales(made)
      BY <3>2
    <3> QED BY <2>2, <3>2, <3>3, Linking
  <2>7. PlacesBut(linked, {}) /\ Lengthens(made, linked, {})
    <3>1. Formed(made) /\ ShapeSound(Shape(made)) /\ {d} \in SUBSET Active(made)
      BY <2>2, <2>5 DEF Sound
    <3>2. PlacesBut(made, {} \cup {d})
      BY <2>4
    <3> QED BY <3>1, <3>2, PlacesLinked
  <2> HIDE DEF linked, parent
  <2>8. Sound(linked) /\ Active(linked) = Active(t)
    BY <2>2, <2>5, <2>6, QuietSound, QuietActive
  <2>9. IsNode(parent) /\ parent.kids = Kids(linked, up)
    <3>1. IsNode(Current(linked, up))
      BY <2>1, <2>8, CurrentNode DEF Sound, Active, Out
    <3> QED BY <3>1, ShiftedNode DEF parent, Kids
  <2> HIDE DEF up
  <2>10. /\ PlacesBut(Raised(linked, up, parent, above), {})
         /\ Lengthens(linked, Raised(linked, up, parent, above), {})
    BY <2>1, <2>7, <2>8, <2>9, PlacesRaised
  <2>11. Lengthens(t, linked, {})
    BY <2>4, <2>7, LengthensOn
  <2>12. Lengthens(t, Raised(linked, up, parent, above), {})
    BY <2>10, <2>11, LengthensOn
  <2> QED BY <2>3, <2>7, <2>10, <2>11, <2>12
<1> QED BY <1>1, <1>2
-----------------------------------------------------------------------------
(* What is new comes into the table.                                       *)

\* A directory that is in the root is not in one that is in it.
LEMMA NoLoop ==
  ASSUME NEW d \in Dirs, Root \in Above[d], NEW b \in Above[d], d \in Above[b]
  PROVE  b = d
<1> DEFINE C == {x \in Above[d] : d \in Above[x]}
<1>1. Above[d] \subseteq Dirs /\ d \in Above[d]
  BY AboveItself
<1>2. Root \in Dirs
  BY TreeAssumption DEF TreeAssumption
<1>3. Above[Root] = {Root}
  <2>1. Above[Root] \subseteq {Root}
    BY <1>2, AboveLeast
  <2> QED BY <2>1, <1>2, AboveItself
<1>4. SUFFICES ASSUME b # d PROVE FALSE
  OBVIOUS
<1>5. ASSUME NEW x \in C \ {Root}, x # d
      PROVE  ParentOf(x) \in C
  <2>1. x \in Dirs /\ ParentOf(x) \in Above[d] /\ ParentOf(x) \in Dirs
    BY <1>1, AboveStep
  <2> DEFINE S == {x} \cup Above[ParentOf(x)]
  <2>2. S \in SUBSET Dirs /\ x \in S
    BY <2>1, AboveItself
  <2>3. ASSUME NEW y \in S \ {Root} PROVE ParentOf(y) \in S
    <3>1. CASE y = x
      BY <3>1, <2>1, AboveItself
    <3>2. CASE y # x
      BY <3>2, <2>1, AboveStep
    <3> QED BY <3>1, <3>2
  <2>4. Above[x] \subseteq S
    <3> HIDE DEF S
    <3> QED BY <2>1, <2>2, <2>3, AboveLeast
  <2>5. d \in Above[ParentOf(x)]
    BY <2>4, <1>5
  <2> QED BY <2>1, <2>5
<1>6. d # Root
  <2>1. CASE d = Root
    BY <2>1, <1>3, <1>4
  <2> QED BY <2>1
<1>7. ParentOf(d) \in C
  <2>1. ParentOf(d) \in Dirs /\ ParentOf(d) \in Above[d]
    BY <1>1, <1>6, AboveStep
  <2> DEFINE S == {d} \cup Above[ParentOf(d)]
  \* b is reached from d through its parent, and from b one comes back to d
  <2>2. S \in SUBSET Dirs /\ d \in S
    BY <2>1, AboveItself
  <2>3. ASSUME NEW y \in S \ {Root} PROVE ParentOf(y) \in S
    <3>1. CASE y = d
      BY <3>1, <2>1, AboveItself
    <3>2. CASE y # d
      BY <3>2, <2>1, AboveStep
    <3> QED BY <3>1, <3>2
  <2>4. Above[d] \subseteq S
    <3> HIDE DEF S
    <3> QED BY <2>1, <2>2, <2>3, AboveLeast
  <2>5. b \in Above[ParentOf(d)]
    BY <2>4, <1>4
  <2>6. Above[b] \subseteq Above[ParentOf(d)]
    BY <2>1, <2>5, AboveThrough
  <2> QED BY <2>1, <2>6
<1>8. Above[d] \subseteq C
  <2>1. C \in SUBSET Dirs /\ d \in C
    BY <1>1
  <2>2. \A x \in C \ {Root} : ParentOf(x) \in C
    BY <1>5, <1>7
  <2> HIDE DEF C
  <2> QED BY <2>1, <2>2, AboveLeast
<1>9. d \in Above[Root]
  BY <1>8
<1> QED BY <1>3, <1>6, <1>9

\* What is copied on the way to d's table entry, and d itself.
CopiesFor(t, d, N) == N \in {AboveWhile(d, Stales(t)), AboveWhile(d, Stales(t)) \cup {d}}

LEMMA CopiesRecorded ==
  ASSUME NEW t, NEW d \in Dirs, Root \in Above[d], NEW N, CopiesFor(t, d, N),
         NEW R, N \subseteq R
  PROVE  N \subseteq AboveWhile(d, R)
<1> DEFINE W == AboveWhile(d, Stales(t))
<1>1. N \subseteq W \cup {d}
  BY DEF CopiesFor
<1>2. SUFFICES ASSUME NEW a \in N, NEW b \in Above[d], a \in Above[b]
               PROVE  a \in Above[d] /\ b \in R
  <2>1. ASSUME NEW a \in N PROVE a \in Above[d]
    <3>1. CASE a \in W
      BY <3>1, WhileSound
    <3>2. CASE a = d
      BY <3>2, AboveItself
    <3> QED BY <3>1, <3>2, <1>1
  <2> QED BY <2>1, <1>2 DEF AboveWhile
<1>3. CASE a \in W
  <2>1. a \in Above[d] /\ b \in W
    BY <1>2, <1>3, WhileSound
  <2>2. b \in N
    BY <2>1 DEF CopiesFor
  <2> QED BY <2>1, <2>2
<1>4. CASE a = d
  <2>1. b = d
    BY <1>2, <1>4, NoLoop
  <2> QED BY <2>1, <1>2, <1>4, AboveItself
<1> QED BY <1>1, <1>2, <1>3, <1>4

\* What is new on the way to d is noted with it.
LEMMA RecordingNotes ==
  ASSUME NEW t, Formed(t), NEW f, Noted(t, f), NEW d \in Dirs, Root \in Above[d],
         NEW N, CopiesFor(t, d, N), NEW v, Formed(v), Lengthens(t, v, N)
  PROVE  Noted(RecordChanged(v, d), f)
<1> DEFINE R == {a \in Dirs : v.changed[a] # Len(v.heap[a])}
           W == AboveWhile(d, R)
           u == RecordChanged(v, d)
<1>1. u.heap = v.heap /\ \A a \in Dirs : u.changed[a] = IF a \in W THEN Len(v.heap[a]) ELSE v.changed[a]
  BY DEF RecordChanged, Recorded, Formed, IsTree
<1>2. N \subseteq Dirs
  <2>1. AboveWhile(d, Stales(t)) \subseteq Dirs
    BY WhileSound
  <2> QED BY <2>1 DEF CopiesFor
<1>3. N \subseteq R
  <2>1. ASSUME NEW a \in N PROVE v.changed[a] # Len(v.heap[a])
    <3>1. Len(t.heap[a]) \in Nat \ {0} /\ Len(v.heap[a]) \in Nat \ {0}
      BY <1>2, LengthsHere
    <3>2. Len(v.heap[a]) > Len(t.heap[a]) /\ v.changed[a] = t.changed[a]
      BY <1>2 DEF Lengthens
    <3>3. t.changed[a] \in {0, Len(t.heap[a])}
      BY <1>2 DEF Noted, NotedAt
    <3> QED BY <3>1, <3>2, <3>3
  <2> QED BY <2>1, <1>2
<1> HIDE DEF R
<1>4. N \subseteq W
  BY <1>3, CopiesRecorded
<1> HIDE DEF W, u
<1>5. ASSUME NEW a \in Dirs PROVE NotedAt(u, f, a)
  <2>1. CASE a \in W
    BY <2>1, <1>1 DEF NotedAt
  <2>2. CASE a \notin W
    <3>1. u.changed[a] = t.changed[a] /\ Len(u.heap[a]) = Len(t.heap[a])
      BY <2>2, <1>1, <1>4 DEF Lengthens
    <3>2. NotedAt(t, f, a)
      BY DEF Noted
    <3> QED BY <3>1, <3>2 DEF NotedAt, Ref
  <2> QED BY <2>1, <2>2
<1> QED BY <1>5 DEF Noted, u

\* Sorting brings nothing that was not there.
LEMMA ByPathTakes ==
  ASSUME NEW kids \in Seq(Entries \X Nat), NEW i \in DOMAIN ByPath(kids),
         \A j, k \in DOMAIN kids : kids[j][1] = kids[k][1] => j = k
  PROVE  ByPath(kids)[i] \in Range(kids)
<1> DEFINE P == {kids[j][1] : j \in DOMAIN kids}
           s == InOrder(P)
<1>1. P \in SUBSET Nat /\ IsFiniteSet(P)
  <2>1. IsFiniteSet(DOMAIN kids)
    <3>1. DOMAIN kids = 1..Len(kids) /\ Len(kids) \in Nat
      OBVIOUS
    <3> QED BY <3>1, FS_Interval
  <2>2. IsFiniteSet(P)
    <3> DEFINE n == [j \in DOMAIN kids |-> kids[j][1]]
    <3>1. IsFiniteSet(DOMAIN n) /\ \A j, k \in DOMAIN n : n[j] = n[k] => j = k
      BY <2>1
    <3> HIDE DEF n
    <3>2. IsFiniteSet({n[j] : j \in DOMAIN n})
      BY <3>1, OncePlaces
    <3>3. P = {n[j] : j \in DOMAIN n}
      BY DEF n
    <3> QED BY <3>2, <3>3
  <2>3. \A j \in DOMAIN kids : kids[j][1] \in Nat
    BY TreeAssumption DEF TreeAssumption, Entries
  <2> QED BY <2>2, <2>3
<1> HIDE DEF P
<1>2. DOMAIN s = 1..Cardinality(P) /\ Range(s) = P
  BY <1>1, InOrderSound
<1>3. ByPath(kids) = [j \in DOMAIN s |-> CHOOSE k \in Range(kids) : k[1] = s[j]]
  BY DEF ByPath, P
<1>4. i \in DOMAIN s /\ s[i] \in P
  BY <1>2, <1>3 DEF Range
<1>5. \E k \in Range(kids) : k[1] = s[i]
  BY <1>4 DEF P, Range
<1> QED BY <1>3, <1>4, <1>5

LEMMA RecordingBooks ==
  ASSUME NEW t, Sound(t), NEW f, Booked(t, f), NEW d \in Active(t),
         NEW N, CopiesFor(t, d, N), NEW v, Sound(v), Lengthens(t, v, N), PlacesBut(v, {}),
         Out(Shape(v)) = Out(Shape(t))
  PROVE  Booked(RecordChanged(v, d), f)
<1> DEFINE u == RecordChanged(v, d)
<1>1. d \in Out(Shape(t)) /\ d \in Dirs /\ Root \in Above[d]
  BY DEF Active, Out, Booked, Rooted
<1>2. u.heap = v.heap
  BY DEF RecordChanged, Recorded, Sound, Formed, IsTree
<1>3. Calm(v, u)
  BY Recording
<1>4. Noted(u, f)
  BY <1>1, RecordingNotes DEF Booked, Sound
<1> HIDE DEF u
<1>5. Out(Shape(u)) = Out(Shape(t))
  BY <1>3, CalmShape DEF Sound
<1>6. N \subseteq Out(Shape(t))
  <2>1. AboveWhile(d, Stales(t)) \subseteq Above[d]
    BY <1>1, WhileSound
  <2>2. Above[d] \subseteq Out(Shape(t))
    BY ActiveAbove DEF Active
  <2> QED BY <2>1, <2>2, <1>1 DEF CopiesFor
<1>7. RestNew(u)
  <2>1. \A e \in Dirs \ Out(Shape(u)) : Len(u.heap[e]) = Len(t.heap[e])
    BY <1>2, <1>5, <1>6 DEF Lengthens
  <2> QED BY <2>1, <1>5 DEF RestNew, Booked
<1>8. Rooted(u)
  BY <1>5 DEF Rooted, Booked
<1>9. PlacesBut(u, {})
  BY <1>2 DEF PlacesBut, Kids, Current, Ref
<1> QED BY <1>4, <1>7, <1>8, <1>9 DEF Booked, u

LEMMA PlacesAltered ==
  ASSUME NEW t, Sound(t), RestNew(t), PlacesBut(t, {}), NEW d \in Active(t),
         NEW u, Alters(t, u, d),
         \A i \in DOMAIN Kids(u, d) :
           Kids(u, d)[i] \in Range(Kids(t, d)) \/ NewRef(t, Kids(u, d)[i])
  PROVE  PlacesBut(u, {d})
<1>1. d \in Dirs /\ d \in Out(Shape(t))
  BY DEF Active, Out
<1>2. \A e \in Dirs \ {d} : Ref(u, e) = Ref(t, e) /\ Kids(u, e) = Kids(t, e)
  BY DEF Alters, Ref, Kids, Current
<1>3. SUFFICES ASSUME NEW p \in Dirs, NEW i \in DOMAIN Kids(u, p), Kids(u, p)[i][1] \in Dirs \ {d}
               PROVE  Kids(u, p)[i] = Ref(t, Kids(u, p)[i][1])
  BY <1>2 DEF PlacesBut
<1> DEFINE e == Kids(u, p)[i]
<1>4. ASSUME e \in Range(Kids(t, p)) PROVE e = Ref(t, e[1])
  <2>1. PICK j \in DOMAIN Kids(t, p) : Kids(t, p)[j] = e
    BY <1>4 DEF Range
  <2> QED BY <2>1, <1>3 DEF PlacesBut
<1>5. ASSUME NewRef(t, e) PROVE e = Ref(t, e[1])
  BY <1>3, <1>5 DEF NewRef, RestNew, Ref
<1>6. CASE p = d
  BY <1>4, <1>5, <1>6
<1>7. CASE p # d
  <2>1. e \in Range(Kids(t, p))
    BY <1>2, <1>7 DEF Range
  <2> QED BY <2>1, <1>4
<1> QED BY <1>6, <1>7

\* What settles is noted too.
LEMMA SettlingBooks ==
  ASSUME NEW t, Sound(t), NEW f, Booked(t, f), NEW S \in SUBSET Dirs,
         Out(Shape(Settle(t, S))) = Out(Shape(t))
  PROVE  Booked(Settle(t, S), f)
<1> DEFINE u == Settle(t, S)
           new == [d \in Dirs |-> LET n == Current(t, d) IN
                    IF d \in S THEN [n EXCEPT !.kids = ByPath(@)] ELSE n]
           sorted == Written(t, new)
<1>1. \A d \in Dirs : IsNode(new[d])
  <2>1. ASSUME NEW d \in Dirs PROVE IsNode(new[d])
    <3>1. IsNode(Current(t, d)) /\ IsNode([Current(t, d) EXCEPT !.kids = ByPath(@)])
      BY CurrentNode, SortedNode DEF Sound
    <3>2. new[d] = IF d \in S THEN [Current(t, d) EXCEPT !.kids = ByPath(@)] ELSE Current(t, d)
      OBVIOUS
    <3> HIDE DEF new
    <3> QED BY <3>1, <3>2
  <2> QED BY <2>1
<1>2. Rewrites(t, sorted, new)
  <2> HIDE DEF new
  <2> QED BY <1>1, WrittenRewrites DEF Sound
<1>3. /\ u.heap = sorted.heap
      /\ u.changed = [d \in Dirs |-> IF d \in S THEN Len(t.heap[d]) ELSE t.changed[d]]
  <2>1. IsTree(sorted)
    BY <1>2 DEF Rewrites
  <2> QED BY <2>1 DEF Settle, Settled, IsTree
<1>4. Retires(t, u, S)
  BY SettleRetires
<1> HIDE DEF new, sorted, u
<1>5. \A d \in Dirs : Len(u.heap[d]) = Len(t.heap[d]) /\ Ref(u, d) = Ref(t, d)
  BY <1>2, <1>3 DEF Rewrites, Ref
<1>6. Noted(u, f)
  BY <1>3, <1>5 DEF Noted, NotedAt, Booked
<1>7. RestNew(u) /\ Rooted(u)
  BY <1>5 DEF RestNew, Rooted, Booked, u
<1>8. ASSUME NEW p \in Dirs, NEW i \in DOMAIN Kids(u, p), Kids(u, p)[i][1] \in Dirs
      PROVE  Kids(u, p)[i] = Ref(u, Kids(u, p)[i][1])
  <2>1. Kids(u, p)[i] \in Range(Kids(t, p))
    <3>1. CASE p \in S
      <4>1. Kids(u, p) = ByPath(Kids(t, p))
        BY <3>1, <1>4 DEF Retires
      <4>2. Kids(t, p) \in Seq(Entries \X Nat)
        BY CurrentNode DEF Sound
      <4>3. \A j, k \in DOMAIN Kids(t, p) : Kids(t, p)[j][1] = Kids(t, p)[k][1] => j = k
        <5>1. EntriesOf(p, Names(t, p))
          BY ShapeOf DEF Sound, ShapeSound, NamesSound, NamesSoundAt
        <5> QED BY <5>1 DEF EntriesOf, Names, NamesOf
      <4> QED BY <4>1, <4>2, <4>3, ByPathTakes, <1>8
    <3>2. CASE p \notin S
      <4>1. Kids(u, p) = Kids(t, p)
        BY <3>2, <1>4 DEF Retires, Kids, Current
      <4> QED BY <4>1, <1>8 DEF Range
    <3> QED BY <3>1, <3>2
  <2>2. PICK j \in DOMAIN Kids(t, p) : Kids(t, p)[j] = Kids(u, p)[i]
    BY <2>1 DEF Range
  <2>3. Kids(t, p)[j] = Ref(t, Kids(t, p)[j][1])
    BY <2>2, <1>8 DEF Booked, PlacesBut
  <2> QED BY <2>2, <2>3, <1>5, <1>8
<1> QED BY <1>6, <1>7, <1>8 DEF Booked, PlacesBut, u

LEMMA LengthensBoth ==
  ASSUME NEW t, Formed(t), NEW u, Formed(u), NEW v, Formed(v), NEW N, NEW M,
         Lengthens(t, u, N), Lengthens(u, v, M)
  PROVE  Lengthens(t, v, N \cup M)
<1> SUFFICES ASSUME NEW d \in Dirs
             PROVE  IF d \in N \cup M THEN Len(v.heap[d]) > Len(t.heap[d])
                    ELSE Len(v.heap[d]) = Len(t.heap[d])
  BY DEF Lengthens
<1>1. Len(t.heap[d]) \in Nat /\ Len(u.heap[d]) \in Nat /\ Len(v.heap[d]) \in Nat
  BY LengthsHere
<1>2. /\ IF d \in N THEN Len(u.heap[d]) > Len(t.heap[d]) ELSE Len(u.heap[d]) = Len(t.heap[d])
      /\ IF d \in M THEN Len(v.heap[d]) > Len(u.heap[d]) ELSE Len(v.heap[d]) = Len(u.heap[d])
  BY DEF Lengthens
<1> QED BY <1>1, <1>2

\* A new node of d, told upwards and noted, leaves the books as they should be.
LEMMA RemakingBooks ==
  ASSUME NEW t, Sound(t), NEW f, Booked(t, f), NEW d \in Active(t), NEW t2,
         Remade(EnsureMutable(t, d), t2, d), NEW M \in {{}, {d}},
         Lengthens(EnsureMutable(t, d), t2, M), NEW before,
         \A i \in DOMAIN Kids(t2, d) :
           \/ Kids(t2, d)[i] \in Range(Kids(EnsureMutable(t, d), d))
           \/ NewRef(EnsureMutable(t, d), Kids(t2, d)[i])
  PROVE  Booked(RecordChanged(Propagate(t2, d, before), d), f)
<1> DEFINE t1 == EnsureMutable(t, d)
           t3 == Propagate(t2, d, before)
           W  == AboveWhile(d, Stales(t))
<1>1. Calm(t, t1) /\ Writable(t1, d)
  BY EnsuringCalm
<1>2. PlacesBut(t1, {}) /\ Lengthens(t, t1, W)
  BY PlacesEnsured DEF Booked
<1>3. W \subseteq Active(t) /\ W \subseteq Dirs
  BY ActiveAbove, WhileSound
<1> HIDE DEF t1
<1>4. Sound(t1) /\ Shape(t1) = Shape(t) /\ Active(t1) = Active(t)
  BY <1>1, CalmShape DEF Sound
<1>5. RestNew(t1)
  <2>1. \A e \in Dirs \ Out(Shape(t1)) : Len(t1.heap[e]) = Len(t.heap[e])
    BY <1>2, <1>3, <1>4 DEF Lengthens, Active
  <2> QED BY <2>1, <1>4 DEF RestNew, Booked
<1>6. /\ Alters(t1, t2, d) /\ Sound(t2) /\ d \in Active(t2) /\ Writable(t2, d)
      /\ Out(Shape(t2)) = Out(Shape(t))
  BY <1>4 DEF Remade, t1
<1>7. PlacesBut(t2, {d})
  BY <1>2, <1>4, <1>5, <1>6, PlacesAltered DEF t1
<1>8. PlacesBut(t3, {}) /\ Lengthens(t2, t3, {})
  BY <1>6, <1>7, PlacesPropagated
<1>9. Calm(t2, t3)
  BY <1>6, Propagating
<1> HIDE DEF t3, W
<1>10. Sound(t3) /\ Out(Shape(t3)) = Out(Shape(t))
  BY <1>6, <1>9, CalmShape DEF Sound
<1>11. Lengthens(t, t3, W \cup M)
  <2>1. Formed(t) /\ Formed(t1) /\ Formed(t2)
    BY <1>4, <1>6 DEF Sound
  <2>2. Lengthens(t, t2, W \cup M)
    BY <2>1, <1>2, LengthensBoth DEF t1
  <2> QED BY <2>2, <1>8, LengthensOn
<1>12. CopiesFor(t, d, W \cup M)
  <2>1. W \cup M = W \/ W \cup M = W \cup {d}
    OBVIOUS
  <2> QED BY <2>1 DEF CopiesFor, W
<1> QED BY <1>8, <1>10, <1>11, <1>12, RecordingBooks DEF t3

LEMMA ChunkBooks ==
  ASSUME NEW t, Sound(t), NEW f, Booked(t, f), NEW c, c.path \in Active(t),
         c.path \notin Shape(t).scanned, EntriesOf(c.path, c.entries),
         Range(c.entries) \cap Range(Names(t, c.path)) = {}
  PROVE  Booked(ApplyChunk(t, c), f)
<1> DEFINE d  == c.path
           r  == Refs(c.entries)
           t1 == EnsureMutable(t, d)
           t2 == ChunkPlaced(t1, c)
<1>1. ApplyChunk(t, c) = RecordChanged(Propagate(t2, d, Contribution(Current(t1, d))), d)
  BY DEF ApplyChunk, ChunkPlaced, Grown, Told
<1>2. Calm(t, t1) /\ Writable(t1, d)
  BY EnsuringCalm
<1> HIDE DEF t1
<1>3. /\ Sound(t1) /\ Shape(t1) = Shape(t) /\ Active(t1) = Active(t)
      /\ \A e \in Dirs : Names(t1, e) = Names(t, e)
  BY <1>2, CalmShape DEF Sound
<1>4. d \in Dirs /\ d \in Active(t1) /\ d \notin Shape(t1).scanned
  BY <1>3 DEF Active, Out
<1>5. Range(c.entries) \cap Range(Names(t1, d)) = {}
  BY <1>3, <1>4
<1>6. Remade(t1, t2, d) /\ Lengthens(t1, t2, {}) /\ Kids(t2, d) = Kids(t1, d) \o r
  BY <1>2, <1>3, <1>4, <1>5, PlacingChunk
<1> HIDE DEF t2
<1>7. \A i \in DOMAIN Kids(t2, d) :
        Kids(t2, d)[i] \in Range(Kids(t1, d)) \/ NewRef(t1, Kids(t2, d)[i])
  <2>1. Kids(t1, d) \in Seq(Entries \X Nat) /\ r \in Seq(Entries \X Nat)
    BY <1>3, <1>4, CurrentNode, FoundInOrder DEF Sound
  <2>2. \A i \in DOMAIN r : NewRef(t1, r[i])
    BY <1>3, <1>4, <1>5, NewRefs
  <2> DEFINE k == Kids(t1, d)
  <2> HIDE DEF k, r
  <2>3. ASSUME NEW i \in DOMAIN (k \o r)
        PROVE  (k \o r)[i] \in Range(k) \/ \E j \in DOMAIN r : (k \o r)[i] = r[j]
    <3>1. CASE i <= Len(k)
      <4>1. i \in DOMAIN k /\ (k \o r)[i] = k[i]
        BY <3>1, <2>1, <2>3 DEF k
      <4> QED BY <4>1 DEF Range
    <3>2. CASE ~(i <= Len(k))
      <4>1. i - Len(k) \in DOMAIN r /\ (k \o r)[i] = r[i - Len(k)]
        BY <3>2, <2>1, <2>3 DEF k
      <4> QED BY <4>1
    <3> QED BY <3>1, <3>2
  <2> QED BY <2>2, <2>3, <1>6 DEF k
<1> QED BY <1>1, <1>6, <1>7, RemakingBooks DEF t1

LEMMA MarkingBooks ==
  ASSUME NEW t, Sound(t), NEW f, Booked(t, f), NEW d \in Active(t), Writable(t, d)
  PROVE  Booked(MarkSettled(t, d), f)
<1> DEFINE S == AboveWhile(d,
                  {a \in Dirs : /\ t.at[a].scanned /\ ~t.at[a].settled
                                /\ t.at[a].remaining = IF a = d THEN 0 ELSE 1})
<1>1. MarkSettled(t, d) = Settle(t, S)
  BY DEF MarkSettled
<1>2. S \in SUBSET Dirs
  BY ActiveAbove, WhileSound
<1>3. Out(Shape(MarkSettled(t, d))) = Out(Shape(t))
  BY Marking DEF Finished
<1> HIDE DEF S
<1> QED BY <1>1, <1>2, <1>3, SettlingBooks

LEMMA ResultBooks ==
  ASSUME NEW t, Sound(t), NEW f, Booked(t, f), NEW r, Awaits(t, r)
  PROVE  Booked(ApplyResult(t, r), f)
<1> DEFINE d  == r.path
           t1 == EnsureMutable(t, d)
<1>1. PICK v, n, before, l :
        /\ Installable(t1, d, v, n, l) /\ ApplyResult(t, r) = Install(v, d, n, before)
        /\ \A i \in DOMAIN n.kids : n.kids[i] \in Range(Kids(t1, d)) \/ NewRef(t1, n.kids[i])
  BY ResultInstalls DEF Installs
<1> DEFINE s    == ScannedState(v, d)
           done == InState(v, d, s)
           more == Max({0, done.outstanding - 1})
           put  == Put(v, d, n, s, more)
           t3   == Propagate(put, d, before)
           told == RecordChanged(t3, d)
<1>2. Install(v, d, n, before) = IF told.at[d].remaining = 0 THEN MarkSettled(told, d) ELSE told
  BY DEF Install, Put, ScannedState
<1> HIDE DEF more
<1>3. HasResult(t1, put, d, n)
  <2>1. /\ Sound(t1) /\ d \in Active(t1) /\ Writable(t1, d) /\ d \notin Shape(t1).scanned
        /\ Primes(t1, v, d) /\ IsNode(n) /\ EntriesOf(d, l)
        /\ Range(l) \cap Range(Names(t1, d)) = {} /\ NamesOf(n.kids) = Names(t1, d) \o l
        /\ v.at[d].remaining = t1.at[d].remaining + Cardinality(Range(l) \cap Dirs)
    BY <1>1 DEF Installable
  <2>2. HasResult(t1, Put(v, d, n, ScannedState(v, d), more), d, n)
    BY ONLY <2>1, PlacingResult
  <2> QED BY <2>2
<1> HIDE DEF put
<1>4. Remade(t1, put, d) /\ Lengthens(t1, put, {d}) /\ Kids(put, d) = n.kids
  BY <1>3 DEF HasResult
<1>5. d \in Active(t)
  BY DEF Awaits
<1>6. Booked(told, f)
  BY <1>1, <1>4, <1>5, RemakingBooks
<1>7. Sound(told) /\ d \in Active(told) /\ Writable(told, d)
  <2>1. Sound(put) /\ d \in Active(put) /\ Writable(put, d)
    BY <1>1, <1>4 DEF Remade, Installable
  <2>2. Calm(put, t3)
    BY <2>1, Propagating
  <2>3. Sound(t3)
    BY <2>2 DEF Calm
  <2> HIDE DEF t3
  <2>4. Calm(t3, told)
    BY <2>3, Recording
  <2> HIDE DEF told
  <2>5. Calm(put, told)
    BY <2>1, <2>2, <2>4, CalmOn
  <2> QED BY <2>1, <2>5, CalmShape, CalmWritable DEF Sound
<1> HIDE DEF told
<1>8. CASE told.at[d].remaining = 0
  BY <1>1, <1>2, <1>6, <1>7, <1>8, MarkingBooks
<1>9. CASE told.at[d].remaining # 0
  BY <1>1, <1>2, <1>6, <1>9
<1> QED BY <1>8, <1>9
-----------------------------------------------------------------------------
(* What a frame shows is the current tree.                                 *)

\* What descending from the root finds in d's place, the rest being g.
ShownAt(t, g, d) ==
  IF d = Root THEN Len(t.heap[d])
  ELSE LET up   == g[ParentOf(d)]
           here == IF up = 0 THEN {}
                   ELSE {k \in Range(t.heap[ParentOf(d)][up].kids) : k[1] = d}
       IN IF here = {} THEN 0 ELSE (CHOOSE k \in here : TRUE)[2]

IsSeen(t, g) == g = [d \in Dirs |-> ShownAt(t, g, d)]

LEMMA SeenChosen ==
  ASSUME NEW t
  PROVE  Seen(t) = CHOOSE g : IsSeen(t, g)
BY DEF Seen, IsSeen, ShownAt

\* Under a parent that is seen as it is a directory is seen as it is listed.
LEMMA ShownListed ==
  ASSUME NEW t, Sound(t), PlacesBut(t, {}), NEW g, NEW d \in Dirs \ {Root},
         g[ParentOf(d)] = Len(t.heap[ParentOf(d)])
  PROVE  ShownAt(t, g, d) = IF d \in Range(Names(t, ParentOf(d))) THEN Len(t.heap[d]) ELSE 0
<1> DEFINE p == ParentOf(d)
           here == {k \in Range(Kids(t, p)) : k[1] = d}
<1>1. p \in Dirs /\ d \in Dirs
  BY ParentSound
<1>2. Len(t.heap[p]) # 0
  BY <1>1, LengthsHere DEF Sound
<1>3. ShownAt(t, g, d) = IF here = {} THEN 0 ELSE (CHOOSE k \in here : TRUE)[2]
  BY <1>2 DEF ShownAt, Kids, Current
<1>4. DOMAIN Names(t, p) = DOMAIN Kids(t, p)
      /\ \A i \in DOMAIN Kids(t, p) : Names(t, p)[i] = Kids(t, p)[i][1]
  BY <1>1, CurrentNode DEF Sound
<1> HIDE DEF p
<1>5. CASE d \in Range(Names(t, p))
  <2>1. here # {}
    BY <1>4, <1>5 DEF Range
  <2>2. \A k \in here : k = Ref(t, d)
    BY <1>1 DEF Range, PlacesBut
  <2>3. (CHOOSE k \in here : TRUE) \in here
    BY <2>1
  <2>4. (CHOOSE k \in here : TRUE) = Ref(t, d)
    BY <2>2, <2>3
  <2>5. Ref(t, d)[2] = Len(t.heap[d])
    BY DEF Ref
  <2> QED BY <2>1, <2>4, <2>5, <1>3, <1>5 DEF p
<1>6. CASE d \notin Range(Names(t, p))
  <2>1. here = {}
    BY <1>4, <1>6 DEF Range
  <2> QED BY <2>1, <1>3, <1>6 DEF p
<1> QED BY <1>5, <1>6 DEF p

\* There is such a function: what was handed out is seen as it is, what is only
\* listed as the placeholder.
LEMMA SeenIsThere ==
  ASSUME NEW t, Sound(t), PlacesBut(t, {}), RestNew(t)
  PROVE  IsSeen(t, Seen(t))
<1> DEFINE O == Out(Shape(t))
           Under(d) == ParentOf(d) \in O /\ d \in Range(Names(t, ParentOf(d)))
           g == [d \in Dirs |-> IF d \in O THEN Len(t.heap[d]) ELSE IF Under(d) THEN 1 ELSE 0]
<1>1. Root \in O
  BY TreeAssumption DEF TreeAssumption, Out
<1>2. ASSUME NEW d \in Dirs PROVE g[d] = ShownAt(t, g, d)
  <2>1. CASE d = Root
    BY <2>1, <1>1 DEF ShownAt
  <2>2. CASE d # Root /\ ParentOf(d) \in O
    <3>1. ParentOf(d) \in Dirs
      BY <2>2, ParentSound
    <3>2. g[ParentOf(d)] = Len(t.heap[ParentOf(d)])
      BY <2>2, <3>1
    <3>3. d \in O => d \in Range(Names(t, ParentOf(d)))
      BY <2>2, <3>1, OutListed, ShapeOf DEF Sound, ShapeSound
    <3>4. d \notin O => Len(t.heap[d]) = 1
      BY DEF RestNew
    <3>5. g[d] = IF d \in Range(Names(t, ParentOf(d))) THEN Len(t.heap[d]) ELSE 0
      <4> HIDE DEF O
      <4> QED BY <2>2, <3>3, <3>4
    <3> HIDE DEF g, O
    <3> QED BY <2>2, <3>2, <3>5, ShownListed
  <2>3. CASE d # Root /\ ParentOf(d) \notin O
    <3>1. ParentOf(d) \in Dirs
      BY <2>3, ParentSound
    <3>2. d \notin O
      BY <2>3, OutParents DEF Sound, ShapeSound
    <3>3. g[d] = 0
      <4> HIDE DEF O
      <4> QED BY <2>3, <3>2
    <3>4. Len(t.heap[ParentOf(d)]) = 1 /\ Names(t, ParentOf(d)) = <<>>
      BY <2>3, <3>1, ShapeOf DEF RestNew, Sound, ShapeSound, RestUntouched
    <3>5. g[ParentOf(d)] \in {0, 1}
      <4> HIDE DEF O
      <4> QED BY <2>3, <3>1
    <3> HIDE DEF g, O
    <3>6. CASE g[ParentOf(d)] = 0
      BY <2>3, <3>3, <3>6 DEF ShownAt
    <3>7. CASE g[ParentOf(d)] = 1
      <4>1. d \notin Range(Names(t, ParentOf(d)))
        BY <3>4 DEF Range
      <4> QED BY <2>3, <3>3, <3>4, <3>7, <4>1, ShownListed
    <3> QED BY <3>5, <3>6, <3>7
  <2> QED BY <2>1, <2>2, <2>3
<1>3. g = [d \in Dirs |-> g[d]]
  OBVIOUS
<1> HIDE DEF g
<1>4. IsSeen(t, g)
  BY <1>2, <1>3 DEF IsSeen
<1> QED BY <1>4, SeenChosen

\* In whatever way one descends, one sees the current nodes: all that were
\* handed out, and placeholders.
LEMMA SeenCurrent ==
  ASSUME NEW t, Sound(t), NEW f, Booked(t, f)
  PROVE  /\ \A ref \in SeenRefs(t) : ref[1] \in Dirs /\ ref = Ref(t, ref[1])
         /\ \A d \in Out(Shape(t)) : Ref(t, d) \in SeenRefs(t)
<1> DEFINE O == Out(Shape(t))
           g == Seen(t)
           B == {d \in O : g[d] # Len(t.heap[d])}
<1>1. g = [d \in Dirs |-> ShownAt(t, g, d)]
  BY SeenIsThere DEF Booked, IsSeen
<1>2. SeenRefs(t) = {<<d, g[d]>> : d \in {e \in Dirs : g[e] \in DOMAIN t.heap[e]}}
  BY DEF SeenRefs
<1> HIDE DEF g
<1>3. ASSUME NEW d \in B PROVE d # Root /\ ParentOf(d) \in B
  <2>1. d \in Dirs /\ g[d] = ShownAt(t, g, d)
    BY <1>1 DEF Out
  <2>2. d # Root
    BY <2>1 DEF ShownAt
  <2>3. ParentOf(d) \in O /\ ParentOf(d) \in Dirs
    BY <2>2, OutParents DEF Sound, ShapeSound
  <2>4. d \in Range(Names(t, ParentOf(d)))
    BY <2>2, <2>3, OutListed, ShapeOf DEF Sound, ShapeSound
  <2>5. g[ParentOf(d)] = Len(t.heap[ParentOf(d)]) => g[d] = Len(t.heap[d])
    <3> HIDE DEF B, O
    <3> QED BY <2>1, <2>2, <2>4, ShownListed DEF Booked
  <2> QED BY <2>2, <2>3, <2>5
<1>4. B = {}
  <2> SUFFICES ASSUME NEW d \in B PROVE FALSE
    OBVIOUS
  <2>1. B \in SUBSET Dirs /\ d \in Dirs
    BY DEF Out
  <2>2. Root \in Above[d]
    BY DEF Booked, Rooted
  <2> HIDE DEF B
  <2>3. Above[d] \subseteq B
    BY <2>1, <1>3, AboveLeast
  <2> QED BY <2>2, <2>3, <1>3
<1>5. ASSUME NEW d \in Dirs, g[d] \in DOMAIN t.heap[d] PROVE g[d] = Len(t.heap[d])
  <2>1. CASE d \in O
    BY <2>1, <1>4
  <2>2. CASE d \notin O
    <3>1. Len(t.heap[d]) = 1 /\ DOMAIN t.heap[d] = 1..1
      BY <2>2, ChainParts DEF Booked, RestNew, Sound, Formed
    <3> QED BY <3>1, <1>5
  <2> QED BY <2>1, <2>2
<1>6. ASSUME NEW d \in O PROVE Ref(t, d) \in SeenRefs(t)
  <2>1. d \in Dirs /\ g[d] = Len(t.heap[d])
    BY <1>4 DEF Out
  <2>2. Len(t.heap[d]) \in DOMAIN t.heap[d]
    BY <2>1, ChainParts DEF Sound, Formed
  <2> QED BY <2>1, <2>2, <1>2 DEF Ref
<1>7. ASSUME NEW ref \in SeenRefs(t) PROVE ref[1] \in Dirs /\ ref = Ref(t, ref[1])
  <2>1. PICK d \in Dirs : ref = <<d, g[d]>> /\ g[d] \in DOMAIN t.heap[d]
    BY <1>2
  <2> QED BY <2>1, <1>5 DEF Ref
<1> QED BY <1>6, <1>7

\* So the frame's table lists what is new in it.
LEMMA NothingUnlisted ==
  ASSUME NEW t, Sound(t), Booked(t, frozen)
  PROVE  Unlisted(t) = {}
<1> SUFFICES ASSUME NEW ref \in SeenRefs(t) \ frozen, ref[2] > 1,
                    t.changed[ref[1]] # ref[2]
             PROVE  FALSE
  BY DEF Unlisted
<1>1. ref[1] \in Dirs /\ ref = Ref(t, ref[1])
  BY SeenCurrent
<1>2. NotedAt(t, frozen, ref[1])
  BY <1>1 DEF Booked, Noted
<1>3. ref[2] = Len(t.heap[ref[1]])
  BY <1>1 DEF Ref
<1>4. Ref(t, ref[1]) \notin frozen
  BY <1>1
<1>5. Len(t.heap[ref[1]]) # 1 /\ t.changed[ref[1]] # Len(t.heap[ref[1]])
  <2> DEFINE n == Len(t.heap[ref[1]])
  <2>1. n > 1 /\ t.changed[ref[1]] # n
    BY <1>3
  <2> HIDE DEF n
  <2>2. n # 1
    BY <2>1
  <2> QED BY <2>1, <2>2 DEF n
<1> QED BY <1>2, <1>4, <1>5 DEF NotedAt

LEMMA PublishingBooks ==
  ASSUME NEW t, Sound(t), NEW f, Booked(t, f)
  PROVE  Booked(NextGeneration(t), f \cup SeenRefs(t))
<1> DEFINE u == NextGeneration(t)
           g == f \cup SeenRefs(t)
<1>1. /\ u.heap = t.heap /\ u.at = t.at /\ u.settled = t.settled
      /\ u.changed = [d \in Dirs |-> 0]
  BY DEF NextGeneration, Sound, Formed, IsTree
<1> HIDE DEF u
<1>2. \A d \in Dirs : Ref(u, d) = Ref(t, d) /\ Kids(u, d) = Kids(t, d)
  BY <1>1 DEF Ref, Kids, Current
<1>3. Shape(u) = Shape(t)
  BY <1>1, <1>2, SameShape DEF Names
<1>4. PlacesBut(u, {}) /\ RestNew(u) /\ Rooted(u)
  BY <1>1, <1>2, <1>3 DEF PlacesBut, RestNew, Rooted, Booked
<1>5. ASSUME NEW d \in Dirs PROVE NotedAt(u, g, d)
  <2>1. CASE d \in Out(Shape(t))
    BY <2>1, <1>1, <1>2, SeenCurrent DEF NotedAt
  <2>2. CASE d \notin Out(Shape(t))
    BY <2>2, <1>1 DEF NotedAt, Booked, RestNew
  <2> QED BY <2>1, <2>2
<1> QED BY <1>4, <1>5 DEF Booked, Noted, u
-----------------------------------------------------------------------------
(* The books are kept.                                                     *)

LEMMA BooksAlike ==
  ASSUME NEW t, NEW u, NEW f, Booked(t, f), Shape(u) = Shape(t), u.heap = t.heap,
         u.changed = t.changed
  PROVE  Booked(u, f)
<1>1. \A d \in Dirs : Ref(u, d) = Ref(t, d) /\ Kids(u, d) = Kids(t, d)
  BY DEF Ref, Kids, Current
<1>2. PlacesBut(u, {})
  BY <1>1 DEF Booked, PlacesBut
<1>3. RestNew(u) /\ Rooted(u)
  BY DEF Booked, RestNew, Rooted
<1>4. Noted(u, f)
  BY <1>1 DEF Booked, Noted, NotedAt
<1> QED BY <1>2, <1>3, <1>4 DEF Booked

\* A frame that goes out lists what is new in it.
LEMMA PublishedBooks ==
  ASSUME missed = {}, NEW t, Sound(t), Booked(t, frozen),
         NEW force, Publish(t, force) \/ (tree' = t /\ UNCHANGED viewVars)
  PROVE  BookInv'
<1>1. CASE tree' = t /\ UNCHANGED viewVars
  <2>1. frozen' = frozen /\ missed' = {}
    BY <1>1 DEF viewVars
  <2>2. Booked(tree', frozen')
    BY <1>1, <2>1
  <2> QED BY <2>1, <2>2 DEF BookInv
<1>2. CASE /\ tree' = NextGeneration(t) /\ frozen' = frozen \cup SeenRefs(t)
           /\ missed' = missed \cup Unlisted(t)
  <2>1. Unlisted(t) = {}
    BY NothingUnlisted
  <2>2. Booked(NextGeneration(t), frozen \cup SeenRefs(t))
    BY PublishingBooks
  <2>3. Booked(tree', frozen') /\ missed' = {}
    BY <1>2, <2>1, <2>2
  <2> QED BY <2>3 DEF BookInv
<1> QED BY <1>1, <1>2 DEF Publish

LEMMA NotingBooks ==
  ASSUME NEW t, Sound(t), NEW f, Booked(t, f), NEW d \in Dirs, NEW next
  PROVE  Booked(InState(t, d, [t.at[d] EXCEPT !.nextAt = next]), f)
<1> DEFINE u == InState(t, d, [t.at[d] EXCEPT !.nextAt = next])
<1>1. Formed(t) /\ Calm(t, u)
  BY Noting DEF Sound
<1>2. u.heap = t.heap /\ u.changed = t.changed
  BY DEF InState, Sound, Formed, IsTree
<1> HIDE DEF u
<1>3. Shape(u) = Shape(t)
  BY <1>1, CalmShape
<1>4. Booked(u, f)
  BY <1>2, <1>3, BooksAlike
<1> QED BY <1>4 DEF u

LEMMA DrainChunkBooks ==
  ASSUME IInv, BookInv, DrainChunk
  PROVE  BookInv'
<1> DEFINE c    == Head(chunks)
           t    == ApplyChunk(tree, c)
           s    == t.at[c.path]
           next == Ahead(s.found, s.nextAt)
           t1   == InState(t, c.path, [s EXCEPT !.nextAt = next])
<1>1. /\ chunks # <<>>
      /\ IF s.found >= s.nextAt THEN Publish(t1, TRUE) ELSE tree' = t /\ UNCHANGED viewVars
  BY DEF DrainChunk
<1>2. Sound(tree) /\ Booked(tree, frozen) /\ missed = {}
  BY DEF IInv, TreeInv, BookInv
<1>3. /\ c.path \in Active(tree) /\ c.path \in Dirs /\ c.path \notin Shape(tree).scanned
      /\ EntriesOf(c.path, c.entries)
      /\ Range(c.entries) \cap Range(Names(tree, c.path)) = {}
  BY <1>1, ChunkAwaited
<1> HIDE DEF c, next
<1>4. Brought(tree, t, c.path, Listed(c.entries)) /\ Booked(t, frozen)
  BY <1>2, <1>3, ApplyingChunk, ChunkBooks
<1> HIDE DEF t
<1>5. Sound(t)
  BY <1>4 DEF Brought, Sound
<1>6. Sound(t1) /\ Booked(t1, frozen)
  <2>1. Calm(t, t1) /\ Booked(t1, frozen)
    BY <1>3, <1>4, <1>5, Noting, NotingBooks
  <2> HIDE DEF t1
  <2> QED BY <2>1 DEF Calm
<1> HIDE DEF t1, s
<1> QED BY <1>1, <1>2, <1>4, <1>5, <1>6, PublishedBooks

LEMMA ApplyBooks ==
  ASSUME IInv, BookInv, NEW r \in batch, Publish(ApplyResult(tree, r), r.path = Root)
  PROVE  BookInv'
<1> DEFINE t == ApplyResult(tree, r)
<1>1. Sound(tree) /\ Booked(tree, frozen) /\ missed = {}
  BY DEF IInv, TreeInv, BookInv
<1>2. Awaits(tree, r)
  BY ResultAwaited
<1>3. Took(tree, t, r.path) /\ Booked(t, frozen)
  BY <1>1, <1>2, ApplyingResult, ResultBooks
<1>4. Publish(t, r.path = Root)
  OBVIOUS
<1> HIDE DEF t
<1>5. Sound(t)
  BY <1>3 DEF Took
<1> QED BY <1>1, <1>3, <1>4, <1>5, PublishedBooks

LEMMA HandOutBooks ==
  ASSUME IInv, BookInv, HandOut
  PROVE  BookInv'
<1>1. /\ frozen' = frozen /\ missed' = missed /\ tree'.changed = tree.changed
  <2>1. DOMAIN tree \in {DOMAIN tree} /\ "changed" \in DOMAIN tree
    BY DEF IInv, TreeInv, Sound, Formed, IsTree
  <2>2. PICK at : tree' = [tree EXCEPT !.at = at]
    BY DEF HandOut
  <2> QED BY <2>1, <2>2 DEF HandOut, viewVars
<1>2. PICK D : /\ Opened(tree, tree', D)
               /\ \A c \in D : c \in Dirs \ Out(Shape(tree)) /\ Names(tree, c) = <<>>
  <2>1. CASE Opened(tree, tree', {})
    BY <2>1
  <2>2. CASE \E c \in Dirs : /\ Opened(tree, tree', {c}) /\ c \notin Out(Shape(tree))
                             /\ Names(tree, c) = <<>>
    <3>1. PICK c \in Dirs : /\ Opened(tree, tree', {c}) /\ c \notin Out(Shape(tree))
                            /\ Names(tree, c) = <<>>
      BY <2>2
    <3> QED BY <3>1
  <2> QED BY <2>1, <2>2, SourceTurns DEF TurnTaken
<1>3. /\ Sound(tree') /\ tree'.heap = tree.heap /\ Shape(tree').names = Shape(tree).names
      /\ Out(Shape(tree')) = Out(Shape(tree)) \cup D
  BY <1>2 DEF Opened
<1>4. Booked(tree, frozen) /\ missed = {} /\ Sound(tree)
  BY DEF BookInv, IInv, TreeInv
<1>5. \A d \in Dirs : Ref(tree', d) = Ref(tree, d) /\ Kids(tree', d) = Kids(tree, d)
  BY <1>3 DEF Ref, Kids, Current
<1>6. PlacesBut(tree', {}) /\ Noted(tree', frozen)
  BY <1>1, <1>3, <1>4, <1>5 DEF Booked, PlacesBut, Noted, NotedAt
<1>7. RestNew(tree')
  BY <1>3, <1>4 DEF Booked, RestNew
<1>8. ASSUME NEW c \in D PROVE Root \in Above[c]
  <2>1. c \in Dirs \ {Root} /\ c \in Out(Shape(tree')) \ {Root} /\ Names(tree, c) = <<>>
    BY <1>2, <1>3, <1>4, TreeAssumption DEF TreeAssumption, Out
  <2>2. ParentOf(c) \in Out(Shape(tree')) /\ ParentOf(c) \in Dirs
    BY <2>1, <1>3, OutParents, ParentSound DEF Sound, ShapeSound
  <2>3. c \in Range(Names(tree', ParentOf(c)))
    BY <2>1, <2>2, <1>3, OutListed, ShapeOf DEF Sound, ShapeSound
  <2>4. Names(tree', c) = <<>>
    BY <2>1, <1>5 DEF Names
  <2>5. ASSUME NEW e \in D PROVE ParentOf(c) # e
    <3>1. Names(tree', e) = <<>>
      BY <1>2, <1>5 DEF Names
    <3> QED BY <3>1, <2>3 DEF Range
  <2>6. Root \in Above[ParentOf(c)]
    BY <2>2, <2>5, <1>3, <1>4 DEF Booked, Rooted
  <2>7. ParentOf(c) \in Above[c]
    BY <2>1, AboveItself, AboveStep
  <2> QED BY <2>1, <2>6, <2>7, AboveThrough
<1>9. Rooted(tree')
  BY <1>3, <1>4, <1>8 DEF Booked, Rooted
<1> QED BY <1>1, <1>4, <1>6, <1>7, <1>9 DEF BookInv, Booked

LEMMA StepBooks ==
  ASSUME IInv, BookInv, [Next]_vars
  PROVE  BookInv'
<1>1. CASE DrainChunk
  BY <1>1, DrainChunkBooks
<1>2. CASE Apply
  BY <1>2, ApplyBooks DEF Apply
<1>3. CASE HandOut
  BY <1>3, HandOutBooks
<1>4. CASE Top \/ Filled \/ Submit \/ StartWorkers \/ Collect \/ Join \/ Abort \/ Cancel
  <2>1. tree' = tree /\ frozen' = frozen /\ missed' = missed
    BY <1>4 DEF Top, Filled, Submit, StartWorkers, Collect, Join, Abort, Cancel, viewVars
  <2> QED BY <2>1 DEF BookInv
<1>5. CASE \E w \in Pool : WorkerStep(w)
  <2>1. tree' = tree /\ frozen' = frozen /\ missed' = missed
    BY <1>5 DEF WorkerStep, TakeJob, SendChunk, Return, StopReading, Crash, HandBack, viewVars
  <2> QED BY <2>1 DEF BookInv
<1>6. CASE UNCHANGED vars
  <2>1. tree' = tree /\ frozen' = frozen /\ missed' = missed
    BY <1>6 DEF vars, viewVars
  <2> QED BY <2>1 DEF BookInv
<1> QED BY <1>1, <1>2, <1>3, <1>4, <1>5, <1>6 DEF Next, SchedulerStep

LEMMA InitBooks ==
  ASSUME Init
  PROVE  BookInv
<1>1. /\ tree.heap = [d \in Dirs |-> <<Blank>>] /\ tree.changed = [d \in Dirs |-> 0]
      /\ tree.at = [d \in Dirs |-> [Fresh(0, 0) EXCEPT !.live = (d = Root)]]
      /\ frozen = {} /\ missed = {}
  BY DEF Init
<1>2. Len(<<Blank>>) = 1 /\ <<Blank>>[1] = Blank /\ Blank.kids = <<>>
  <2>1. Blank.kids = <<>>
    BY DEF Blank
  <2>2. \A b : Len(<<b>>) = 1 /\ <<b>>[1] = b
    OBVIOUS
  <2> QED BY <2>1, <2>2
<1>3. \A d \in Dirs : Len(tree.heap[d]) = 1 /\ Kids(tree, d) = <<>>
  BY <1>1, <1>2 DEF Kids, Current
<1>4. PlacesBut(tree, {}) /\ RestNew(tree) /\ Noted(tree, frozen)
  BY <1>1, <1>3 DEF PlacesBut, RestNew, Noted, NotedAt
<1>5. \A d \in Dirs : Shape(tree).cursor[d] = 0
  BY <1>1 DEF Shape, Fresh
<1>6. Rooted(tree)
  <2>1. ASSUME NEW d \in Out(Shape(tree)) PROVE d = Root
    <3> SUFFICES ASSUME d # Root, NEW i \in 1..Shape(tree).cursor[ParentOf(d)]
                 PROVE  FALSE
      BY DEF Out
    <3>1. ParentOf(d) \in Dirs
      BY ParentSound DEF Out
    <3> QED BY <3>1, <1>5
  <2>2. Root \in Above[Root]
    BY AboveItself, TreeAssumption DEF TreeAssumption
  <2> QED BY <2>1, <2>2 DEF Rooted
<1> QED BY <1>1, <1>4, <1>6 DEF BookInv, Booked

\* Every list holds current nodes, and every current node is in a frame, in the
\* table of changes or a placeholder.
THEOREM BooksAreKept == Spec => []BookInv
<1>1. Init => BookInv
  BY InitBooks
<1>2. IInv /\ BookInv /\ [Next]_vars => BookInv'
  BY StepBooks
<1> QED BY <1>1, <1>2, ScanInvariant, PTL DEF Spec

LEMMA ChangesListed ==
  ASSUME IInv, BookInv
  PROVE  FrameListsChanges
<1>1. Unlisted(tree) = {}
  BY NothingUnlisted DEF IInv, TreeInv, BookInv
<1>2. \A d \in Dirs : tree.changed[d] \in {0, Len(tree.heap[d])}
  BY DEF BookInv, Booked, Noted, NotedAt
<1> QED BY <1>1, <1>2 DEF BookInv, FrameListsChanges

\* A reader who applies the frames sees every change: what is new in a frame is
\* in the table that goes out with it, and the table names nothing else.
THEOREM FramesListChanges == Spec => []FrameListsChanges
BY ScanInvariant, BooksAreKept, ChangesListed, PTL

LEMMA PathsLeading ==
  ASSUME IInv, BookInv
  PROVE  LiveMapSound
<1>1. Sound(tree) /\ Formed(tree) /\ ShapeSound(Shape(tree))
  BY DEF IInv, TreeInv, Sound
<1>2. ASSUME NEW d \in Dirs
      PROVE  /\ tree.at[d].live <=> d = Root \/ d \in Active(tree)
             /\ tree.at[d].scanned <=> d \in Shape(tree).scanned
  BY <1>1, ShapeOf DEF ShapeSound, LiveSound, Active
<1>3. ASSUME NEW d \in Dirs
      PROVE  tree.at[d].cursor <= Len(Current(tree, d).kids) /\ tree.at[d].remaining >= 0
  <2>1. /\ tree.at[d].cursor \in 0..Len(Names(tree, d))
        /\ tree.at[d].remaining = Cardinality(Open(Shape(tree), d))
    BY <1>1, ShapeOf DEF ShapeSound, NamesSound, NamesSoundAt, RemainingCounts
  <2>2. Kids(tree, d) \in Seq(Entries \X Nat) /\ Len(Names(tree, d)) = Len(Kids(tree, d))
    <3>1. Kids(tree, d) \in Seq(Entries \X Nat)
      BY <1>1, CurrentNode
    <3> QED BY <3>1, NamesOfSeq DEF Names
  <2>3. Cardinality(Open(Shape(tree), d)) \in Nat
    BY OpenFinite
  <2>4. tree.at[d].cursor <= Len(Kids(tree, d)) /\ tree.at[d].remaining >= 0
    BY <2>1, <2>2, <2>3
  <2> QED BY <2>4 DEF Kids
<1>4. ASSUME NEW d \in Dirs \ {Root}, tree.at[d].live
      PROVE  /\ ~tree.at[d].settled /\ tree.at[ParentOf(d)].live
             /\ tree.at[d].index <= tree.at[ParentOf(d)].cursor
             /\ Current(tree, ParentOf(d)).kids[tree.at[d].index] = Ref(tree, d)
  <2>1. d \in Active(tree) /\ ParentOf(d) \in Dirs
    BY <1>2, <1>4, ParentSound
  <2>2. /\ d \notin tree.settled /\ tree.at[ParentOf(d)].live
        /\ tree.at[d].index \in DOMAIN Kids(tree, ParentOf(d))
        /\ Kids(tree, ParentOf(d))[tree.at[d].index][1] = d
    BY <2>1, <1>1, <1>2, PlaceOf DEF Active
  <2>3. Kids(tree, ParentOf(d))[tree.at[d].index] = Ref(tree, d)
    BY <2>1, <2>2 DEF BookInv, Booked, PlacesBut
  <2>4. tree.at[d].index <= tree.at[ParentOf(d)].cursor
    <3>1. ParentOf(d) \notin tree.settled
      BY <2>1, <1>1, PlaceOf DEF Active
    <3>2. tree.at[d].index \in 1..tree.at[ParentOf(d)].cursor
      BY <2>1, <3>1, <1>1, ShapeOf DEF ShapeSound, IndexSound, Active
    <3>3. tree.at[ParentOf(d)].cursor \in Nat
      BY <2>1, <1>1 DEF Formed, IsState
    <3> QED BY <3>2, <3>3
  <2>5. ~tree.at[d].settled
    BY <2>2, <1>1 DEF Formed
  <2> QED BY <2>2, <2>3, <2>4, <2>5 DEF Kids
<1>5. ASSUME NEW d \in Dirs, Held(d) # {} \/ \E i \in DOMAIN chunks : chunks[i].path = d
      PROVE  tree.at[d].live /\ ~tree.at[d].scanned
  <2>1. d \in Tasks
    <3>1. d # Stop
      BY TreeAssumption DEF TreeAssumption, Stop
    <3>2. CASE Held(d) # {}
      BY <3>1, <3>2 DEF Held, Tasks, InPending, InJobs, InWork, InFinished, InBatch, Range
    <3>3. CASE \E i \in DOMAIN chunks : chunks[i].path = d
      BY <3>3 DEF IInv, ChunksSound, Tasks
    <3> QED BY <3>2, <3>3, <1>5
  <2>2. d \in Out(Shape(tree)) /\ d \notin Shape(tree).scanned
    BY <2>1 DEF IInv, TasksSound
  <2>3. d \notin tree.settled
    BY <2>2, <1>1, ShapeOf DEF ShapeSound, SettledSound
  <2> QED BY <2>2, <2>3, <1>2 DEF Active
<1> QED BY <1>3, <1>4, <1>5 DEF LiveMapSound

\* The paths the scheduler looks up lead somewhere: the directories above a live
\* one are live, it stands in its parent's list where it says, no cursor is past
\* its list, and whatever is on its way is for a live directory without a result.
THEOREM PathsLeadSomewhere == Spec => []LiveMapSound
BY ScanInvariant, BooksAreKept, PathsLeading, PTL
=============================================================================
