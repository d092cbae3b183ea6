-------------------------- MODULE TreeTotalsProofs --------------------------
(***************************************************************************)
(* Proofs about TreeScan's totals, for every tree, number of workers and   *)
(* size of the chunks and queues: what is kept by adding differences along *)
(* the ancestors is what a recount finds.  The invariant, TotalsInv, says  *)
(* so of the tree the scheduler holds, not only of what a frame shows, and *)
(* relates each directory's bytes and names to what its chunks, reader and *)
(* result still bring.  It rests on the two invariants of TreeScanProofs:  *)
(* IInv for who has a directory, BookInv for lists that hold the current   *)
(* nodes.                                                                  *)
(***************************************************************************)
EXTENDS TreeScanProofs

-----------------------------------------------------------------------------
(* Sums over finite sets: what the folds of the community modules compute   *)
(* when they add up the values of a function.                               *)

\* Of sets that are bad, in a finite one, there is one that is least.
LEMMA LeastBad ==
  ASSUME NEW S, IsFiniteSet(S), NEW Bad, Bad \subseteq SUBSET S, Bad # {}
  PROVE  \E U \in Bad : \A V \in SUBSET S : V \subseteq U /\ V # U => V \notin Bad
<1>1. IsWellFoundedOn(StrictSubsetOrdering(S), SUBSET S)
  BY FS_StrictSubsetOrderingWellFounded, FS_FiniteSubsetsOfFinite
<1>2. PICK U \in Bad : \A V \in Bad : ~ (<<V, U>> \in StrictSubsetOrdering(S))
  BY <1>1, WFMin
<1>3. ASSUME NEW V \in SUBSET S, V \subseteq U, V # U PROVE V \notin Bad
  BY <1>2, <1>3 DEF StrictSubsetOrdering
<1> QED BY <1>3

Pick(s) == CHOOSE x \in s : TRUE
AddsUp(W, S, g) ==
  g = [s \in SUBSET S |-> IF s = {} THEN 0 ELSE W[Pick(s)] + g[s \ {Pick(s)}]]
Adder(W, S) == CHOOSE g : AddsUp(W, S, g)
Sum(W, S) == Adder(W, S)[S]

LEMMA Picked == ASSUME NEW s, s # {} PROVE Pick(s) \in s /\ s \ {Pick(s)} # s
BY DEF Pick

LEMMA AddsAt ==
  ASSUME NEW W, NEW S, NEW g, AddsUp(W, S, g), NEW s \in SUBSET S
  PROVE  g[s] = IF s = {} THEN 0 ELSE W[Pick(s)] + g[s \ {Pick(s)}]
<1> DEFINE e(t) == IF t = {} THEN 0 ELSE W[Pick(t)] + g[t \ {Pick(t)}]
<1>1. g = [t \in SUBSET S |-> e(t)]
  BY DEF AddsUp
<1> HIDE DEF e
<1>2. g[s] = e(s)
  BY <1>1
<1> QED BY <1>2 DEF e

\* The sums over the parts of a set do not depend on the set.
LEMMA AddsAlike ==
  ASSUME NEW W, NEW S, IsFiniteSet(S), NEW U \in SUBSET S, NEW g, NEW h,
         AddsUp(W, S, g), AddsUp(W, U, h), NEW s \in SUBSET U
  PROVE  g[s] = h[s]
<1> DEFINE Bad == {t \in SUBSET U : g[t] # h[t]}
<1> SUFFICES ASSUME Bad # {} PROVE FALSE
  OBVIOUS
<1>1. Bad \subseteq SUBSET S
  OBVIOUS
<1>2. PICK t \in Bad : \A V \in SUBSET S : V \subseteq t /\ V # t => V \notin Bad
  <2> HIDE DEF Bad
  <2> QED BY <1>1, LeastBad
<1>3. t \in SUBSET U /\ t \in SUBSET S /\ g[t] # h[t]
  OBVIOUS
<1> HIDE DEF Bad
<1>4. g[t] = IF t = {} THEN 0 ELSE W[Pick(t)] + g[t \ {Pick(t)}]
  BY <1>3, AddsAt
<1>5. h[t] = IF t = {} THEN 0 ELSE W[Pick(t)] + h[t \ {Pick(t)}]
  BY <1>3, AddsAt
<1>6. t # {}
  BY <1>3, <1>4, <1>5
<1>7. t \ {Pick(t)} # t
  BY <1>6, Picked
<1>8. t \ {Pick(t)} \in SUBSET U /\ t \ {Pick(t)} \in SUBSET S
  BY <1>3
<1>9. t \ {Pick(t)} \notin Bad
  BY <1>2, <1>7, <1>8
<1>10. g[t \ {Pick(t)}] = h[t \ {Pick(t)}]
  BY <1>8, <1>9 DEF Bad
<1> QED BY <1>3, <1>4, <1>5, <1>6, <1>10

LEMMA AdderAdds ==
  ASSUME NEW W, NEW S, IsFiniteSet(S)
  PROVE  AddsUp(W, S, Adder(W, S))
<1> DEFINE Bad == {U \in SUBSET S : ~ (\E g : AddsUp(W, U, g))}
<1>1. SUFFICES \E g : AddsUp(W, S, g)
  BY DEF Adder
<1> SUFFICES ASSUME Bad # {} PROVE FALSE
  OBVIOUS
<1>2. PICK U \in Bad : \A V \in SUBSET S : V \subseteq U /\ V # U => V \notin Bad
  <2>1. Bad \subseteq SUBSET S
    OBVIOUS
  <2> HIDE DEF Bad
  <2> QED BY <2>1, LeastBad
<1>3. U \in SUBSET S /\ ~ (\E g : AddsUp(W, U, g))
  OBVIOUS
<1>4. ASSUME NEW V \in SUBSET U, V # U PROVE AddsUp(W, V, Adder(W, V))
  <2>1. V \in SUBSET S /\ V \notin Bad
    BY <1>2, <1>3, <1>4
  <2>2. \E g : AddsUp(W, V, g)
    BY <2>1
  <2> QED BY <2>2 DEF Adder
<1> HIDE DEF Bad
<1> DEFINE below(s) == s \ {Pick(s)}
           value(s) == IF s = {} THEN 0
                       ELSE IF s = U THEN W[Pick(s)] + Adder(W, below(s))[below(s)]
                       ELSE Adder(W, s)[s]
           h == [s \in SUBSET U |-> value(s)]
           step(s) == IF s = {} THEN 0 ELSE W[Pick(s)] + h[s \ {Pick(s)}]
<1>5. ASSUME NEW s \in SUBSET U PROVE value(s) = step(s)
  <2>1. CASE s = {}
    BY <2>1
  <2>2. CASE s # {}
    <3>1. below(s) \in SUBSET s /\ below(s) \in SUBSET U /\ below(s) # s /\ below(s) # U
      BY <2>2, Picked
    <3>2. h[below(s)] = value(below(s))
      BY <3>1
    <3>3. AddsUp(W, below(s), Adder(W, below(s)))
      BY <3>1, <1>4
    <3>4. h[below(s)] = Adder(W, below(s))[below(s)]
      <4>1. CASE below(s) = {}
        <5>1. Adder(W, below(s))[below(s)] = 0
          BY <4>1, <3>3, AddsAt
        <5> QED BY <5>1, <4>1, <3>2
      <4>2. CASE below(s) # {}
        BY <4>2, <3>1, <3>2
      <4> QED BY <4>1, <4>2
    <3>5. CASE s = U
      BY <2>2, <3>4, <3>5
    <3>6. CASE s # U
      <4>1. AddsUp(W, s, Adder(W, s))
        BY <3>6, <1>4
      <4>2. Adder(W, s)[s] = W[Pick(s)] + Adder(W, s)[below(s)]
        <5>1. s \in SUBSET s
          OBVIOUS
        <5> QED BY <5>1, <4>1, <2>2, AddsAt
      <4>3. IsFiniteSet(s)
        BY <1>3, FS_Subset
      <4>4. Adder(W, s)[below(s)] = Adder(W, below(s))[below(s)]
        <5>1. below(s) \in SUBSET below(s)
          OBVIOUS
        <5> HIDE DEF below
        <5> QED BY <5>1, <3>1, <3>3, <4>1, <4>3, AddsAlike
      <4> QED BY <2>2, <3>4, <3>6, <4>2, <4>4
    <3> QED BY <3>5, <3>6
  <2> QED BY <2>1, <2>2
<1>6. h = [s \in SUBSET U |-> step(s)]
  <2> HIDE DEF value, step
  <2> QED BY <1>5
<1>7. AddsUp(W, U, h)
  <2> HIDE DEF h
  <2> QED BY <1>6 DEF AddsUp
<1> QED BY <1>3, <1>7

LEMMA SumOfNone == ASSUME NEW W PROVE Sum(W, {}) = 0
<1>1. AddsUp(W, {}, Adder(W, {}))
  BY AdderAdds, FS_EmptySet
<1> QED BY <1>1, AddsAt DEF Sum

LEMMA SumPicked ==
  ASSUME NEW W, NEW S, IsFiniteSet(S), S # {}
  PROVE  Sum(W, S) = W[Pick(S)] + Sum(W, S \ {Pick(S)})
<1> DEFINE T == S \ {Pick(S)}
<1>1. AddsUp(W, S, Adder(W, S)) /\ S \in SUBSET S
  BY AdderAdds
<1>2. Sum(W, S) = W[Pick(S)] + Adder(W, S)[T]
  BY <1>1, AddsAt DEF Sum
<1>3. IsFiniteSet(T) /\ T \in SUBSET S /\ T \in SUBSET T
  BY FS_Subset
<1>4. AddsUp(W, T, Adder(W, T))
  BY <1>3, AdderAdds
<1> HIDE DEF T
<1>5. Adder(W, S)[T] = Adder(W, T)[T]
  BY <1>1, <1>3, <1>4, AddsAlike
<1> QED BY <1>2, <1>5 DEF Sum, T

LEMMA SumIsNumber ==
  ASSUME NEW W, NEW S, IsFiniteSet(S), \A x \in S : W[x] \in Int
  PROVE  Sum(W, S) \in Int
<1> DEFINE Bad == {U \in SUBSET S : Sum(W, U) \notin Int}
<1> SUFFICES ASSUME Bad # {} PROVE FALSE
  OBVIOUS
<1>1. PICK U \in Bad : \A V \in SUBSET S : V \subseteq U /\ V # U => V \notin Bad
  <2>1. Bad \subseteq SUBSET S
    OBVIOUS
  <2> HIDE DEF Bad
  <2> QED BY <2>1, LeastBad
<1>2. U \in SUBSET S /\ Sum(W, U) \notin Int /\ IsFiniteSet(U)
  BY FS_Subset
<1>3. U # {}
  BY <1>2, SumOfNone
<1>4. Pick(U) \in U /\ U \ {Pick(U)} # U /\ U \ {Pick(U)} \in SUBSET S
  BY <1>2, <1>3, Picked
<1>5. U \ {Pick(U)} \notin Bad
  BY <1>1, <1>4
<1>6. Sum(W, U \ {Pick(U)}) \in Int
  BY <1>4, <1>5
<1>7. Sum(W, U) = W[Pick(U)] + Sum(W, U \ {Pick(U)})
  BY <1>2, <1>3, SumPicked
<1>8. W[Pick(U)] \in Int
  BY <1>2, <1>4
<1> QED BY <1>2, <1>6, <1>7, <1>8

\* It does not matter in which order one adds.
LEMMA SumWithout ==
  ASSUME NEW W, NEW S, IsFiniteSet(S), \A x \in S : W[x] \in Int, NEW b \in S
  PROVE  Sum(W, S) = W[b] + Sum(W, S \ {b})
<1> DEFINE Splits(U, a) == Sum(W, U) = W[a] + Sum(W, U \ {a})
           Bad == {U \in SUBSET S : \E a \in U : ~Splits(U, a)}
<1>0. SUFFICES ASSUME Bad # {} PROVE FALSE
  OBVIOUS
<1>1. PICK U \in Bad : \A V \in SUBSET S : V \subseteq U /\ V # U => V \notin Bad
  <2>1. Bad \subseteq SUBSET S
    OBVIOUS
  <2> HIDE DEF Bad
  <2> QED BY <1>0, <2>1, LeastBad
<1>2. PICK a \in U : ~Splits(U, a)
  OBVIOUS
<1>3. ASSUME NEW V \in SUBSET S, V \subseteq U, V # U, NEW c \in V PROVE Splits(V, c)
  <2>1. V \notin Bad
    BY <1>1, <1>3
  <2> QED BY <2>1
<1>4. U \in SUBSET S /\ U # {} /\ a \in U /\ IsFiniteSet(U)
  BY FS_Subset
<1> HIDE DEF Bad
<1> DEFINE x == Pick(U)
<1>5. x \in U /\ Splits(U, x)
  BY <1>4, Picked, SumPicked
<1> HIDE DEF x
<1>6. x # a
  BY <1>2, <1>5
<1>7. Splits(U \ {x}, a) /\ Splits(U \ {a}, x)
  BY <1>3, <1>4, <1>5, <1>6
<1>8. (U \ {x}) \ {a} = (U \ {a}) \ {x} /\ IsFiniteSet((U \ {a}) \ {x})
  BY <1>4, FS_Subset
<1>9. W[x] \in Int /\ W[a] \in Int /\ Sum(W, (U \ {a}) \ {x}) \in Int
  <2>1. (U \ {a}) \ {x} \subseteq S
    BY <1>4
  <2>2. \A y \in (U \ {a}) \ {x} : W[y] \in Int
    BY <2>1
  <2> QED BY <1>4, <1>5, <1>8, <2>2, SumIsNumber
<1>10. /\ Sum(W, U) = W[x] + Sum(W, U \ {x})
       /\ Sum(W, U \ {x}) = W[a] + Sum(W, (U \ {a}) \ {x})
       /\ Sum(W, U \ {a}) = W[x] + Sum(W, (U \ {a}) \ {x})
  BY <1>5, <1>7, <1>8
<1> HIDE DEF Splits
<1>11. Sum(W, U) = W[a] + Sum(W, U \ {a})
  BY <1>9, <1>10
<1> QED BY <1>2, <1>11 DEF Splits

\* Two sums are the same if the numbers are, taken one by one in another order.
LEMMA SumAlong ==
  ASSUME NEW W, NEW S, IsFiniteSet(S), \A x \in S : W[x] \in Int,
         NEW V, NEW m, \A x \in S : V[m[x]] = W[x],
         \A x, y \in S : m[x] = m[y] => x = y
  PROVE  Sum(W, S) = Sum(V, {m[x] : x \in S})
<1> DEFINE Image(U) == {m[x] : x \in U}
           Bad == {U \in SUBSET S : Sum(W, U) # Sum(V, Image(U))}
<1>0. SUFFICES ASSUME Bad # {} PROVE FALSE
  OBVIOUS
<1>1. PICK U \in Bad : \A T \in SUBSET S : T \subseteq U /\ T # U => T \notin Bad
  <2>1. Bad \subseteq SUBSET S
    OBVIOUS
  <2> HIDE DEF Bad
  <2> QED BY <1>0, <2>1, LeastBad
<1>2. U \in SUBSET S /\ Sum(W, U) # Sum(V, Image(U)) /\ IsFiniteSet(U)
  BY FS_Subset
<1>3. U # {}
  <2>1. Image({}) = {}
    OBVIOUS
  <2> HIDE DEF Image
  <2> QED BY <1>2, <2>1, SumOfNone
<1>4. PICK a \in U : TRUE
  BY <1>3
<1>5. Sum(W, U \ {a}) = Sum(V, Image(U \ {a}))
  BY <1>1, <1>2, <1>4
<1>6. /\ IsFiniteSet(Image(U)) /\ m[a] \in Image(U) /\ Image(U) \ {m[a]} = Image(U \ {a})
      /\ \A y \in Image(U) : V[y] \in Int
  <2>1. IsFiniteSet(Image(U))
    <3>1. [x \in U |-> m[x]] \in Surjection(U, Image(U))
      BY DEF Surjection
    <3> HIDE DEF Image
    <3> QED BY <1>2, <3>1, FS_Surjection
  <2> QED BY <1>2, <1>4, <2>1
<1> HIDE DEF Image, Bad
<1>7. Sum(V, Image(U)) = V[m[a]] + Sum(V, Image(U) \ {m[a]})
  BY <1>6, SumWithout
<1>8. Sum(W, U) = W[a] + Sum(W, U \ {a})
  <2>1. \A x \in U : W[x] \in Int
    BY <1>2
  <2> QED BY <1>2, <2>1, SumWithout
<1> QED BY <1>2, <1>4, <1>5, <1>6, <1>7, <1>8

LEMMA SumSame ==
  ASSUME NEW W, NEW S, IsFiniteSet(S), \A x \in S : W[x] \in Int,
         NEW V, \A x \in S : V[x] = W[x]
  PROVE  Sum(W, S) = Sum(V, S)
<1> DEFINE m == [x \in S |-> x]
<1>1. {m[x] : x \in S} = S
  OBVIOUS
<1>2. (\A x \in S : V[m[x]] = W[x]) /\ \A x, y \in S : m[x] = m[y] => x = y
  OBVIOUS
<1> HIDE DEF m
<1>3. Sum(W, S) = Sum(V, {m[x] : x \in S})
  BY <1>2, SumAlong
<1> QED BY <1>1, <1>3

\* One of the numbers changes.
LEMMA SumMoved ==
  ASSUME NEW W, NEW S, IsFiniteSet(S), \A x \in S : W[x] \in Int, NEW b \in S,
         NEW V, \A x \in S \ {b} : V[x] = W[x], V[b] \in Int
  PROVE  Sum(V, S) = Sum(W, S) + (V[b] - W[b])
<1>1. IsFiniteSet(S \ {b}) /\ \A x \in S \ {b} : W[x] \in Int /\ V[x] \in Int
  BY FS_Subset
<1>2. Sum(W, S \ {b}) = Sum(V, S \ {b}) /\ Sum(W, S \ {b}) \in Int
  BY <1>1, SumSame, SumIsNumber
<1>3. Sum(W, S) = W[b] + Sum(W, S \ {b})
  BY SumWithout
<1>4. Sum(V, S) = V[b] + Sum(V, S \ {b})
  <2>1. \A x \in S : V[x] \in Int
    BY <1>1
  <2> QED BY <2>1, SumWithout
<1>5. W[b] \in Int
  OBVIOUS
<1> QED BY <1>2, <1>3, <1>4, <1>5

LEMMA SumJoined ==
  ASSUME NEW W, NEW S, IsFiniteSet(S), NEW T, IsFiniteSet(T), S \cap T = {},
         \A x \in S \cup T : W[x] \in Int
  PROVE  Sum(W, S \cup T) = Sum(W, S) + Sum(W, T)
<1> DEFINE Bad == {U \in SUBSET T : Sum(W, S \cup U) # Sum(W, S) + Sum(W, U)}
<1>0. SUFFICES ASSUME Bad # {} PROVE FALSE
  OBVIOUS
<1>1. PICK U \in Bad : \A V \in SUBSET T : V \subseteq U /\ V # U => V \notin Bad
  <2>1. Bad \subseteq SUBSET T
    OBVIOUS
  <2> HIDE DEF Bad
  <2> QED BY <1>0, <2>1, LeastBad
<1>2. U \in SUBSET T /\ Sum(W, S \cup U) # Sum(W, S) + Sum(W, U) /\ IsFiniteSet(U)
  BY FS_Subset
<1>3. Sum(W, S) \in Int
  BY SumIsNumber
<1>4. U # {}
  <2>1. S \cup {} = S
    OBVIOUS
  <2> QED BY <1>2, <1>3, <2>1, SumOfNone
<1>5. PICK a \in U : TRUE
  BY <1>4
<1>6. Sum(W, S \cup (U \ {a})) = Sum(W, S) + Sum(W, U \ {a})
  BY <1>1, <1>2, <1>5
<1> HIDE DEF Bad
<1>7. /\ (S \cup U) \ {a} = S \cup (U \ {a}) /\ a \in S \cup U
      /\ (\A x \in S \cup U : W[x] \in Int) /\ (\A x \in U : W[x] \in Int)
      /\ W[a] \in Int /\ \A x \in U \ {a} : W[x] \in Int
  BY <1>2, <1>5
<1>8. IsFiniteSet(S \cup U) /\ IsFiniteSet(U \ {a})
  BY <1>2, FS_Union, FS_Subset
<1>9. Sum(W, S \cup U) = W[a] + Sum(W, S \cup (U \ {a}))
  <2>1. Sum(W, S \cup U) = W[a] + Sum(W, (S \cup U) \ {a})
    BY <1>7, <1>8, SumWithout
  <2> QED BY <2>1, <1>7
<1>10. Sum(W, U) = W[a] + Sum(W, U \ {a})
  BY <1>2, <1>5, <1>7, SumWithout
<1>11. Sum(W, U \ {a}) \in Int
  BY <1>7, <1>8, SumIsNumber
<1> QED BY <1>2, <1>3, <1>6, <1>7, <1>9, <1>10, <1>11

\* The sum of sums.
LEMMA SumPlus ==
  ASSUME NEW W, NEW V, NEW T, NEW S, IsFiniteSet(S),
         \A x \in S : W[x] \in Int /\ V[x] \in Int /\ T[x] = W[x] + V[x]
  PROVE  Sum(T, S) = Sum(W, S) + Sum(V, S)
<1> DEFINE Bad == {U \in SUBSET S : Sum(T, U) # Sum(W, U) + Sum(V, U)}
<1>0. SUFFICES ASSUME Bad # {} PROVE FALSE
  OBVIOUS
<1>1. PICK U \in Bad : \A R \in SUBSET S : R \subseteq U /\ R # U => R \notin Bad
  <2>1. Bad \subseteq SUBSET S
    OBVIOUS
  <2> HIDE DEF Bad
  <2> QED BY <1>0, <2>1, LeastBad
<1>2. U \in SUBSET S /\ Sum(T, U) # Sum(W, U) + Sum(V, U) /\ IsFiniteSet(U)
  BY FS_Subset
<1>3. U # {}
  BY <1>2, SumOfNone
<1>4. PICK a \in U : TRUE
  BY <1>3
<1>5. Sum(T, U \ {a}) = Sum(W, U \ {a}) + Sum(V, U \ {a})
  BY <1>1, <1>2, <1>4
<1> HIDE DEF Bad
<1>6. /\ \A x \in U : W[x] \in Int /\ V[x] \in Int /\ T[x] \in Int
      /\ T[a] = W[a] + V[a] /\ IsFiniteSet(U \ {a})
  BY <1>2, <1>4, FS_Subset
<1>7. /\ Sum(T, U) = T[a] + Sum(T, U \ {a})
      /\ Sum(W, U) = W[a] + Sum(W, U \ {a})
      /\ Sum(V, U) = V[a] + Sum(V, U \ {a})
  BY <1>2, <1>4, <1>6, SumWithout
<1>8. Sum(W, U \ {a}) \in Int /\ Sum(V, U \ {a}) \in Int
  BY <1>6, SumIsNumber
<1> QED BY <1>2, <1>4, <1>5, <1>6, <1>7, <1>8

\* A sum of zeros and ones counts the ones.
LEMMA SumCounts ==
  ASSUME NEW W, NEW S, IsFiniteSet(S), \A x \in S : W[x] \in {0, 1}
  PROVE  /\ Sum(W, S) = Cardinality({x \in S : W[x] = 1})
         /\ IsFiniteSet({x \in S : W[x] = 1})
<1> DEFINE Ones(U) == {x \in U : W[x] = 1}
           Bad == {U \in SUBSET S : Sum(W, U) # Cardinality(Ones(U))}
<1>a. IsFiniteSet(Ones(S))
  BY FS_Subset
<1>0. SUFFICES ASSUME Bad # {} PROVE FALSE
  BY <1>a
<1>1. PICK U \in Bad : \A R \in SUBSET S : R \subseteq U /\ R # U => R \notin Bad
  <2>1. Bad \subseteq SUBSET S
    OBVIOUS
  <2> HIDE DEF Bad
  <2> QED BY <1>0, <2>1, LeastBad
<1>2. U \in SUBSET S /\ Sum(W, U) # Cardinality(Ones(U)) /\ IsFiniteSet(U)
  BY FS_Subset
<1>3. U # {}
  <2>1. Ones({}) = {}
    OBVIOUS
  <2> HIDE DEF Ones
  <2> QED BY <1>2, <2>1, SumOfNone, FS_EmptySet
<1>4. PICK a \in U : TRUE
  BY <1>3
<1>5. Sum(W, U \ {a}) = Cardinality(Ones(U \ {a}))
  BY <1>1, <1>2, <1>4
<1>6. Ones(U \ {a}) = Ones(U) \ {a} /\ (a \in Ones(U) <=> W[a] = 1) /\ W[a] \in {0, 1}
  BY <1>2, <1>4
<1>7. IsFiniteSet(Ones(U))
  BY <1>2, FS_Subset
<1>8. \A x \in U : W[x] \in Int
  BY <1>2
<1> HIDE DEF Bad, Ones
<1>9. Sum(W, U) = W[a] + Sum(W, U \ {a})
  BY <1>2, <1>4, <1>8, SumWithout
<1>10. Cardinality(Ones(U)) \in Nat
       /\ Cardinality(Ones(U) \ {a}) =
            IF a \in Ones(U) THEN Cardinality(Ones(U)) - 1 ELSE Cardinality(Ones(U))
  BY <1>7, FS_CardinalityType, FS_RemoveElement
<1>11. CASE W[a] = 1
  <2>1. a \in Ones(U) /\ Sum(W, U) = 1 + Cardinality(Ones(U) \ {a})
    BY <1>5, <1>6, <1>9, <1>11
  <2> QED BY <1>2, <1>10, <2>1
<1>12. CASE W[a] = 0
  <2>1. a \notin Ones(U) /\ Sum(W, U) = 0 + Cardinality(Ones(U) \ {a})
    BY <1>5, <1>6, <1>9, <1>12
  <2> QED BY <1>2, <1>10, <2>1
<1> QED BY <1>6, <1>11, <1>12

\* Numbers that are not negative add up to one that is not.
LEMMA SumIsNatural ==
  ASSUME NEW W, NEW S, IsFiniteSet(S), \A x \in S : W[x] \in Nat
  PROVE  Sum(W, S) \in Nat
<1> DEFINE Bad == {U \in SUBSET S : Sum(W, U) \notin Nat}
<1> SUFFICES ASSUME Bad # {} PROVE FALSE
  OBVIOUS
<1>1. PICK U \in Bad : \A V \in SUBSET S : V \subseteq U /\ V # U => V \notin Bad
  <2>1. Bad \subseteq SUBSET S
    OBVIOUS
  <2> HIDE DEF Bad
  <2> QED BY <2>1, LeastBad
<1>2. U \in SUBSET S /\ Sum(W, U) \notin Nat /\ IsFiniteSet(U)
  BY FS_Subset
<1>3. U # {}
  BY <1>2, SumOfNone
<1>4. Pick(U) \in U /\ U \ {Pick(U)} # U /\ U \ {Pick(U)} \in SUBSET S
  BY <1>2, <1>3, Picked
<1>5. Sum(W, U \ {Pick(U)}) \in Nat
  BY <1>1, <1>4
<1>6. Sum(W, U) = W[Pick(U)] + Sum(W, U \ {Pick(U)})
  BY <1>2, <1>3, SumPicked
<1>7. W[Pick(U)] \in Nat
  BY <1>2, <1>4
<1> QED BY <1>2, <1>5, <1>6, <1>7

LEMMA SumMonotone ==
  ASSUME NEW W, NEW S, IsFiniteSet(S), \A x \in S : W[x] \in Nat, NEW T \in SUBSET S
  PROVE  Sum(W, T) <= Sum(W, S)
<1>1. IsFiniteSet(T) /\ IsFiniteSet(S \ T) /\ T \cup (S \ T) = S /\ T \cap (S \ T) = {}
  BY FS_Subset
<1>2. /\ \A x \in T \cup (S \ T) : W[x] \in Int
      /\ (\A x \in T : W[x] \in Nat) /\ (\A x \in S \ T : W[x] \in Nat)
  OBVIOUS
<1>3. Sum(W, T \cup (S \ T)) = Sum(W, T) + Sum(W, S \ T)
  BY <1>1, <1>2, SumJoined
<1>4. Sum(W, T) \in Nat /\ Sum(W, S \ T) \in Nat
  BY <1>1, <1>2, SumIsNatural
<1>5. Sum(W, S) = Sum(W, T) + Sum(W, S \ T)
  BY <1>1, <1>3
<1> QED BY <1>4, <1>5

\* The fold of the community modules is the sum.
LEMMA FoldIsSum ==
  ASSUME NEW W, NEW S
  PROVE  FoldFunctionOnSet(+, 0, W, S) = Sum(W, S)
BY DEF FoldFunctionOnSet, MapThenFoldSet, Sum, Adder, AddsUp, Pick

-----------------------------------------------------------------------------
(* The directories above one stand in a row.                               *)

LEMMA AboveSplit ==
  ASSUME NEW x \in Dirs \ {Root}
  PROVE  Above[x] \subseteq {x} \cup Above[ParentOf(x)]
<1> DEFINE S == {x} \cup Above[ParentOf(x)]
<1>1. ParentOf(x) \in Dirs
  BY ParentSound
<1>2. S \in SUBSET Dirs /\ x \in S
  BY <1>1, AboveItself
<1>3. ASSUME NEW y \in S \ {Root} PROVE ParentOf(y) \in S
  <2>1. CASE y = x
    BY <2>1, <1>1, AboveItself
  <2>2. CASE y # x
    BY <2>2, <1>1, AboveStep
  <2> QED BY <2>1, <2>2
<1> HIDE DEF S
<1>4. Above[x] \subseteq S
  BY <1>2, <1>3, AboveLeast
<1> QED BY <1>4 DEF S

LEMMA AboveRow ==
  ASSUME NEW d \in Dirs, NEW x \in Above[d], NEW y \in Above[d]
  PROVE  x \in Above[y] \/ y \in Above[x]
<1> DEFINE S == {z \in Dirs : z \in Above[y] \/ y \in Above[z]}
<1>1. Above[d] \subseteq Dirs /\ d \in S
  BY AboveItself
<1>2. ASSUME NEW z \in S \ {Root} PROVE ParentOf(z) \in S
  <2>1. z \in Dirs \ {Root} /\ ParentOf(z) \in Dirs /\ y \in Dirs
    BY <1>1, ParentSound
  <2>2. CASE z \in Above[y]
    BY <2>1, <2>2, AboveStep
  <2>3. CASE z \notin Above[y]
    <3>1. y \in Above[z] /\ y # z
      BY <2>1, <2>3, AboveItself
    <3>2. y \in Above[ParentOf(z)]
      BY <2>1, <3>1, AboveSplit
    <3> QED BY <2>1, <3>2
  <2> QED BY <2>2, <2>3
<1>3. S \in SUBSET Dirs
  OBVIOUS
<1> HIDE DEF S
<1>4. Above[d] \subseteq S
  BY <1>1, <1>2, <1>3, AboveLeast
<1>5. x \in S
  BY <1>4
<1> QED BY <1>5 DEF S

LEMMA AboveRoot == Root \in Dirs /\ Above[Root] = {Root}
<1>1. Root \in Dirs
  BY TreeAssumption DEF TreeAssumption
<1>2. Above[Root] \subseteq {Root}
  BY <1>1, AboveLeast
<1> QED BY <1>1, <1>2, AboveItself

\* What is above a directory in the root is in the root, too, and not in itself.
LEMMA AboveRooted ==
  ASSUME NEW d \in Dirs, Root \in Above[d], NEW b \in Above[d]
  PROVE  b \in Dirs /\ Root \in Above[b] /\ (b # Root => ParentOf(b) # b)
<1>1. b \in Dirs
  BY AboveItself
<1>2. Root \in Above[b]
  BY AboveRow, AboveRoot, <1>1, AboveItself
<1>3. ASSUME b # Root, ParentOf(b) = b PROVE FALSE
  <2>1. Above[b] \subseteq {b}
    BY <1>1, <1>3, AboveLeast
  <2> QED BY <2>1, <1>2, <1>3
<1> QED BY <1>1, <1>2, <1>3

\* One goes up from one child at most.
LEMMA OneChildAbove ==
  ASSUME NEW d \in Dirs, Root \in Above[d], NEW b \in Above[d], NEW c \in Above[d],
         b # Root, c # Root, ParentOf(b) = ParentOf(c)
  PROVE  b = c
<1>1. ASSUME NEW x \in Above[d], NEW y \in Above[d], x # Root, y # Root,
             ParentOf(x) = ParentOf(y), y \in Above[x], x # y
      PROVE  FALSE
  <2>1. x \in Dirs \ {Root} /\ y \in Dirs \ {Root} /\ Root \in Above[y] /\ ParentOf(y) # y
    BY <1>1, AboveRooted
  <2>2. y \in Above[ParentOf(y)]
    BY <1>1, <2>1, AboveSplit
  <2>3. ParentOf(y) \in Above[y]
    BY <2>1, AboveItself, AboveStep
  <2>4. ParentOf(y) = y
    BY <2>1, <2>2, <2>3, NoLoop
  <2> QED BY <2>1, <2>4
<1> QED BY <1>1, AboveRow

-----------------------------------------------------------------------------
(* Totals as sums over the listed directories.                             *)

Fields == {"size", "dirs", "failed", "unread", "denied", "partial"}

\* The node's numbers are numbers.
IsCounted(n) ==
  n \in [own : Int, size : Int, dirs : Int, direct : Int, unread : Int, denied : Int,
         partial : Int, error : BOOLEAN, kids : Seq(Entries \X Nat)]

\* What a node says of all that is below it, named as in contributions.
Tallies(n) ==
  [size |-> n.size, dirs |-> n.dirs, failed |-> n.direct, unread |-> n.unread,
   denied |-> n.denied, partial |-> n.partial]

\* What of it does not come from child directories, of which there are dirs.
Base(own, locked, dirs) ==
  [size |-> own, dirs |-> dirs, failed |-> locked, unread |-> locked,
   denied |-> 0, partial |-> 0]

\* What the directories of S contribute, g being what each does.
SumOf(g, f, S) == Sum([e \in Dirs |-> g[e][f]], S)

IsRecount(n, locked, g, S) ==
  \A f \in Fields :
    Tallies(n)[f] = Base(n.own, locked, Cardinality(S))[f] + SumOf(g, f, S)

Numbers == [Fields -> Int]

LEMMA ContributionTyped ==
  ASSUME NEW n, IsCounted(n)
  PROVE  Contribution(n) \in Numbers /\ DOMAIN Contribution(n) = Fields
<1>1. /\ n.size \in Int /\ n.dirs \in Int /\ n.unread \in Int /\ n.denied \in Int
      /\ n.partial \in Int
  BY DEF IsCounted
<1>2. \A b : Flag(b) \in Int
  BY DEF Flag
<1>3. /\ n.unread + Flag(n.error) \in Int /\ n.denied + Flag(n.error) \in Int
      /\ n.partial + Flag(IsPartial(n)) \in Int
  BY <1>1, <1>2
<1>4. DOMAIN Contribution(n) = Fields
  BY DEF Contribution, Fields
<1>5. \A f \in Fields : Contribution(n)[f] \in Int
  BY <1>1, <1>2, <1>3 DEF Contribution, Fields
<1>6. Contribution(n) = [f \in Fields |-> Contribution(n)[f]]
  BY DEF Contribution, Fields
<1> QED BY <1>4, <1>5, <1>6 DEF Numbers

LEMMA SumOverIsSum ==
  ASSUME NEW W, NEW S, DOMAIN W = S
  PROVE  FoldFunction(+, 0, W) = Sum(W, S)
BY FoldIsSum DEF FoldFunction

\* A node with other totals.
Totalled(n, size, dirs, direct, unread, denied, partial) ==
  [n EXCEPT !.size = size, !.dirs = dirs, !.direct = direct, !.unread = unread,
            !.denied = denied, !.partial = partial]

LEMMA TotalledNode ==
  ASSUME NEW n, IsCounted(n), NEW size \in Int, NEW dirs \in Int, NEW direct \in Int,
         NEW unread \in Int, NEW denied \in Int, NEW partial \in Int
  PROVE  LET r == Totalled(n, size, dirs, direct, unread, denied, partial)
         IN /\ IsCounted(r) /\ r.own = n.own /\ r.error = n.error /\ r.kids = n.kids
            /\ r.direct = direct
            /\ Tallies(r) = [size |-> size, dirs |-> dirs, failed |-> direct,
                             unread |-> unread, denied |-> denied, partial |-> partial]
BY DEF Totalled, IsCounted, Tallies

\* heap holds the nodes of cur wherever the list of n leads.
Leads(n, heap, cur) ==
  /\ \A i, j \in DOMAIN n.kids : n.kids[i][1] = n.kids[j][1] => i = j
  /\ \A i \in DOMAIN n.kids : n.kids[i][1] \in Dirs =>
       /\ heap[n.kids[i][1]][n.kids[i][2]] = cur[n.kids[i][1]]
       /\ IsCounted(cur[n.kids[i][1]])

BroodOf(kids) == Range(NamesOf(kids)) \cap Dirs

\* What _recalculate_directory() computes.
LEMMA RecalculatedRecounts ==
  ASSUME NEW n, IsCounted(n), NEW heap, NEW cur, Leads(n, heap, cur)
  PROVE  LET r == Recalculated(n, heap)
             g == [d \in Dirs |-> Contribution(cur[d])]
         IN /\ IsCounted(r) /\ r.own = n.own /\ r.error = n.error /\ r.kids = n.kids
            /\ IsRecount(r, n.direct, g, BroodOf(n.kids))
<1> DEFINE D == {i \in DOMAIN n.kids : n.kids[i][1] \in Dirs}
           S == BroodOf(n.kids)
           g == [d \in Dirs |-> Contribution(cur[d])]
           m == [i \in D |-> n.kids[i][1]]
           K(i) == cur[n.kids[i][1]]
<1>1. /\ n.kids \in Seq(Entries \X Nat) /\ n.own \in Int /\ n.direct \in Int
      /\ IsFiniteSet(DOMAIN n.kids) /\ DOMAIN n.kids = 1..Len(n.kids)
  BY FS_Interval DEF IsCounted
<1>2. IsFiniteSet(D)
  BY <1>1, FS_Subset
<1>3. ASSUME NEW i \in D
      PROVE  /\ K(i) = heap[n.kids[i][1]][n.kids[i][2]] /\ IsCounted(K(i))
             /\ n.kids[i][1] \in Dirs /\ g[n.kids[i][1]] = Contribution(K(i))
  BY DEF Leads
<1>4. /\ {m[i] : i \in D} = S /\ \A i, j \in D : m[i] = m[j] => i = j
  <2>1. \A i \in D : m[i] = n.kids[i][1] /\ i \in DOMAIN n.kids
    OBVIOUS
  <2>2. \A i, j \in D : m[i] = m[j] => i = j
    BY <2>1 DEF Leads
  <2>3. S = {n.kids[i][1] : i \in DOMAIN n.kids} \cap Dirs
    BY DEF BroodOf, NamesOf, Range
  <2>4. {m[i] : i \in D} = {n.kids[i][1] : i \in D}
    BY <2>1
  <2>5. {n.kids[i][1] : i \in D} = {n.kids[i][1] : i \in DOMAIN n.kids} \cap Dirs
    OBVIOUS
  <2> HIDE DEF S, D, m
  <2> QED BY <2>2, <2>3, <2>4, <2>5
<1>5. Cardinality(D) = Cardinality(S) /\ Cardinality(D) \in Nat
  <2>1. DOMAIN m = D
    OBVIOUS
  <2> HIDE DEF m, D, S
  <2>2. Cardinality({m[i] : i \in D}) = Cardinality(D)
    BY <1>2, <1>4, <2>1, OncePlaces
  <2> QED BY <1>2, <1>4, <2>2, FS_CardinalityType
<1>6. ASSUME NEW W, NEW f \in Fields, \A i \in D : W[i] = Contribution(K(i))[f]
      PROVE  Sum(W, D) = SumOf(g, f, S) /\ SumOf(g, f, S) \in Int
  <2> DEFINE V == [e \in Dirs |-> g[e][f]]
  <2>1. \A i \in D : W[i] \in Int
    BY <1>3, <1>6, ContributionTyped DEF Numbers
  <2>2. \A i \in D : V[m[i]] = W[i]
    BY <1>3, <1>6
  <2>3. SumOf(g, f, S) = Sum(V, S)
    BY DEF SumOf
  <2> HIDE DEF V, m, D, S
  <2>4. Sum(W, D) = Sum(V, {m[i] : i \in D})
    BY <1>2, <1>4, <2>1, <2>2, SumAlong
  <2>5. Sum(W, D) \in Int
    BY <1>2, <2>1, SumIsNumber
  <2> QED BY <1>4, <2>3, <2>4, <2>5
<1> DEFINE ones    == [i \in D |-> 1]
           flags   == [i \in D |-> Flag(K(i).error)]
           sizes   == [i \in D |-> K(i).size]
           dirs    == [i \in D |-> K(i).dirs]
           subdirs == [i \in D |-> 1 + K(i).dirs]
           raw     == [i \in D |-> K(i).unread]
           unread  == [i \in D |-> K(i).unread + Flag(K(i).error)]
           denied  == [i \in D |-> Flag(K(i).error) + K(i).denied]
           partial == [i \in D |-> Flag(IsPartial(K(i))) + K(i).partial]
<1>7. ASSUME NEW i \in D
      PROVE  /\ K(i).size \in Int /\ K(i).dirs \in Int /\ K(i).unread \in Int
             /\ K(i).denied \in Int /\ K(i).partial \in Int /\ K(i).error \in BOOLEAN
  BY <1>3 DEF IsCounted
<1>8. ASSUME NEW i \in D
      PROVE  /\ sizes[i] = Contribution(K(i))["size"] /\ dirs[i] = Contribution(K(i))["dirs"]
             /\ flags[i] = Contribution(K(i))["failed"]
             /\ unread[i] = Contribution(K(i))["unread"]
             /\ denied[i] = Contribution(K(i))["denied"]
             /\ partial[i] = Contribution(K(i))["partial"]
  <2> DEFINE k == K(i)
  <2>1. /\ sizes[i] = k.size /\ dirs[i] = k.dirs /\ flags[i] = Flag(k.error)
        /\ unread[i] = k.unread + Flag(k.error)
        /\ denied[i] = Flag(k.error) + k.denied
        /\ partial[i] = Flag(IsPartial(k)) + k.partial
    OBVIOUS
  <2>2. k.denied \in Int /\ k.partial \in Int /\ Flag(k.error) \in Int /\ Flag(IsPartial(k)) \in Int
    BY <1>7 DEF Flag
  <2> HIDE DEF k, sizes, dirs, flags, unread, denied, partial
  <2>3. /\ Contribution(k)["size"] = k.size /\ Contribution(k)["dirs"] = k.dirs
        /\ Contribution(k)["failed"] = Flag(k.error)
        /\ Contribution(k)["unread"] = k.unread + Flag(k.error)
        /\ Contribution(k)["denied"] = k.denied + Flag(k.error)
        /\ Contribution(k)["partial"] = k.partial + Flag(IsPartial(k))
    BY DEF Contribution
  <2>4. denied[i] = k.denied + Flag(k.error) /\ partial[i] = k.partial + Flag(IsPartial(k))
    BY <2>1, <2>2
  <2>5. /\ sizes[i] = Contribution(k)["size"] /\ dirs[i] = Contribution(k)["dirs"]
        /\ flags[i] = Contribution(k)["failed"]
        /\ unread[i] = Contribution(k)["unread"]
        /\ denied[i] = Contribution(k)["denied"]
        /\ partial[i] = Contribution(k)["partial"]
    BY <2>1, <2>3, <2>4
  <2> QED BY <2>5 DEF k
<1>9. /\ Sum(sizes, D) = SumOf(g, "size", S) /\ SumOf(g, "size", S) \in Int
      /\ Sum(dirs, D) = SumOf(g, "dirs", S) /\ SumOf(g, "dirs", S) \in Int
      /\ Sum(flags, D) = SumOf(g, "failed", S) /\ SumOf(g, "failed", S) \in Int
      /\ Sum(unread, D) = SumOf(g, "unread", S) /\ SumOf(g, "unread", S) \in Int
      /\ Sum(denied, D) = SumOf(g, "denied", S) /\ SumOf(g, "denied", S) \in Int
      /\ Sum(partial, D) = SumOf(g, "partial", S) /\ SumOf(g, "partial", S) \in Int
  <2> HIDE DEF D, S, g, K, sizes, dirs, flags, unread, denied, partial
  <2>1. /\ "size" \in Fields /\ "dirs" \in Fields /\ "failed" \in Fields
        /\ "unread" \in Fields /\ "denied" \in Fields /\ "partial" \in Fields
    BY DEF Fields
  <2>2. Sum(sizes, D) = SumOf(g, "size", S) /\ SumOf(g, "size", S) \in Int
    BY <1>6, <1>8, <2>1
  <2>3. Sum(dirs, D) = SumOf(g, "dirs", S) /\ SumOf(g, "dirs", S) \in Int
    BY <1>6, <1>8, <2>1
  <2>4. Sum(flags, D) = SumOf(g, "failed", S) /\ SumOf(g, "failed", S) \in Int
    BY <1>6, <1>8, <2>1
  <2>5. Sum(unread, D) = SumOf(g, "unread", S) /\ SumOf(g, "unread", S) \in Int
    BY <1>6, <1>8, <2>1
  <2>6. Sum(denied, D) = SumOf(g, "denied", S) /\ SumOf(g, "denied", S) \in Int
    BY <1>6, <1>8, <2>1
  <2>7. Sum(partial, D) = SumOf(g, "partial", S) /\ SumOf(g, "partial", S) \in Int
    BY <1>6, <1>8, <2>1
  <2> QED BY <2>2, <2>3, <2>4, <2>5, <2>6, <2>7
<1>10. Sum(subdirs, D) = Cardinality(S) + SumOf(g, "dirs", S)
  <2>1. /\ \A i \in D : ones[i] \in {0, 1} /\ ones[i] = 1
        /\ \A i \in D : ones[i] \in Int /\ dirs[i] \in Int /\ subdirs[i] = ones[i] + dirs[i]
    BY <1>7
  <2>2. {i \in D : ones[i] = 1} = D
    OBVIOUS
  <2> HIDE DEF D, S, ones, dirs, subdirs
  <2>3. Sum(ones, D) = Cardinality(D)
    BY <1>2, <2>1, <2>2, SumCounts
  <2>4. Sum(subdirs, D) = Sum(ones, D) + Sum(dirs, D)
    BY <1>2, <2>1, SumPlus
  <2> QED BY <1>5, <1>9, <2>3, <2>4
<1>11. Sum(flags, D) = Cardinality({i \in D : K(i).error})
  <2>1. \A i \in D : flags[i] \in {0, 1}
    BY DEF Flag
  <2>2. {i \in D : flags[i] = 1} = {i \in D : K(i).error}
    BY <1>7 DEF Flag
  <2> HIDE DEF D, flags, K
  <2> QED BY <1>2, <2>1, <2>2, SumCounts
<1>12. Sum(unread, D) = Sum(flags, D) + Sum(raw, D) /\ Sum(raw, D) \in Int
  <2>1. \A i \in D : flags[i] \in Int /\ raw[i] \in Int /\ unread[i] = flags[i] + raw[i]
    <3>1. ASSUME NEW i \in D
          PROVE  flags[i] \in Int /\ raw[i] \in Int /\ unread[i] = flags[i] + raw[i]
      <4>1. flags[i] = Flag(K(i).error) /\ raw[i] = K(i).unread
            /\ unread[i] = K(i).unread + Flag(K(i).error)
        OBVIOUS
      <4>2. Flag(K(i).error) \in Int /\ K(i).unread \in Int
        BY <1>7 DEF Flag
      <4> HIDE DEF flags, raw, unread, K
      <4> QED BY <4>1, <4>2
    <3> QED BY <3>1
  <2> HIDE DEF D, flags, raw, unread
  <2> QED BY <1>2, <2>1, SumPlus, SumIsNumber
<1>13. Recalculated(n, heap) =
         Totalled(n, n.own + Sum(sizes, D), Sum(subdirs, D), n.direct + Sum(flags, D),
                  n.direct + Sum(flags, D) + Sum(raw, D), Sum(denied, D), Sum(partial, D))
  <2> DEFINE H(i) == heap[n.kids[i][1]][n.kids[i][2]]
  <2>1. \A i \in D : H(i) = K(i)
    BY <1>3
  <2>2. {i \in D : H(i).error} = {i \in D : K(i).error}
    BY <2>1
  <2>3. /\ [i \in D |-> H(i).size] = sizes /\ [i \in D |-> 1 + H(i).dirs] = subdirs
        /\ [i \in D |-> H(i).unread] = raw
        /\ [i \in D |-> Flag(H(i).error) + H(i).denied] = denied
        /\ [i \in D |-> Flag(IsPartial(H(i))) + H(i).partial] = partial
    BY <2>1
  <2>4. Recalculated(n, heap) =
         Totalled(n, n.own + SumOver(D, LAMBDA i : H(i).size), SumOver(D, LAMBDA i : 1 + H(i).dirs),
                  n.direct + Cardinality({i \in D : H(i).error}),
                  n.direct + Cardinality({i \in D : H(i).error}) + SumOver(D, LAMBDA i : H(i).unread),
                  SumOver(D, LAMBDA i : Flag(H(i).error) + H(i).denied),
                  SumOver(D, LAMBDA i : Flag(IsPartial(H(i))) + H(i).partial))
    BY DEF Recalculated, Totalled
  <2>5. /\ SumOver(D, LAMBDA i : H(i).size) = FoldFunction(+, 0, [i \in D |-> H(i).size])
        /\ SumOver(D, LAMBDA i : 1 + H(i).dirs) = FoldFunction(+, 0, [i \in D |-> 1 + H(i).dirs])
        /\ SumOver(D, LAMBDA i : H(i).unread) = FoldFunction(+, 0, [i \in D |-> H(i).unread])
        /\ SumOver(D, LAMBDA i : Flag(H(i).error) + H(i).denied) =
             FoldFunction(+, 0, [i \in D |-> Flag(H(i).error) + H(i).denied])
        /\ SumOver(D, LAMBDA i : Flag(IsPartial(H(i))) + H(i).partial) =
             FoldFunction(+, 0, [i \in D |-> Flag(IsPartial(H(i))) + H(i).partial])
    BY DEF SumOver
  <2>6. /\ DOMAIN sizes = D /\ DOMAIN subdirs = D /\ DOMAIN raw = D /\ DOMAIN denied = D
        /\ DOMAIN partial = D
    OBVIOUS
  <2> HIDE DEF D, S, sizes, subdirs, raw, denied, partial, H, K
  <2>7. /\ FoldFunction(+, 0, sizes) = Sum(sizes, D) /\ FoldFunction(+, 0, subdirs) = Sum(subdirs, D)
        /\ FoldFunction(+, 0, raw) = Sum(raw, D) /\ FoldFunction(+, 0, denied) = Sum(denied, D)
        /\ FoldFunction(+, 0, partial) = Sum(partial, D)
    BY <2>6, SumOverIsSum
  <2> QED BY <1>11, <2>2, <2>3, <2>4, <2>5, <2>7
<1> HIDE DEF D, S, g, sizes, dirs, flags, unread, denied, partial, raw, subdirs
<1> DEFINE r == Recalculated(n, heap)
           full == SumOf(g, "unread", S)
<1>14. /\ n.own + Sum(sizes, D) \in Int /\ Sum(subdirs, D) \in Int
       /\ n.direct + Sum(flags, D) \in Int
       /\ n.direct + Sum(flags, D) + Sum(raw, D) = n.direct + full
       /\ n.direct + full \in Int /\ Sum(denied, D) \in Int /\ Sum(partial, D) \in Int
  <2>1. Sum(flags, D) \in Int /\ Sum(raw, D) \in Int /\ full \in Int /\ n.direct \in Int
    BY <1>1, <1>9, <1>12
  <2>2. full = Sum(flags, D) + Sum(raw, D)
    BY <1>9, <1>12
  <2> HIDE DEF full
  <2>3. n.direct + Sum(flags, D) + Sum(raw, D) = n.direct + full /\ n.direct + full \in Int
    BY <2>1, <2>2
  <2>4. Sum(subdirs, D) \in Int /\ n.own + Sum(sizes, D) \in Int /\ n.direct + Sum(flags, D) \in Int
    BY <1>1, <1>5, <1>9, <1>10
  <2> QED BY <1>9, <2>3, <2>4
<1>15. /\ IsCounted(r) /\ r.own = n.own /\ r.error = n.error /\ r.kids = n.kids
       /\ Tallies(r) = [size |-> n.own + Sum(sizes, D), dirs |-> Sum(subdirs, D),
                        failed |-> n.direct + Sum(flags, D), unread |-> n.direct + full,
                        denied |-> Sum(denied, D), partial |-> Sum(partial, D)]
  <2> HIDE DEF full
  <2>1. r = Totalled(n, n.own + Sum(sizes, D), Sum(subdirs, D), n.direct + Sum(flags, D),
                     n.direct + full, Sum(denied, D), Sum(partial, D))
    BY <1>13, <1>14
  <2> HIDE DEF r
  <2> QED BY <1>14, <2>1, TotalledNode
<1>16. IsRecount(r, n.direct, g, S)
  <2> HIDE DEF r
  <2>1. ASSUME NEW f \in Fields
        PROVE  Tallies(r)[f] = Base(r.own, n.direct, Cardinality(S))[f] + SumOf(g, f, S)
    <3>1. f \in {"size", "dirs", "failed", "unread", "denied", "partial"}
      BY DEF Fields
    <3>2. CASE f = "size"
      BY <3>2, <1>9, <1>15 DEF Base
    <3>3. CASE f = "dirs"
      BY <3>3, <1>10, <1>15 DEF Base
    <3>4. CASE f = "failed"
      BY <3>4, <1>9, <1>15 DEF Base
    <3>5. CASE f = "unread"
      BY <3>5, <1>9, <1>15 DEF Base
    <3>6. CASE f = "denied"
      BY <3>6, <1>9, <1>15 DEF Base
    <3>7. CASE f = "partial"
      BY <3>7, <1>9, <1>15 DEF Base
    <3> QED BY <3>1, <3>2, <3>3, <3>4, <3>5, <3>6, <3>7
  <2> QED BY <2>1 DEF IsRecount
<1> QED BY <1>15, <1>16 DEF g, S

-----------------------------------------------------------------------------
(* Sums over child directories.                                            *)

LEMMA DirsFinite == ASSUME NEW S \in SUBSET Dirs PROVE IsFiniteSet(S)
BY FS_Subset, TreeAssumption DEF TreeAssumption

LEMMA SumOfTyped ==
  ASSUME NEW S \in SUBSET Dirs, NEW f \in Fields, NEW g, \A e \in S : g[e] \in Numbers
  PROVE  SumOf(g, f, S) \in Int
<1> DEFINE W == [e \in Dirs |-> g[e][f]]
<1>1. IsFiniteSet(S) /\ \A e \in S : W[e] \in Int
  BY DirsFinite DEF Numbers
<1> HIDE DEF W
<1>2. Sum(W, S) \in Int
  BY <1>1, SumIsNumber
<1> QED BY <1>2 DEF SumOf, W

LEMMA SumOfSame ==
  ASSUME NEW S \in SUBSET Dirs, NEW f \in Fields, NEW g, \A e \in S : g[e] \in Numbers,
         NEW h, \A e \in S : h[e][f] = g[e][f]
  PROVE  SumOf(h, f, S) = SumOf(g, f, S)
<1> DEFINE W == [e \in Dirs |-> g[e][f]]
           V == [e \in Dirs |-> h[e][f]]
<1>1. IsFiniteSet(S) /\ (\A e \in S : W[e] \in Int) /\ \A e \in S : V[e] = W[e]
  BY DirsFinite DEF Numbers
<1> HIDE DEF W, V
<1>2. Sum(W, S) = Sum(V, S)
  BY <1>1, SumSame
<1> QED BY <1>2 DEF SumOf, W, V

LEMMA SumOfMoved ==
  ASSUME NEW S \in SUBSET Dirs, NEW f \in Fields, NEW g, \A e \in S : g[e] \in Numbers,
         NEW b \in S, NEW h, \A e \in S \ {b} : h[e][f] = g[e][f], h[b] \in Numbers
  PROVE  SumOf(h, f, S) = SumOf(g, f, S) + (h[b][f] - g[b][f])
<1> DEFINE W == [e \in Dirs |-> g[e][f]]
           V == [e \in Dirs |-> h[e][f]]
<1>1. /\ IsFiniteSet(S) /\ (\A e \in S : W[e] \in Int) /\ \A e \in S \ {b} : V[e] = W[e]
      /\ V[b] \in Int /\ V[b] = h[b][f] /\ W[b] = g[b][f]
  BY DirsFinite DEF Numbers
<1> HIDE DEF W, V
<1>2. Sum(V, S) = Sum(W, S) + (V[b] - W[b])
  BY <1>1, SumMoved
<1> QED BY <1>1, <1>2 DEF SumOf, W, V

Numbered(g, S) == \A e \in S : g[e] \in Numbers

\* New child directories that bring nothing.
LEMMA SumOfMore ==
  ASSUME NEW S \in SUBSET Dirs, NEW T \in SUBSET Dirs, S \cap T = {}, NEW f \in Fields,
         NEW g, Numbered(g, S), Numbered(g, T), \A e \in T : g[e][f] = 0
  PROVE  SumOf(g, f, S \cup T) = SumOf(g, f, S)
<1> DEFINE W == [e \in Dirs |-> g[e][f]]
<1>1. /\ IsFiniteSet(S) /\ IsFiniteSet(T) /\ (\A e \in S \cup T : W[e] \in Int)
      /\ \A e \in T : W[e] = 0
  BY DirsFinite DEF Numbers, Numbered
<1> HIDE DEF W
<1>2. Sum(W, S \cup T) = Sum(W, S) + Sum(W, T)
  BY <1>1, SumJoined
<1>3. Sum(W, T) = 0
  <2>1. Sum(W, T) = Cardinality({e \in T : W[e] = 1})
    BY <1>1, SumCounts
  <2>2. {e \in T : W[e] = 1} = {}
    BY <1>1
  <2> QED BY <2>1, <2>2, FS_EmptySet
<1>4. Sum(W, S) \in Int
  BY <1>1, SumIsNumber
<1> QED BY <1>2, <1>3, <1>4 DEF SumOf, W

-----------------------------------------------------------------------------
(* Totals of a tree.                                                       *)

Brood(t, d) == BroodOf(Kids(t, d))
Given(t) == [d \in Dirs |-> Contribution(Current(t, d))]
CountedTree(t) == \A d \in Dirs : IsCounted(Current(t, d)) /\ t.at[d].locked \in Int

\* Every directory's totals are those of a recount of what g says.
Recounted(t, g) ==
  \A d \in Dirs : IsRecount(Current(t, d), t.at[d].locked, g, Brood(t, d))

LEMMA GivenTyped ==
  ASSUME NEW t, CountedTree(t)
  PROVE  \A d \in Dirs : Given(t)[d] \in Numbers /\ Given(t)[d] = Contribution(Current(t, d))
BY ContributionTyped DEF CountedTree, Given

\* The same node but for its list.
Kin(n, m) == \E kids \in Seq(Entries \X Nat) : m = [n EXCEPT !.kids = kids]

LEMMA KinSame ==
  ASSUME NEW n, IsCounted(n), NEW m, Kin(n, m)
  PROVE  /\ IsCounted(m) /\ Tallies(m) = Tallies(n) /\ Contribution(m) = Contribution(n)
         /\ m.own = n.own /\ m.error = n.error /\ m.direct = n.direct
         /\ m = [n EXCEPT !.kids = m.kids]
<1>1. PICK kids \in Seq(Entries \X Nat) : m = [n EXCEPT !.kids = kids]
  BY DEF Kin
<1>2. /\ IsCounted(m) /\ m.kids = kids
      /\ m.size = n.size /\ m.dirs = n.dirs /\ m.direct = n.direct /\ m.unread = n.unread
      /\ m.denied = n.denied /\ m.partial = n.partial /\ m.own = n.own /\ m.error = n.error
  BY <1>1 DEF IsCounted
<1>3. Tallies(m) = Tallies(n)
  BY <1>2 DEF Tallies
<1>4. Contribution(m) = Contribution(n)
  BY <1>2 DEF Contribution, IsPartial
<1> QED BY <1>1, <1>2, <1>3, <1>4

LEMMA KinItself ==
  ASSUME NEW n, IsCounted(n)
  PROVE  Kin(n, n)
BY DEF Kin, IsCounted

LEMMA KinOn ==
  ASSUME NEW n, IsCounted(n), NEW m, NEW l, Kin(n, m), Kin(m, l)
  PROVE  Kin(n, l)
<1>1. PICK kids \in Seq(Entries \X Nat) : m = [n EXCEPT !.kids = kids]
  BY DEF Kin
<1>2. PICK list \in Seq(Entries \X Nat) : l = [m EXCEPT !.kids = list]
  BY DEF Kin
<1>3. l = [n EXCEPT !.kids = list]
  BY <1>1, <1>2 DEF IsCounted
<1> QED BY <1>3 DEF Kin

\* Lists may be others, but name the same directories.
Relisted(t, u) ==
  \A d \in Dirs :
    /\ Kin(Current(t, d), Current(u, d)) /\ Brood(u, d) = Brood(t, d)
    /\ u.at[d].locked = t.at[d].locked

LEMMA RelistedOn ==
  ASSUME NEW t, CountedTree(t), NEW u, NEW v, Relisted(t, u), Relisted(u, v)
  PROVE  Relisted(t, v)
BY KinOn DEF Relisted, CountedTree

LEMMA RelistedTotals ==
  ASSUME NEW t, CountedTree(t), NEW u, Relisted(t, u)
  PROVE  /\ CountedTree(u) /\ Given(u) = Given(t)
         /\ \A g : Recounted(t, g) => Recounted(u, g)
<1>1. ASSUME NEW d \in Dirs
      PROVE  /\ IsCounted(Current(u, d)) /\ Tallies(Current(u, d)) = Tallies(Current(t, d))
             /\ Contribution(Current(u, d)) = Contribution(Current(t, d))
             /\ Current(u, d).own = Current(t, d).own
             /\ u.at[d].locked = t.at[d].locked /\ t.at[d].locked \in Int
             /\ Brood(u, d) = Brood(t, d)
  BY KinSame DEF Relisted, CountedTree
<1>2. CountedTree(u)
  BY <1>1 DEF CountedTree
<1>3. Given(u) = Given(t)
  BY <1>1 DEF Given
<1>4. ASSUME NEW g, Recounted(t, g) PROVE Recounted(u, g)
  BY <1>1, <1>4 DEF Recounted, IsRecount
<1> QED BY <1>2, <1>3, <1>4

LEMMA LinkedRelists ==
  ASSUME NEW t, Formed(t), ShapeSound(Shape(t)), CountedTree(t), NEW S \in SUBSET Active(t)
  PROVE  Relisted(t, Linked(t, S))
<1> DEFINE new == [d \in Dirs |-> [Current(t, d) EXCEPT !.kids = LinkedKids(t, S, d)]]
           u == Linked(t, S)
<1>1. u = Written(t, new)
  BY DEF Linked, LinkedKids, Kids
<1>2. ASSUME NEW d \in Dirs
      PROVE  /\ IsNode(new[d]) /\ Kin(Current(t, d), new[d])
             /\ NamesOf(new[d].kids) = Names(t, d)
  <2>1. IsNode(Current(t, d))
    BY CurrentNode
  <2>2. /\ LinkedKids(t, S, d) \in Seq(Entries \X Nat)
        /\ NamesOf(LinkedKids(t, S, d)) = Names(t, d)
    BY LinkedNames
  <2>3. new[d] = [Current(t, d) EXCEPT !.kids = LinkedKids(t, S, d)]
    OBVIOUS
  <2> DEFINE n == Current(t, d)
             l == LinkedKids(t, S, d)
  <2> HIDE DEF new, n, l
  <2>4. IsNode([n EXCEPT !.kids = l]) /\ [n EXCEPT !.kids = l].kids = l
    BY <2>1, <2>2, KidsNode DEF n, l
  <2>5. Kin(n, [n EXCEPT !.kids = l])
    BY <2>2 DEF Kin, l
  <2> QED BY <2>2, <2>3, <2>4, <2>5 DEF n, l
<1> HIDE DEF new, u
<1>3. Rewrites(t, u, new)
  BY <1>1, <1>2, WrittenRewrites
<1>4. ASSUME NEW d \in Dirs
      PROVE  /\ Kin(Current(t, d), Current(u, d)) /\ Brood(u, d) = Brood(t, d)
             /\ u.at[d].locked = t.at[d].locked
  <2>1. Current(u, d) = new[d] /\ u.at = t.at
    BY <1>3 DEF Rewrites
  <2>2. NamesOf(Kids(u, d)) = NamesOf(Kids(t, d))
    BY <2>1, <1>2 DEF Kids, Names
  <2> QED BY <2>1, <2>2, <1>2 DEF Brood, BroodOf
<1> QED BY <1>4 DEF Relisted, u

LEMMA EnsuredRelists ==
  ASSUME NEW t, Sound(t), CountedTree(t), NEW d \in Active(t)
  PROVE  Relisted(t, EnsureMutable(t, d))
<1> DEFINE S == AboveWhile(d, Stales(t))
           u == Copied(t, S)
<1>1. S \in SUBSET Active(t)
  <2>1. Above[d] \subseteq Active(t) /\ d \in Dirs
    BY ActiveAbove
  <2> QED BY <2>1, WhileSound
<1>2. EnsureMutable(t, d) = Linked(u, S)
  BY DEF EnsureMutable, Cloned, Copied
<1>3. /\ Quiet(t, u)
      /\ \A e \in Dirs : Current(u, e) = Current(t, e)
  <2> HIDE DEF S
  <2> QED BY <1>1, Copying
<1>4. \A e \in Dirs : u.at[e].locked = t.at[e].locked
  BY DEF Copied, Sound, Formed, IsTree, IsState
<1> HIDE DEF S, u
<1>5. Relisted(t, u)
  BY <1>3, <1>4, KinItself DEF Relisted, CountedTree, Brood, Kids
<1>6. CountedTree(u)
  BY <1>5, RelistedTotals
<1>7. Formed(u) /\ ShapeSound(Shape(u)) /\ S \in SUBSET Active(u)
  BY <1>1, <1>3, QuietActive DEF Quiet, Sound
<1>8. Relisted(u, Linked(u, S))
  BY <1>6, <1>7, LinkedRelists
<1> QED BY <1>2, <1>5, <1>8, RelistedOn

-----------------------------------------------------------------------------
(* Adding differences.                                                     *)

LEMMA ShiftedTotals ==
  ASSUME NEW n, IsCounted(n), NEW by \in Numbers, NEW failed \in Int
  PROVE  LET r == Shifted(n, by, failed)
         IN /\ IsCounted(r) /\ r.own = n.own /\ r.error = n.error /\ r.kids = n.kids
            /\ r.direct = n.direct + failed
            /\ \A f \in Fields :
                 Tallies(r)[f] = Tallies(n)[f] + (IF f = "failed" THEN failed ELSE by[f])
<1> DEFINE r == Shifted(n, by, failed)
<1>1. /\ by["size"] \in Int /\ by["dirs"] \in Int /\ by["failed"] \in Int
      /\ by["unread"] \in Int /\ by["denied"] \in Int /\ by["partial"] \in Int
  BY DEF Numbers, Fields
<1>2. /\ n.size \in Int /\ n.dirs \in Int /\ n.direct \in Int /\ n.unread \in Int
      /\ n.denied \in Int /\ n.partial \in Int
  BY DEF IsCounted
<1>3. r = Totalled(n, n.size + by.size, n.dirs + by.dirs, n.direct + failed,
                   n.unread + by.unread, n.denied + by.denied, n.partial + by.partial)
  BY DEF Shifted, Totalled
<1>4. /\ n.size + by.size \in Int /\ n.dirs + by.dirs \in Int /\ n.direct + failed \in Int
      /\ n.unread + by.unread \in Int /\ n.denied + by.denied \in Int
      /\ n.partial + by.partial \in Int
  BY <1>1, <1>2
<1> HIDE DEF r
<1>5. /\ IsCounted(r) /\ r.own = n.own /\ r.error = n.error /\ r.kids = n.kids
      /\ r.direct = n.direct + failed
      /\ Tallies(r) = [size |-> n.size + by.size, dirs |-> n.dirs + by.dirs,
                       failed |-> n.direct + failed, unread |-> n.unread + by.unread,
                       denied |-> n.denied + by.denied, partial |-> n.partial + by.partial]
  BY <1>3, <1>4, TotalledNode
<1>6. \A f \in Fields :
        Tallies(r)[f] = Tallies(n)[f] + (IF f = "failed" THEN failed ELSE by[f])
  <2>1. ASSUME NEW f \in Fields
        PROVE  Tallies(r)[f] = Tallies(n)[f] + (IF f = "failed" THEN failed ELSE by[f])
    <3>1. f \in {"size", "dirs", "failed", "unread", "denied", "partial"}
      BY DEF Fields
    <3>2. Tallies(n) = [size |-> n.size, dirs |-> n.dirs, failed |-> n.direct,
                        unread |-> n.unread, denied |-> n.denied, partial |-> n.partial]
      BY DEF Tallies
    <3> QED BY <1>5, <3>1, <3>2
  <2> QED BY <2>1
<1> QED BY <1>5, <1>6 DEF r

\* What a directory's own contribution becomes.
LEMMA ShiftedContribution ==
  ASSUME NEW n, IsCounted(n), NEW by \in Numbers, NEW failed \in Int, NEW f \in Fields
  PROVE  LET r == Shifted(n, by, failed)
         IN Contribution(r)[f] - Contribution(n)[f] =
              CASE f = "failed"  -> 0
                [] f = "partial" -> by[f] + (Flag(IsPartial(r)) - Flag(IsPartial(n)))
                [] OTHER         -> by[f]
<1> DEFINE r == Shifted(n, by, failed)
<1>1. /\ IsCounted(r) /\ r.error = n.error
      /\ \A g \in Fields :
           Tallies(r)[g] = Tallies(n)[g] + (IF g = "failed" THEN failed ELSE by[g])
  BY ShiftedTotals
<1>2. /\ n.size \in Int /\ n.dirs \in Int /\ n.direct \in Int /\ n.unread \in Int
      /\ n.denied \in Int /\ n.partial \in Int
  BY DEF IsCounted
<1>3. /\ by["size"] \in Int /\ by["dirs"] \in Int /\ by["failed"] \in Int
      /\ by["unread"] \in Int /\ by["denied"] \in Int /\ by["partial"] \in Int
  BY DEF Numbers, Fields
<1>4. \A b : Flag(b) \in Int
  BY DEF Flag
<1> HIDE DEF r
<1>5. /\ r.size = n.size + by["size"] /\ r.dirs = n.dirs + by["dirs"]
      /\ r.unread = n.unread + by["unread"] /\ r.denied = n.denied + by["denied"]
      /\ r.partial = n.partial + by["partial"]
  BY <1>1 DEF Tallies, Fields
<1> DEFINE fr == Flag(r.error)
           pr == Flag(IsPartial(r))
           pn == Flag(IsPartial(n))
<1>6. /\ fr \in Int /\ pr \in Int /\ pn \in Int /\ fr = Flag(n.error)
  BY <1>1, <1>4
<1>7. /\ Contribution(n) = [size |-> n.size, dirs |-> n.dirs, failed |-> fr,
                            unread |-> n.unread + fr, denied |-> n.denied + fr,
                            partial |-> n.partial + pn]
      /\ Contribution(r) = [size |-> r.size, dirs |-> r.dirs, failed |-> fr,
                            unread |-> r.unread + fr, denied |-> r.denied + fr,
                            partial |-> r.partial + pr]
  BY <1>6 DEF Contribution
<1> HIDE DEF fr, pr, pn
<1>8. f \in {"size", "dirs", "failed", "unread", "denied", "partial"}
  BY DEF Fields
<1>9. Contribution(r)[f] - Contribution(n)[f] =
              CASE f = "failed"  -> 0
                [] f = "partial" -> by[f] + (pr - pn)
                [] OTHER         -> by[f]
  <2>1. CASE f = "size"
    BY <2>1, <1>2, <1>3, <1>5, <1>6, <1>7
  <2>2. CASE f = "dirs"
    BY <2>2, <1>2, <1>3, <1>5, <1>6, <1>7
  <2>3. CASE f = "failed"
    BY <2>3, <1>2, <1>3, <1>5, <1>6, <1>7
  <2>4. CASE f = "unread"
    BY <2>4, <1>2, <1>3, <1>5, <1>6, <1>7
  <2>5. CASE f = "denied"
    BY <2>5, <1>2, <1>3, <1>5, <1>6, <1>7
  <2>6. CASE f = "partial"
    BY <2>6, <1>2, <1>3, <1>5, <1>6, <1>7
  <2> QED BY <1>8, <2>1, <2>2, <2>3, <2>4, <2>5, <2>6
<1> QED BY <1>9 DEF r, pr, pn

\* An ancestor that does not count a failed entry of its own stays as partial as
\* it was.
LEMMA ShiftedPartial ==
  ASSUME NEW n, IsCounted(n), NEW by \in Numbers
  PROVE  IsPartial(Shifted(n, by, 0)) = IsPartial(n)
<1>1. Shifted(n, by, 0).error = n.error /\ Shifted(n, by, 0).direct = n.direct + 0
  BY ShiftedTotals
<1>2. n.direct \in Int
  BY DEF IsCounted
<1> QED BY <1>1, <1>2 DEF IsPartial

\* The differences that reach up, and those that reach what is above it.
Risen(by, turn) == [by EXCEPT !.partial = @ + turn]
Above1(by, turn) == [f \in Fields |-> IF f = "failed" THEN 0
                                      ELSE IF f = "partial" THEN by[f] + turn ELSE by[f]]

LEMMA RisenTyped ==
  ASSUME NEW by \in Numbers, NEW turn \in Int
  PROVE  /\ Risen(by, turn) \in Numbers /\ Above1(by, turn) \in Numbers
         /\ \A f \in Fields : f # "failed" => Risen(by, turn)[f] = Above1(by, turn)[f]
         /\ Above1(by, turn)["failed"] = 0
<1>1. \A f \in Fields : by[f] \in Int
  BY DEF Numbers
<1>2. DOMAIN by = Fields /\ "partial" \in Fields /\ "failed" \in Fields
  BY DEF Numbers, Fields
<1>3. Above1(by, turn) \in Numbers
  BY <1>1 DEF Above1, Numbers
<1>4. \A f \in Fields : Risen(by, turn)[f] = IF f = "partial" THEN by[f] + turn ELSE by[f]
  BY <1>2 DEF Risen
<1>5. Risen(by, turn) \in Numbers
  BY <1>1, <1>2 DEF Risen, Numbers
<1> QED BY <1>2, <1>3, <1>4, <1>5 DEF Above1

\* The child directories of another directory than its parent.
LEMMA BroodParents ==
  ASSUME NEW t, Formed(t), ShapeSound(Shape(t)), NEW p \in Dirs, NEW e \in Brood(t, p)
  PROVE  e \in Dirs \ {Root} /\ ParentOf(e) = p /\ Brood(t, p) \in SUBSET Dirs
<1>1. Brood(t, p) \in SUBSET Dirs /\ e \in Dirs
  BY DEF Brood, BroodOf
<1>2. e \in Range(Names(t, p)) /\ Shape(t).names[p] = Names(t, p)
  BY DEF Brood, BroodOf, Names, Shape
<1>3. e \in Range(Listing[p])
  BY <1>2 DEF ShapeSound, NamesSound, NamesSoundAt, EntriesOf, Range
<1> QED BY <1>1, <1>3, OneParent

\* What stays of the nodes when totals are added to those from d up.
Added(t, u, d) ==
  /\ CountedTree(u)
  /\ \A a \in Dirs :
       /\ Current(u, a).own = Current(t, a).own /\ Current(u, a).error = Current(t, a).error
       /\ Brood(u, a) = Brood(t, a)
       /\ Range(Names(u, a)) = Range(Names(t, a)) /\ u.at[a].locked = t.at[a].locked
       /\ a \notin Above[d] => Kin(Current(t, a), Current(u, a))

\* g is what directories were taken to contribute; d's is out of date in it.
Outdated(t, g, d) == \A e \in Dirs : g[e] \in Numbers /\ (e # d => g[e] = Given(t)[e])

LEMMA RaisingTotals ==
  ASSUME NEW t, Sound(t), CountedTree(t), NEW d \in Active(t) \ {Root}, Root \in Above[d],
         NEW g, Outdated(t, g, d), Recounted(t, g),
         NEW by \in Numbers, \A f \in Fields : by[f] = Given(t)[d][f] - g[d][f]
  PROVE  LET up     == ParentOf(d)
             parent == Shifted(Current(t, up), by, by["failed"])
             turn   == Flag(IsPartial(parent)) - Flag(IsPartial(Current(t, up)))
             u      == Raised(t, up, parent, Risen(by, turn))
         IN Added(t, u, up) /\ Recounted(u, Given(u))
<1> DEFINE up     == ParentOf(d)
           parent == Shifted(Current(t, up), by, by["failed"])
           turn   == Flag(IsPartial(parent)) - Flag(IsPartial(Current(t, up)))
           above  == Risen(by, turn)
           lift   == Above1(by, turn)
           new    == [a \in Dirs |-> IF a = up THEN parent
                       ELSE IF a \in Above[up] THEN Shifted(Current(t, a), above, 0)
                       ELSE Current(t, a)]
           u      == Raised(t, up, parent, above)
<1>1. /\ d \in Dirs /\ up \in Active(t) /\ up \in Dirs /\ d \in Brood(t, up)
      /\ up \in Above[d] /\ Above[up] \subseteq Above[d] /\ Above[up] \subseteq Active(t)
      /\ up \in Above[up] /\ Root \in Above[up]
  <2>1. d \in Dirs \ {Root} /\ ParentOf(d) \in Active(t) /\ ParentOf(d) \in Dirs
    BY PlaceOf DEF Sound, Active, Out
  <2>2. d \in Range(Names(t, up))
    <3>1. d \in Out(Shape(t)) \ {Root}
      BY DEF Active
    <3>2. d \in Range(Shape(t).names[ParentOf(d)])
      BY <3>1, OutListed DEF Sound, ShapeSound
    <3> QED BY <2>1, <3>2, ShapeOf DEF Sound
  <2>3. d \in Brood(t, up)
    BY <2>1, <2>2 DEF Brood, BroodOf, Names
  <2>4. ParentOf(d) \in Above[d]
    BY <2>1, AboveItself, AboveStep
  <2>5. Above[up] \subseteq Above[d]
    BY <2>1, <2>4, AboveThrough
  <2>6. Root \in Above[up]
    BY <2>1, <2>4, AboveRooted
  <2> QED BY <2>1, <2>3, <2>4, <2>5, <2>6, ActiveAbove, AboveItself
<1>2. d \notin Above[up]
  <2>1. ASSUME d \in Above[up] PROVE FALSE
    <3>1. up = d
      BY <1>1, <2>1, NoLoop
    <3> QED BY <3>1, <1>1, AboveItself, AboveRooted
  <2> QED BY <2>1
<1>3. /\ \A a \in Dirs : IsCounted(Current(t, a)) /\ t.at[a].locked \in Int
      /\ by["failed"] \in Int /\ turn \in Int /\ above \in Numbers /\ lift \in Numbers
      /\ \A f \in Fields : f # "failed" => above[f] = lift[f]
      /\ lift["failed"] = 0
  <2>1. by["failed"] \in Int /\ turn \in Int
    BY DEF Numbers, Fields, Flag
  <2> HIDE DEF turn
  <2> QED BY <2>1, RisenTyped DEF CountedTree
<1>4. /\ IsCounted(parent) /\ parent.own = Current(t, up).own
      /\ parent.error = Current(t, up).error /\ parent.kids = Kids(t, up)
      /\ \A f \in Fields : Tallies(parent)[f] = Tallies(Current(t, up))[f] + by[f]
  <2>1. IsCounted(Current(t, up)) /\ by["failed"] \in Int
    BY <1>1, <1>3
  <2> QED BY <2>1, ShiftedTotals DEF Kids
<1>5. ASSUME NEW f \in Fields
      PROVE  Contribution(parent)[f] - Given(t)[up][f] = lift[f]
  <2>1. IsCounted(Current(t, up)) /\ by["failed"] \in Int
    BY <1>1, <1>3
  <2>2. Given(t)[up] = Contribution(Current(t, up))
    BY <1>1 DEF Given
  <2>3. Contribution(parent)[f] - Contribution(Current(t, up))[f] =
              CASE f = "failed"  -> 0
                [] f = "partial" -> by[f] + turn
                [] OTHER         -> by[f]
    BY <2>1, ShiftedContribution
  <2>4. lift[f] = IF f = "failed" THEN 0 ELSE IF f = "partial" THEN by[f] + turn ELSE by[f]
    BY DEF Above1
  <2> HIDE DEF parent, turn, lift, up
  <2> QED BY <2>2, <2>3, <2>4
<1> HIDE DEF parent, turn, above, lift
<1>6. ASSUME NEW a \in Above[up], a # up
      PROVE  LET n == Shifted(Current(t, a), above, 0)
             IN /\ IsCounted(n) /\ n.own = Current(t, a).own /\ n.error = Current(t, a).error
                /\ n.kids = Kids(t, a)
                /\ \A f \in Fields : Tallies(n)[f] = Tallies(Current(t, a))[f] + lift[f]
                /\ \A f \in Fields : Contribution(n)[f] - Given(t)[a][f] = lift[f]
  <2> DEFINE n == Shifted(Current(t, a), above, 0)
  <2>1. a \in Dirs /\ IsCounted(Current(t, a)) /\ Given(t)[a] = Contribution(Current(t, a))
    BY <1>1, <1>3, AboveItself DEF Given
  <2>2. /\ IsCounted(n) /\ n.own = Current(t, a).own /\ n.error = Current(t, a).error
        /\ n.kids = Current(t, a).kids
        /\ \A f \in Fields :
             Tallies(n)[f] = Tallies(Current(t, a))[f] + (IF f = "failed" THEN 0 ELSE above[f])
    BY <2>1, <1>3, ShiftedTotals
  <2>3. IsPartial(n) = IsPartial(Current(t, a))
    BY <2>1, <1>3, ShiftedPartial
  <2>4. ASSUME NEW f \in Fields
        PROVE  Contribution(n)[f] - Given(t)[a][f] = lift[f]
    <3>1. Contribution(n)[f] - Contribution(Current(t, a))[f] =
              CASE f = "failed"  -> 0
                [] f = "partial" -> above[f] + (Flag(IsPartial(n)) - Flag(IsPartial(Current(t, a))))
                [] OTHER         -> above[f]
      BY <2>1, <1>3, ShiftedContribution
    <3>2. Flag(IsPartial(n)) - Flag(IsPartial(Current(t, a))) = 0 /\ above[f] \in Int
      BY <2>3, <1>3 DEF Flag, Numbers
    <3> HIDE DEF n
    <3>3. CASE f = "failed"
      BY <3>1, <3>3, <2>1, <1>3
    <3>4. CASE f = "partial"
      BY <3>1, <3>2, <3>4, <2>1, <1>3
    <3>5. CASE f # "failed" /\ f # "partial"
      BY <3>1, <3>5, <2>1, <1>3
    <3> QED BY <3>3, <3>4, <3>5
  <2> HIDE DEF n
  <2>5. \A f \in Fields : Tallies(n)[f] = Tallies(Current(t, a))[f] + lift[f]
    BY <2>2, <1>3
  <2> QED BY <2>2, <2>4, <2>5 DEF n, Kids
<1>7. ASSUME NEW a \in Dirs
      PROVE  /\ IsCounted(new[a]) /\ IsNode(new[a]) /\ new[a].own = Current(t, a).own
             /\ new[a].error = Current(t, a).error /\ new[a].kids = Kids(t, a)
             /\ a \notin Above[up] => new[a] = Current(t, a)
  <2>1. new[a] = IF a = up THEN parent
                 ELSE IF a \in Above[up] THEN Shifted(Current(t, a), above, 0)
                 ELSE Current(t, a)
    OBVIOUS
  <2>2. IsCounted(Current(t, a))
    BY <1>3
  <2> HIDE DEF new, up
  <2>3. /\ IsCounted(new[a]) /\ new[a].own = Current(t, a).own
        /\ new[a].error = Current(t, a).error /\ new[a].kids = Kids(t, a)
        /\ a \notin Above[up] => new[a] = Current(t, a)
    <3>1. CASE a = up
      BY <3>1, <2>1, <1>1, <1>4
    <3>2. CASE a # up /\ a \in Above[up]
      BY <3>2, <2>1, <1>6
    <3>3. CASE a # up /\ a \notin Above[up]
      BY <3>3, <2>1, <2>2 DEF Kids
    <3> QED BY <3>1, <3>2, <3>3
  <2>4. IsNode(new[a])
    BY <2>3 DEF IsCounted, IsNode
  <2> QED BY <2>3, <2>4
<1>8. Rewrites(t, u, new)
  <2>1. u = Written(t, new)
    BY DEF Raised
  <2> HIDE DEF new, u
  <2> QED BY <1>7, <2>1, WrittenRewrites DEF Sound
<1>9. ASSUME NEW a \in Dirs
      PROVE  Current(u, a) = new[a] /\ u.at[a] = t.at[a]
  <2> HIDE DEF new, u
  <2> QED BY <1>8 DEF Rewrites
<1>a. \A a \in Dirs : new[a] = IF a = up THEN parent
                 ELSE IF a \in Above[up] THEN Shifted(Current(t, a), above, 0)
                 ELSE Current(t, a)
  OBVIOUS
<1> HIDE DEF new, u
<1>10. \A a \in Dirs : /\ Kids(u, a) = Kids(t, a) /\ Names(u, a) = Names(t, a)
                       /\ Brood(u, a) = Brood(t, a)
  BY <1>7, <1>9 DEF Kids, Names, Brood
<1>11. Added(t, u, up)
  <2>1. CountedTree(u)
    BY <1>3, <1>7, <1>9 DEF CountedTree
  <2>2. \A a \in Dirs : a \notin Above[up] => Kin(Current(t, a), Current(u, a))
    BY <1>3, <1>7, <1>9, KinItself
  <2> QED BY <2>1, <2>2, <1>7, <1>9, <1>10 DEF Added
<1>12. ASSUME NEW a \in Dirs, NEW f \in Fields
       PROVE  /\ a \in Above[up] => Given(u)[a][f] = Given(t)[a][f] + lift[f]
              /\ a \notin Above[up] => Given(u)[a] = Given(t)[a]
              /\ Given(u)[a] \in Numbers /\ Given(t)[a] \in Numbers
  <2>1. Given(u)[a] = Contribution(new[a]) /\ Given(t)[a] = Contribution(Current(t, a))
    BY <1>9 DEF Given
  <2>2. Given(u)[a] \in Numbers /\ Given(t)[a] \in Numbers
    BY <2>1, <1>3, <1>7, ContributionTyped
  <2>3. Given(u)[a][f] \in Int /\ Given(t)[a][f] \in Int /\ lift[f] \in Int
    BY <2>2, <1>3 DEF Numbers
  <2>4. CASE a = up
    <3>1. Given(u)[a] = Contribution(parent)
      BY <2>1, <2>4, <1>1, <1>a
    <3> QED BY <3>1, <2>2, <2>3, <2>4, <1>1, <1>5
  <2>5. CASE a \in Above[up] /\ a # up
    <3>1. Given(u)[a] = Contribution(Shifted(Current(t, a), above, 0))
      BY <2>1, <2>5, <1>a
    <3> QED BY <3>1, <2>2, <2>3, <2>5, <1>6
  <2>6. CASE a \notin Above[up]
    BY <2>1, <2>2, <2>6, <1>7
  <2> QED BY <2>4, <2>5, <2>6
<1> HIDE DEF up
<1>13. ASSUME NEW p \in Dirs, NEW f \in Fields
       PROVE  Tallies(Current(u, p))[f] =
                Base(Current(u, p).own, u.at[p].locked, Cardinality(Brood(u, p)))[f]
                + SumOf(Given(u), f, Brood(u, p))
  <2> DEFINE S == Brood(t, p)
             base == Base(Current(t, p).own, t.at[p].locked, Cardinality(S))[f]
  <2>1. /\ Tallies(Current(t, p))[f] = base + SumOf(g, f, S)
        /\ base = Base(Current(u, p).own, u.at[p].locked, Cardinality(Brood(u, p)))[f]
        /\ Brood(u, p) = S
    BY <1>7, <1>9, <1>10 DEF Recounted, IsRecount
  <2>2. S \in SUBSET Dirs
    BY DEF Brood, BroodOf
  <2>3. base \in Int
    <3>1. Current(t, p).own \in Int /\ t.at[p].locked \in Int /\ Cardinality(S) \in Int
      BY <1>3, <2>2, DirsFinite, FS_CardinalityType DEF IsCounted
    <3> HIDE DEF S
    <3> QED BY <3>1 DEF Base, Fields
  <2>4. /\ \A e \in S : g[e] \in Numbers /\ Given(u)[e] \in Numbers
        /\ \A e \in S : e # d => g[e] = Given(t)[e]
        /\ SumOf(g, f, S) \in Int
    <3>1. \A e \in S : g[e] \in Numbers /\ Given(u)[e] \in Numbers /\ (e # d => g[e] = Given(t)[e])
      BY <2>2, <1>12 DEF Outdated
    <3> HIDE DEF S
    <3> QED BY <2>2, <3>1, SumOfTyped
  <2>5. \A e \in S : e \in Dirs \ {Root} /\ ParentOf(e) = p
    BY BroodParents DEF Sound
  <2> HIDE DEF base
  <2>6. CASE p = up
    <3>1. \A e \in S \ {d} : Given(u)[e][f] = g[e][f]
      <4>1. ASSUME NEW e \in S \ {d} PROVE Given(u)[e][f] = g[e][f]
        <5>1. e \notin Above[up]
          <6>1. ASSUME e \in Above[up] PROVE FALSE
            <7>1. e \in Above[d] /\ d \in Above[d] /\ ParentOf(e) = ParentOf(d) /\ e # Root
              BY <1>1, <2>5, <2>6, <6>1, AboveItself DEF up
            <7> QED BY <7>1, <1>1, <4>1, OneChildAbove
          <6> QED BY <6>1
        <5>2. Given(u)[e] = Given(t)[e]
          BY <5>1, <2>5, <1>12
        <5> QED BY <5>2, <2>4
      <4> QED BY <4>1
    <3>2. d \in S
      BY <1>1, <2>6
    <3>3. Given(u)[d] = Given(t)[d] /\ Given(u)[d][f] - g[d][f] = by[f]
      BY <1>1, <1>2, <1>12
    <3> HIDE DEF S
    <3>4. SumOf(Given(u), f, S) = SumOf(g, f, S) + (Given(u)[d][f] - g[d][f])
      BY <2>2, <2>4, <3>1, <3>2, SumOfMoved
    <3>5. Tallies(Current(u, p))[f] = Tallies(Current(t, p))[f] + by[f]
      BY <2>6, <1>1, <1>4, <1>9, <1>a
    <3>6. by[f] \in Int
      BY DEF Numbers
    <3>7. SumOf(Given(u), f, S) = SumOf(g, f, S) + by[f]
      BY <3>3, <3>4
    <3> QED BY <2>1, <2>3, <2>4, <3>5, <3>6, <3>7
  <2>7. CASE p # up /\ p \in Above[up]
    <3>1. PICK b \in Above[up] \ {Root} : ParentOf(b) = p
      BY <1>1, <2>7, AboveChild
    <3>2. b \in Dirs /\ b \in S
      <4>1. b \in Active(t) \ {Root} /\ b \in Dirs
        BY <1>1, <3>1 DEF Active, Out
      <4>2. b \in Out(Shape(t)) \ {Root}
        BY <4>1 DEF Active
      <4>3. b \in Range(Shape(t).names[ParentOf(b)])
        BY <4>2, OutListed DEF Sound, ShapeSound
      <4>4. b \in Range(Names(t, p))
        BY <3>1, <4>3, ShapeOf DEF Sound
      <4> QED BY <4>1, <4>4 DEF Brood, BroodOf, Names
    <3>3. \A e \in S : e # d
      BY <2>5, <2>7 DEF up
    <3>4. \A e \in S \ {b} : Given(u)[e][f] = g[e][f]
      <4>1. ASSUME NEW e \in S \ {b} PROVE Given(u)[e][f] = g[e][f]
        <5>1. e \notin Above[up]
          <6>1. ASSUME e \in Above[up] PROVE FALSE
            BY <1>1, <2>5, <3>1, <4>1, <6>1, OneChildAbove
          <6> QED BY <6>1
        <5>2. Given(u)[e] = Given(t)[e]
          BY <5>1, <2>5, <1>12
        <5> QED BY <5>2, <2>4, <3>3
      <4> QED BY <4>1
    <3>5. Given(u)[b][f] = g[b][f] + lift[f] /\ g[b] \in Numbers /\ Given(u)[b] \in Numbers
      BY <3>1, <3>2, <3>3, <2>4, <1>12
    <3> HIDE DEF S
    <3>6. SumOf(Given(u), f, S) = SumOf(g, f, S) + (Given(u)[b][f] - g[b][f])
      BY <2>2, <2>4, <3>2, <3>4, <3>5, SumOfMoved
    <3>7. Tallies(Current(u, p))[f] = Tallies(Current(t, p))[f] + lift[f]
      BY <2>7, <1>6, <1>9, <1>a
    <3>8. lift[f] \in Int /\ g[b][f] \in Int
      BY <1>3, <3>5 DEF Numbers
    <3>9. SumOf(Given(u), f, S) = SumOf(g, f, S) + lift[f]
      BY <2>4, <3>5, <3>6, <3>8
    <3> QED BY <2>1, <2>3, <2>4, <3>7, <3>8, <3>9
  <2>8. CASE p \notin Above[up]
    <3>1. \A e \in S : Given(u)[e][f] = g[e][f]
      <4>1. ASSUME NEW e \in S PROVE Given(u)[e][f] = g[e][f]
        <5>1. e \notin Above[up] /\ e # d
          <6>1. ASSUME e \in Above[up] PROVE FALSE
            BY <1>1, <2>5, <2>8, <6>1, AboveStep
          <6>2. ASSUME e = d PROVE FALSE
            BY <1>1, <2>5, <2>8, <6>2 DEF up
          <6> QED BY <6>1, <6>2
        <5>2. Given(u)[e] = Given(t)[e]
          BY <5>1, <2>5, <1>12
        <5> QED BY <5>1, <5>2, <2>4
      <4> QED BY <4>1
    <3> HIDE DEF S
    <3>2. SumOf(Given(u), f, S) = SumOf(g, f, S)
      BY <2>2, <2>4, <3>1, SumOfSame
    <3>3. Current(u, p) = Current(t, p)
      BY <2>8, <1>7, <1>9
    <3> QED BY <2>1, <3>2, <3>3
  <2> QED BY <2>6, <2>7, <2>8
<1>14. Recounted(u, Given(u))
  BY <1>13 DEF Recounted, IsRecount
<1> QED BY <1>11, <1>14 DEF u, up, parent, turn, above

LEMMA RelistedAdds ==
  ASSUME NEW t, CountedTree(t), NEW u, Relisted(t, u), Calm(t, u), Sound(t), NEW d
  PROVE  Added(t, u, d)
<1>1. CountedTree(u)
  BY RelistedTotals
<1>2. \A a \in Dirs : Names(u, a) = Names(t, a)
  BY CalmShape DEF Sound
<1>3. \A a \in Dirs : /\ Current(u, a).own = Current(t, a).own
                      /\ Current(u, a).error = Current(t, a).error
  BY KinSame DEF Relisted, CountedTree
<1> QED BY <1>1, <1>2, <1>3 DEF Added, Relisted

LEMMA AddedOn ==
  ASSUME NEW t, CountedTree(t), NEW u, NEW v, NEW d, NEW up, Added(t, u, d), Added(u, v, up),
         Above[up] \subseteq Above[d]
  PROVE  Added(t, v, d)
<1>1. \A a \in Dirs : a \notin Above[d] => Kin(Current(t, a), Current(v, a))
  BY KinOn DEF Added, CountedTree
<1> QED BY <1>1 DEF Added

\* The root is in no list.
LEMMA RootCountsNowhere ==
  ASSUME NEW t, Sound(t), CountedTree(t), NEW g, Outdated(t, g, Root), Recounted(t, g)
  PROVE  Recounted(t, Given(t))
<1>1. ASSUME NEW p \in Dirs, NEW f \in Fields
      PROVE  SumOf(Given(t), f, Brood(t, p)) = SumOf(g, f, Brood(t, p))
  <2> DEFINE S == Brood(t, p)
  <2>1. S \in SUBSET Dirs
    BY DEF Brood, BroodOf
  <2>2. \A e \in S : e # Root
    BY BroodParents DEF Sound
  <2>3. \A e \in S : g[e] \in Numbers /\ Given(t)[e][f] = g[e][f]
    BY <2>1, <2>2 DEF Outdated
  <2> HIDE DEF S
  <2>4. SumOf(Given(t), f, S) = SumOf(g, f, S)
    BY <2>1, <2>3, SumOfSame
  <2> QED BY <2>4 DEF S
<1> QED BY <1>1 DEF Recounted, IsRecount

\* What _propagate() makes of totals that are right but for d's contribution.
LEMMA PropagatingTotals ==
  ASSUME NEW t, Sound(t), CountedTree(t), NEW d \in Active(t), Root \in Above[d],
         NEW before \in Numbers, NEW g, g = [Given(t) EXCEPT ![d] = before], Recounted(t, g)
  PROVE  LET u == Propagate(t, d, before)
         IN Added(t, u, d) /\ Recounted(u, Given(u))
<1>0. d \in Dirs
  BY ActiveAbove
<1>1. Outdated(t, g, d) /\ g[d] = before
  BY <1>0, GivenTyped DEF Outdated, Given
<1>2. CASE d = Root
  <2>1. Propagate(t, d, before) = t
    BY <1>2 DEF Propagate
  <2>2. Recounted(t, Given(t))
    BY <1>1, <1>2, RootCountsNowhere
  <2>3. Added(t, t, d)
    BY KinItself DEF Added, CountedTree
  <2> QED BY <2>1, <2>2, <2>3
<1>3. CASE d # Root
  <2> DEFINE after  == Contribution(Current(t, d))
             by     == [f \in DOMAIN after |-> after[f] - before[f]]
             up     == ParentOf(d)
             made   == EnsureMutable(t, up)
             linked == Linked(made, {d})
             parent == Shifted(Current(linked, up), by, by.failed)
             turn   == Flag(IsPartial(parent)) - Flag(IsPartial(Current(linked, up)))
             above  == Risen(by, turn)
             u      == Raised(linked, up, parent, above)
  <2>1. up \in Active(t) /\ up \in Dirs /\ Above[up] \subseteq Above[d]
    <3>1. up \in Active(t) /\ up \in Dirs
      BY <1>3, PlaceOf DEF Sound
    <3>2. up \in Above[d]
      BY <1>0, <1>3, AboveItself, AboveStep
    <3> QED BY <1>0, <3>1, <3>2, AboveThrough
  <2>2. Propagate(t, d, before) = IF \A f \in DOMAIN by : by[f] = 0 THEN linked ELSE u
    BY <1>3 DEF Propagate, Risen
  <2>3. /\ after = Given(t)[d] /\ DOMAIN by = Fields /\ by \in Numbers
        /\ \A f \in Fields : by[f] = Given(t)[d][f] - g[d][f]
    <3>1. after = Given(t)[d] /\ after \in Numbers
      BY <1>0, GivenTyped
    <3>2. DOMAIN after = Fields
      BY <3>1 DEF Numbers
    <3> HIDE DEF after
    <3>3. \A f \in Fields : by[f] = after[f] - before[f] /\ by[f] \in Int
      BY <3>1, <3>2 DEF Numbers
    <3>4. by = [f \in Fields |-> by[f]]
      BY <3>2
    <3>5. DOMAIN by = Fields
      BY <3>2
    <3> HIDE DEF by
    <3>6. by \in Numbers
      BY <3>3, <3>4 DEF Numbers
    <3> QED BY <1>1, <3>1, <3>3, <3>5, <3>6
  <2> HIDE DEF after
  <2>4. /\ Relisted(t, made) /\ Quiet(t, made) /\ Sound(made) /\ Writable(made, up)
        /\ Stales(made) \subseteq Stales(t)
    <3> HIDE DEF up
    <3> QED BY <2>1, Ensuring, EnsuredRelists
  <2> HIDE DEF made
  <2>5. Active(made) = Active(t) /\ CountedTree(made)
    BY <2>4, QuietActive, RelistedTotals
  <2>6. Relisted(made, linked)
    <3>1. {d} \in SUBSET Active(made)
      BY <2>5
    <3> QED BY <2>4, <2>5, <3>1, LinkedRelists DEF Sound
  <2>7. Quiet(made, linked) /\ Stales(linked) = Stales(made)
    <3>1. up \in Above[up]
      BY <2>1, AboveItself DEF Active, Out
    <3>2. {d} \in SUBSET Active(made) /\ up \notin Stales(made)
      BY <2>4, <2>5, <3>1 DEF Writable
    <3>3. \A b \in {d} \ {Root} : ParentOf(b) \notin Stales(made)
      BY <3>2
    <3> QED BY <2>4, <3>2, <3>3, Linking
  <2> HIDE DEF linked
  <2>8. Sound(linked) /\ Active(linked) = Active(t)
    BY <2>4, <2>5, <2>7, QuietSound, QuietActive
  <2>9. Calm(t, linked)
    <3>1. Calm(t, made) /\ Calm(made, linked)
      BY <2>4, <2>7, <2>8 DEF Calm
    <3> QED BY <3>1, CalmOn
  <2>10. Relisted(t, linked)
    BY <2>4, <2>6, RelistedOn
  <2>11. /\ CountedTree(linked) /\ Given(linked) = Given(t) /\ Recounted(linked, g)
         /\ Added(t, linked, d)
    BY <2>9, <2>10, RelistedTotals, RelistedAdds
  <2>12. CASE \A f \in DOMAIN by : by[f] = 0
    <3>1. \A f \in Fields : Given(t)[d][f] = before[f]
      <4>1. ASSUME NEW f \in Fields PROVE Given(t)[d][f] = before[f]
        <5>1. Given(t)[d][f] - before[f] = 0
          BY <2>3, <2>12, <1>1
        <5>2. Given(t)[d][f] \in Int /\ before[f] \in Int
          BY <1>0, GivenTyped DEF Numbers
        <5> QED BY <5>1, <5>2
      <4> QED BY <4>1
    <3>2. Given(t)[d] = before
      BY <1>0, <3>1, GivenTyped DEF Numbers
    <3>3. g = Given(linked)
      BY <1>0, <2>11, <3>2 DEF Given
    <3>4. Propagate(t, d, before) = linked
      BY <2>2, <2>12
    <3> QED BY <2>11, <3>3, <3>4
  <2>13. CASE ~ \A f \in DOMAIN by : by[f] = 0
    <3>1. Propagate(t, d, before) = u
      BY <2>2, <2>13
    <3>2. /\ d \in Active(linked) \ {Root} /\ Outdated(linked, g, d)
          /\ \A f \in Fields : by[f] = Given(linked)[d][f] - g[d][f]
      BY <1>1, <1>3, <2>3, <2>8, <2>11 DEF Outdated
    <3> HIDE DEF by
    <3>3. Added(linked, u, up) /\ Recounted(u, Given(u))
      BY <2>3, <2>8, <2>11, <3>2, RaisingTotals
    <3> HIDE DEF u, up
    <3>4. Added(t, u, d)
      BY <2>1, <2>11, <3>3, AddedOn
    <3> QED BY <3>1, <3>3, <3>4
  <2> QED BY <2>12, <2>13
<1> QED BY <1>2, <1>3

-----------------------------------------------------------------------------
(* Totals that are exact, and what a chunk or a result makes of them.      *)

\* What was not handed out is blank.
RestBlank(t) == \A d \in Dirs \ Out(Shape(t)) : Current(t, d) = Blank

Totals(t) == CountedTree(t) /\ RestBlank(t) /\ Recounted(t, Given(t))

\* A directory's own bytes are those of the files it lists.
OwnBytes(t, d) == Current(t, d).own = Cardinality(Range(Names(t, d)) \cap Files)

\* All but d have what they had, and what was blank is.
Steady(t, u, d) ==
  \A a \in Dirs \ {d} :
    /\ Current(u, a).own = Current(t, a).own /\ Range(Names(u, a)) = Range(Names(t, a))
    /\ Current(t, a) = Blank => Current(u, a) = Blank

LEMMA BlankCounted == IsCounted(Blank) /\ Blank.kids = <<>>
BY DEF Blank, IsCounted

LEMMA BlankStays ==
  ASSUME NEW t, NEW u, NEW a, Current(t, a) = Blank, Kin(Current(t, a), Current(u, a)),
         Range(Names(u, a)) = Range(Names(t, a))
  PROVE  Current(u, a) = Blank
<1>1. PICK kids \in Seq(Entries \X Nat) : Current(u, a) = [Blank EXCEPT !.kids = kids]
  BY DEF Kin
<1>2. Kids(u, a) = kids /\ Kids(t, a) = <<>>
  BY <1>1 DEF Kids, Blank
<1>3. Range(Names(t, a)) = {}
  BY <1>2 DEF Names, NamesOf, Range
<1>4. DOMAIN kids = {}
  BY <1>2, <1>3 DEF Names, NamesOf, Range
<1>5. kids = <<>>
  BY <1>4
<1> QED BY <1>1, <1>5 DEF Blank

\* Copying on the way up takes nothing from the totals.
LEMMA EnsuringTotals ==
  ASSUME NEW t, Sound(t), Totals(t), NEW d \in Active(t)
  PROVE  LET t1 == EnsureMutable(t, d)
         IN /\ Totals(t1) /\ Given(t1) = Given(t)
            /\ Steady(t, t1, d) /\ Current(t1, d).own = Current(t, d).own
            /\ Current(t, d) = Blank => Current(t1, d) = Blank
            /\ \A a \in Dirs : t1.at[a].locked = t.at[a].locked
<1> DEFINE t1 == EnsureMutable(t, d)
<1>1. Relisted(t, t1)
  BY EnsuredRelists DEF Totals
<1>2. Calm(t, t1)
  BY EnsuringCalm
<1>3. d \in Dirs
  BY ActiveAbove
<1> HIDE DEF t1
<1>4. CountedTree(t1) /\ Given(t1) = Given(t) /\ Recounted(t1, Given(t1))
  BY <1>1, RelistedTotals DEF Totals
<1>5. (\A a \in Dirs : Names(t1, a) = Names(t, a)) /\ Shape(t1) = Shape(t)
  BY <1>2, CalmShape DEF Sound
<1>6. ASSUME NEW a \in Dirs
      PROVE  /\ Current(t1, a).own = Current(t, a).own
             /\ Current(t, a) = Blank => Current(t1, a) = Blank
             /\ t1.at[a].locked = t.at[a].locked
  BY <1>1, <1>5, KinSame, BlankStays DEF Relisted, Totals, CountedTree
<1>7. Steady(t, t1, d)
  BY <1>5, <1>6 DEF Steady
<1>8. RestBlank(t1)
  BY <1>5, <1>6 DEF RestBlank, Totals
<1> QED BY <1>3, <1>4, <1>6, <1>7, <1>8 DEF t1, Totals

\* d's node is another, and its numbers are those of a recount; once that is told
\* upwards, every directory's are.
LEMMA RecastTotals ==
  ASSUME NEW t, Sound(t), CountedTree(t), Recounted(t, Given(t)), RestBlank(t),
         NEW d \in Active(t), Root \in Above[d],
         NEW v, Remade(t, v, d), IsCounted(Current(v, d)), v.at[d].locked \in Int,
         IsRecount(Current(v, d), v.at[d].locked, Given(t), Brood(v, d)),
         NEW before, before = Contribution(Current(t, d))
  PROVE  LET u == RecordChanged(Propagate(v, d, before), d)
         IN /\ Totals(u) /\ Steady(t, u, d)
            /\ Current(u, d).own = Current(v, d).own
            /\ Range(Names(u, d)) = Range(Names(v, d))
<1> DEFINE w == Propagate(v, d, before)
           u == RecordChanged(w, d)
           g == [Given(v) EXCEPT ![d] = before]
<1>1. /\ Alters(t, v, d) /\ Sound(v) /\ d \in Active(v) /\ Out(Shape(v)) = Out(Shape(t))
      /\ \A e \in Dirs \ {d} : Names(v, e) = Names(t, e)
  BY DEF Remade
<1>2. d \in Dirs
  BY ActiveAbove
<1>3. \A e \in Dirs \ {d} : /\ v.heap[e] = t.heap[e] /\ v.at[e] = t.at[e]
                            /\ Current(v, e) = Current(t, e)
  BY <1>1 DEF Alters, Current
<1>4. CountedTree(v)
  BY <1>2, <1>3 DEF CountedTree
<1>5. g = Given(t)
  <2>1. \A e \in Dirs : g[e] = Given(t)[e]
    BY <1>2, <1>3 DEF Given
  <2>2. DOMAIN g = Dirs /\ g = [e \in Dirs |-> g[e]] /\ Given(t) = [e \in Dirs |-> Given(t)[e]]
    BY DEF Given
  <2> HIDE DEF g
  <2> QED BY <2>1, <2>2
<1>6. Recounted(v, g)
  <2> HIDE DEF g
  <2>1. ASSUME NEW e \in Dirs PROVE IsRecount(Current(v, e), v.at[e].locked, g, Brood(v, e))
    <3>1. CASE e = d
      BY <3>1, <1>5
    <3>2. CASE e # d
      <4>1. Brood(v, e) = Brood(t, e)
        BY <3>2, <1>3 DEF Brood, Kids
      <4> QED BY <3>2, <4>1, <1>3, <1>5 DEF Recounted
    <3> QED BY <3>1, <3>2
  <2> QED BY <2>1 DEF Recounted
<1>7. before \in Numbers
  BY <1>2, ContributionTyped DEF CountedTree
<1>8. Added(v, w, d) /\ Recounted(w, Given(w))
  BY <1>1, <1>4, <1>6, <1>7, PropagatingTotals
<1>9. Calm(v, w) /\ Above[d] \subseteq Active(v)
  BY <1>1, Propagating, ActiveAbove
<1> HIDE DEF w, g
<1>10. Sound(w) /\ Shape(w) = Shape(v)
  BY <1>1, <1>9, CalmShape DEF Sound
<1>11. Calm(w, u)
  BY <1>10, Recording
<1>12. /\ u.heap = w.heap /\ u.at = w.at
  BY <1>10 DEF RecordChanged, Recorded, Sound, Formed, IsTree
<1> HIDE DEF u
<1>13. Shape(u) = Shape(t) \/ Out(Shape(u)) = Out(Shape(t))
  BY <1>1, <1>10, <1>11, CalmShape DEF Sound
<1>14. \A a \in Dirs : Current(u, a) = Current(w, a) /\ u.at[a] = w.at[a]
  BY <1>12 DEF Current
<1>15. CountedTree(u) /\ Recounted(u, Given(u))
  <2>1. CountedTree(u)
    BY <1>8, <1>14 DEF Added, CountedTree
  <2>2. Given(u) = Given(w)
    BY <1>14 DEF Given
  <2>3. \A a \in Dirs : Brood(u, a) = Brood(w, a)
    BY <1>14 DEF Brood, Kids
  <2> QED BY <2>1, <2>2, <2>3, <1>8, <1>14 DEF Recounted
<1>16. ASSUME NEW a \in Dirs
       PROVE  /\ Current(u, a).own = Current(v, a).own
              /\ Range(Names(u, a)) = Range(Names(v, a))
              /\ a # d /\ Current(t, a) = Blank => Current(u, a) = Blank
  <2>1. /\ Current(w, a).own = Current(v, a).own /\ Range(Names(w, a)) = Range(Names(v, a))
        /\ a \notin Above[d] => Kin(Current(v, a), Current(w, a))
    BY <1>8 DEF Added
  <2>2. Range(Names(u, a)) = Range(Names(v, a))
    BY <2>1, <1>14 DEF Names, Kids
  <2>3. ASSUME a # d, Current(t, a) = Blank PROVE Current(u, a) = Blank
    <3>1. Names(v, a) = <<>> /\ Current(v, a) = Blank
      BY <2>3, <1>3, BlankCounted DEF Names, Kids, NamesOf
    <3>2. a \notin Above[d]
      <4>1. SUFFICES ASSUME a \in Above[d] PROVE FALSE
        OBVIOUS
      <4>2. PICK b \in Above[d] \ {Root} : ParentOf(b) = a
        BY <4>1, <2>3, <1>2, AboveChild
      <4>3. b \in Out(Shape(v))
        BY <4>2, <1>9 DEF Active
      <4>4. b \in Range(Shape(v).names[a])
        BY <4>2, <4>3, <1>1, OutListed DEF Sound, ShapeSound
      <4>5. Shape(v).names[a] = Names(v, a)
        BY <1>1, ShapeOf DEF Sound
      <4> QED BY <4>4, <4>5, <3>1, NothingMore
    <3>3. Kin(Current(v, a), Current(u, a))
      BY <2>1, <3>2, <1>14
    <3> QED BY <3>1, <3>3, <2>2, BlankStays
  <2> QED BY <2>1, <2>2, <2>3, <1>14
<1>17. RestBlank(u)
  <2>1. ASSUME NEW a \in Dirs \ Out(Shape(u)) PROVE Current(u, a) = Blank
    <3>1. a \notin Out(Shape(t))
      BY <1>13
    <3>2. a # d
      BY <3>1 DEF Active
    <3> QED BY <3>1, <3>2, <1>16 DEF RestBlank
  <2> QED BY <2>1 DEF RestBlank
<1>18. Steady(t, u, d)
  BY <1>1, <1>3, <1>16 DEF Steady
<1> QED BY <1>2, <1>15, <1>16, <1>17, <1>18 DEF Totals, u, w

\* Nothing but lists is changed where directories settle, and their order only.
LEMMA SettledRelists ==
  ASSUME NEW t, Sound(t), CountedTree(t), NEW S \in SUBSET Dirs
  PROVE  /\ Relisted(t, Settle(t, S))
         /\ \A a \in Dirs : Range(Names(Settle(t, S), a)) = Range(Names(t, a))
<1> DEFINE new == [d \in Dirs |-> LET n == Current(t, d) IN
                    IF d \in S THEN [n EXCEPT !.kids = ByPath(@)] ELSE n]
           sorted == Written(t, new)
           at == [d \in Dirs |-> LET s == t.at[d] IN
                   [s EXCEPT !.cursor = IF d \in S THEN Len(Current(t, d).kids) ELSE @,
                             !.settled = @ \/ d \in S,
                             !.live = IF d \in S THEN d = Root ELSE @,
                             !.remaining = @ - Cardinality(Below(d, S))]]
           changed == [d \in Dirs |-> IF d \in S THEN Len(t.heap[d]) ELSE t.changed[d]]
           u == [sorted EXCEPT !.at = at, !.changed = changed, !.settled = @ \cup S]
<1>1. Settle(t, S) = u
  BY DEF Settle, Settled
<1>2. ASSUME NEW d \in Dirs
      PROVE  /\ IsNode(new[d]) /\ Kin(Current(t, d), new[d])
             /\ Range(NamesOf(new[d].kids)) = Range(Names(t, d))
  <2> DEFINE n == Current(t, d)
  <2>1. /\ IsNode(n) /\ n.kids \in Seq(Entries \X Nat) /\ IsCounted(n)
        /\ Names(t, d) = NamesOf(n.kids)
    BY CurrentNode DEF Sound, Kids, Names, CountedTree
  <2>2. new[d] = IF d \in S THEN [n EXCEPT !.kids = ByPath(@)] ELSE n
    OBVIOUS
  <2>3. /\ IsNode([n EXCEPT !.kids = ByPath(@)])
        /\ [n EXCEPT !.kids = ByPath(@)].kids = ByPath(n.kids)
        /\ Range(NamesOf(ByPath(n.kids))) = Range(NamesOf(n.kids))
    BY <2>1, SortedNode DEF Kids, Names
  <2>4. ByPath(n.kids) \in Seq(Entries \X Nat)
    BY <2>3 DEF IsNode
  <2> HIDE DEF n, new
  <2>5. CASE d \in S
    <3>1. new[d] = [n EXCEPT !.kids = ByPath(n.kids)]
      BY <2>2, <2>5
    <3>2. Kin(n, new[d])
      BY <3>1, <2>4 DEF Kin
    <3> QED BY <2>1, <2>2, <2>3, <2>5, <3>2 DEF n
  <2>6. CASE d \notin S
    BY <2>1, <2>2, <2>6, KinItself DEF n
  <2> QED BY <2>5, <2>6
<1> HIDE DEF new
<1>3. Rewrites(t, sorted, new)
  BY <1>2, WrittenRewrites DEF Sound
<1>4. ASSUME NEW d \in Dirs PROVE at[d].locked = t.at[d].locked
  <2> DEFINE s == t.at[d]
  <2>1. at[d] = [s EXCEPT !.cursor = IF d \in S THEN Len(Current(t, d).kids) ELSE @,
                          !.settled = @ \/ d \in S,
                          !.live = IF d \in S THEN d = Root ELSE @,
                          !.remaining = @ - Cardinality(Below(d, S))]
    OBVIOUS
  <2>2. IsState(s)
    BY DEF Sound, Formed
  <2> HIDE DEF s, at
  <2>3. at[d].locked = s.locked
    BY <2>1, <2>2 DEF IsState
  <2> QED BY <2>3 DEF s
<1> HIDE DEF at, sorted, changed
<1>5. IsTree(sorted)
  BY <1>3 DEF Rewrites
<1>6. u.at = at /\ u.heap = sorted.heap
  BY <1>5 DEF IsTree
<1> HIDE DEF u
<1>7. ASSUME NEW a \in Dirs
      PROVE  /\ Kin(Current(t, a), Current(u, a)) /\ u.at[a].locked = t.at[a].locked
             /\ Range(Names(u, a)) = Range(Names(t, a))
  <2>1. Current(u, a) = new[a]
    BY <1>3, <1>6 DEF Rewrites, Current
  <2> QED BY <2>1, <1>2, <1>4, <1>6 DEF Names, Kids
<1>8. \A a \in Dirs : Brood(u, a) = Brood(t, a)
  BY <1>7 DEF Brood, BroodOf, Names
<1> QED BY <1>1, <1>7, <1>8 DEF Relisted

LEMMA MarkingTotals ==
  ASSUME NEW t, Sound(t), Totals(t), NEW d \in Active(t), Writable(t, d)
  PROVE  LET u == MarkSettled(t, d)
         IN /\ Totals(u) /\ Steady(t, u, d) /\ Current(u, d).own = Current(t, d).own
            /\ Range(Names(u, d)) = Range(Names(t, d))
<1> DEFINE S == AboveWhile(d,
                  {a \in Dirs : /\ t.at[a].scanned /\ ~t.at[a].settled
                                /\ t.at[a].remaining = IF a = d THEN 0 ELSE 1})
           u == MarkSettled(t, d)
<1>1. u = Settle(t, S)
  BY DEF MarkSettled
<1>2. S \in SUBSET Dirs /\ d \in Dirs
  BY ActiveAbove, WhileSound
<1>3. Out(Shape(u)) = Out(Shape(t))
  BY Marking DEF Finished
<1> HIDE DEF S, u
<1>4. Relisted(t, u) /\ \A a \in Dirs : Range(Names(u, a)) = Range(Names(t, a))
  BY <1>1, <1>2, SettledRelists DEF Totals
<1>5. CountedTree(u) /\ Given(u) = Given(t) /\ Recounted(u, Given(u))
  BY <1>4, RelistedTotals DEF Totals
<1>6. ASSUME NEW a \in Dirs
      PROVE  /\ Current(u, a).own = Current(t, a).own
             /\ Current(t, a) = Blank => Current(u, a) = Blank
  BY <1>4, KinSame, BlankStays DEF Relisted, Totals, CountedTree
<1>7. RestBlank(u)
  BY <1>3, <1>6 DEF RestBlank, Totals
<1>8. Steady(t, u, d)
  BY <1>4, <1>6 DEF Steady
<1> QED BY <1>2, <1>4, <1>5, <1>6, <1>7, <1>8 DEF Totals, u

LEMMA SteadyOn ==
  ASSUME NEW t, NEW u, NEW v, NEW d, Steady(t, u, d), Steady(u, v, d)
  PROVE  Steady(t, v, d)
BY DEF Steady

\* The numbers that a chunk brings add up to what its entries are.
LEMMA CountInFiles ==
  ASSUME NEW d, NEW s, EntriesOf(d, s)
  PROVE  /\ CountIn(s, Files) = Cardinality(Range(Listed(s)) \cap Files)
         /\ CountIn(s, Files) \in Nat /\ CountIn(s, Locked) \in Nat
         /\ IsFiniteSet(Range(s))
<1>1. DOMAIN s = 1..Len(s) /\ Len(s) \in Nat
  BY DEF EntriesOf
<1>2. IsFiniteSet(DOMAIN s)
  BY <1>1, FS_Interval
<1>3. ASSUME NEW T
      PROVE  /\ IsFiniteSet({i \in DOMAIN s : s[i] \in T}) /\ CountIn(s, T) \in Nat
             /\ CountIn(s, T) = Cardinality(Range(s) \cap T)
  <2> DEFINE I == {i \in DOMAIN s : s[i] \in T}
  <2>1. IsFiniteSet(I)
    BY <1>2, FS_Subset
  <2>2. \A i, j \in DOMAIN s : s[i] = s[j] => i = j
    BY DEF EntriesOf
  <2>3. I \subseteq DOMAIN s
    OBVIOUS
  <2>4. {s[i] : i \in I} = Range(s) \cap T
    BY DEF Range
  <2> HIDE DEF I
  <2>5. Cardinality({s[i] : i \in I}) = Cardinality(I)
    BY <1>2, <2>2, <2>3, OncePlaces
  <2>6. CountIn(s, T) = Cardinality(I)
    BY DEF CountIn, I
  <2> QED BY <2>1, <2>4, <2>5, <2>6, FS_CardinalityType DEF I
<1>4. Range(Listed(s)) = Range(s) \ Locked
  BY ListedSound
<1>5. Files \cap Locked = {}
  BY TreeAssumption DEF TreeAssumption
<1>6. Range(Listed(s)) \cap Files = Range(s) \cap Files
  BY <1>4, <1>5
<1>7. IsFiniteSet(Range(s))
  <2>1. Range(s) = {s[i] : i \in DOMAIN s}
    BY DEF Range
  <2>2. \A i, j \in DOMAIN s : s[i] = s[j] => i = j
    BY DEF EntriesOf
  <2>3. IsFiniteSet({s[i] : i \in DOMAIN s})
    BY <1>2, <2>2, OncePlaces
  <2> QED BY <2>1, <2>3
<1> QED BY <1>3, <1>6, <1>7

\* What is placed is what the chunk says.
LEMMA ChunkPlacedNode ==
  ASSUME NEW t1, Sound(t1), NEW c, c.path \in Active(t1), Writable(t1, c.path),
         EntriesOf(c.path, c.entries)
  PROVE  LET v == ChunkPlaced(t1, c)
         IN /\ Current(v, c.path) =
                 Grown(Current(t1, c.path), Refs(c.entries), CountIn(c.entries, Files),
                       CountIn(c.entries, Dirs), CountIn(c.entries, Locked))
            /\ v.at[c.path].locked = t1.at[c.path].locked + CountIn(c.entries, Locked)
<1> DEFINE d      == c.path
           dirs   == CountIn(c.entries, Dirs)
           own    == CountIn(c.entries, Files)
           locked == CountIn(c.entries, Locked)
           was    == Current(t1, d)
           grown  == Grown(was, Refs(c.entries), own, dirs, locked)
           s      == [t1.at[d] EXCEPT
                       !.locked = @ + locked, !.remaining = @ + dirs,
                       !.found = @ + Len(c.entries)]
           placed == Written(t1, [a \in Dirs |-> IF a = d THEN grown ELSE Current(t1, a)])
           more   == InState(placed, d, s).outstanding + dirs
           v      == Told(t1, d, grown, s, more)
<1>1. ChunkPlaced(t1, c) = v
  BY DEF ChunkPlaced
<1>2. Refs(c.entries) \in Seq(Entries \X Nat) /\ dirs \in Nat
  BY FoundInOrder
<1>3. d \in Dirs /\ d \in Active(t1) /\ Sound(t1) /\ Writable(t1, d)
  BY DEF Active, Out
<1>4. IsNode(was) /\ IsState(t1.at[d])
  BY <1>3, CurrentNode DEF Sound, Formed
<1> HIDE DEF own, dirs, locked, was
<1>5. IsNode(grown)
  BY <1>2, <1>4, GrownNode
<1>6. /\ IsState(s) /\ s.settled = t1.at[d].settled /\ s.gen = t1.at[d].gen
      /\ s.index = t1.at[d].index /\ s.cursor = t1.at[d].cursor /\ s.live = t1.at[d].live
      /\ s.locked = t1.at[d].locked + locked
  BY <1>2, <1>4 DEF IsState
<1> HIDE DEF grown, s
<1>7. Current(v, d) = grown /\ v.at[d] = s
  <2> HIDE DEF d, more
  <2> QED BY <1>3, <1>5, <1>6, Telling
<1> QED BY <1>1, <1>6, <1>7 DEF grown, was, own, dirs, locked

\* m is n with what comes with it added to the numbers.
GrownBy(n, m, kids, own, dirs, locked) ==
  /\ IsCounted(m) /\ m.own = n.own + own /\ m.kids = kids
  /\ \A f \in Fields : Tallies(m)[f] = Tallies(n)[f] + Base(own, locked, dirs)[f]

LEMMA GrownTotals ==
  ASSUME NEW n, IsCounted(n), NEW r \in Seq(Entries \X Nat), NEW own \in Int,
         NEW dirs \in Int, NEW locked \in Int
  PROVE  GrownBy(n, Grown(n, r, own, dirs, locked), n.kids \o r, own, dirs, locked)
<1> DEFINE m == Grown(n, r, own, dirs, locked)
           b == Base(own, locked, dirs)
<1>1. /\ n.own \in Int /\ n.size \in Int /\ n.dirs \in Int /\ n.direct \in Int
      /\ n.unread \in Int /\ n.denied \in Int /\ n.partial \in Int /\ n.error \in BOOLEAN
      /\ n.kids \in Seq(Entries \X Nat)
      /\ DOMAIN n = {"own", "size", "dirs", "direct", "unread", "denied", "partial",
                     "error", "kids"}
  BY DEF IsCounted
<1>2. /\ n.own + own \in Int /\ n.size + own \in Int /\ n.dirs + dirs \in Int
      /\ n.direct + locked \in Int /\ n.unread + locked \in Int
  BY <1>1
<1>3. n.kids \o r \in Seq(Entries \X Nat)
  BY <1>1
<1> DEFINE o1 == n.own + own
           s1 == n.size + own
           d1 == n.dirs + dirs
           e1 == n.direct + locked
           u1 == n.unread + locked
           k1 == n.kids \o r
<1>4. m = [n EXCEPT !.kids = k1, !.own = o1, !.size = s1, !.dirs = d1, !.direct = e1,
                    !.unread = u1]
  BY DEF Grown
<1>5. /\ o1 \in Int /\ s1 \in Int /\ d1 \in Int /\ e1 \in Int /\ u1 \in Int
      /\ k1 \in Seq(Entries \X Nat)
  BY <1>2, <1>3
<1> HIDE DEF o1, s1, d1, e1, u1, k1, m
<1>6. IsCounted(m)
  BY <1>4, <1>5 DEF IsCounted
<1>7. /\ m.own = o1 /\ m.kids = k1 /\ m.size = s1 /\ m.dirs = d1 /\ m.direct = e1
      /\ m.unread = u1 /\ m.denied = n.denied /\ m.partial = n.partial
  BY <1>1, <1>4
<1>8. \A f \in Fields : Tallies(m)[f] = Tallies(n)[f] + b[f]
  <2>1. /\ Tallies(m) = [size |-> s1, dirs |-> d1, failed |-> e1, unread |-> u1,
                         denied |-> n.denied, partial |-> n.partial]
        /\ Tallies(n) = [size |-> n.size, dirs |-> n.dirs, failed |-> n.direct,
                         unread |-> n.unread, denied |-> n.denied, partial |-> n.partial]
        /\ b = [size |-> own, dirs |-> dirs, failed |-> locked, unread |-> locked,
                denied |-> 0, partial |-> 0]
    BY <1>7 DEF Tallies, Base
  <2>2. n.denied + 0 = n.denied /\ n.partial + 0 = n.partial
    BY <1>1
  <2> HIDE DEF b
  <2> QED BY <2>1, <2>2 DEF Fields, s1, d1, e1, u1
<1> QED BY <1>6, <1>7, <1>8 DEF m, o1, k1, GrownBy

\* New child directories bring nothing yet.
LEMMA BroodGrows ==
  ASSUME NEW t, Sound(t), CountedTree(t), RestBlank(t), NEW d \in Dirs, NEW l,
         EntriesOf(d, l), Range(l) \cap Range(Names(t, d)) = {}
  PROVE  LET T == Range(l) \cap Dirs
             S == Brood(t, d)
         IN /\ Cardinality(S \cup T) = Cardinality(S) + Cardinality(T)
            /\ Cardinality(S) \in Nat /\ Cardinality(T) \in Nat
            /\ \A f \in Fields : /\ SumOf(Given(t), f, S \cup T) = SumOf(Given(t), f, S)
                                 /\ SumOf(Given(t), f, S) \in Int
<1> DEFINE T == Range(l) \cap Dirs
           S == Brood(t, d)
<1>1. S \in SUBSET Dirs /\ T \in SUBSET Dirs /\ S \cap T = {}
  BY DEF Brood, BroodOf, Names
<1>2. \A e \in T : Current(t, e) = Blank
  <2>1. ASSUME NEW e \in T PROVE Current(t, e) = Blank
    <3>1. e \in Dirs /\ e \in Range(Listing[d])
      BY DEF EntriesOf, Range
    <3>2. Shape(t).names[d] = Names(t, d) /\ ShapeSound(Shape(t))
      BY ShapeOf DEF Sound
    <3>3. e \notin Range(Shape(t).names[d])
      BY <3>2
    <3>4. e \notin Out(Shape(t))
      BY <3>1, <3>2, <3>3, UnlistedIsNew
    <3> QED BY <3>1, <3>4 DEF RestBlank
  <2> QED BY <2>1
<1>3. \A f \in Fields : Contribution(Blank)[f] = 0
  BY DEF Fields, Contribution, Blank, Flag, IsPartial
<1>4. \A e \in S \cup T : Given(t)[e] \in Numbers
  BY <1>1, GivenTyped
<1>5. \A e \in T : \A f \in Fields : Given(t)[e][f] = 0
  BY <1>1, <1>2, <1>3 DEF Given
<1>6. IsFiniteSet(S) /\ IsFiniteSet(T)
  BY <1>1, DirsFinite
<1> HIDE DEF S, T
<1>7. /\ Cardinality(S \cup T) = Cardinality(S) + Cardinality(T)
      /\ Cardinality(S) \in Nat /\ Cardinality(T) \in Nat
  <2>1. Cardinality(S \cup T) = Cardinality(S) + Cardinality(T) - Cardinality(S \cap T)
    BY <1>6, FS_Union
  <2>2. Cardinality(S \cap T) = 0
    BY <1>1, FS_EmptySet
  <2>3. Cardinality(S) \in Nat /\ Cardinality(T) \in Nat
    BY <1>6, FS_CardinalityType
  <2> QED BY <2>1, <2>2, <2>3
<1>8. \A f \in Fields : /\ SumOf(Given(t), f, S \cup T) = SumOf(Given(t), f, S)
                        /\ SumOf(Given(t), f, S) \in Int
  <2> DEFINE g == Given(t)
  <2>1. (\A e \in S \cup T : g[e] \in Numbers) /\ \A e \in T : \A f \in Fields : g[e][f] = 0
    BY <1>4, <1>5
  <2> HIDE DEF g
  <2>2. ASSUME NEW f \in Fields
        PROVE  SumOf(g, f, S \cup T) = SumOf(g, f, S) /\ SumOf(g, f, S) \in Int
    <3>1. \A e \in T : g[e][f] = 0
      BY <2>1
    <3>0. /\ S \in SUBSET Dirs /\ T \in SUBSET Dirs /\ S \cap T = {} /\ f \in Fields
          /\ Numbered(g, S) /\ Numbered(g, T)
      BY <1>1, <2>1 DEF Numbered
    <3>2. SumOf(g, f, S \cup T) = SumOf(g, f, S)
      BY <3>0, <3>1, SumOfMore
    <3>3. \A e \in S : g[e] \in Numbers
      BY <2>1
    <3>4. SumOf(g, f, S) \in Int
      BY <1>1, <3>3, SumOfTyped
    <3> QED BY <3>2, <3>4
  <2> QED BY <2>2 DEF g
<1> QED BY <1>7, <1>8 DEF S, T

\* u is what a step for d made of t: the totals are exact, only d's own bytes and
\* names are others, and it has those.
Exact(t, u, d, own, names) ==
  /\ Totals(u) /\ Steady(t, u, d)
  /\ Current(u, d).own = own /\ Range(Names(u, d)) = names

LEMMA ChunkTotals ==
  ASSUME NEW t, Sound(t), Rooted(t), Totals(t), NEW c, c.path \in Active(t),
         c.path \notin Shape(t).scanned, EntriesOf(c.path, c.entries),
         Range(c.entries) \cap Range(Names(t, c.path)) = {}
  PROVE  Exact(t, ApplyChunk(t, c), c.path,
               Current(t, c.path).own + CountIn(c.entries, Files),
               Range(Names(t, c.path)) \cup Range(Listed(c.entries)))
<1> DEFINE d  == c.path
           l  == Listed(c.entries)
           r  == Refs(c.entries)
           own    == CountIn(c.entries, Files)
           dirs   == CountIn(c.entries, Dirs)
           locked == CountIn(c.entries, Locked)
           t1 == EnsureMutable(t, d)
           v  == ChunkPlaced(t1, c)
           before == Contribution(Current(t1, d))
           u  == RecordChanged(Propagate(v, d, before), d)
           was == Current(t1, d)
           grown == Grown(was, r, own, dirs, locked)
<1>1. ApplyChunk(t, c) = u
  BY DEF ApplyChunk, ChunkPlaced, Grown, Told
<1>2. Calm(t, t1) /\ Writable(t1, d)
  BY EnsuringCalm
<1>3. /\ Totals(t1) /\ Given(t1) = Given(t) /\ Steady(t, t1, d)
      /\ Current(t1, d).own = Current(t, d).own
  BY EnsuringTotals
<1> HIDE DEF t1
<1>4. /\ Sound(t1) /\ Shape(t1) = Shape(t) /\ Active(t1) = Active(t)
      /\ \A e \in Dirs : Names(t1, e) = Names(t, e)
  BY <1>2, CalmShape DEF Sound
<1>5. d \in Dirs /\ d \in Active(t1) /\ d \notin Shape(t1).scanned /\ Root \in Above[d]
  BY <1>4 DEF Active, Out, Rooted
<1>6. Range(c.entries) \cap Range(Names(t1, d)) = {}
  BY <1>4, <1>5
<1>7. /\ Remade(t1, v, d) /\ Kids(v, d) = Kids(t1, d) \o r
      /\ Names(v, d) = Names(t1, d) \o l
  BY <1>2, <1>4, <1>5, <1>6, PlacingChunk
<1>8. Current(v, d) = grown /\ v.at[d].locked = t1.at[d].locked + locked
  BY <1>2, <1>4, <1>5, ChunkPlacedNode
<1> HIDE DEF v
<1>9. /\ EntriesOf(d, l) /\ r \in Seq(Entries \X Nat)
      /\ Range(l) \subseteq Range(c.entries)
      /\ dirs = Cardinality(Range(l) \cap Dirs) /\ dirs \in Int
  <2>1. /\ EntriesOf(d, l) /\ r \in Seq(Entries \X Nat)
        /\ Range(l) \subseteq Range(c.entries)
        /\ dirs = Cardinality(Range(l) \cap Dirs) /\ dirs \in Nat
    BY FoundInOrder
  <2> HIDE DEF dirs, l, r
  <2> QED BY <2>1
<1>10. own \in Int /\ locked \in Int
  <2>1. own \in Nat /\ locked \in Nat
    BY CountInFiles
  <2> HIDE DEF own, locked
  <2> QED BY <2>1
<1>11. IsCounted(was) /\ t1.at[d].locked \in Int
  BY <1>3, <1>5 DEF Totals, CountedTree
<1> HIDE DEF was, own, dirs, locked, r, l
<1>12. /\ IsCounted(grown) /\ grown.own = was.own + own
       /\ \A f \in Fields : Tallies(grown)[f] = Tallies(was)[f] + Base(own, locked, dirs)[f]
  <2>1. /\ IsCounted(was) /\ r \in Seq(Entries \X Nat) /\ own \in Int /\ dirs \in Int
        /\ locked \in Int
    BY <1>9, <1>10, <1>11
  <2>2. GrownBy(was, grown, was.kids \o r, own, dirs, locked)
    BY <2>1, GrownTotals
  <2> QED BY <2>2 DEF GrownBy
<1> HIDE DEF grown
<1> DEFINE S == Brood(t1, d)
           T == Range(l) \cap Dirs
           g == Given(t1)
<1>13. Range(Names(v, d)) = Range(Names(t1, d)) \cup Range(l)
  <2>1. Names(t1, d) \in Seq(Entries) /\ l \in Seq(Entries)
    BY <1>4, <1>5, <1>9, CurrentNode, NamesOfSeq DEF Sound, EntriesOf, Names
  <2> DEFINE x == Names(t1, d)
  <2>2. x \in Seq(Entries) /\ Names(v, d) = x \o l
    BY <2>1, <1>7
  <2> HIDE DEF x
  <2>3. Range(x \o l) = Range(x) \cup Range(l)
    BY <2>1, <2>2, RangeConcatenation
  <2> QED BY <2>2, <2>3 DEF x
<1>14. Brood(v, d) = S \cup T
  BY <1>13 DEF Brood, BroodOf, Names
<1>15. /\ Cardinality(S \cup T) = Cardinality(S) + Cardinality(T)
       /\ Cardinality(S) \in Nat /\ Cardinality(T) \in Nat
       /\ \A f \in Fields : SumOf(g, f, S \cup T) = SumOf(g, f, S) /\ SumOf(g, f, S) \in Int
  <2>1. CountedTree(t1) /\ RestBlank(t1)
    BY <1>3 DEF Totals
  <2>2. Range(l) \cap Range(Names(t1, d)) = {}
    BY <1>6, <1>9
  <2> QED BY <2>1, <2>2, <1>4, <1>5, <1>9, BroodGrows
<1>16. IsRecount(Current(v, d), v.at[d].locked, g, Brood(v, d))
  <2>1. ASSUME NEW f \in Fields
        PROVE  Tallies(grown)[f] =
                 Base(grown.own, t1.at[d].locked + locked, Cardinality(S \cup T))[f]
                 + SumOf(g, f, S \cup T)
    <3>1. Tallies(was)[f] = Base(was.own, t1.at[d].locked, Cardinality(S))[f] + SumOf(g, f, S)
      BY <1>3, <1>5 DEF Totals, Recounted, IsRecount, was
    <3>2. Tallies(grown)[f] = Tallies(was)[f] + Base(own, locked, dirs)[f]
      BY <1>12
    <3>3. was.own \in Int /\ dirs = Cardinality(T)
      BY <1>9, <1>11 DEF IsCounted
    <3> HIDE DEF S, T, g
    <3> DEFINE x == SumOf(g, f, S)
               cS == Cardinality(S)
               lo == t1.at[d].locked
               o == was.own
    <3>4. x \in Int /\ SumOf(g, f, S \cup T) = x
      BY <1>15
    <3>5. cS \in Int /\ lo \in Int /\ o \in Int /\ Cardinality(S \cup T) = cS + dirs
      BY <1>11, <1>15, <3>3
    <3>6. Tallies(grown)[f] = Base(o, lo, cS)[f] + x + Base(own, locked, dirs)[f]
      BY <3>1, <3>2
    <3>7. Base(o, lo, cS)[f] + x + Base(own, locked, dirs)[f]
          = Base(o + own, lo + locked, cS + dirs)[f] + x
      <4> HIDE DEF x, cS, lo, o
      <4>1. CASE f = "size"
        BY <4>1, <3>4, <3>5, <1>9, <1>10 DEF Base
      <4>2. CASE f = "dirs"
        BY <4>2, <3>4, <3>5, <1>9, <1>10 DEF Base
      <4>3. CASE f = "failed"
        BY <4>3, <3>4, <3>5, <1>9, <1>10 DEF Base
      <4>4. CASE f = "unread"
        BY <4>4, <3>4, <3>5, <1>9, <1>10 DEF Base
      <4>5. CASE f = "denied"
        BY <4>5, <3>4, <3>5, <1>9, <1>10 DEF Base
      <4>6. CASE f = "partial"
        BY <4>6, <3>4, <3>5, <1>9, <1>10 DEF Base
      <4> QED BY <4>1, <4>2, <4>3, <4>4, <4>5, <4>6 DEF Fields
    <3> QED BY <3>4, <3>5, <3>6, <3>7, <1>12
  <2> QED BY <2>1, <1>8, <1>14 DEF IsRecount
<1>17. /\ Totals(u) /\ Steady(t1, u, d)
       /\ Current(u, d).own = Current(v, d).own
       /\ Range(Names(u, d)) = Range(Names(v, d))
  <2>1. /\ CountedTree(t1) /\ Recounted(t1, Given(t1)) /\ RestBlank(t1)
        /\ IsCounted(Current(v, d)) /\ v.at[d].locked \in Int
    BY <1>3, <1>8, <1>10, <1>11, <1>12 DEF Totals
  <2>2. d \in Active(t1) /\ Root \in Above[d] /\ Sound(t1) /\ Remade(t1, v, d)
    BY <1>4, <1>5, <1>7
  <2> HIDE DEF d, u
  <2> QED BY <2>1, <2>2, <1>16, RecastTotals DEF u
<1>18. Steady(t, u, d)
  BY <1>3, <1>17, SteadyOn
<1> HIDE DEF u
<1>19. Current(u, d).own = Current(t, d).own + own
  BY <1>3, <1>8, <1>12, <1>17 DEF was
<1> QED BY <1>1, <1>4, <1>5, <1>13, <1>17, <1>18, <1>19 DEF Exact, own, l

\* A recounted node that is installed leaves exact totals.
LEMMA InstallTotals ==
  ASSUME NEW t, Sound(t), Totals(t), NEW d \in Active(t), Root \in Above[d],
         NEW v, NEW n, NEW l, Installable(t, d, v, n, l), IsCounted(n),
         v.at[d].locked \in Int, IsRecount(n, v.at[d].locked, Given(t), BroodOf(n.kids)),
         NEW before, before = Contribution(Current(t, d))
  PROVE  Exact(t, Install(v, d, n, before), d, n.own, Range(NamesOf(n.kids)))
<1> DEFINE s    == ScannedState(v, d)
           done == InState(v, d, s)
           more == Max({0, done.outstanding - 1})
           put  == Put(v, d, n, s, more)
           t3   == Propagate(put, d, before)
           told == RecordChanged(t3, d)
           u    == IF told.at[d].remaining = 0 THEN MarkSettled(told, d) ELSE told
<1>1. Install(v, d, n, before) = u
  BY DEF Install, Put, ScannedState
<1> HIDE DEF more
<1>2. d \in Dirs /\ Writable(t, d) /\ Primes(t, v, d) /\ IsNode(n)
  BY DEF Installable, Active, Out
<1>3. HasResult(t, put, d, n)
  <2>1. /\ Sound(t) /\ d \in Active(t) /\ Writable(t, d) /\ d \notin Shape(t).scanned
        /\ Primes(t, v, d) /\ IsNode(n) /\ EntriesOf(d, l)
        /\ Range(l) \cap Range(Names(t, d)) = {} /\ NamesOf(n.kids) = Names(t, d) \o l
        /\ v.at[d].remaining = t.at[d].remaining + Cardinality(Range(l) \cap Dirs)
    BY DEF Installable
  <2>2. HasResult(t, Put(v, d, n, ScannedState(v, d), more), d, n)
    BY ONLY <2>1, PlacingResult
  <2> QED BY <2>2
<1>4. Current(put, d) = n
  <2>1. Puts(t, Put(v, d, n, ScannedState(v, d), more), d, n, v)
    BY <1>2, Putting
  <2> QED BY <2>1 DEF Puts
<1>5. put.at[d].locked = v.at[d].locked
  <2>1. IsTree(v) /\ IsState(v.at[d])
    BY <1>2 DEF Primes
  <2>2. put.at = [v.at EXCEPT ![d] = s]
    BY <2>1 DEF Put, InState, IsTree
  <2>3. s.locked = v.at[d].locked
    BY <2>1 DEF ScannedState, IsState
  <2> QED BY <2>1, <2>2, <2>3, <1>2 DEF IsTree
<1> HIDE DEF put
<1>6. Remade(t, put, d)
  BY <1>3 DEF HasResult
<1>7. Brood(put, d) = BroodOf(n.kids) /\ Names(put, d) = NamesOf(n.kids)
  BY <1>4 DEF Brood, Kids, Names
<1>8. /\ Totals(told) /\ Steady(t, told, d) /\ Current(told, d).own = n.own
      /\ Range(Names(told, d)) = Range(NamesOf(n.kids))
  <2>1. /\ CountedTree(t) /\ Recounted(t, Given(t)) /\ RestBlank(t)
        /\ IsCounted(Current(put, d)) /\ put.at[d].locked \in Int
        /\ IsRecount(Current(put, d), put.at[d].locked, Given(t), Brood(put, d))
    BY <1>4, <1>5, <1>7 DEF Totals
  <2>2. d \in Active(t) /\ Root \in Above[d] /\ Sound(t) /\ Remade(t, put, d)
    BY <1>6
  <2>3. LET w == RecordChanged(Propagate(put, d, before), d)
        IN /\ Totals(w) /\ Steady(t, w, d)
           /\ Current(w, d).own = Current(put, d).own
           /\ Range(Names(w, d)) = Range(Names(put, d))
    BY <2>1, <2>2, RecastTotals
  <2> QED BY <2>3, <1>4, <1>7
<1>9. Sound(told) /\ d \in Active(told) /\ Writable(told, d)
  <2>1. Sound(put) /\ d \in Active(put) /\ Writable(put, d)
    BY <1>6 DEF Remade
  <2>2. Calm(put, t3)
    BY <2>1, Propagating
  <2>3. Sound(t3)
    BY <2>2 DEF Calm
  <2> HIDE DEF t3
  <2>4. Calm(t3, told)
    BY <2>3, Recording
  <2> HIDE DEF told
  <2>5. Calm(put, told)
    BY <2>1, <2>2, <2>4, CalmOn
  <2> QED BY <2>1, <2>5, CalmShape, CalmWritable DEF Sound
<1> HIDE DEF told
<1>10. CASE told.at[d].remaining = 0
  <2>1. u = MarkSettled(told, d)
    BY <1>10
  <2>2. /\ Totals(u) /\ Steady(told, u, d) /\ Current(u, d).own = Current(told, d).own
        /\ Range(Names(u, d)) = Range(Names(told, d))
    BY <2>1, <1>8, <1>9, MarkingTotals
  <2> HIDE DEF u
  <2> QED BY <2>2, <1>1, <1>8, SteadyOn DEF Exact
<1>11. CASE told.at[d].remaining # 0
  <2>1. u = told
    BY <1>11
  <2> QED BY <2>1, <1>1, <1>8 DEF Exact
<1> QED BY <1>10, <1>11

\* n says what a recount does.
Recounts(t, n, own, direct, kids) ==
  /\ IsCounted(n) /\ n.own = own /\ n.kids = kids
  /\ IsRecount(n, direct, Given(t), BroodOf(kids))

\* A result's node as ResultOf() has it: recounted over what its list leads to.
LEMMA ResultRecounts ==
  ASSUME NEW t, Sound(t), CountedTree(t), NEW own \in Int, NEW direct \in Int,
         NEW error \in BOOLEAN, NEW kids \in Seq(Entries \X Nat), NEW heap,
         \A i, j \in DOMAIN kids : kids[i][1] = kids[j][1] => i = j,
         \A i \in DOMAIN kids : kids[i][1] \in Dirs =>
           heap[kids[i][1]][kids[i][2]] = Current(t, kids[i][1])
  PROVE  Recounts(t, ResultOf(own, direct, error, kids, heap), own, direct, kids)
<1> DEFINE m == [Blank EXCEPT !.own = own, !.direct = direct, !.error = error, !.kids = kids]
           cur == [e \in Dirs |-> Current(t, e)]
           r == Recalculated(m, heap)
           g == [e \in Dirs |-> Contribution(cur[e])]
<1>1. IsCounted(m) /\ m.own = own /\ m.kids = kids /\ m.direct = direct
  <2> DEFINE b == Blank
  <2>1. IsCounted(b) /\ m = [b EXCEPT !.own = own, !.direct = direct, !.error = error,
                                      !.kids = kids]
    BY BlankCounted
  <2> HIDE DEF m, b
  <2>2. m.own = own /\ m.kids = kids /\ m.direct = direct
    BY <2>1 DEF IsCounted
  <2>3. IsCounted(m)
    BY <2>1 DEF IsCounted
  <2> QED BY <2>2, <2>3
<1>2. \A e \in Dirs : cur[e] = Current(t, e) /\ IsCounted(cur[e])
  BY DEF CountedTree
<1>3. g = Given(t)
  BY DEF Given
<1> HIDE DEF m, cur
<1>4. Leads(m, heap, cur)
  <2>1. \A i, j \in DOMAIN m.kids : m.kids[i][1] = m.kids[j][1] => i = j
    BY <1>1
  <2>2. ASSUME NEW i \in DOMAIN m.kids, m.kids[i][1] \in Dirs
        PROVE  /\ heap[m.kids[i][1]][m.kids[i][2]] = cur[m.kids[i][1]]
               /\ IsCounted(cur[m.kids[i][1]])
    BY <2>2, <1>1, <1>2
  <2> QED BY <2>1, <2>2 DEF Leads
<1>5. /\ IsCounted(r) /\ r.own = m.own /\ r.kids = m.kids
      /\ IsRecount(r, m.direct, g, BroodOf(m.kids))
  BY <1>1, <1>4, RecalculatedRecounts
<1> QED BY <1>1, <1>3, <1>5 DEF ResultOf, Recounts, m

\* A whole directory: nothing of it was there before.
LEMMA WholeTotals ==
  ASSUME NEW t, Sound(t), Rooted(t), RestNew(t), Totals(t), NEW r, Awaits(t, r),
         Current(t, r.path) = Blank, r.own \in Int, r.locked \in Int, r.error \in BOOLEAN
  PROVE  Exact(t, ApplyWhole(t, r), r.path, r.own, Range(Listed(r.entries)))
<1> DEFINE d    == r.path
           dirs == CountIn(r.entries, Dirs)
           l    == Listed(r.entries)
           k    == Refs(r.entries)
           n    == ResultOf(r.own, r.locked, r.error, k, t.heap)
           found == Len([Blank EXCEPT !.own = r.own, !.direct = r.locked,
                                      !.error = r.error, !.kids = k].kids)
           t1   == EnsureMutable(t, d)
           s    == [t1.at[d] EXCEPT !.locked = r.locked, !.remaining = dirs, !.found = found]
           told == InState(t1, d, s)
           t2   == [told EXCEPT !.outstanding = @ + dirs]
           u    == Install(t2, d, n, Untouched)
<1>1. ApplyWhole(t, r) = u
  BY DEF ApplyWhole, ResultOf
<1>2. /\ EntriesOf(d, l) /\ NamesOf(k) = l /\ k \in Seq(Entries \X Nat)
      /\ dirs = Cardinality(Range(l) \cap Dirs) /\ dirs \in Nat
  BY FoundInOrder DEF Awaits
<1>3. d \in Active(t) /\ d \in Dirs /\ EntriesOf(d, r.entries) /\ d \notin Shape(t).scanned
  BY DEF Awaits, Active, Out
<1>4. Calm(t, t1) /\ Writable(t1, d)
  BY <1>3, EnsuringCalm
<1>5. /\ Totals(t1) /\ Given(t1) = Given(t) /\ Steady(t, t1, d)
      /\ Current(t1, d) = Blank
  BY <1>3, EnsuringTotals
<1> HIDE DEF t1, n, dirs, l, found, k
<1>6. /\ Sound(t1) /\ Shape(t1) = Shape(t) /\ Active(t1) = Active(t)
      /\ \A e \in Dirs : Names(t1, e) = Names(t, e)
  BY <1>4, CalmShape DEF Sound
<1>7. d \in Active(t1) /\ d \notin Shape(t1).scanned /\ Root \in Above[d]
  BY <1>3, <1>6 DEF Rooted, Active
<1>8. Kids(t, d) = <<>> /\ Names(t, d) = <<>> /\ Range(Names(t, d)) = {}
  <2>1. Kids(t, d) = <<>>
    BY BlankCounted DEF Kids
  <2>2. Names(t, d) = <<>>
    BY <2>1 DEF Names, NamesOf
  <2> QED BY <2>1, <2>2, NothingMore
<1>9. /\ IsCounted(n) /\ n.own = r.own /\ n.kids = k
      /\ IsRecount(n, r.locked, Given(t), BroodOf(k))
  <2>1. \A i, j \in DOMAIN k : k[i][1] = k[j][1] => i = j
    BY <1>2 DEF NamesOf, EntriesOf
  <2>2. ASSUME NEW i \in DOMAIN k, k[i][1] \in Dirs
        PROVE  t.heap[k[i][1]][k[i][2]] = Current(t, k[i][1])
    <3>1. Range(r.entries) \cap Range(Names(t, d)) = {}
      BY <1>8
    <3>2. NewRef(t, k[i])
      BY <1>3, <3>1, NewRefs DEF k
    <3> DEFINE e == k[i][1]
    <3>3. e \in Dirs \ Out(Shape(t)) /\ k[i] = <<e, 1>>
      BY <2>2, <3>2 DEF NewRef
    <3>4. k[i][2] = 1 /\ Len(t.heap[e]) = 1
      BY <3>3 DEF RestNew
    <3> HIDE DEF e
    <3>5. t.heap[e][k[i][2]] = Current(t, e)
      BY <3>4 DEF Current
    <3> QED BY <3>5 DEF e
  <2>3. CountedTree(t)
    BY DEF Totals
  <2>4. Recounts(t, n, r.own, r.locked, k)
    BY <2>1, <2>2, <2>3, <1>2, ResultRecounts DEF n
  <2> QED BY <2>4 DEF Recounts
<1>10. IsState(t1.at[d]) /\ IsTree(t1)
  BY <1>3, <1>6 DEF Sound, Formed
<1>11. t1.at[d].remaining = 0
  <2>1. Open(Shape(t1), d) = {}
    BY <1>3, <1>6, <1>8, ShapeOf DEF Open, Sound
  <2>2. Shape(t1).remaining[d] = Cardinality(Open(Shape(t1), d))
    BY <1>3, <1>6 DEF Sound, ShapeSound, RemainingCounts
  <2> QED BY <2>1, <2>2, <1>3, <1>6, FS_EmptySet, ShapeOf DEF Sound
<1>12. /\ IsState(s) /\ s.settled = t1.at[d].settled
       /\ s.index = t1.at[d].index /\ s.cursor = t1.at[d].cursor /\ s.live = t1.at[d].live
       /\ s.remaining = dirs /\ s.locked = r.locked
  BY <1>2, <1>10 DEF IsState
<1> HIDE DEF s
<1>13. /\ t2.heap = t1.heap /\ t2.generation = t1.generation /\ t2.settled = t1.settled
       /\ t2.changed = t1.changed
       /\ t2.at = [t1.at EXCEPT ![d] = s] /\ DOMAIN t2 = DOMAIN t1
  BY <1>10 DEF InState, IsTree
<1> HIDE DEF t2
<1>14. Primes(t1, t2, d) /\ t2.at[d] = s
  <2>1. DOMAIN t2.at = Dirs /\ t2.at[d] = s /\ \A e \in Dirs \ {d} : t2.at[e] = t1.at[e]
    BY <1>3, <1>10, <1>13 DEF IsTree
  <2>2. IsTree(t2)
    BY <2>1, <1>10, <1>13 DEF IsTree
  <2> QED BY <2>1, <2>2, <1>12, <1>13 DEF Primes
<1>15. IsNode(n)
  <2>1. HasKids(n, k)
    BY <1>2, ResultNode DEF n
  <2> QED BY <2>1 DEF HasKids
<1>16. NamesOf(n.kids) = Names(t1, d) \o l
  <2>1. l \in Seq(Entries)
    BY <1>2 DEF EntriesOf
  <2>2. <<>> \o l = l
    BY <2>1, ConcatEmptySeq
  <2> QED BY <2>2, <1>2, <1>3, <1>6, <1>8, <1>9
<1>17. Installable(t1, d, t2, n, l)
  <2>1. Range(l) \cap Range(Names(t1, d)) = {}
    BY <1>3, <1>6, <1>8
  <2>2. t2.at[d].remaining = t1.at[d].remaining + Cardinality(Range(l) \cap Dirs)
    BY <1>2, <1>11, <1>12, <1>14
  <2> QED BY <2>1, <2>2, <1>2, <1>4, <1>6, <1>7, <1>14, <1>15, <1>16 DEF Installable
<1>18. /\ t2.at[d].locked = r.locked /\ t2.at[d].locked \in Int
       /\ IsRecount(n, t2.at[d].locked, Given(t1), BroodOf(n.kids))
       /\ Untouched = Contribution(Current(t1, d))
  BY <1>5, <1>9, <1>12, <1>14 DEF Untouched
<1>19. Exact(t1, u, d, n.own, Range(NamesOf(n.kids)))
  BY <1>5, <1>6, <1>7, <1>9, <1>17, <1>18, InstallTotals
<1> HIDE DEF u
<1>20. Steady(t, u, d)
  BY <1>5, <1>19, SteadyOn DEF Exact
<1> QED BY <1>1, <1>2, <1>9, <1>19, <1>20 DEF Exact, l

\* A directory whose chunks came ahead of its result: the own bytes are those of
\* the result, unless its worker died.
Carried(t, r) == r.error /\ ~r.streamed /\ Kids(t, r.path) # <<>>

LEMMA StreamedTotals ==
  ASSUME NEW t, Sound(t), Rooted(t), PlacesBut(t, {}), Totals(t), NEW r, Awaits(t, r),
         r.own \in Int, r.locked \in Int, r.error \in BOOLEAN
  PROVE  Exact(t, ApplyStreamed(t, r), r.path,
               IF Carried(t, r) THEN Current(t, r.path).own ELSE r.own,
               Range(Names(t, r.path)))
<1> DEFINE d     == r.path
           t1    == EnsureMutable(t, d)
           was   == Current(t1, d)
           carry == r.error /\ ~r.streamed /\ was.kids # <<>>
           own   == IF carry THEN was.own ELSE r.own
           direct == IF carry THEN t1.at[d].locked ELSE r.locked
           node  == [Blank EXCEPT !.own = own, !.direct = direct,
                                  !.error = r.error, !.kids = was.kids]
           s     == [t1.at[d] EXCEPT !.locked = node.direct]
           t2    == InState(t1, d, s)
           n     == ResultOf(own, direct, r.error, was.kids, t1.heap)
           u     == Install(t2, d, n, Contribution(was))
<1>1. ApplyStreamed(t, r) = u
  BY DEF ApplyStreamed, ResultOf
<1>2. node.direct = direct
  BY DEF Blank
<1>3. d \in Active(t) /\ d \in Dirs /\ EntriesOf(d, r.entries) /\ d \notin Shape(t).scanned
  BY DEF Awaits, Active, Out
<1>4. Calm(t, t1) /\ Writable(t1, d)
  BY <1>3, EnsuringCalm
<1>5. /\ Totals(t1) /\ Given(t1) = Given(t) /\ Steady(t, t1, d)
      /\ Current(t1, d).own = Current(t, d).own
  BY <1>3, EnsuringTotals
<1>6. PlacesBut(t1, {})
  BY <1>3, PlacesEnsured
<1> HIDE DEF t1
<1>7. /\ Sound(t1) /\ Shape(t1) = Shape(t) /\ Active(t1) = Active(t)
      /\ \A e \in Dirs : Names(t1, e) = Names(t, e)
  BY <1>4, CalmShape DEF Sound
<1>8. d \in Active(t1) /\ d \notin Shape(t1).scanned /\ Root \in Above[d]
  BY <1>3, <1>7 DEF Rooted, Active
<1>9. /\ was.kids \in Seq(Entries \X Nat) /\ Names(t1, d) = NamesOf(was.kids)
      /\ Names(t1, d) \in Seq(Entries) /\ Kids(t1, d) = was.kids
  <2>1. was.kids \in Seq(Entries \X Nat) /\ Names(t1, d) = NamesOf(was.kids)
    BY <1>3, <1>7, CurrentNode DEF Sound, Names, Kids
  <2> QED BY <2>1, NamesOfSeq DEF Kids
<1>10. carry <=> Carried(t, r)
  <2>1. Kids(t, d) \in Seq(Entries \X Nat) /\ NamesOf(Kids(t, d)) = NamesOf(was.kids)
    BY <1>3, <1>7, <1>9, CurrentNode DEF Sound, Names
  <2>2. Len(Kids(t, d)) = Len(was.kids)
    <3> DEFINE x == Kids(t, d)
               y == was.kids
    <3>1. x \in Seq(Entries \X Nat) /\ y \in Seq(Entries \X Nat) /\ NamesOf(x) = NamesOf(y)
      BY <1>9, <2>1
    <3> HIDE DEF x, y
    <3>2. Len(NamesOf(x)) = Len(x) /\ Len(NamesOf(y)) = Len(y)
      BY <3>1, NamesOfSeq
    <3> QED BY <3>1, <3>2 DEF x, y
  <2>3. (Kids(t, d) = <<>>) <=> (was.kids = <<>>)
    <3> DEFINE x == Kids(t, d)
               y == was.kids
    <3>1. x \in Seq(Entries \X Nat) /\ y \in Seq(Entries \X Nat) /\ Len(x) = Len(y)
      BY <1>9, <2>1, <2>2
    <3> HIDE DEF x, y
    <3>2. (x = <<>> <=> Len(x) = 0) /\ (y = <<>> <=> Len(y) = 0)
      BY <3>1, EmptySeq
    <3> QED BY <3>1, <3>2 DEF x, y
  <2> QED BY <2>3 DEF Carried
<1>11. own \in Int /\ direct \in Int /\ own = IF Carried(t, r) THEN Current(t, d).own ELSE r.own
  <2>1. was.own \in Int /\ t1.at[d].locked \in Int
    BY <1>3, <1>5 DEF Totals, CountedTree, IsCounted
  <2> HIDE DEF carry
  <2> QED BY <2>1, <1>5, <1>10
<1> HIDE DEF own, direct, was, node, carry
<1>12. /\ IsCounted(n) /\ n.own = own /\ n.kids = was.kids
       /\ IsRecount(n, direct, Given(t1), BroodOf(was.kids))
  <2>1. \A i, j \in DOMAIN was.kids : was.kids[i][1] = was.kids[j][1] => i = j
    <3>1. EntriesOf(d, Names(t1, d))
      BY <1>3, <1>7, ShapeOf DEF Sound, ShapeSound, NamesSound, NamesSoundAt
    <3> QED BY <3>1, <1>9 DEF EntriesOf, NamesOf
  <2>2. \A i \in DOMAIN was.kids : was.kids[i][1] \in Dirs =>
          t1.heap[was.kids[i][1]][was.kids[i][2]] = Current(t1, was.kids[i][1])
    <3>1. ASSUME NEW i \in DOMAIN was.kids, was.kids[i][1] \in Dirs
          PROVE  t1.heap[was.kids[i][1]][was.kids[i][2]] = Current(t1, was.kids[i][1])
      <4> DEFINE e == was.kids[i][1]
      <4>1. was.kids[i] = <<e, Len(t1.heap[e])>>
        BY <3>1, <1>3, <1>6, <1>9 DEF PlacesBut, Ref
      <4>2. was.kids[i][2] = Len(t1.heap[e])
        BY <4>1
      <4> QED BY <4>2 DEF Current
    <3> QED BY <3>1
  <2>3. CountedTree(t1)
    BY <1>5 DEF Totals
  <2> DEFINE k == was.kids
             h == t1.heap
  <2>4. /\ k \in Seq(Entries \X Nat)
        /\ \A i, j \in DOMAIN k : k[i][1] = k[j][1] => i = j
        /\ \A i \in DOMAIN k : k[i][1] \in Dirs => h[k[i][1]][k[i][2]] = Current(t1, k[i][1])
    BY <2>1, <2>2, <1>9
  <2>5. n = ResultOf(own, direct, r.error, k, h)
    OBVIOUS
  <2> HIDE DEF k, h, n
  <2>6. Recounts(t1, ResultOf(own, direct, r.error, k, h), own, direct, k)
    BY <2>3, <2>4, <1>7, <1>11, ResultRecounts
  <2> QED BY <2>5, <2>6 DEF Recounts, k
<1>13. IsNode(n)
  <2>1. HasKids(n, was.kids)
    BY <1>9, ResultNode
  <2> QED BY <2>1 DEF HasKids
<1> HIDE DEF n
<1>14. IsState(t1.at[d]) /\ IsTree(t1)
  BY <1>3, <1>7 DEF Sound, Formed
<1>15. /\ IsState(s) /\ s.settled = t1.at[d].settled
       /\ s.index = t1.at[d].index /\ s.cursor = t1.at[d].cursor /\ s.live = t1.at[d].live
       /\ s.remaining = t1.at[d].remaining /\ s.remaining \in Int /\ s.locked = direct
  BY <1>2, <1>14 DEF IsState
<1> HIDE DEF s
<1>16. /\ t2.heap = t1.heap /\ t2.generation = t1.generation /\ t2.settled = t1.settled
       /\ t2.changed = t1.changed
       /\ t2.at = [t1.at EXCEPT ![d] = s] /\ DOMAIN t2 = DOMAIN t1
  BY <1>14 DEF InState, IsTree
<1> HIDE DEF t2
<1>17. Primes(t1, t2, d) /\ t2.at[d] = s
  <2>1. DOMAIN t2.at = Dirs /\ t2.at[d] = s /\ \A e \in Dirs \ {d} : t2.at[e] = t1.at[e]
    BY <1>3, <1>14, <1>16 DEF IsTree
  <2>2. IsTree(t2)
    BY <2>1, <1>14, <1>16 DEF IsTree
  <2> QED BY <2>1, <2>2, <1>15, <1>16 DEF Primes
<1> DEFINE l == <<>>
<1>18. /\ EntriesOf(d, l) /\ Range(l) \cap Range(Names(t1, d)) = {}
       /\ NamesOf(n.kids) = Names(t1, d) \o l
       /\ Cardinality(Range(l) \cap Dirs) = 0
  BY <1>9, <1>12, NothingMore
<1> HIDE DEF l
<1>19. t2.at[d].remaining = t1.at[d].remaining + Cardinality(Range(l) \cap Dirs)
  BY <1>15, <1>17, <1>18
<1>20. Installable(t1, d, t2, n, l)
  BY <1>4, <1>7, <1>8, <1>13, <1>17, <1>18, <1>19 DEF Installable
<1>21. /\ t2.at[d].locked \in Int
       /\ IsRecount(n, t2.at[d].locked, Given(t1), BroodOf(n.kids))
  BY <1>11, <1>12, <1>15, <1>17
<1>22. Exact(t1, u, d, n.own, Range(NamesOf(n.kids)))
  BY <1>5, <1>7, <1>8, <1>12, <1>20, <1>21, InstallTotals DEF was
<1> HIDE DEF u
<1>23. Steady(t, u, d)
  BY <1>5, <1>22, SteadyOn DEF Exact
<1>24. NamesOf(n.kids) = Names(t, d)
  BY <1>3, <1>7, <1>9, <1>12
<1> QED BY <1>1, <1>11, <1>12, <1>22, <1>23, <1>24 DEF Exact
-----------------------------------------------------------------------------
(* Totals and the steps of the scheduler.                                  *)

\* A node that counts nothing has nothing locked.
LEMMA BlankLocked ==
  ASSUME NEW t, Totals(t), NEW d \in Dirs \ Out(Shape(t))
  PROVE  t.at[d].locked = 0
<1> DEFINE g == Given(t)
           l == t.at[d].locked
<1>1. Current(t, d) = Blank /\ l \in Int
  BY DEF Totals, RestBlank, CountedTree
<1>2. Brood(t, d) = {}
  <2>1. Kids(t, d) = <<>>
    BY <1>1, BlankCounted DEF Kids
  <2> QED BY <2>1 DEF Brood, BroodOf, NamesOf, Range
<1>3. IsRecount(Blank, l, g, {})
  BY <1>1, <1>2 DEF Totals, Recounted
<1>4. SumOf(g, "failed", {}) = 0
  BY SumOfNone DEF SumOf
<1>5. Tallies(Blank)["failed"] = 0
  BY DEF Tallies, Blank
<1> DEFINE b == Base(Blank.own, l, Cardinality({}))["failed"]
<1>6. b = l
  BY DEF Base
<1> HIDE DEF b, l, g
<1>7. "failed" \in Fields
  BY DEF Fields
<1>8. Tallies(Blank)["failed"] = b + SumOf(g, "failed", {})
  BY <1>3, <1>7 DEF IsRecount, b
<1> QED BY <1>1, <1>4, <1>5, <1>6, <1>8 DEF l

\* The nodes are those of t; what has changed is what was not handed out.
NodesStay(t, u) ==
  /\ u.heap = t.heap /\ Out(Shape(t)) \subseteq Out(Shape(u))
  /\ \A d \in Dirs : \/ u.at[d].locked = t.at[d].locked
                     \/ u.at[d].locked = 0 /\ d \notin Out(Shape(t))

LEMMA SameNodes ==
  ASSUME NEW t, NEW u, u.heap = t.heap, NEW d
  PROVE  /\ Current(u, d) = Current(t, d) /\ Names(u, d) = Names(t, d)
         /\ Brood(u, d) = Brood(t, d)
BY DEF Current, Names, Kids, Brood

LEMMA TotalsAlike ==
  ASSUME NEW t, Totals(t), NEW u, NodesStay(t, u)
  PROVE  Totals(u)
<1>1. \A d \in Dirs : /\ Current(u, d) = Current(t, d) /\ Names(u, d) = Names(t, d)
                      /\ Brood(u, d) = Brood(t, d)
  BY SameNodes DEF NodesStay
<1>2. Given(u) = Given(t)
  BY <1>1 DEF Given
<1>3. \A d \in Dirs : u.at[d].locked = t.at[d].locked
  BY BlankLocked DEF NodesStay
<1>4. CountedTree(u)
  BY <1>1, <1>3 DEF Totals, CountedTree
<1>5. RestBlank(u)
  BY <1>1 DEF Totals, RestBlank, NodesStay
<1>6. Recounted(u, Given(u))
  BY <1>1, <1>2, <1>3 DEF Totals, Recounted
<1> QED BY <1>4, <1>5, <1>6 DEF Totals

LEMMA ExactAlike ==
  ASSUME NEW t, NEW u, NEW d \in Dirs, NEW own, NEW names, Exact(t, u, d, own, names),
         NEW v, NodesStay(u, v)
  PROVE  Exact(t, v, d, own, names)
<1>1. Totals(v)
  BY TotalsAlike DEF Exact
<1>2. \A a \in Dirs : Current(v, a) = Current(u, a) /\ Names(v, a) = Names(u, a)
  BY SameNodes DEF NodesStay
<1>3. Steady(t, v, d)
  BY <1>2 DEF Exact, Steady
<1> QED BY <1>1, <1>2, <1>3 DEF Exact

\* Frames and thresholds change neither nodes nor counts.
LEMMA PublishedAlike ==
  ASSUME NEW t, Sound(t), NEW force, Publish(t, force) \/ (tree' = t /\ UNCHANGED viewVars)
  PROVE  NodesStay(t, tree')
<1>1. tree' = t \/ tree' = NextGeneration(t)
  BY DEF Publish
<1>2. /\ NextGeneration(t).heap = t.heap /\ NextGeneration(t).at = t.at
      /\ Shape(NextGeneration(t)) = Shape(t)
  <2>1. NextGeneration(t).heap = t.heap /\ NextGeneration(t).at = t.at
        /\ NextGeneration(t).settled = t.settled
    BY DEF NextGeneration, Sound, Formed, IsTree
  <2>2. \A d \in Dirs : Names(NextGeneration(t), d) = Names(t, d)
    BY <2>1, SameNodes
  <2> QED BY <2>1, <2>2, SameShape
<1> QED BY <1>1, <1>2 DEF NodesStay

LEMMA NotedAlike ==
  ASSUME NEW t, Sound(t), NEW d \in Dirs, NEW next
  PROVE  NodesStay(t, InState(t, d, [t.at[d] EXCEPT !.nextAt = next]))
<1> DEFINE s == [t.at[d] EXCEPT !.nextAt = next]
           u == InState(t, d, s)
<1>1. Formed(t) /\ Calm(t, u)
  BY Noting DEF Sound
<1>2. u.heap = t.heap /\ u.at = [t.at EXCEPT ![d] = s]
  BY DEF InState, Sound, Formed, IsTree
<1>3. s.locked = t.at[d].locked
  BY DEF Sound, Formed, IsState
<1> HIDE DEF s
<1>4. \A e \in Dirs : u.at[e].locked = t.at[e].locked
  <2>1. DOMAIN t.at = Dirs
    BY DEF Sound, Formed, IsTree
  <2> QED BY <1>2, <1>3, <2>1
<1> HIDE DEF u
<1>5. Shape(u) = Shape(t)
  BY <1>1, CalmShape
<1>6. NodesStay(t, u)
  BY <1>2, <1>4, <1>5 DEF NodesStay
<1> QED BY <1>6 DEF u, s

\* The first chunk is in the totals.
LEMMA ChunkCounted ==
  ASSUME IInv, BookInv, Totals(tree), DrainChunk
  PROVE  LET c == Head(chunks)
         IN Exact(tree, tree', c.path,
                  Current(tree, c.path).own + CountIn(c.entries, Files),
                  Range(Names(tree, c.path)) \cup Range(Listed(c.entries)))
<1> DEFINE c    == Head(chunks)
           t    == ApplyChunk(tree, c)
           s    == t.at[c.path]
           next == Ahead(s.found, s.nextAt)
           t1   == InState(t, c.path, [s EXCEPT !.nextAt = next])
           own   == Current(tree, c.path).own + CountIn(c.entries, Files)
           names == Range(Names(tree, c.path)) \cup Range(Listed(c.entries))
<1>1. /\ chunks # <<>>
      /\ IF s.found >= s.nextAt THEN Publish(t1, TRUE) ELSE tree' = t /\ UNCHANGED viewVars
  BY DEF DrainChunk
<1>2. Sound(tree) /\ Rooted(tree)
  BY DEF IInv, TreeInv, BookInv, Booked
<1>3. /\ c.path \in Active(tree) /\ c.path \in Dirs /\ c.path \notin Shape(tree).scanned
      /\ EntriesOf(c.path, c.entries)
      /\ Range(c.entries) \cap Range(Names(tree, c.path)) = {}
  BY <1>1, ChunkAwaited
<1> HIDE DEF c, next
<1>4. Brought(tree, t, c.path, Listed(c.entries)) /\ Exact(tree, t, c.path, own, names)
  BY <1>2, <1>3, ApplyingChunk, ChunkTotals
<1> HIDE DEF t, own, names
<1>5. Sound(t)
  BY <1>4 DEF Brought, Sound
<1>6. Sound(t1) /\ Exact(tree, t1, c.path, own, names)
  <2>1. Calm(t, t1) /\ NodesStay(t, t1)
    BY <1>3, <1>5, Noting, NotedAlike
  <2> HIDE DEF t1
  <2> QED BY <2>1, <1>3, <1>4, ExactAlike DEF Calm
<1> HIDE DEF t1, s
<1>7. Exact(tree, tree', c.path, own, names)
  <2>1. NodesStay(t, tree') \/ NodesStay(t1, tree')
    BY <1>1, <1>5, <1>6, PublishedAlike
  <2> QED BY <2>1, <1>3, <1>4, <1>6, ExactAlike
<1> QED BY <1>7 DEF c, own, names

LEMMA TurnLocked ==
  ASSUME IInv, HandOut
  PROVE  \A e \in Dirs : \/ tree'.at[e].locked = tree.at[e].locked
                         \/ tree'.at[e].locked = 0 /\ e \notin Out(Shape(tree))
<1> DEFINE d    == Head(sources)
           kids == Current(tree, d).kids
           left == {i \in DOMAIN kids : i > tree.at[d].cursor /\ kids[i][1] \in Dirs}
           i    == IF left = {} THEN Len(kids) ELSE Min(left)
           read == [tree.at EXCEPT ![d].cursor = i]
<1>1. /\ sources \in Seq(Dirs) /\ sources # <<>> /\ d \in Dirs /\ pending \in Seq(Dirs)
      /\ Sound(tree)
  BY Popping DEF HandOut, IInv, QueuesTyped, TreeInv
<1>2. /\ IF left = {} THEN tree' = [tree EXCEPT !.at = read] /\ pending' = pending
         ELSE /\ tree' = [tree EXCEPT !.at = [read EXCEPT ![kids[i][1]] = Fresh(Stale, i)]]
              /\ pending' = Append(pending, kids[i][1])
  BY DEF HandOut
<1>3. TurnTaken
  BY SourceTurns
<1> HIDE DEF left, i, kids
<1>4. /\ DOMAIN read = Dirs /\ \A e \in Dirs : read[e].locked = tree.at[e].locked
  BY <1>1 DEF Sound, Formed, IsTree, IsState
<1> HIDE DEF read
<1>5. CASE left = {}
  <2>1. tree'.at = read
    BY <1>1, <1>2, <1>5 DEF Sound, Formed, IsTree
  <2> QED BY <2>1, <1>4
<1>6. CASE left # {}
  <2> DEFINE k == kids[i][1]
             f == Fresh(Stale, i)
  <2>1. f.locked = 0
    BY DEF Fresh
  <2> HIDE DEF f
  <2>2. tree'.at = [read EXCEPT ![k] = f] /\ pending' = Append(pending, k)
    BY <1>1, <1>2, <1>6 DEF Sound, Formed, IsTree, f
  <2> HIDE DEF k
  <2>3. k \notin Out(Shape(tree))
    <3>1. Len(pending') = Len(pending) + 1 /\ pending'[Len(pending) + 1] = k /\ Len(pending) \in Nat
      BY <1>1, <2>2
    <3>2. CASE pending' = pending
      BY <3>1, <3>2
    <3>3. CASE \E c \in Dirs : pending' = Append(pending, c) /\ c \notin Out(Shape(tree))
      <4>1. PICK c \in Dirs : pending' = Append(pending, c) /\ c \notin Out(Shape(tree))
        BY <3>3
      <4>2. pending'[Len(pending) + 1] = c
        BY <4>1, <1>1
      <4> QED BY <4>1, <4>2, <3>1
    <3> QED BY <3>2, <3>3, <1>3 DEF TurnTaken
  <2> QED BY <2>1, <2>2, <2>3, <1>4
<1> QED BY <1>5, <1>6

LEMMA TurnStays ==
  ASSUME IInv, HandOut
  PROVE  NodesStay(tree, tree')
<1>1. tree'.heap = tree.heap /\ Out(Shape(tree)) \subseteq Out(Shape(tree'))
  <2>1. \E D : Opened(tree, tree', D)
    BY SourceTurns DEF TurnTaken
  <2> QED BY <2>1 DEF Opened
<1> QED BY <1>1, TurnLocked DEF NodesStay

-----------------------------------------------------------------------------
(* What workers bring fits what the tree has of it.                        *)

\* What the tree and the chunks on their way say is in d, or that they say
\* nothing of it at all.
Coming(d) == UNION {Range(chunks[i].entries) : i \in {j \in DOMAIN chunks : chunks[j].path = d}}
Known(d) == (Range(Names(tree, d)) \cup Coming(d)) \ Locked
Unknown(d) == Current(tree, d) = Blank /\ \A i \in DOMAIN chunks : chunks[i].path # d

\* What a reader has read is known if it has brought a chunk, and nothing is if
\* it has not.
ReaderFits(w) ==
  IF wk[w].sent = 0 THEN Unknown(wk[w].job)
  ELSE /\ wk[w].job \notin Denied /\ ChunkSize <= Len(Here(w))
       /\ ReadUpTo(w) \ Locked \subseteq Known(wk[w].job)

\* A streamed result has the bytes of the files that are known, unless the scan
\* was cancelled; another has the entries it counts, and nothing is known, or
\* its worker died and something is.
ResultFits(r) ==
  /\ r.own \in Int /\ r.locked \in Int /\ r.error \in BOOLEAN /\ r.streamed \in BOOLEAN
  /\ r.streamed => \/ cancel
                   \/ /\ r.own = CountIn(Listing[r.path], Files)
                      /\ Range(Listing[r.path]) \ Locked \subseteq Known(r.path)
  /\ ~r.streamed => \/ Unknown(r.path) /\ r.own = CountIn(r.entries, Files)
                    \/ r.error /\ Known(r.path) # {}

BytesExact == cancel \/ \A d \in Dirs : OwnBytes(tree, d)
WaitingFit == \A d \in InPending \cup InJobs : Unknown(d)
ReadersFit == \A w \in Pool : wk[w].job # Stop => ReaderFits(w)
ResultsFit ==
  /\ \A i \in DOMAIN finished : ResultFits(finished[i])
  /\ \A r \in batch : ResultFits(r)

TotalsInv == Totals(tree) /\ BytesExact /\ WaitingFit /\ ReadersFit /\ ResultsFit

\* Only where chunks bring something besides locked entries can a worker that
\* dies not take their numbers with it.
FirstChunkListed ==
  \A d \in Crashing \ Denied : Len(Listing[d]) >= ChunkSize =>
    \E i \in 1..ChunkSize : Listing[d][i] \notin Locked

-----------------------------------------------------------------------------
(* Results.                                                                *)

\* The bytes of d are those of its files if they were, and r fits.
LEMMA BytesOfResult ==
  ASSUME NEW d \in Dirs, Sound(tree), NEW names, EntriesOf(d, names),
         Range(Listing[d]) \ Locked \subseteq Range(names)
  PROVE  CountIn(Listing[d], Files) = Cardinality(Range(names) \cap Files)
<1>1. EntriesOf(d, Listing[d])
  BY TreeAssumption DEF TreeAssumption, EntriesOf, Entries, Range
<1>2. CountIn(Listing[d], Files) = Cardinality(Range(Listed(Listing[d])) \cap Files)
  BY <1>1, CountInFiles
<1>3. Range(Listed(Listing[d])) = Range(Listing[d]) \ Locked
  BY <1>1, ListedSound
<1>4. Range(names) \subseteq Range(Listing[d])
  BY DEF EntriesOf, Range
<1>5. Range(Listed(Listing[d])) \cap Files = Range(names) \cap Files
  BY <1>3, <1>4, TreeAssumption DEF TreeAssumption
<1> QED BY <1>2, <1>5

ExactBytes(own, names) == cancel \/ own = Cardinality(names \cap Files)

\* The result r, of which nothing more is on its way, is in the totals, and its
\* bytes are those of its files.
LEMMA ResultCounted ==
  ASSUME IInv, BookInv, TotalsInv, NEW r \in batch,
         \A i \in DOMAIN chunks : chunks[i].path # r.path,
         Publish(ApplyResult(tree, r), r.path = Root)
  PROVE  \E own, names :
           /\ Exact(tree, tree', r.path, own, names)
           /\ ExactBytes(own, names)
<1> DEFINE d == r.path
           t == ApplyResult(tree, r)
<1>1. Sound(tree) /\ Rooted(tree) /\ RestNew(tree) /\ PlacesBut(tree, {}) /\ Totals(tree)
  BY DEF IInv, TreeInv, BookInv, Booked, TotalsInv
<1>2. Awaits(tree, r)
  BY ResultAwaited
<1>3. ResultFits(r) /\ r.own \in Int /\ r.locked \in Int /\ r.error \in BOOLEAN
      /\ r.streamed \in BOOLEAN
  BY DEF TotalsInv, ResultsFit, ResultFits
<1>4. d \in Dirs /\ EntriesOf(d, r.entries) /\ Coming(d) = {}
  BY <1>2 DEF Awaits, Active, Out, Coming
<1>5. EntriesOf(d, Names(tree, d))
  BY <1>1, <1>4, ShapeOf DEF Sound, ShapeSound, NamesSound, NamesSoundAt
<1>6. Took(tree, t, d)
  BY <1>1, <1>2, ApplyingResult
<1>7. \E own, names :
        /\ Exact(tree, t, d, own, names) /\ ExactBytes(own, names)
  <2>1. CASE ~r.streamed /\ Unknown(d) /\ r.own = CountIn(r.entries, Files)
    <3>1. Current(tree, d) = Blank /\ Current(tree, d).kids = <<>>
      BY <2>1, BlankCounted DEF Unknown
    <3>2. t = ApplyWhole(tree, r)
      BY <2>1, <3>1 DEF ApplyResult
    <3>3. Exact(tree, ApplyWhole(tree, r), d, r.own, Range(Listed(r.entries)))
      BY <1>1, <1>2, <1>3, <3>1, WholeTotals
    <3>4. ExactBytes(r.own, Range(Listed(r.entries)))
      BY <2>1, <1>4, CountInFiles DEF ExactBytes
    <3> HIDE DEF t
    <3> QED BY <3>2, <3>3, <3>4
  <2>2. CASE ~r.streamed /\ r.error /\ Known(d) # {}
    <3>1. Range(Names(tree, d)) # {}
      BY <2>2, <1>4 DEF Known
    <3>2. Kids(tree, d) # <<>>
      BY <3>1 DEF Names, NamesOf, Range
    <3>3. t = ApplyStreamed(tree, r) /\ Carried(tree, r)
      BY <2>2, <3>2 DEF ApplyResult, Carried, Kids
    <3>4. Exact(tree, ApplyStreamed(tree, r), d,
                IF Carried(tree, r) THEN Current(tree, d).own ELSE r.own,
                Range(Names(tree, d)))
      BY <1>1, <1>2, <1>3, StreamedTotals
    <3>5. ExactBytes(Current(tree, d).own, Range(Names(tree, d)))
      BY <1>4 DEF TotalsInv, BytesExact, OwnBytes, ExactBytes
    <3> HIDE DEF t
    <3> QED BY <3>3, <3>4, <3>5
  <2>3. CASE r.streamed
    <3>1. t = ApplyStreamed(tree, r) /\ ~Carried(tree, r)
      BY <2>3 DEF ApplyResult, Carried
    <3>2. Exact(tree, ApplyStreamed(tree, r), d,
                IF Carried(tree, r) THEN Current(tree, d).own ELSE r.own,
                Range(Names(tree, d)))
      BY <1>1, <1>2, <1>3, StreamedTotals
    <3>3. ExactBytes(r.own, Range(Names(tree, d)))
      <4>1. CASE /\ r.own = CountIn(Listing[d], Files)
                 /\ Range(Listing[d]) \ Locked \subseteq Known(d)
        <5>1. Range(Listing[d]) \ Locked \subseteq Range(Names(tree, d))
          BY <4>1, <1>4 DEF Known
        <5> QED BY <4>1, <5>1, <1>1, <1>4, <1>5, BytesOfResult DEF ExactBytes
      <4> QED BY <4>1, <2>3, <1>3 DEF ResultFits, ExactBytes
    <3> HIDE DEF t
    <3> QED BY <3>1, <3>2, <3>3
  <2> QED BY <2>1, <2>2, <2>3, <1>3 DEF ResultFits
<1>8. Publish(t, d = Root)
  OBVIOUS
<1> HIDE DEF t
<1>9. NodesStay(t, tree')
  BY <1>6, <1>8, PublishedAlike DEF Took
<1>10. PICK own, names :
        /\ Exact(tree, t, d, own, names) /\ ExactBytes(own, names)
  BY <1>7
<1>11. Exact(tree, tree', d, own, names)
  BY <1>4, <1>9, <1>10, ExactAlike
<1> QED BY <1>10, <1>11

-----------------------------------------------------------------------------
(* Steps that leave the tree alone, and the totals.                        *)

\* No less is known of d, and nothing still is if nothing was.
Recalls(d) == Known(d) \subseteq Known(d)' /\ (Unknown(d) => Unknown(d)')

LEMMA RecallsAll ==
  ASSUME tree' = tree, chunks' = chunks
  PROVE  \A d : Recalls(d)
BY DEF Recalls, Known, Coming, Unknown

LEMMA ResultFitsOn ==
  ASSUME NEW r, ResultFits(r), Recalls(r.path), cancel => cancel'
  PROVE  ResultFits(r)'
<1> DEFINE d == r.path
<1>1. Known(d) \subseteq Known(d)' /\ (Unknown(d) => Unknown(d)')
  BY DEF Recalls
<1>2. /\ r.own \in Int /\ r.locked \in Int /\ r.error \in BOOLEAN /\ r.streamed \in BOOLEAN
      /\ r.streamed => \/ cancel
                       \/ /\ r.own = CountIn(Listing[d], Files)
                          /\ Range(Listing[d]) \ Locked \subseteq Known(d)
      /\ ~r.streamed => \/ Unknown(d) /\ r.own = CountIn(r.entries, Files)
                        \/ r.error /\ Known(d) # {}
  BY DEF ResultFits
<1>3. /\ r.own \in Int /\ r.locked \in Int /\ r.error \in BOOLEAN /\ r.streamed \in BOOLEAN
      /\ r.streamed => \/ cancel'
                       \/ /\ r.own = CountIn(Listing[d], Files)
                          /\ Range(Listing[d]) \ Locked \subseteq Known(d)'
      /\ ~r.streamed => \/ Unknown(d)' /\ r.own = CountIn(r.entries, Files)
                        \/ r.error /\ Known(d)' # {}
  BY <1>1, <1>2
<1> QED BY <1>3 DEF ResultFits

LEMMA ReaderFitsOn ==
  ASSUME NEW w \in Pool, wk'[w] = wk[w], NEW d, wk[w].job = d, Recalls(d), ReaderFits(w)
  PROVE  ReaderFits(w)'
<1>1. Known(d) \subseteq Known(d)' /\ (Unknown(d) => Unknown(d)')
  BY DEF Recalls
<1>2. IF wk[w].sent = 0 THEN Unknown(d)
      ELSE /\ d \notin Denied /\ ChunkSize <= Len(Listing[d])
           /\ ReadUpTo(w) \ Locked \subseteq Known(d)
  BY DEF ReaderFits, Here
<1>3. ReadUpTo(w)' = ReadUpTo(w) /\ Here(w)' = Listing[d]
  BY DEF ReadUpTo, Here, ReadTo
<1>4. wk'[w].job = d /\ wk'[w].sent = wk[w].sent
  OBVIOUS
<1>5. IF wk'[w].sent = 0 THEN Unknown(d)'
      ELSE /\ d \notin Denied /\ ChunkSize <= Len(Here(w)')
           /\ ReadUpTo(w)' \ Locked \subseteq Known(d)'
  BY <1>1, <1>2, <1>3, <1>4
<1> QED BY <1>4, <1>5 DEF ReaderFits, Known, Unknown, Coming

\* What of the finished results and the batch is there was there.
ResultsStay ==
  /\ \A i \in DOMAIN finished' : \E j \in DOMAIN finished : finished'[i] = finished[j]
  /\ \A r \in batch' : r \in batch \/ \E j \in DOMAIN finished : r = finished[j]

LEMMA ResultsOn ==
  ASSUME ResultsFit, ResultsStay, cancel => cancel',
         \A i \in DOMAIN finished' : \A d : d = finished'[i].path => Recalls(d),
         \A r \in batch' : Recalls(r.path)
  PROVE  ResultsFit'
<1>1. ASSUME NEW r, r \in batch' \/ \E i \in DOMAIN finished' : r = finished'[i]
      PROVE  ResultFits(r)'
  <2>1. Recalls(r.path)
    BY <1>1
  <2>2. ResultFits(r)
    BY <1>1 DEF ResultsFit, ResultsStay
  <2> QED BY <2>1, <2>2, ResultFitsOn
<1>2. \A r \in batch' : ResultFits(r)'
  BY <1>1
<1>3. ASSUME NEW i \in DOMAIN finished' PROVE ResultFits(finished[i])'
  <2>1. PICK r : r = finished'[i]
    OBVIOUS
  <2>2. ResultFits(r)'
    BY <1>1, <2>1
  <2> QED BY <2>1, <2>2 DEF ResultFits, Known, Unknown, Coming
<1> QED BY <1>2, <1>3 DEF ResultsFit

\* Steps that neither bring nor take anything.
LEMMA QuietTotals ==
  ASSUME TotalsInv, UNCHANGED <<tree, chunks, wk>>, cancel => cancel', ResultsStay,
         InPending' \subseteq InPending \cup InJobs, InJobs' \subseteq InPending \cup InJobs
  PROVE  TotalsInv'
<1>1. \A d : Recalls(d)
  BY RecallsAll
<1>2. Totals(tree)' /\ BytesExact'
  BY DEF TotalsInv, BytesExact
<1>3. WaitingFit'
  BY <1>1 DEF TotalsInv, WaitingFit, Recalls
<1>4. ReadersFit'
  <2>1. ASSUME NEW w \in Pool, wk[w].job # Stop PROVE ReaderFits(w)'
    <3>1. ReaderFits(w) /\ wk'[w] = wk[w]
      BY <2>1 DEF TotalsInv, ReadersFit
    <3> QED BY <1>1, <3>1, ReaderFitsOn
  <2> QED BY <2>1 DEF ReadersFit
<1>5. ResultsFit'
  BY <1>1, ResultsOn DEF TotalsInv
<1> QED BY <1>2, <1>3, <1>4, <1>5 DEF TotalsInv

LEMMA NoResults ==
  ASSUME UNCHANGED <<finished, batch>>
  PROVE  ResultsStay
BY DEF ResultsStay

\* The steps of the scheduler that only move directories on.
LEMMA StoppingTotals ==
  ASSUME IInv, TotalsInv, UNCHANGED <<tree, chunks, wk, finished, batch>>, cancel => cancel',
         Stopping, pending' = pending \/ pending' = <<>>
  PROVE  TotalsInv'
<1>1. InJobs' = InJobs
  BY WithStops DEF Stopping, IInv, QueuesTyped, InJobs
<1>2. InPending' \subseteq InPending
  BY DEF InPending, Range
<1> QED BY <1>1, <1>2, NoResults, QuietTotals

LEMMA MovingTotals ==
  ASSUME TotalsInv, UNCHANGED <<tree, chunks, wk, finished, batch, pending, jobs>>,
         cancel => cancel'
  PROVE  TotalsInv'
<1>1. InJobs' = InJobs /\ InPending' = InPending
  BY DEF InJobs, InPending
<1> QED BY <1>1, NoResults, QuietTotals

LEMMA TopTotals ==
  ASSUME IInv, TotalsInv, Top
  PROVE  TotalsInv'
<1>1. UNCHANGED <<tree, chunks, wk, finished, batch, cancel>>
  BY DEF Top
<1>2. CASE Stopping
  BY <1>1, <1>2, StoppingTotals DEF Top
<1>3. CASE UNCHANGED <<jobs, pending>>
  BY <1>1, <1>3, MovingTotals
<1> QED BY <1>2, <1>3 DEF Top

LEMMA SubmitTotals ==
  ASSUME IInv, TotalsInv, Submit
  PROVE  TotalsInv'
<1> DEFINE d == Head(pending)
<1>1. /\ UNCHANGED <<tree, chunks, wk, finished, batch, cancel>>
      /\ pending' = Tail(pending) /\ jobs' = Append(jobs, d)
  BY DEF Submit
<1>2. pending \in Seq(Dirs) /\ pending # <<>> /\ jobs \in Seq(Dirs \cup {Stop})
  BY DEF Submit, CanSubmit, IInv, QueuesTyped
<1>3. Popped(pending, pending') /\ d = pending[1]
  BY <1>1, <1>2, Popping DEF Popped
<1> HIDE DEF d
<1>4. InPending = {d} \cup InPending'
  BY <1>3, PoppedRange DEF InPending
<1>5. InJobs' \subseteq InJobs \cup {d}
  BY <1>1, <1>2, Pushing DEF InJobs, Pushed
<1> QED BY <1>1, <1>4, <1>5, NoResults, QuietTotals

LEMMA CollectTotals ==
  ASSUME IInv, TotalsInv, Collect
  PROVE  TotalsInv'
<1>1. UNCHANGED <<tree, chunks, wk, cancel>> /\ InJobs' = InJobs /\ InPending' = InPending
  BY DEF Collect, InJobs, InPending
<1>2. ResultsStay
  <2>1. CASE finished = <<>>
    BY <2>1 DEF Collect, ResultsStay
  <2>2. CASE batch' = Range(finished) /\ finished' = <<>>
    BY <2>2 DEF ResultsStay, Range
  <2> QED BY <2>1, <2>2 DEF Collect
<1> QED BY <1>1, <1>2, QuietTotals

LEMMA AsideTotals ==
  ASSUME IInv, TotalsInv, Filled \/ StartWorkers \/ Join \/ Abort \/ Cancel \/ UNCHANGED vars
  PROVE  TotalsInv'
<1>1. CASE Filled \/ StartWorkers \/ Join \/ Cancel
  <2>1. UNCHANGED <<tree, chunks, wk, finished, batch, pending, jobs>> /\ (cancel => cancel')
    BY <1>1 DEF Filled, StartWorkers, Join, Cancel, planVars
  <2> QED BY <2>1, MovingTotals
<1>2. CASE Abort
  <2>1. /\ UNCHANGED <<tree, chunks, wk, finished, batch>> /\ (cancel => cancel')
        /\ Stopping /\ pending' = pending
    BY <1>2 DEF Abort, planVars
  <2> QED BY <2>1, StoppingTotals
<1>3. CASE UNCHANGED vars
  <2>1. UNCHANGED <<tree, chunks, wk, finished, batch, pending, jobs>> /\ (cancel => cancel')
    BY <1>3 DEF vars, planVars
  <2> QED BY <2>1, MovingTotals
<1> QED BY <1>1, <1>2, <1>3

-----------------------------------------------------------------------------
(* Steps of the workers, and the totals.                                   *)

\* With the same tree and chunks, and no more that waits.
LEMMA StillTotals ==
  ASSUME TotalsInv, UNCHANGED <<tree, chunks>>, cancel => cancel',
         InPending' \subseteq InPending \cup InJobs, InJobs' \subseteq InPending \cup InJobs
  PROVE  Totals(tree)' /\ BytesExact' /\ WaitingFit'
<1>1. \A d : Recalls(d)
  BY RecallsAll
<1>2. Totals(tree)' /\ BytesExact'
  BY DEF TotalsInv, BytesExact
<1>3. WaitingFit'
  BY <1>1 DEF TotalsInv, WaitingFit, Recalls
<1> QED BY <1>2, <1>3

\* With one worker that turns to something else.
LEMMA TurnReaders ==
  ASSUME ReadersFit, NEW w \in Pool, NEW r, Turns(w, r), r.job # Stop => ReaderFits(w)',
         \A v \in Pool \ {w} : \A d : d = wk[v].job /\ d # Stop => Recalls(d)
  PROVE  ReadersFit'
<1>1. ASSUME NEW v \in Pool, wk'[v].job # Stop PROVE ReaderFits(v)'
  <2>1. CASE v = w
    <3>1. wk'[w].job = r.job
      BY DEF Turns
    <3> QED BY <1>1, <2>1, <3>1 DEF ReaderFits, Known, Unknown, Coming, ReadUpTo, Here, ReadTo
  <2>2. CASE v # w
    <3>1. wk'[v] = wk[v]
      BY <2>2 DEF Turns
    <3>2. PICK d : d = wk[v].job
      OBVIOUS
    <3>3. Recalls(d) /\ ReaderFits(v)
      BY <1>1, <2>2, <3>1, <3>2 DEF ReadersFit
    <3> QED BY <3>1, <3>2, <3>3, ReaderFitsOn
  <2> QED BY <2>1, <2>2
<1> QED BY <1>1 DEF ReadersFit

LEMMA TakeJobTotals ==
  ASSUME IInv, TotalsInv, NEW w \in Pool, TakeJob(w)
  PROVE  TotalsInv'
<1>1. /\ JobTaken /\ wk[w].doing = "idle" /\ wk[w].job = Stop /\ QueuesTyped
      /\ wk[w] \in [doing : {"idle", "reading", "gone"}, job : Dirs \cup {Stop}, sent : Nat]
  BY DEF TakeJob, JobTaken, viewVars, planVars, IInv, QueuesTyped, ReadersSound
<1>2. UNCHANGED <<tree, chunks, finished, batch, cancel>>
  BY DEF TakeJob
<1>3. /\ Head(jobs) \in Dirs \cup {Stop} /\ (Head(jobs) # Stop => Head(jobs) \in InJobs)
      /\ InPending' = InPending /\ InJobs' \subseteq InJobs
  BY <1>1, JobTaking
<1>4. \A d : Recalls(d)
  BY <1>2, RecallsAll
<1>5. ReadersFit /\ ResultsFit
  BY DEF TotalsInv
<1>6. ReadersFit'
  <2> DEFINE r == IF Head(jobs) = Stop THEN [wk[w] EXCEPT !.doing = "gone"]
                  ELSE IF cancel THEN wk[w]
                  ELSE [doing |-> "reading", job |-> Head(jobs), sent |-> 0]
  <2>1. wk' = [wk EXCEPT ![w] = r]
    BY DEF TakeJob
  <2>2. r \in [doing : {"idle", "reading", "gone"}, job : Dirs \cup {Stop}, sent : Nat]
    BY <1>1, <1>3
  <2>3. r.job # Stop => r.job = Head(jobs) /\ r.sent = 0 /\ Head(jobs) \in InJobs
    BY <1>1, <1>3
  <2> HIDE DEF r
  <2>4. Turns(w, r)
    BY <1>1, <2>1, <2>2, Turning
  <2>5. ASSUME r.job # Stop PROVE ReaderFits(w)'
    <3>1. PICK d : d = Head(jobs) /\ d \in InJobs
      BY <2>3, <2>5
    <3>2. Unknown(d)
      BY <3>1 DEF TotalsInv, WaitingFit
    <3>3. Unknown(d)'
      BY <1>4, <3>2 DEF Recalls
    <3>4. wk'[w].job = d /\ wk'[w].sent = 0
      BY <2>3, <2>4, <2>5, <3>1 DEF Turns
    <3> QED BY <3>3, <3>4 DEF ReaderFits, Unknown
  <2> QED BY <1>4, <1>5, <2>4, <2>5, TurnReaders
<1>7. ResultsFit'
  BY <1>2, <1>4, <1>5, NoResults, ResultsOn
<1>8. Totals(tree)' /\ BytesExact' /\ WaitingFit'
  BY <1>2, <1>3, StillTotals
<1> QED BY <1>6, <1>7, <1>8 DEF TotalsInv

\* All of the listing from m on is in the stretch.
LEMMA StretchCovers ==
  ASSUME NEW d \in Dirs, NEW m \in Nat, NEW n \in Nat, m + n <= Len(Listing[d])
  PROVE  \A k \in DOMAIN Listing[d] :
           m < k /\ k <= m + n => Listing[d][k] \in Range(SubSeq(Listing[d], m + 1, m + n))
<1> DEFINE s == Listing[d]
           e == SubSeq(s, m + 1, m + n)
<1>1. s \in Seq(Entries) /\ Len(s) \in Nat /\ DOMAIN s = 1..Len(s)
  BY TreeAssumption DEF TreeAssumption, Entries
<1>2. m + n <= Len(s)
  OBVIOUS
<1> HIDE DEF s
<1>3. m + 1 \in 1..(Len(s) + 1) /\ m + n \in ((m + 1) - 1)..Len(s)
  BY <1>1, <1>2
<1>4. /\ e \in Seq(Entries) /\ Len(e) = (m + n) - (m + 1) + 1
      /\ \A i \in 1..((m + n) - (m + 1) + 1) : e[i] = s[(m + 1) + i - 1]
  BY <1>1, <1>3, SubSeqProperties
<1> HIDE DEF e
<1>5. (m + n) - (m + 1) + 1 = n
  OBVIOUS
<1>6. DOMAIN e = 1..n
  BY <1>4, <1>5
<1>7. ASSUME NEW k \in DOMAIN s, m < k, k <= m + n PROVE s[k] \in Range(e)
  <2>1. k - m \in 1..n /\ (m + 1) + (k - m) - 1 = k
    BY <1>1, <1>7
  <2>2. e[k - m] = s[k]
    BY <1>4, <1>5, <2>1
  <2> QED BY <1>6, <2>1, <2>2 DEF Range
<1> QED BY <1>7 DEF s, e

\* A chunk goes out.
LEMMA SendChunkTotals ==
  ASSUME IInv, TotalsInv, NEW w \in Pool, SendChunk(w)
  PROVE  TotalsInv'
<1> DEFINE l == Len(Here(w))
           m == ReadTo(w)
           n == Min({ChunkSize, l - m})
<1>1. PICK d : d = wk[w].job /\ d \in Dirs /\ d # Stop /\ d \in InWork
  BY DEF SendChunk, Reading, IInv, QueuesTyped, ReadersSound, InWork
<1>2. /\ ChunkSize \in Nat \ {0} /\ m = wk[w].sent * ChunkSize /\ Here(w) = Listing[d]
      /\ m \in Nat /\ l \in Nat /\ wk[w].sent \in Nat
  <2>1. wk[w].sent \in Nat
    BY DEF IInv, QueuesTyped
  <2>2. ChunkSize \in Nat \ {0} /\ Len(Listing[d]) \in Nat
    BY <1>1, TreeAssumption DEF TreeAssumption
  <2> QED BY <2>1, <2>2, <1>1 DEF ReadTo, Here
<1>17. DOMAIN Listing[d] = 1..l /\ Listing[d] \in Seq(Entries) /\ l = Len(Listing[d])
  BY <1>1, TreeAssumption DEF TreeAssumption, Here, Entries
<1> HIDE DEF l
<1> DEFINE e == SubSeq(Listing[d], m + 1, m + n)
           c == [path |-> d, entries |-> e]
           r == [wk[w] EXCEPT !.sent = @ + 1]
<1>3. /\ chunks' = Append(chunks, c) /\ wk' = [wk EXCEPT ![w] = r]
      /\ n = ChunkSize \/ (n > 0 /\ wk[w].sent > 0)
      /\ UNCHANGED <<tree, batch, pending, jobs, finished, cancel>>
      /\ d \notin Denied /\ QueuesTyped
  BY <1>1, <1>2 DEF SendChunk, planVars, IInv, l
<1>4. /\ n \in Nat \ {0} /\ m + n <= l
      /\ n = ChunkSize \/ n = l - m
  <2> DEFINE a == l - m
  <2>1. a \in Int /\ ChunkSize \in Int
    BY <1>2
  <2> HIDE DEF a
  <2>2. Min({ChunkSize, a}) \in {ChunkSize, a} /\ Min({ChunkSize, a}) <= a
    BY <2>1, MinOfTwo
  <2>3. n = Min({ChunkSize, a})
    BY DEF a
  <2>4. n \in {ChunkSize, l - m} /\ n <= l - m
    BY <2>2, <2>3 DEF a
  <2> HIDE DEF n, m
  <2>5. n \in Int /\ n > 0
    BY <2>4, <1>2, <1>3
  <2> QED BY <2>4, <2>5, <1>2
<1> HIDE DEF n, m
<1>5. \A k \in DOMAIN Listing[d] : m < k /\ k <= m + ChunkSize => Listing[d][k] \in Range(e)
  <2>1. m \in Nat /\ n \in Nat /\ m + n <= Len(Listing[d])
    BY <1>2, <1>4, <1>17
  <2>2. \A k \in DOMAIN Listing[d] : m < k /\ k <= m + n => Listing[d][k] \in Range(e)
    BY <1>1, <2>1, StretchCovers
  <2> HIDE DEF e
  <2>3. ASSUME NEW k \in DOMAIN Listing[d], m < k, k <= m + ChunkSize
        PROVE  k <= m + n
    <3>1. k \in 1..l
      BY <1>17
    <3> QED BY <2>3, <3>1, <1>2, <1>4
  <2> QED BY <2>2, <2>3
<1> HIDE DEF e
<1>6. /\ r \in [doing : {"idle", "reading", "gone"}, job : Dirs \cup {Stop}, sent : Nat]
      /\ r.job = d /\ r.sent = wk[w].sent + 1
  <2>1. wk[w] \in [doing : {"idle", "reading", "gone"}, job : Dirs \cup {Stop}, sent : Nat]
    BY DEF IInv, QueuesTyped
  <2> QED BY <2>1, <1>1
<1> HIDE DEF r
<1>7. Turns(w, r)
  BY <1>3, <1>6, Turning
<1>8. Pushed(chunks, chunks', c) /\ c.path = d /\ c.entries = e
  BY <1>3, Pushing DEF QueuesTyped
<1> HIDE DEF c
<1>9. \A x : Coming(x) \subseteq Coming(x)'
  BY <1>8 DEF Coming, Pushed
<1>10. Range(e) \subseteq Coming(d)'
  BY <1>8 DEF Coming, Pushed
<1>11. \A x : x # d => Recalls(x)
  <2> SUFFICES ASSUME NEW x, x # d PROVE Recalls(x)
    OBVIOUS
  <2>1. Known(x) \subseteq Known(x)'
    BY <1>3, <1>9 DEF Known
  <2>2. Unknown(x) => Unknown(x)'
    BY <1>3, <1>8 DEF Unknown, Pushed
  <2> QED BY <2>1, <2>2 DEF Recalls
<1>12. ReaderFits(w)'
  <2>1. wk'[w].job = d /\ wk'[w].sent = wk[w].sent + 1
    BY <1>6, <1>7 DEF Turns
  <2>2. wk'[w].sent # 0 /\ wk'[w].sent * ChunkSize = m + ChunkSize
    BY <2>1, <1>2
  <2>3. ReadUpTo(w)' = {Listing[d][k] : k \in {i \in DOMAIN Listing[d] : i <= m + ChunkSize}}
    BY <2>1, <2>2 DEF ReadUpTo, Here, ReadTo
  <2>4. ReadUpTo(w) = {Listing[d][k] : k \in {i \in DOMAIN Listing[d] : i <= m}}
    BY <1>2 DEF ReadUpTo, m
  <2>5. ReaderFits(w)
    BY <1>1 DEF TotalsInv, ReadersFit
  <2>6. ReadUpTo(w) \ Locked \subseteq Known(d)
    <3>1. CASE wk[w].sent = 0
      <4>1. m = 0
        BY <3>1, <1>2
      <4>2. ReadUpTo(w) = {}
        BY <4>1, <2>4, <1>17
      <4> QED BY <4>2
    <3>2. CASE wk[w].sent # 0
      BY <3>2, <2>5, <1>1 DEF ReaderFits
    <3> QED BY <3>1, <3>2
  <2>7. ChunkSize <= Len(Listing[d])
    <3>1. CASE wk[w].sent > 0
      <4>1. wk[w].sent # 0
        BY <3>1, <1>2
      <4> QED BY <4>1, <2>5, <1>1, <1>2 DEF ReaderFits
    <3>2. CASE n = ChunkSize
      BY <3>2, <1>2, <1>4, <1>17
    <3> QED BY <3>1, <3>2, <1>3
  <2>8. Known(d)' = (Range(Names(tree, d)) \cup Coming(d)') \ Locked
    BY <1>3 DEF Known
  <2>9. ReadUpTo(w)' \ Locked \subseteq Known(d)'
    <3> SUFFICES ASSUME NEW k \in DOMAIN Listing[d], k <= m + ChunkSize, Listing[d][k] \notin Locked
                 PROVE  Listing[d][k] \in Known(d)'
      BY <2>3
    <3>1. CASE k <= m
      <4>1. Listing[d][k] \in ReadUpTo(w)
        BY <3>1, <2>4
      <4>2. Listing[d][k] \in Known(d)
        BY <4>1, <2>6
      <4> QED BY <4>2, <2>8, <1>9 DEF Known
    <3>2. CASE m < k
      BY <3>2, <2>8, <1>5, <1>10
    <3>3. k \in Int /\ m \in Int
      BY <1>2, <1>17
    <3> QED BY <3>1, <3>2, <3>3
  <2>10. Here(w)' = Listing[d]
    BY <2>1 DEF Here
  <2> QED BY <2>1, <2>2, <2>7, <2>9, <2>10, <1>3 DEF ReaderFits, Known, Coming
<1>13. ReadersFit'
  <2>1. \A v \in Pool \ {w} : wk[v].job # d
    BY <1>1 DEF IInv, Apart
  <2>2. ReadersFit
    BY DEF TotalsInv
  <2> QED BY <2>1, <2>2, <1>7, <1>11, <1>12, TurnReaders
<1>14. ResultsFit'
  <2>1. \A i \in DOMAIN finished : finished[i].path # d
    BY <1>1 DEF IInv, Apart, InFinished
  <2>2. \A q \in batch : q.path # d
    BY <1>1 DEF IInv, Apart, InBatch
  <2>3. ResultsStay /\ ResultsFit
    BY <1>3, NoResults DEF TotalsInv
  <2> QED BY <2>1, <2>2, <2>3, <1>3, <1>11, ResultsOn
<1>15. WaitingFit'
  <2>1. InPending' = InPending /\ InJobs' = InJobs
    BY <1>3 DEF InPending, InJobs
  <2>2. d \notin InPending \cup InJobs
    BY <1>1 DEF IInv, Apart
  <2> QED BY <2>1, <2>2, <1>11 DEF TotalsInv, WaitingFit, Recalls
<1>16. Totals(tree)' /\ BytesExact'
  BY <1>3 DEF TotalsInv, BytesExact
<1> QED BY <1>13, <1>14, <1>15, <1>16 DEF TotalsInv

-----------------------------------------------------------------------------
(* What a worker hands back.                                               *)

LEMMA HandBackTotals ==
  ASSUME IInv, TotalsInv, NEW w \in Pool, NEW q, HandBack(w, q), ResultFits(q)
  PROVE  TotalsInv'
<1> DEFINE r == [doing |-> "idle", job |-> Stop, sent |-> 0]
<1>1. /\ finished' = Append(finished, q) /\ wk' = [wk EXCEPT ![w] = r]
      /\ UNCHANGED <<tree, chunks, batch, jobs, pending, cancel>> /\ QueuesTyped
  BY DEF HandBack, planVars, IInv
<1>2. r \in [doing : {"idle", "reading", "gone"}, job : Dirs \cup {Stop}, sent : Nat]
      /\ r.job = Stop
  OBVIOUS
<1> HIDE DEF r
<1>3. Turns(w, r)
  BY <1>1, <1>2, Turning
<1>4. Pushed(finished, finished', q)
  BY <1>1, Pushing DEF QueuesTyped
<1>5. \A d : Recalls(d)
  BY <1>1, RecallsAll
<1>6. ReadersFit'
  BY <1>2, <1>3, <1>5, TurnReaders DEF TotalsInv
<1>7. ResultsFit'
  <2>1. ASSUME NEW x, ResultFits(x) PROVE ResultFits(x)'
    BY <1>1, <1>5, <2>1, ResultFitsOn
  <2>2. \A x \in batch' : ResultFits(x)'
    BY <1>1, <2>1 DEF TotalsInv, ResultsFit
  <2>3. ASSUME NEW i \in DOMAIN finished' PROVE ResultFits(finished[i])'
    <3>1. PICK x : x = finished'[i]
      OBVIOUS
    <3>2. x = q \/ \E j \in DOMAIN finished : x = finished[j]
      BY <1>4, <3>1 DEF Pushed
    <3>3. ResultFits(x)
      BY <3>2 DEF TotalsInv, ResultsFit
    <3>4. ResultFits(x)'
      BY <2>1, <3>3
    <3> QED BY <3>1, <3>4 DEF ResultFits, Known, Unknown, Coming
  <2> QED BY <2>2, <2>3 DEF ResultsFit
<1>8. Totals(tree)' /\ BytesExact' /\ WaitingFit'
  <2>1. InPending' = InPending /\ InJobs' = InJobs
    BY <1>1 DEF InPending, InJobs
  <2> QED BY <1>1, <2>1, StillTotals
<1> QED BY <1>6, <1>7, <1>8 DEF TotalsInv

\* The sums of a result are those of what was read.
LEMMA ResultAdds ==
  ASSUME QueuesTyped, NEW w \in Pool, wk[w].job \in Dirs, NEW n \in 0..Len(Here(w)),
         NEW error \in BOOLEAN, NEW streamed \in BOOLEAN,
         NEW q, q = Result(w, n, error, streamed)
  PROVE  /\ q.path = wk[w].job /\ q.error = error /\ q.streamed = streamed
         /\ q.own \in Int /\ q.locked \in Int
         /\ ~streamed => q.own = CountIn(q.entries, Files)
         /\ n = Len(Here(w)) => q.own = CountIn(Here(w), Files)
<1> DEFINE d == wk[w].job
           e == SubSeq(Listing[d], 1, n)
<1>1. n \in Nat /\ 0 + n <= Len(Listing[d]) /\ 0 + 1 = 1 /\ 0 + n = n
  BY TreeAssumption DEF TreeAssumption, Here
<1>2. EntriesOf(d, e)
  <2>1. EntriesOf(d, SubSeq(Listing[d], 0 + 1, 0 + n))
    BY <1>1, Stretch
  <2> QED BY <2>1, <1>1
<1>3. n = Len(Here(w)) => e = Here(w)
  <2>1. Listing[d] \in Seq(Entries) /\ Here(w) = Listing[d]
    BY TreeAssumption DEF TreeAssumption, Here, Entries
  <2>2. Len(Listing[d]) \in Nat /\ DOMAIN Listing[d] = 1..Len(Listing[d])
    BY <2>1
  <2>3. SubSeq(Listing[d], 1, Len(Listing[d])) = Listing[d]
    BY <2>1, SubSeqFull
  <2> QED BY <2>1, <2>3
<1>4. q = [path |-> d, own |-> CountIn(e, Files), locked |-> CountIn(e, Locked),
           entries |-> IF streamed THEN <<>> ELSE e, error |-> error, streamed |-> streamed]
  BY DEF Result, Here
<1> HIDE DEF e
<1> DEFINE a == CountIn(e, Files)
           b == CountIn(e, Locked)
<1>5. a \in Nat /\ b \in Nat
  BY <1>2, CountInFiles
<1>6. /\ q.path = d /\ q.error = error /\ q.streamed = streamed
      /\ q.own = a /\ q.locked = b /\ (~streamed => q.entries = e)
  BY <1>4
<1>7. n = Len(Here(w)) => q.own = CountIn(Here(w), Files)
  BY <1>3, <1>6
<1>8. ~streamed => q.own = CountIn(q.entries, Files)
  BY <1>6
<1> HIDE DEF a, b
<1>9. q.own \in Int /\ q.locked \in Int
  BY <1>5, <1>6
<1> QED BY <1>6, <1>7, <1>8, <1>9

\* Once all of d is read, what was read is all there is.
LEMMA AllRead ==
  ASSUME NEW w \in Pool, wk[w].job \in Dirs, ReadTo(w) >= Len(Here(w)), ReadTo(w) \in Int
  PROVE  ReadUpTo(w) = Range(Here(w))
<1>1. DOMAIN Here(w) = 1..Len(Here(w)) /\ Len(Here(w)) \in Nat
  BY TreeAssumption DEF TreeAssumption, Here, Entries
<1>2. \A i \in DOMAIN Here(w) : i <= ReadTo(w)
  BY <1>1
<1> QED BY <1>2 DEF ReadUpTo, Range

LEMMA WorkerTotals ==
  ASSUME FirstChunkListed, IInv, TotalsInv, NEW w \in Pool, WorkerStep(w)
  PROVE  TotalsInv'
<1>1. CASE Return(w) \/ Crash(w) \/ StopReading(w)
  <2>1. Reading(w) /\ wk[w].job \in Dirs /\ wk[w].job # Stop /\ QueuesTyped
    BY <1>1 DEF Return, Crash, StopReading, Reading, IInv, QueuesTyped, ReadersSound
  <2>2. ReaderFits(w)
    BY <2>1 DEF TotalsInv, ReadersFit
  <2>3. /\ Len(Here(w)) \in Nat /\ DOMAIN Here(w) = 1..Len(Here(w)) /\ wk[w].sent \in Nat
        /\ ChunkSize \in Nat \ {0} /\ Here(w) = Listing[wk[w].job]
    BY <2>1, TreeAssumption DEF TreeAssumption, QueuesTyped, Here, Entries
  <2>4. ReadTo(w) \in Nat /\ (wk[w].sent # 0 => ReadTo(w) >= ChunkSize)
    <3>1. ReadTo(w) \in Nat
      BY <2>3 DEF ReadTo
    <3>2. ASSUME wk[w].sent # 0 PROVE ReadTo(w) >= ChunkSize
      <4>1. PICK k \in Nat : wk[w].sent = k + 1
        <5>1. wk[w].sent - 1 \in Nat /\ wk[w].sent = (wk[w].sent - 1) + 1
          BY <2>3, <3>2
        <5> QED BY <5>1
      <4>2. ReadTo(w) = k * ChunkSize + ChunkSize
        BY <4>1, <2>3 DEF ReadTo
      <4>3. k * ChunkSize \in Nat
        BY <2>3
      <4> QED BY <4>2, <4>3, <2>3
    <3> QED BY <3>1, <3>2
  <2>5. ASSUME NEW n \in 0..Len(Here(w)), NEW error \in BOOLEAN, NEW streamed \in BOOLEAN,
               HandBack(w, Result(w, n, error, streamed)),
               streamed => \/ cancel
                           \/ n = Len(Here(w)) /\ Range(Here(w)) \ Locked \subseteq Known(wk[w].job),
               ~streamed => \/ wk[w].sent = 0
                            \/ error /\ Known(wk[w].job) # {}
        PROVE  TotalsInv'
    <3>1. PICK q : q = Result(w, n, error, streamed)
      OBVIOUS
    <3>2. /\ q.path = wk[w].job /\ q.error = error /\ q.streamed = streamed
          /\ q.own \in Int /\ q.locked \in Int
          /\ ~streamed => q.own = CountIn(q.entries, Files)
          /\ n = Len(Here(w)) => q.own = CountIn(Here(w), Files)
      BY <2>1, <3>1, ResultAdds
    <3>3. ~streamed => Unknown(q.path) \/ (error /\ Known(q.path) # {})
      BY <2>2, <2>5, <3>2 DEF ReaderFits
    <3>4. ResultFits(q)
      BY <2>3, <2>5, <3>2, <3>3 DEF ResultFits
    <3> QED BY <2>5, <3>1, <3>4, HandBackTotals
  <2>6. CASE Return(w)
    <3>1. CASE wk[w].job \in Denied /\ HandBack(w, Result(w, 0, TRUE, FALSE))
      <4>1. wk[w].sent = 0 /\ 0 \in 0..Len(Here(w))
        BY <2>2, <2>3, <3>1 DEF ReaderFits
      <4> QED BY <2>5, <3>1, <4>1
    <3>2. CASE /\ IF wk[w].sent = 0 THEN Len(Here(w)) < ChunkSize
                  ELSE ReadTo(w) >= Len(Here(w))
               /\ HandBack(w, Result(w, Len(Here(w)), FALSE, wk[w].sent > 0))
      <4>1. Len(Here(w)) \in 0..Len(Here(w))
        BY <2>3
      <4>2. CASE wk[w].sent = 0
        <5>1. (wk[w].sent > 0) = FALSE
          BY <4>2
        <5> QED BY <2>5, <3>2, <4>1, <4>2, <5>1
      <4>3. CASE wk[w].sent # 0
        <5>1. (wk[w].sent > 0) = TRUE
          BY <4>3, <2>3
        <5>2. ReadUpTo(w) = Range(Here(w))
          BY <2>1, <2>4, <3>2, <4>3, AllRead
        <5>3. Range(Here(w)) \ Locked \subseteq Known(wk[w].job)
          BY <2>2, <4>3, <5>2 DEF ReaderFits
        <5>4. HandBack(w, Result(w, Len(Here(w)), FALSE, TRUE))
          BY <3>2, <5>1
        <5> QED BY <2>5, <4>1, <5>3, <5>4
      <4> QED BY <4>2, <4>3
    <3> QED BY <2>6, <3>1, <3>2 DEF Return
  <2>7. CASE Crash(w)
    <3>1. wk[w].job \in Crashing /\ HandBack(w, Result(w, 0, TRUE, FALSE)) /\ 0 \in 0..Len(Here(w))
      <4>1. wk[w].job \in Crashing /\ HandBack(w, Result(w, 0, TRUE, FALSE))
        BY <2>7 DEF Crash
      <4>2. 0 \in 0..Len(Here(w))
        BY <2>3
      <4> QED BY <4>1, <4>2
    <3>2. ASSUME wk[w].sent # 0 PROVE Known(wk[w].job) # {}
      <4>1. wk[w].job \notin Denied /\ ChunkSize <= Len(Here(w))
            /\ ReadUpTo(w) \ Locked \subseteq Known(wk[w].job)
        BY <2>2, <3>2 DEF ReaderFits
      <4>2. PICK i \in 1..ChunkSize : Here(w)[i] \notin Locked
        BY <2>3, <3>1, <4>1 DEF FirstChunkListed
      <4>3. i \in DOMAIN Here(w) /\ i <= ReadTo(w)
        BY <2>3, <2>4, <3>2, <4>1
      <4>4. Here(w)[i] \in ReadUpTo(w)
        BY <4>3 DEF ReadUpTo
      <4> QED BY <4>1, <4>2, <4>4
    <3> QED BY <2>5, <3>1, <3>2
  <2>8. CASE StopReading(w)
    <3>1. PICK n \in 0..Len(Here(w)) :
            HandBack(w, Result(w, n, FALSE, wk[w].sent > 0 \/ n = ChunkSize))
      BY <2>8 DEF StopReading
    <3>2. cancel
      BY <2>8 DEF StopReading
    <3>3. PICK streamed \in BOOLEAN : streamed = (wk[w].sent > 0 \/ n = ChunkSize)
      OBVIOUS
    <3>4. HandBack(w, Result(w, n, FALSE, streamed))
      BY <3>1, <3>3
    <3>5. ~streamed => wk[w].sent = 0
      <4>1. ~streamed => ~(wk[w].sent > 0)
        BY <3>3, Zenon
      <4>2. ~(wk[w].sent > 0) => wk[w].sent = 0
        BY <2>3
      <4> QED BY <4>1, <4>2
    <3> QED BY <2>5, <3>2, <3>4, <3>5
  <2> QED BY <1>1, <2>6, <2>7, <2>8
<1>2. CASE TakeJob(w)
  BY <1>2, TakeJobTotals
<1>3. CASE SendChunk(w)
  BY <1>3, SendChunkTotals
<1> QED BY <1>1, <1>2, <1>3 DEF WorkerStep

-----------------------------------------------------------------------------
(* Steps of the scheduler that change the tree, and the totals.            *)

\* The tree took exactly d's own and names: the totals are kept, and of another
\* directory as much is known as before.
LEMMA FedTotals ==
  ASSUME TotalsInv, NEW d \in Dirs, NEW own, NEW names, Exact(tree, tree', d, own, names),
         ExactBytes(own, names), cancel' = cancel
  PROVE  Totals(tree)' /\ BytesExact'
<1>1. /\ Totals(tree') /\ Current(tree', d).own = own /\ Range(Names(tree', d)) = names
      /\ \A a \in Dirs \ {d} : /\ Current(tree', a).own = Current(tree, a).own
                               /\ Range(Names(tree', a)) = Range(Names(tree, a))
  BY DEF Exact, Steady
<1>2. BytesExact'
  <2>1. CASE cancel
    BY <2>1 DEF BytesExact
  <2>2. CASE ~cancel
    <3>1. \A a \in Dirs : OwnBytes(tree, a)
      BY <2>2 DEF TotalsInv, BytesExact
    <3>2. own = Cardinality(names \cap Files)
      BY <2>2 DEF ExactBytes
    <3>3. ASSUME NEW a \in Dirs PROVE OwnBytes(tree', a)
      <4>1. CASE a = d
        BY <1>1, <3>2, <4>1 DEF OwnBytes
      <4>2. CASE a # d
        BY <1>1, <3>1, <4>2 DEF OwnBytes
      <4> QED BY <4>1, <4>2
    <3> QED BY <3>3 DEF BytesExact
  <2> QED BY <2>1, <2>2
<1> QED BY <1>1, <1>2

\* Chunks for a that were there still are, and none is if none was.
Brings(a) ==
  /\ Coming(a)' = Coming(a)
  /\ (\A i \in DOMAIN chunks : chunks[i].path # a) =>
       \A i \in DOMAIN chunks' : chunks'[i].path # a

LEMMA FedRecalls ==
  ASSUME NEW d, NEW own, NEW names, Exact(tree, tree', d, own, names),
         NEW a \in Dirs \ {d}, Brings(a)
  PROVE  Recalls(a)
<1>1. /\ Range(Names(tree', a)) = Range(Names(tree, a))
      /\ Current(tree, a) = Blank => Current(tree', a) = Blank
  BY DEF Exact, Steady
<1>2. Known(a)' = (Range(Names(tree', a)) \cup Coming(a)') \ Locked
  BY DEF Known
<1>3. Known(a) \subseteq Known(a)'
  BY <1>1, <1>2 DEF Known, Brings
<1>4. Unknown(a) => Unknown(a)'
  BY <1>1 DEF Unknown, Brings
<1> QED BY <1>3, <1>4 DEF Recalls

LEMMA RecalledTotals ==
  ASSUME TotalsInv, Totals(tree)', BytesExact', NEW T, \A d \in T : Recalls(d),
         UNCHANGED <<wk, pending, jobs, finished>>, batch' \subseteq batch, cancel' = cancel,
         InPending \cup InJobs \cup InWork \cup InFinished \cup InBatch' \subseteq T
  PROVE  TotalsInv'
<1>1. ReadersFit'
  <2>1. ASSUME NEW w \in Pool, wk[w].job # Stop PROVE ReaderFits(w)'
    <3>1. ReaderFits(w) /\ wk'[w] = wk[w]
      BY <2>1 DEF TotalsInv, ReadersFit
    <3>2. PICK d : d = wk[w].job
      OBVIOUS
    <3>3. Recalls(d)
      BY <2>1, <3>2 DEF InWork
    <3> QED BY <3>1, <3>2, <3>3, ReaderFitsOn
  <2> QED BY <2>1 DEF ReadersFit
<1>2. ResultsFit'
  <2>1. \A i \in DOMAIN finished : finished[i].path \in T
    BY DEF InFinished
  <2>2. \A r \in batch' : r.path \in T
    BY DEF InBatch
  <2>3. ResultsStay
    BY DEF ResultsStay
  <2> QED BY <2>1, <2>2, <2>3, ResultsOn DEF TotalsInv
<1>3. WaitingFit'
  <2>1. InPending' = InPending /\ InJobs' = InJobs
    BY DEF InPending, InJobs
  <2> QED BY <2>1 DEF TotalsInv, WaitingFit, Recalls
<1> QED BY <1>1, <1>2, <1>3 DEF TotalsInv

LEMMA DrainChunkTotals ==
  ASSUME IInv, BookInv, TotalsInv, DrainChunk
  PROVE  TotalsInv'
<1>0. PICK c : c = Head(chunks)
  OBVIOUS
<1> DEFINE d == c.path
<1>1. /\ chunks # <<>> /\ chunks' = Tail(chunks) /\ cancel' = cancel
      /\ UNCHANGED <<wk, pending, jobs, finished, batch>>
  BY DEF DrainChunk
<1>2. /\ Popped(chunks, chunks') /\ c = chunks[1] /\ 1 \in DOMAIN chunks
      /\ c.path \in Dirs /\ EntriesOf(c.path, c.entries)
      /\ Range(c.entries) \cap Range(Names(tree, c.path)) = {}
  BY <1>0, <1>1, ChunkAwaited
<1>3. PICK own, names :
        /\ Exact(tree, tree', d, own, names)
        /\ own = Current(tree, d).own + CountIn(c.entries, Files)
        /\ names = Range(Names(tree, d)) \cup Range(Listed(c.entries))
  BY <1>0, ChunkCounted DEF TotalsInv
<1>4. /\ Range(Listed(c.entries)) = Range(c.entries) \ Locked /\ EntriesOf(d, Listed(c.entries))
      /\ CountIn(c.entries, Files) = Cardinality(Range(Listed(c.entries)) \cap Files)
      /\ IsFiniteSet(Range(Listed(c.entries)))
  BY <1>2, ListedSound, CountInFiles
<1>5. EntriesOf(d, Names(tree, d)) /\ IsFiniteSet(Range(Names(tree, d)))
  <2>1. EntriesOf(d, Names(tree, d))
    BY <1>2, ShapeOf DEF IInv, TreeInv, Sound, ShapeSound, NamesSound, NamesSoundAt
  <2> QED BY <2>1, CountInFiles
<1>6. ExactBytes(own, names)
  <2>1. CASE cancel
    BY <2>1 DEF ExactBytes
  <2>2. CASE ~cancel
    <3> DEFINE A == Range(Names(tree, d)) \cap Files
               B == Range(Listed(c.entries)) \cap Files
    <3>1. Current(tree, d).own = Cardinality(A)
      BY <2>2, <1>2 DEF TotalsInv, BytesExact, OwnBytes
    <3>2. IsFiniteSet(A) /\ IsFiniteSet(B) /\ A \cap B = {}
      BY <1>2, <1>4, <1>5, FS_Subset
    <3>3. Cardinality(A \cup B) = Cardinality(A) + Cardinality(B)
      <4> HIDE DEF A, B
      <4>1. Cardinality(A \cup B) = Cardinality(A) + Cardinality(B) - Cardinality(A \cap B)
        BY <3>2, FS_Union
      <4>2. Cardinality(A \cap B) = 0 /\ Cardinality(A) \in Nat /\ Cardinality(B) \in Nat
        BY <3>2, FS_EmptySet, FS_CardinalityType
      <4> QED BY <4>1, <4>2
    <3>4. A \cup B = names \cap Files
      BY <1>3
    <3> QED BY <3>1, <3>3, <3>4, <1>3, <1>4 DEF ExactBytes
  <2> QED BY <2>1, <2>2
<1>7. Range(Names(tree', d)) = names
  BY <1>3 DEF Exact
<1>8. Range(Names(tree', d)) \ Locked = (Range(Names(tree, d)) \cup Range(c.entries)) \ Locked
  BY <1>3, <1>4, <1>7
<1>9. Totals(tree)' /\ BytesExact'
  BY <1>1, <1>2, <1>3, <1>6, FedTotals
<1>10. \A i \in DOMAIN chunks' : i + 1 \in DOMAIN chunks /\ chunks'[i] = chunks[i + 1]
  BY <1>2 DEF Popped
<1>11. \A i \in DOMAIN chunks : chunks[i] = c \/ \E j \in DOMAIN chunks' : chunks[i] = chunks'[j]
  <2>1. \A i \in DOMAIN chunks : i = 1 \/ \E j \in DOMAIN chunks' : i = j + 1
    BY <1>2 DEF Popped
  <2> QED BY <2>1, <1>2, <1>10
<1>12. Coming(d) \subseteq Range(c.entries) \cup Coming(d)'
  <2> SUFFICES ASSUME NEW x \in Coming(d), x \notin Range(c.entries)
               PROVE  x \in Coming(d)'
    OBVIOUS
  <2>1. PICK i \in DOMAIN chunks : chunks[i].path = d /\ x \in Range(chunks[i].entries)
    BY DEF Coming
  <2>2. PICK j \in DOMAIN chunks' : chunks[i] = chunks'[j]
    BY <1>11, <2>1
  <2> QED BY <2>1, <2>2 DEF Coming
<1>13. \A a : a # d => Brings(a)
  <2> SUFFICES ASSUME NEW a, a # d PROVE Brings(a)
    OBVIOUS
  <2>1. Coming(a)' = Coming(a)
    BY <1>10, <1>11 DEF Coming
  <2>2. (\A i \in DOMAIN chunks : chunks[i].path # a) =>
          \A i \in DOMAIN chunks' : chunks'[i].path # a
    BY <1>10
  <2> QED BY <2>1, <2>2 DEF Brings
<1>14. ASSUME NEW a \in Dirs PROVE Recalls(a)
  <2>1. CASE a # d
    BY <2>1, <1>3, <1>13, FedRecalls
  <2>2. CASE a = d
    <3>1. Known(a)' = (Range(Names(tree', a)) \ Locked) \cup (Coming(a)' \ Locked)
      BY DEF Known
    <3>2. Known(a) = (Range(Names(tree, d)) \cup Coming(d)) \ Locked
      BY <2>2 DEF Known
    <3>3. Known(a)' = (Range(Names(tree', d)) \ Locked) \cup (Coming(d)' \ Locked)
      BY <2>2, <3>1
    <3>4. Known(a) \subseteq Known(a)'
      <4> HIDE DEF d
      <4> QED BY <3>2, <3>3, <1>8, <1>12
    <3>5. ~Unknown(a)
      BY <2>2, <1>2 DEF Unknown
    <3> QED BY <3>4, <3>5 DEF Recalls
  <2> QED BY <2>1, <2>2
<1>15. InPending \cup InJobs \cup InWork \cup InFinished \cup InBatch' \subseteq Dirs
  BY <1>1 DEF IInv, TasksSound, Tasks, Out, InBatch
<1> QED BY <1>1, <1>9, <1>14, <1>15, RecalledTotals

LEMMA ApplyTotals ==
  ASSUME IInv, BookInv, TotalsInv, Apply
  PROVE  TotalsInv'
<1>1. PICK r \in batch :
        Publish(ApplyResult(tree, r), r.path = Root) /\ batch' = batch \ {r}
  BY DEF Apply
<1>2. /\ UNCHANGED <<wk, pending, jobs, finished>> /\ chunks' = chunks /\ cancel' = cancel
      /\ pc = "apply" \/ chunks = <<>>
  BY DEF Apply
<1>3. r.path \in InBatch /\ r.path \in Dirs
  BY DEF InBatch, IInv, ResultsSound
<1>4. \A i \in DOMAIN chunks : chunks[i].path # r.path
  BY <1>2, <1>3 DEF IInv, ResultsSound
<1>5. PICK own, names : Exact(tree, tree', r.path, own, names) /\ ExactBytes(own, names)
  BY <1>1, <1>4, ResultCounted
<1>6. Totals(tree)' /\ BytesExact'
  BY <1>2, <1>3, <1>5, FedTotals
<1>7. ASSUME NEW a \in Dirs \ {r.path} PROVE Recalls(a)
  <2>1. Brings(a)
    BY <1>2 DEF Brings, Coming
  <2> QED BY <2>1, <1>5, FedRecalls
<1>8. InPending \cup InJobs \cup InWork \cup InFinished \cup InBatch' \subseteq Dirs \ {r.path}
  <2>1. r.path \notin InPending \cup InJobs \cup InWork \cup InFinished
    BY <1>3 DEF IInv, Apart
  <2>2. InBatch' = InBatch \ {r.path}
    BY <1>1 DEF InBatch, IInv, Apart
  <2> QED BY <2>1, <2>2 DEF IInv, TasksSound, Tasks, Out
<1>9. batch' \subseteq batch
  BY <1>1
<1> QED BY <1>2, <1>6, <1>7, <1>8, <1>9, RecalledTotals

\* Who is handed out has nothing yet.
LEMMA HandOutTotals ==
  ASSUME IInv, TotalsInv, HandOut
  PROVE  TotalsInv'
<1>1. /\ UNCHANGED <<wk, jobs, finished, batch, chunks, cancel>>
  BY DEF HandOut
<1>2. NodesStay(tree, tree')
  BY TurnStays
<1>3. Totals(tree')
  BY <1>2, TotalsAlike DEF TotalsInv
<1>4. tree'.heap = tree.heap
  BY <1>2 DEF NodesStay
<1>5. \A a : Current(tree', a) = Current(tree, a) /\ Names(tree', a) = Names(tree, a)
  BY <1>4, SameNodes
<1>6. ASSUME NEW a PROVE Recalls(a)
  <2>1. Known(a)' = Known(a)
    BY <1>1, <1>5 DEF Known, Coming
  <2>2. Unknown(a)' = Unknown(a)
    BY <1>1, <1>5 DEF Unknown
  <2> QED BY <2>1, <2>2 DEF Recalls
<1>7. BytesExact'
  BY <1>1, <1>5 DEF TotalsInv, BytesExact, OwnBytes
<1>8. ReadersFit'
  <2>1. ASSUME NEW w \in Pool, wk[w].job # Stop PROVE ReaderFits(w)'
    <3>1. ReaderFits(w) /\ wk'[w] = wk[w]
      BY <1>1, <2>1 DEF TotalsInv, ReadersFit
    <3>2. PICK d : d = wk[w].job
      OBVIOUS
    <3> QED BY <1>6, <3>1, <3>2, ReaderFitsOn
  <2> QED BY <1>1, <2>1 DEF ReadersFit
<1>9. ResultsFit'
  BY <1>1, <1>6, NoResults, ResultsOn DEF TotalsInv
<1>10. WaitingFit'
  <2>1. InJobs' = InJobs
    BY <1>1 DEF InJobs
  <2>2. ASSUME NEW a \in InPending \cup InJobs PROVE Unknown(a)'
    BY <1>6, <2>2 DEF TotalsInv, WaitingFit, Recalls
  <2>3. TurnTaken
    BY SourceTurns
  <2>4. CASE pending' = pending
    <3>1. InPending' = InPending
      BY <2>4 DEF InPending
    <3> QED BY <2>1, <2>2, <3>1 DEF WaitingFit
  <2>5. CASE \E c \in Dirs : pending' = Append(pending, c) /\ c \notin Out(Shape(tree))
    <3>1. PICK c \in Dirs : pending' = Append(pending, c) /\ c \notin Out(Shape(tree))
      BY <2>5
    <3>2. InPending' = InPending \cup {c}
      <4>1. Pushed(pending, Append(pending, c), c)
        BY Pushing DEF IInv, QueuesTyped
      <4> QED BY <3>1, <4>1 DEF Pushed, InPending
    <3>3. Current(tree, c) = Blank
      BY <3>1 DEF TotalsInv, Totals, RestBlank
    <3>4. \A i \in DOMAIN chunks : chunks[i].path # c
      BY <3>1 DEF IInv, ChunksSound, TasksSound, Tasks
    <3>5. Unknown(c)'
      BY <1>6, <3>3, <3>4 DEF Unknown, Recalls
    <3> QED BY <2>1, <2>2, <3>2, <3>5 DEF WaitingFit
  <2> QED BY <2>3, <2>4, <2>5 DEF TurnTaken
<1> QED BY <1>3, <1>7, <1>8, <1>9, <1>10 DEF TotalsInv

LEMMA StepTotals ==
  ASSUME FirstChunkListed, IInv, BookInv, TotalsInv, [Next]_vars
  PROVE  TotalsInv'
<1>1. CASE SchedulerStep
  BY <1>1, TopTotals, DrainChunkTotals, HandOutTotals, AsideTotals, SubmitTotals,
     CollectTotals, ApplyTotals DEF SchedulerStep
<1>2. CASE Abort \/ Cancel \/ UNCHANGED vars
  BY <1>2, AsideTotals
<1>3. CASE \E w \in Pool : WorkerStep(w)
  BY <1>3, WorkerTotals
<1> QED BY <1>1, <1>2, <1>3 DEF Next

-----------------------------------------------------------------------------
(* The totals of every frame.                                              *)

LEMMA InitTotals ==
  ASSUME Init
  PROVE  TotalsInv
<1>1. /\ tree.heap = [d \in Dirs |-> <<Blank>>]
      /\ tree.at = [d \in Dirs |-> [Fresh(0, 0) EXCEPT !.live = (d = Root)]]
      /\ cancel = FALSE /\ batch = {} /\ jobs = <<>> /\ chunks = <<>> /\ finished = <<>>
      /\ pending = <<Root>> /\ wk = [w \in Pool |-> [doing |-> "idle", job |-> Stop, sent |-> 0]]
  BY DEF Init
<1>2. Len(<<Blank>>) = 1 /\ <<Blank>>[1] = Blank /\ Blank.kids = <<>> /\ IsCounted(Blank)
  <2>1. \A b : Len(<<b>>) = 1 /\ <<b>>[1] = b
    OBVIOUS
  <2> QED BY <2>1, BlankCounted
<1>3. \A d \in Dirs : Current(tree, d) = Blank /\ tree.at[d].locked = 0
  BY <1>1, <1>2 DEF Current, Fresh
<1>4. \A d \in Dirs : Range(Names(tree, d)) = {} /\ Brood(tree, d) = {}
  <2> SUFFICES ASSUME NEW d \in Dirs
               PROVE  Range(Names(tree, d)) = {} /\ Brood(tree, d) = {}
    OBVIOUS
  <2>1. Kids(tree, d) = <<>>
    BY <1>2, <1>3 DEF Kids
  <2>2. Range(NamesOf(<<>>)) = {}
    BY DEF NamesOf, Range
  <2> QED BY <2>1, <2>2 DEF Names, Brood, BroodOf
<1>5. Recounted(tree, Given(tree))
  <2>1. ASSUME NEW f \in Fields, NEW g PROVE SumOf(g, f, {}) = 0
    BY SumOfNone DEF SumOf
  <2>2. ASSUME NEW f \in Fields PROVE Tallies(Blank)[f] = 0 /\ Base(Blank.own, 0, 0)[f] = 0
    BY <2>2 DEF Tallies, Base, Blank, Fields
  <2>3. Cardinality({}) = 0
    BY FS_EmptySet
  <2>4. ASSUME NEW d \in Dirs
        PROVE  IsRecount(Current(tree, d), tree.at[d].locked, Given(tree), Brood(tree, d))
    <3>1. ASSUME NEW f \in Fields
          PROVE  Tallies(Blank)[f] = Base(Blank.own, 0, Cardinality({}))[f] + SumOf(Given(tree), f, {})
      BY <2>1, <2>2, <2>3
    <3> QED BY <1>3, <1>4, <3>1 DEF IsRecount
  <2> QED BY <2>4 DEF Recounted
<1>6. CountedTree(tree) /\ RestBlank(tree)
  BY <1>2, <1>3 DEF CountedTree, RestBlank
<1>7. BytesExact
  <2>1. \A d \in Dirs : Current(tree, d).own = 0 /\ Range(Names(tree, d)) \cap Files = {}
    BY <1>3, <1>4 DEF Blank
  <2> QED BY <2>1, FS_EmptySet DEF BytesExact, OwnBytes
<1>8. WaitingFit
  <2>1. InPending \cup InJobs \subseteq Dirs
    BY <1>1, TreeAssumption DEF TreeAssumption, InPending, InJobs, Range
  <2>2. \A d \in Dirs : Unknown(d)
    BY <1>1, <1>3 DEF Unknown
  <2> QED BY <2>1, <2>2 DEF WaitingFit
<1>9. ReadersFit /\ ResultsFit
  BY <1>1 DEF ReadersFit, ResultsFit
<1> QED BY <1>5, <1>6, <1>7, <1>8, <1>9 DEF TotalsInv, Totals

LEMMA CountedSame ==
  ASSUME NEW n, NEW r, IsCounted(n), IsCounted(r),
         n.own = r.own, n.error = r.error, n.kids = r.kids, n.size = r.size,
         n.dirs = r.dirs, n.direct = r.direct, n.unread = r.unread, n.denied = r.denied,
         n.partial = r.partial
  PROVE  n = r
BY DEF IsCounted

\* Whatever is counted by differences is what a recount from the nodes a frame
\* shows would find.
LEMMA NodesExact ==
  ASSUME IInv, BookInv, TotalsInv, NEW d \in Dirs
  PROVE  LET n == Current(tree, d)
         IN /\ n = Recalculated([n EXCEPT !.direct = tree.at[d].locked], tree.heap)
            /\ ~cancel => n.own = Cardinality({i \in DOMAIN n.kids : n.kids[i][1] \in Files})
<1> DEFINE n   == Current(tree, d)
           l   == tree.at[d].locked
           m   == [n EXCEPT !.direct = l]
           cur == [e \in Dirs |-> Current(tree, e)]
           g   == [e \in Dirs |-> Contribution(cur[e])]
           r   == Recalculated(m, tree.heap)
<1>1. IsCounted(n) /\ l \in Int /\ \A e \in Dirs : IsCounted(cur[e])
  BY DEF TotalsInv, Totals, CountedTree
<1>2. EntriesOf(d, Names(tree, d))
  BY ShapeOf DEF IInv, TreeInv, Sound, ShapeSound, NamesSound, NamesSoundAt
<1>3. DOMAIN Names(tree, d) = DOMAIN n.kids /\ \A i \in DOMAIN n.kids : Names(tree, d)[i] = n.kids[i][1]
  BY DEF Names, NamesOf, Kids
<1>4. \A i, j \in DOMAIN n.kids : n.kids[i][1] = n.kids[j][1] => i = j
  BY <1>2, <1>3 DEF EntriesOf
<1>5. ASSUME NEW i \in DOMAIN n.kids, n.kids[i][1] \in Dirs
      PROVE  tree.heap[n.kids[i][1]][n.kids[i][2]] = cur[n.kids[i][1]]
  <2>1. n.kids[i] = Ref(tree, n.kids[i][1])
    BY <1>5 DEF BookInv, Booked, PlacesBut, Kids
  <2> HIDE DEF n
  <2>2. PICK e \in Dirs : e = n.kids[i][1]
    BY <1>5
  <2>3. n.kids[i][2] = Len(tree.heap[e])
    BY <2>1, <2>2 DEF Ref
  <2> QED BY <2>2, <2>3 DEF Current
<1>6. IsCounted(m) /\ m.kids = n.kids /\ m.own = n.own /\ m.error = n.error /\ m.direct = l
  <2> HIDE DEF n, l
  <2> QED BY <1>1 DEF IsCounted
<1>7. Given(tree) = g
  BY DEF Given
<1>8. IsRecount(n, l, g, BroodOf(n.kids))
  BY <1>7 DEF TotalsInv, Totals, Recounted, Brood, Kids
<1> HIDE DEF n, l, m, cur
<1>9. Leads(m, tree.heap, cur)
  BY <1>1, <1>4, <1>5, <1>6 DEF Leads
<1>10. /\ IsCounted(r) /\ r.own = m.own /\ r.error = m.error /\ r.kids = m.kids
       /\ IsRecount(r, m.direct, g, BroodOf(m.kids))
  BY <1>6, <1>9, RecalculatedRecounts
<1> HIDE DEF r, g
<1>11. \A f \in Fields : Tallies(n)[f] = Tallies(r)[f]
  BY <1>6, <1>8, <1>10 DEF IsRecount
<1>12. /\ n.size = r.size /\ n.dirs = r.dirs /\ n.direct = r.direct /\ n.unread = r.unread
       /\ n.denied = r.denied /\ n.partial = r.partial
  BY <1>11 DEF Fields, Tallies
<1>13. n = r
  BY <1>1, <1>6, <1>10, <1>12, CountedSame
<1>14. ASSUME ~cancel
       PROVE  n.own = Cardinality({i \in DOMAIN n.kids : n.kids[i][1] \in Files})
  <2> DEFINE s == Names(tree, d)
  <2>1. n.own = Cardinality(Range(s) \cap Files)
    BY <1>14 DEF TotalsInv, BytesExact, OwnBytes, n
  <2>2. CountIn(s, Files) = Cardinality(Range(Listed(s)) \cap Files)
        /\ Range(Listed(s)) = Range(s) \ Locked
    BY <1>2, CountInFiles, ListedSound
  <2>3. Range(Listed(s)) \cap Files = Range(s) \cap Files
    BY <2>2, TreeAssumption DEF TreeAssumption
  <2>4. {i \in DOMAIN s : s[i] \in Files} = {i \in DOMAIN n.kids : n.kids[i][1] \in Files}
    BY <1>3
  <2> HIDE DEF s
  <2> QED BY <2>1, <2>2, <2>3, <2>4 DEF CountIn
<1> QED BY <1>13, <1>14 DEF n, r, m, l

LEMMA TotalsExact ==
  ASSUME IInv, BookInv, TotalsInv
  PROVE  AggregatesExact
<1>1. ASSUME NEW ref \in SeenRefs(tree)
      PROVE  LET n == tree.heap[ref[1]][ref[2]]
             IN /\ n = Recalculated([n EXCEPT !.direct = tree.at[ref[1]].locked], tree.heap)
                /\ ~cancel => n.own = Cardinality({i \in DOMAIN n.kids : n.kids[i][1] \in Files})
  <2>1. ref[1] \in Dirs /\ ref = Ref(tree, ref[1])
    BY SeenCurrent DEF IInv, TreeInv, BookInv
  <2>2. PICK d \in Dirs : d = ref[1]
    BY <2>1
  <2>3. ref[2] = Len(tree.heap[d])
    BY <2>1, <2>2 DEF Ref
  <2>4. tree.heap[ref[1]][ref[2]] = Current(tree, d)
    BY <2>2, <2>3 DEF Current
  <2> DEFINE n == Current(tree, d)
  <2>5. /\ n = Recalculated([n EXCEPT !.direct = tree.at[d].locked], tree.heap)
        /\ ~cancel => n.own = Cardinality({i \in DOMAIN n.kids : n.kids[i][1] \in Files})
    BY NodesExact
  <2> HIDE DEF n
  <2> QED BY <2>2, <2>4, <2>5 DEF n
<1> QED BY <1>1 DEF AggregatesExact

\* While the scan runs: every directory's totals are its own numbers and what its
\* child directories bring, and what the workers know of a directory fits what
\* the tree has of it.
THEOREM TotalsAreKept == FirstChunkListed /\ Spec => []TotalsInv
<1> SUFFICES ASSUME FirstChunkListed PROVE Spec => []TotalsInv
  OBVIOUS
<1>1. Init => TotalsInv
  BY InitTotals
<1>2. IInv /\ BookInv /\ TotalsInv /\ [Next]_vars => TotalsInv'
  BY StepTotals
<1>3. Spec => []IInv
  BY ScanInvariant
<1>4. Spec => []BookInv
  BY BooksAreKept
<1> QED BY <1>1, <1>2, <1>3, <1>4, PTL DEF Spec

\* Every frame, and the report at the end, shows totals that a recount from the
\* directories in it would find, and of a scan nobody cancelled the bytes of the
\* files that are listed: what _propagate_contribution() and its like add and take
\* away along the ancestors never drifts, for any tree, workers and chunks, where
\* the first chunk of a directory whose worker dies has something in it to list.
THEOREM AggregatesStayExact == FirstChunkListed /\ Spec => []AggregatesExact
<1>1. IInv /\ BookInv /\ TotalsInv => AggregatesExact
  BY TotalsExact
<1>2. Spec => []IInv
  BY ScanInvariant
<1>3. Spec => []BookInv
  BY BooksAreKept
<1> QED BY <1>1, <1>2, <1>3, TotalsAreKept, PTL
=============================================================================
