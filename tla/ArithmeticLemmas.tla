------------------------- MODULE ArithmeticLemmas --------------------------
(***************************************************************************)
(* Facts that the proofs about epochs, periods and rails share: extrema of *)
(* small and of bounded sets, division with remainder, induction, sums     *)
(* over finite sets, and the arithmetic of proving periods.                *)
(***************************************************************************)
EXTENDS ProvingPeriods, FiniteSetTheorems, WellFoundedInduction, TLAPS

\* The smaller of two integers, as FilecoinPay and the arbitration clamp epochs.
LEMMA MinOfTwo ==
  ASSUME NEW a \in Int, NEW b \in Int
  PROVE  Min({a, b}) = IF a <= b THEN a ELSE b
BY DEF Min

\* The larger of two integers.
LEMMA MaxOfTwo ==
  ASSUME NEW a \in Int, NEW b \in Int
  PROVE  Max({a, b}) = IF a >= b THEN a ELSE b
BY DEF Max

\* A non-empty set of natural numbers has a least element, which is its Min.
LEMMA MinOfNaturals ==
  ASSUME NEW T \in SUBSET Nat, T # {}
  PROVE  Min(T) \in T /\ \A x \in T : Min(T) <= x
<1> DEFINE less == {pair \in Nat \X Nat : pair[1] < pair[2]}
<1>1. IsWellFoundedOn(less, Nat)
  BY NatLessThanWellFounded, Zenon DEF OpToRel
<1>2. PICK x \in T : \A y \in T : ~ (<<y, x>> \in less)
  <2> HIDE DEF less
  <2> QED BY <1>1, WFMin
<1>3. ASSUME NEW y \in T PROVE x <= y
  <2>1. y < x => <<y, x>> \in less
    OBVIOUS
  <2>2. QED BY <1>2, <2>1
<1>4. QED BY <1>3 DEF Min

\* A non-empty set of integers with an upper bound has a greatest element, which is
\* its Max.
LEMMA MaxOfBoundedSet ==
  ASSUME NEW T \in SUBSET Int, T # {}, NEW b \in Int, \A x \in T : x <= b
  PROVE  Max(T) \in T /\ \A x \in T : Max(T) >= x
<1> DEFINE gaps == {n \in Nat : b - n \in T}
<1>1. gaps \in SUBSET Nat /\ gaps # {}
  <2>1. PICK x \in T : TRUE
    OBVIOUS
  <2>2. b - x \in Nat /\ b - (b - x) = x
    BY <2>1
  <2>3. QED BY <2>1, <2>2
<1>2. Min(gaps) \in gaps /\ \A n \in gaps : Min(gaps) <= n
  BY <1>1, MinOfNaturals
<1>3. b - Min(gaps) \in T
  BY <1>2
<1>4. ASSUME NEW x \in T PROVE b - Min(gaps) >= x
  <2>1. b - x \in gaps
    <3>1. b - x \in Nat /\ b - (b - x) = x
      OBVIOUS
    <3>2. QED BY <3>1
  <2>2. QED BY <1>2, <2>1
<1>5. QED BY <1>3, <1>4 DEF Max

\* Division with remainder.
LEMMA DivisionBounds ==
  ASSUME NEW n \in Nat, NEW m \in Nat \ {0}
  PROVE  /\ n \div m \in Nat
         /\ m * (n \div m) <= n
         /\ n < m * (n \div m) + m
OBVIOUS

\* Dividing a multiple returns the factor, and so does dividing what is less than one
\* divisor above it.
LEMMA DivisionOfMultiple ==
  ASSUME NEW k \in Nat, NEW m \in Nat \ {0}, NEW r \in 0 .. m - 1
  PROVE  (m * k + r) \div m = k
OBVIOUS

\* Multiples are in the order of their factors.
LEMMA MultiplesInOrder ==
  ASSUME NEW a \in Nat, NEW b \in Nat, NEW m \in Nat \ {0}
  PROVE  a <= b <=> m * a <= m * b
<1>1. ASSUME a <= b PROVE m * a <= m * b
  <2>1. b - a \in Nat /\ b = a + (b - a)
    BY <1>1
  <2>2. PICK k \in Nat : b = a + k
    BY <2>1
  <2>3. m * b = m * a + m * k /\ m * k \in Nat /\ m * a \in Nat
    BY <2>2
  <2>4. QED BY <2>3
<1>2. ASSUME b < a PROVE m * b < m * a
  <2>1. a - b - 1 \in Nat /\ a = b + (a - b - 1) + 1
    BY <1>2
  <2>2. PICK k \in Nat : a = b + k + 1
    BY <2>1
  <2>3. m * a = m * b + m * k + m /\ m * k \in Nat /\ m * b \in Nat
    BY <2>2
  <2>4. QED BY <2>3
<1>3. m * a \in Nat /\ m * b \in Nat
  OBVIOUS
<1>4. QED BY <1>1, <1>2, <1>3

\* Induction along a bounded range of natural numbers.
LEMMA InductionUpTo ==
  ASSUME NEW b \in Nat, NEW good, 0 \in good,
         \A n \in Nat : n < b /\ n \in good => n + 1 \in good
  PROVE  \A n \in 0 .. b : n \in good
<1> DEFINE bad == {n \in 0 .. b : n \notin good}
<1>1. SUFFICES ASSUME bad # {} PROVE FALSE
  OBVIOUS
<1>2. Min(bad) \in bad /\ \A n \in bad : Min(bad) <= n
  <2>1. bad \in SUBSET Nat
    OBVIOUS
  <2> HIDE DEF bad
  <2>2. QED BY <1>1, <2>1, MinOfNaturals
<1> DEFINE m == Min(bad)
<1>3. m \in 0 .. b /\ m \notin good
  <2> HIDE DEF m
  <2>1. m \in bad
    BY <1>2 DEF m
  <2>2. QED BY <2>1
<1>4. \A n \in 0 .. b : n \notin good => m <= n
  BY <1>2
<1> HIDE DEF m, bad
<1>5. m # 0
  BY <1>3
<1>6. m - 1 \in 0 .. b /\ m - 1 \in Nat /\ m - 1 < b /\ (m - 1) + 1 = m /\ ~(m <= m - 1)
  BY <1>3, <1>5
<1>7. m - 1 \in good
  BY <1>4, <1>6
<1>8. (m - 1) + 1 \in good
  BY <1>6, <1>7
<1>9. QED BY <1>3, <1>6, <1>8

-----------------------------------------------------------------------------
(* Sums over finite sets.  What MapThenSumSet computes is the fold of a     *)
(* CHOOSE; a table of the sums over all subsets makes it first-order.      *)

\* The sum of the values of g over a set.
SumOver(g, S) == MapThenSumSet(LAMBDA x : g[x], S)

\* The element with which the fold of the community modules starts.
Picked(s) == CHOOSE x \in s : TRUE

\* A table of the sums over the subsets of S.
IsSumTable(h, g, S) ==
  h = [s \in SUBSET S |-> IF s = {} THEN 0 ELSE g[Picked(s)] + h[s \ {Picked(s)}]]

\* It is one of the set.
LEMMA PickedIsMember == ASSUME NEW s, s # {} PROVE Picked(s) \in s
BY DEF Picked

\* A finite set without one of its elements.
LEMMA OneElementLess ==
  ASSUME NEW s, IsFiniteSet(s), NEW x \in s
  PROVE  /\ IsFiniteSet(s \ {x}) /\ Cardinality(s) \in Nat /\ Cardinality(s \ {x}) \in Nat
         /\ Cardinality(s \ {x}) = Cardinality(s) - 1
         /\ Cardinality(s \ {x}) < Cardinality(s)
<1>1. IsFiniteSet(s \ {x}) /\ Cardinality(s \ {x}) = Cardinality(s) - 1
  BY FS_RemoveElement
<1>2. Cardinality(s) \in Nat /\ Cardinality(s \ {x}) \in Nat
  BY <1>1, FS_CardinalityType
<1>3. QED BY <1>1, <1>2

\* Tables of the same values agree where both are defined.
LEMMA TablesAgree ==
  ASSUME NEW g, NEW S, NEW T, IsFiniteSet(S), NEW h, NEW k, IsSumTable(h, g, S), IsSumTable(k, g, T)
  PROVE  \A s \in (SUBSET S) \cap (SUBSET T) : h[s] = k[s]
<1> DEFINE bad == {n \in Nat : \E s \in (SUBSET S) \cap (SUBSET T) : Cardinality(s) = n /\ h[s] # k[s]}
<1>0. \A s \in SUBSET S : IsFiniteSet(s) /\ Cardinality(s) \in Nat
  BY FS_Subset, FS_CardinalityType
<1>1. SUFFICES ASSUME bad # {} PROVE FALSE
  BY <1>0
<1>2. Min(bad) \in bad /\ \A n \in bad : Min(bad) <= n
  <2> HIDE DEF bad
  <2>1. bad \in SUBSET Nat
    BY DEF bad
  <2>2. QED BY <1>1, <2>1, MinOfNaturals
<1>3. PICK s \in (SUBSET S) \cap (SUBSET T) : Cardinality(s) = Min(bad) /\ h[s] # k[s]
  BY <1>2
<1>4. /\ h[s] = IF s = {} THEN 0 ELSE g[Picked(s)] + h[s \ {Picked(s)}]
      /\ k[s] = IF s = {} THEN 0 ELSE g[Picked(s)] + k[s \ {Picked(s)}]
  <2>1. /\ h = [t \in SUBSET S |-> IF t = {} THEN 0 ELSE g[Picked(t)] + h[t \ {Picked(t)}]]
        /\ k = [t \in SUBSET T |-> IF t = {} THEN 0 ELSE g[Picked(t)] + k[t \ {Picked(t)}]]
    BY DEF IsSumTable
  <2>2. s \in SUBSET S /\ s \in SUBSET T
    OBVIOUS
  <2>3. QED BY <2>1, <2>2, Zenon
<1>5. s # {}
  BY <1>3, <1>4
<1>6. Picked(s) \in s
  BY <1>5, PickedIsMember
<1> DEFINE r == s \ {Picked(s)}
<1>7. r \in (SUBSET S) \cap (SUBSET T) /\ Cardinality(r) \in Nat /\ Cardinality(r) < Cardinality(s)
  BY <1>0, <1>6, OneElementLess
<1>8. h[r] = k[r]
  <2> SUFFICES ASSUME h[r] # k[r] PROVE FALSE
    OBVIOUS
  <2> HIDE DEF r
  <2>1. Cardinality(r) \in bad
    BY <1>7
  <2> HIDE DEF bad
  <2>2. Min(bad) <= Cardinality(r) /\ Min(bad) \in Nat
    BY <1>0, <1>2, <1>3, <2>1
  <2>3. QED BY <1>3, <1>7, <2>2
<1>9. QED BY <1>3, <1>4, <1>5, <1>8

\* Every finite set has a table: the recursion of the fold defines a function.
LEMMA TableExists ==
  ASSUME NEW g, NEW S, IsFiniteSet(S)
  PROVE  \E h : IsSumTable(h, g, S)
<1> DEFINE bad == {n \in Nat : \E s \in SUBSET S : Cardinality(s) = n /\ ~ \E h : IsSumTable(h, g, s)}
<1>0. \A s \in SUBSET S : IsFiniteSet(s) /\ Cardinality(s) \in Nat
  BY FS_Subset, FS_CardinalityType
<1>1. SUFFICES ASSUME bad # {} PROVE FALSE
  BY <1>0
<1>2. Min(bad) \in bad /\ \A n \in bad : Min(bad) <= n
  <2> HIDE DEF bad
  <2>1. bad \in SUBSET Nat
    BY DEF bad
  <2>2. QED BY <1>1, <2>1, MinOfNaturals
<1>3. PICK s \in SUBSET S : Cardinality(s) = Min(bad) /\ ~ \E h : IsSumTable(h, g, s)
  BY <1>2
<1> DEFINE K(t) == CHOOSE k : IsSumTable(k, g, t)
           rest(t) == t \ {Picked(t)}
           h == [t \in SUBSET s |-> IF t = {} THEN 0 ELSE g[Picked(t)] + K(rest(t))[rest(t)]]
<1>4. ASSUME NEW t \in SUBSET s, t # {}
      PROVE  rest(t) \in SUBSET s /\ IsFiniteSet(rest(t)) /\ IsSumTable(K(rest(t)), g, rest(t))
  <2>1. rest(t) \in SUBSET s
    OBVIOUS
  <2>2. Picked(t) \in t /\ Picked(t) \notin rest(t)
    BY <1>4, PickedIsMember
  <2>3. Cardinality(rest(t)) \in Nat /\ Cardinality(rest(t)) < Cardinality(t)
    BY <1>0, <2>2, OneElementLess
  <2>4. Cardinality(t) <= Cardinality(s) /\ Cardinality(t) \in Nat /\ Cardinality(s) \in Nat
    BY <1>0, FS_Subset
  <2>5. Cardinality(rest(t)) \notin bad
    <3> HIDE DEF bad, rest
    <3>1. Cardinality(rest(t)) < Min(bad) /\ Min(bad) \in Nat
      BY <1>3, <2>3, <2>4
    <3>2. QED BY <1>2, <3>1, <2>3
  <2>6. \E k : IsSumTable(k, g, rest(t))
    <3> HIDE DEF rest
    <3> QED BY <2>1, <2>3, <2>5
  <2>7. IsSumTable(K(rest(t)), g, rest(t))
    <3> HIDE DEF rest
    <3> QED BY <2>6
  <2>8. QED BY <1>0, <2>1, <2>7
<1>5. ASSUME NEW t \in SUBSET s, t # {} PROVE K(rest(t))[rest(t)] = h[rest(t)]
  <2> DEFINE u == rest(t)
  <2>1. u \in SUBSET s /\ IsFiniteSet(u) /\ IsSumTable(K(u), g, u)
    BY <1>4, <1>5
  <2> HIDE DEF u, K, rest
  <2>2. K(u)[u] = IF u = {} THEN 0 ELSE g[Picked(u)] + K(u)[u \ {Picked(u)}]
    BY <2>1, Zenon DEF IsSumTable
  <2>3. CASE u = {}
    BY <2>1, <2>2, <2>3 DEF u
  <2>4. CASE u # {}
    <3>1. /\ rest(u) \in SUBSET s /\ IsFiniteSet(rest(u)) /\ IsSumTable(K(rest(u)), g, rest(u))
          /\ rest(u) \in SUBSET u
      BY <1>4, <2>1, <2>4 DEF rest
    <3>2. K(u)[rest(u)] = K(rest(u))[rest(u)]
      <4> DEFINE v == rest(u)
      <4>1. v \in (SUBSET u) \cap (SUBSET v) /\ IsSumTable(K(u), g, u) /\ IsSumTable(K(v), g, v) /\ IsFiniteSet(u)
        BY <2>1, <3>1
      <4> HIDE DEF v
      <4>2. K(u)[v] = K(v)[v]
        BY <4>1, TablesAgree
      <4>3. QED BY <4>2 DEF v
    <3>3. h[u] = g[Picked(u)] + K(rest(u))[rest(u)]
      BY <2>1, <2>4
    <3>4. QED BY <2>2, <2>4, <3>2, <3>3 DEF u, rest
  <2>5. QED BY <2>3, <2>4
<1>6. IsSumTable(h, g, s)
  <2>1. h = [t \in SUBSET s |-> IF t = {} THEN 0 ELSE g[Picked(t)] + h[rest(t)]]
    <3>1. ASSUME NEW t \in SUBSET s, t # {} PROVE K(rest(t))[rest(t)] = h[rest(t)]
      BY <1>5, <3>1
    <3> HIDE DEF K, rest
    <3>2. \A t \in SUBSET s : h[t] = IF t = {} THEN 0 ELSE g[Picked(t)] + h[rest(t)]
      BY <3>1
    <3>3. h = [t \in SUBSET s |-> h[t]]
      OBVIOUS
    <3> HIDE DEF h
    <3>4. QED BY <3>2, <3>3
  <2>2. QED BY <2>1 DEF IsSumTable
<1>7. QED BY <1>3, <1>6

\* So a sum unfolds by the element the fold picks ...
LEMMA SumUnfolded ==
  ASSUME NEW g, NEW S, IsFiniteSet(S)
  PROVE  SumOver(g, S) = IF S = {} THEN 0 ELSE g[Picked(S)] + SumOver(g, S \ {Picked(S)})
<1> DEFINE T(s) == CHOOSE h : IsSumTable(h, g, s)
<1>1. \A s : SumOver(g, s) = T(s)[s]
  BY DEF SumOver, MapThenSumSet, MapThenFoldSet, IsSumTable, Picked
<1>2. \A s : IsFiniteSet(s) => IsSumTable(T(s), g, s)
  BY TableExists
<1> HIDE DEF T
<1>3. T(S)[S] = IF S = {} THEN 0 ELSE g[Picked(S)] + T(S)[S \ {Picked(S)}]
  BY <1>2, Zenon DEF IsSumTable
<1>4. IsFiniteSet(S \ {Picked(S)})
  BY FS_Subset
<1>5. T(S)[S \ {Picked(S)}] = T(S \ {Picked(S)})[S \ {Picked(S)}]
  <2> DEFINE R == S \ {Picked(S)}
  <2>1. R \in (SUBSET S) \cap (SUBSET R) /\ IsSumTable(T(S), g, S) /\ IsSumTable(T(R), g, R)
    BY <1>2, <1>4
  <2> HIDE DEF R
  <2>2. T(S)[R] = T(R)[R]
    BY <2>1, TablesAgree
  <2>3. QED BY <2>2 DEF R
<1>6. QED BY <1>1, <1>3, <1>5

\* The sum over nothing.
LEMMA SumOfNothing == ASSUME NEW g PROVE SumOver(g, {}) = 0
BY SumUnfolded, FS_EmptySet

\* ... and by any other element.
LEMMA SumByElement ==
  ASSUME NEW S, IsFiniteSet(S), NEW g, \A x \in S : g[x] \in Nat, NEW a \in S
  PROVE  SumOver(g, S) \in Nat /\ SumOver(g, S) = g[a] + SumOver(g, S \ {a})
<1> DEFINE good(s) == /\ SumOver(g, s) \in Nat
                      /\ \A x \in s : SumOver(g, s) = g[x] + SumOver(g, s \ {x})
           bad == {n \in Nat : \E s \in SUBSET S : Cardinality(s) = n /\ ~good(s)}
<1>0. \A s \in SUBSET S : IsFiniteSet(s) /\ Cardinality(s) \in Nat
  BY FS_Subset, FS_CardinalityType
<1>1. SUFFICES ASSUME bad # {} PROVE FALSE
  <2>1. bad = {} => good(S)
    BY <1>0
  <2>2. QED BY <2>1
<1>2. Min(bad) \in bad /\ \A n \in bad : Min(bad) <= n
  <2> HIDE DEF bad
  <2>1. bad \in SUBSET Nat
    BY DEF bad
  <2>2. QED BY <1>1, <2>1, MinOfNaturals
<1>3. PICK s \in SUBSET S : Cardinality(s) = Min(bad) /\ ~good(s)
  BY <1>2
<1>4. ASSUME NEW t \in SUBSET s, t # s PROVE good(t)
  <2>1. Cardinality(t) \in Nat /\ Cardinality(s) \in Nat /\ Cardinality(t) < Cardinality(s)
    <3>1. IsFiniteSet(s) /\ Cardinality(s) \in Nat /\ Cardinality(t) \in Nat
      BY <1>0
    <3>2. Cardinality(t) <= Cardinality(s) /\ (Cardinality(s) = Cardinality(t) => s = t)
      BY <3>1, FS_Subset
    <3>3. QED BY <1>4, <3>1, <3>2
  <2>2. Cardinality(t) \notin bad
    <3> HIDE DEF bad
    <3> QED BY <1>2, <1>3, <2>1
  <2>3. t \in SUBSET S
    OBVIOUS
  <2> HIDE DEF good
  <2>4. QED BY <2>1, <2>2, <2>3
<1> DEFINE y == Picked(s)
<1>5. SumOver(g, s) = IF s = {} THEN 0 ELSE g[y] + SumOver(g, s \ {y})
  BY <1>0, SumUnfolded
<1>6. s # {}
  BY <1>3, <1>5
<1>7. y \in s /\ g[y] \in Nat /\ s \ {y} \in SUBSET s /\ s \ {y} # s
  BY <1>6, PickedIsMember
<1> HIDE DEF bad, y
<1>8. good(s \ {y})
  <2> HIDE DEF good
  <2> QED BY <1>4, <1>7
<1>9. SumOver(g, s) \in Nat
  BY <1>5, <1>6, <1>7, <1>8
<1>10. ASSUME NEW x \in s PROVE SumOver(g, s) = g[x] + SumOver(g, s \ {x})
  <2>1. CASE x = y
    BY <1>5, <1>6, <2>1
  <2>2. CASE x # y
    <3>1. x \in s \ {y} /\ y \in s \ {x} /\ s \ {x} \in SUBSET s /\ s \ {x} # s
      BY <1>7, <2>2
    <3>2. good(s \ {x})
      <4> HIDE DEF good
      <4> QED BY <1>4, <3>1
    <3>3. SumOver(g, s \ {y}) = g[x] + SumOver(g, (s \ {y}) \ {x})
      BY <1>8, <3>1
    <3>4. SumOver(g, s \ {x}) = g[y] + SumOver(g, (s \ {x}) \ {y})
      BY <3>1, <3>2
    <3>5. (s \ {x}) \ {y} = (s \ {y}) \ {x}
      OBVIOUS
    <3>6. (s \ {x}) \ {y} \in SUBSET s /\ (s \ {x}) \ {y} # s
      BY <3>1
    <3>7. good((s \ {x}) \ {y})
      <4> HIDE DEF good
      <4> QED BY <1>4, <3>6
    <3>8. g[x] \in Nat
      OBVIOUS
    <3> DEFINE rest == SumOver(g, (s \ {x}) \ {y})
    <3>9. rest \in Nat /\ SumOver(g, s \ {y}) = g[x] + rest /\ SumOver(g, s \ {x}) = g[y] + rest
      BY <3>3, <3>4, <3>5, <3>7
    <3> HIDE DEF rest
    <3>10. QED BY <1>5, <1>6, <1>7, <3>8, <3>9
  <2>3. QED BY <2>1, <2>2
<1>11. QED BY <1>3, <1>9, <1>10

\* Induction over the subsets of a finite set, one element at a time.
LEMMA InductionOverSubsets ==
  ASSUME NEW S, IsFiniteSet(S), NEW good, {} \in good,
         \A s \in SUBSET S : \A x \in S \ s : s \in good => s \cup {x} \in good
  PROVE  S \in good
<1> DEFINE sizes == {n \in Nat : \A s \in SUBSET S : Cardinality(s) = n => s \in good}
<1>0. \A s \in SUBSET S : IsFiniteSet(s) /\ Cardinality(s) \in Nat
  BY FS_Subset, FS_CardinalityType
<1>1. 0 \in sizes
  <2>1. ASSUME NEW s \in SUBSET S, Cardinality(s) = 0 PROVE s \in good
    <3>1. s = {}
      BY <1>0, <2>1, FS_EmptySet
    <3>2. QED BY <3>1
  <2>2. QED BY <2>1
<1>2. ASSUME NEW n \in Nat, n < Cardinality(S), n \in sizes PROVE n + 1 \in sizes
  <2>1. ASSUME NEW s \in SUBSET S, Cardinality(s) = n + 1 PROVE s \in good
    <3>1. s # {}
      <4>1. Cardinality({}) = 0 /\ n + 1 # 0
        BY FS_EmptySet
      <4>2. QED BY <2>1, <4>1
    <3>2. PICK x \in s : TRUE
      BY <3>1
    <3>3. Cardinality(s \ {x}) = n
      BY <1>0, <2>1, OneElementLess
    <3>4. s \ {x} \in SUBSET S /\ x \in S \ (s \ {x}) /\ s = (s \ {x}) \cup {x}
      BY <3>2
    <3>5. s \ {x} \in good
      BY <1>2, <3>3, <3>4
    <3>6. (s \ {x}) \cup {x} \in good
      BY <3>4, <3>5
    <3>7. QED BY <3>4, <3>6
  <2>2. QED BY <2>1
<1>3. Cardinality(S) \in Nat /\ S \in SUBSET S
  BY <1>0
<1> HIDE DEF sizes
<1>4. \A n \in 0 .. Cardinality(S) : n \in sizes
  BY <1>1, <1>2, <1>3, InductionUpTo
<1>5. Cardinality(S) \in sizes
  BY <1>3, <1>4
<1>6. QED BY <1>3, <1>5 DEF sizes

\* A sum grows by what is added to its range.
LEMMA SumOfAdded ==
  ASSUME NEW S, IsFiniteSet(S), NEW g, NEW a, a \notin S, \A x \in S \cup {a} : g[x] \in Nat
  PROVE  /\ SumOver(g, S) \in Nat
         /\ SumOver(g, S \cup {a}) = g[a] + SumOver(g, S)
<1> DEFINE T == S \cup {a}
<1>1. IsFiniteSet(T) /\ a \in T /\ T \ {a} = S
  BY FS_AddElement
<1>2. \A x \in T : g[x] \in Nat
  OBVIOUS
<1>3. SumOver(g, S) \in Nat
  <2>1. CASE S = {}
    BY <2>1, SumOfNothing
  <2>2. CASE S # {}
    <3>1. PICK x \in S : TRUE
      BY <2>2
    <3>2. QED BY <3>1, SumByElement
  <2>3. QED BY <2>1, <2>2
<1> HIDE DEF T
<1>4. SumOver(g, T) = g[a] + SumOver(g, T \ {a})
  BY <1>1, <1>2, SumByElement
<1>5. QED BY <1>1, <1>3, <1>4 DEF T

\* A sum of natural numbers is one.
LEMMA SumIsNatural ==
  ASSUME NEW S, IsFiniteSet(S), NEW g, \A x \in S : g[x] \in Nat
  PROVE  SumOver(g, S) \in Nat
<1>1. CASE S = {}
  BY <1>1, SumOfNothing
<1>2. CASE S # {}
  <2>1. PICK x \in S : TRUE
    BY <1>2
  <2>2. QED BY <2>1, SumByElement
<1>3. QED BY <1>1, <1>2

\* Sums of the same values are the same.
LEMMA SumsAgree ==
  ASSUME NEW S, IsFiniteSet(S), NEW g, NEW h, \A x \in S : g[x] \in Nat /\ h[x] = g[x]
  PROVE  SumOver(h, S) = SumOver(g, S)
<1> DEFINE good == {s \in SUBSET S : SumOver(h, s) = SumOver(g, s)}
<1>1. {} \in good
  BY SumOfNothing
<1>2. ASSUME NEW s \in SUBSET S, NEW x \in S \ s, s \in good PROVE s \cup {x} \in good
  <2>1. IsFiniteSet(s)
    BY FS_Subset
  <2>2. (\A y \in s \cup {x} : g[y] \in Nat) /\ (\A y \in s \cup {x} : h[y] \in Nat) /\ x \notin s
    OBVIOUS
  <2>3. SumOver(g, s \cup {x}) = g[x] + SumOver(g, s)
    BY <2>1, <2>2, SumOfAdded
  <2>4. SumOver(h, s \cup {x}) = h[x] + SumOver(h, s)
    BY <2>1, <2>2, SumOfAdded
  <2>5. SumOver(h, s) = SumOver(g, s) /\ s \cup {x} \in SUBSET S /\ h[x] = g[x]
    BY <1>2
  <2>6. QED BY <2>3, <2>4, <2>5
<1> HIDE DEF good
<1>3. S \in good
  BY <1>1, <1>2, InductionOverSubsets
<1>4. QED BY <1>3 DEF good

\* The sum over two disjoint ranges is that of the sums.
LEMMA SumOfUnion ==
  ASSUME NEW S, IsFiniteSet(S), NEW T, IsFiniteSet(T), S \cap T = {},
         NEW g, \A x \in S \cup T : g[x] \in Nat
  PROVE  SumOver(g, S \cup T) = SumOver(g, S) + SumOver(g, T)
<1> DEFINE good == {t \in SUBSET T : SumOver(g, S \cup t) = SumOver(g, S) + SumOver(g, t)}
<1>0. SumOver(g, S) \in Nat
  BY SumIsNatural
<1>1. {} \in good
  <2>1. S \cup {} = S
    OBVIOUS
  <2>2. QED BY <1>0, <2>1, SumOfNothing
<1>2. ASSUME NEW t \in SUBSET T, NEW x \in T \ t, t \in good PROVE t \cup {x} \in good
  <2>1. IsFiniteSet(t) /\ IsFiniteSet(S \cup t)
    <3>1. IsFiniteSet(t)
      BY FS_Subset
    <3>2. QED BY <3>1, FS_Union
  <2>2. /\ x \notin t /\ x \notin S \cup t /\ S \cup (t \cup {x}) = (S \cup t) \cup {x}
        /\ t \cup {x} \in SUBSET T
        /\ \A y \in (S \cup t) \cup {x} : g[y] \in Nat
        /\ \A y \in t \cup {x} : g[y] \in Nat
    OBVIOUS
  <2>3. SumOver(g, t \cup {x}) = g[x] + SumOver(g, t) /\ SumOver(g, t) \in Nat
    BY <2>1, <2>2, SumOfAdded
  <2>4. SumOver(g, (S \cup t) \cup {x}) = g[x] + SumOver(g, S \cup t)
    BY <2>1, <2>2, SumOfAdded
  <2>5. SumOver(g, S \cup t) = SumOver(g, S) + SumOver(g, t) /\ g[x] \in Nat
    BY <1>2
  <2> DEFINE a == SumOver(g, S)
             b == SumOver(g, t)
             c == SumOver(g, S \cup t)
             y == g[x]
  <2>6. SumOver(g, S \cup (t \cup {x})) = SumOver(g, S) + SumOver(g, t \cup {x})
    <3>1. SumOver(g, S \cup (t \cup {x})) = y + c /\ SumOver(g, t \cup {x}) = y + b
      BY <2>2, <2>3, <2>4
    <3>2. c = a + b /\ a \in Nat /\ b \in Nat /\ y \in Nat
      BY <1>0, <2>3, <2>5
    <3> HIDE DEF a, b, c, y
    <3>3. y + c = a + (y + b)
      BY <3>2
    <3>4. QED BY <3>1, <3>3 DEF a
  <2>7. QED BY <2>2, <2>6
<1> HIDE DEF good
<1>3. T \in good
  BY <1>1, <1>2, InductionOverSubsets
<1>4. QED BY <1>3 DEF good

\* The sum of one value over a range is a product.
LEMMA SumOfConstant ==
  ASSUME NEW S, IsFiniteSet(S), NEW g, NEW c \in Nat, \A x \in S : g[x] = c
  PROVE  Cardinality(S) \in Nat /\ SumOver(g, S) = c * Cardinality(S)
<1> DEFINE good == {s \in SUBSET S : SumOver(g, s) = c * Cardinality(s)}
<1>1. {} \in good
  BY SumOfNothing, FS_EmptySet
<1>2. ASSUME NEW s \in SUBSET S, NEW x \in S \ s, s \in good PROVE s \cup {x} \in good
  <2>1. IsFiniteSet(s) /\ Cardinality(s) \in Nat
    BY FS_Subset, FS_CardinalityType
  <2>2. (\A y \in s \cup {x} : g[y] \in Nat) /\ x \notin s
    OBVIOUS
  <2>3. SumOver(g, s \cup {x}) = c + SumOver(g, s)
    BY <2>1, <2>2, SumOfAdded
  <2>4. Cardinality(s \cup {x}) = Cardinality(s) + 1
    BY <2>1, <2>2, FS_AddElement
  <2>5. c * (Cardinality(s) + 1) = c * Cardinality(s) + c
    BY <2>1
  <2>6. SumOver(g, s) = c * Cardinality(s) /\ s \cup {x} \in SUBSET S
    BY <1>2
  <2>7. c * Cardinality(s) \in Nat
    BY <2>1
  <2>8. SumOver(g, s \cup {x}) = c * Cardinality(s \cup {x})
    BY <2>3, <2>4, <2>5, <2>6, <2>7
  <2>9. QED BY <2>6, <2>8
<1> HIDE DEF good
<1>3. S \in good
  BY <1>1, <1>2, InductionOverSubsets
<1>4. QED BY <1>3, FS_CardinalityType DEF good

-----------------------------------------------------------------------------
(* Proving periods, their deadlines and the epochs between them.           *)

\* A bound of a set of integers that the set contains is its Max.
LEMMA MaxReached ==
  ASSUME NEW T \in SUBSET Int, NEW b \in T, \A x \in T : x <= b
  PROVE  Max(T) = b
<1>1. Max(T) \in T /\ \A x \in T : Max(T) >= x
  BY MaxOfBoundedSet, Zenon
<1>2. Max(T) \in Int /\ b \in Int /\ Max(T) <= b /\ Max(T) >= b
  BY <1>1
<1>3. QED BY <1>2

\* A bound of a set of natural numbers that the set contains is its Min.
LEMMA MinReached ==
  ASSUME NEW T \in SUBSET Nat, NEW b \in T, \A x \in T : b <= x
  PROVE  Min(T) = b
<1>1. Min(T) \in T /\ \A x \in T : Min(T) <= x
  BY MinOfNaturals, Zenon
<1>2. Min(T) \in Nat /\ b \in Nat /\ b <= Min(T) /\ Min(T) <= b
  BY <1>1
<1>3. QED BY <1>2

\* The period whose deadline is given is found by division.
LEMMA PeriodOfDeadline ==
  ASSUME NEW A \in Nat, NEW M \in Nat \ {0}, NEW n \in Nat
  PROVE  (CalcPeriodDeadline(A, n, M) - A) \div M - 1 = n
<1>1. CalcPeriodDeadline(A, n, M) - A = M * (n + 1) + 0
  BY DEF CalcPeriodDeadline
<1>2. (M * (n + 1) + 0) \div M = n + 1
  BY DivisionOfMultiple
<1>3. QED BY <1>1, <1>2

\* Every epoch of a period, up to its deadline, belongs to that period.
LEMMA EpochBelongsToPeriod ==
  ASSUME NEW A \in Nat, A # NeverActivated, NEW M \in Nat \ {0}, NEW n \in Nat, NEW e \in Nat,
         CalcPeriodDeadline(A, n, M) - M < e, e <= CalcPeriodDeadline(A, n, M)
  PROVE  ProvingPeriodForEpoch(A, e, M) = n
<1> DEFINE r == e - A - 1 - M * n
<1>1. CalcPeriodDeadline(A, n, M) = A + M * n + M
  BY DEF CalcPeriodDeadline
<1>2. M * n \in Nat
  OBVIOUS
<1>3. r \in 0 .. M - 1
  BY <1>1, <1>2
<1>4. A < e
  BY <1>1, <1>2
<1>5. e - A - 1 = M * n + r
  BY <1>2
<1>6. (M * n + r) \div M = n
  <2> HIDE DEF r
  <2> QED BY <1>3, DivisionOfMultiple
<1>7. QED BY <1>4, <1>5, <1>6 DEF ProvingPeriodForEpoch

\* A deadline is a multiple of the period length away from activation.
LEMMA DeadlineType ==
  ASSUME NEW A \in Nat, NEW M \in Nat \ {0}, NEW n \in Nat
  PROVE  /\ CalcPeriodDeadline(A, n, M) \in Nat
         /\ CalcPeriodDeadline(A, n, M) - M \in Nat
         /\ CalcPeriodDeadline(A, n, M) - M >= A
         /\ CalcPeriodDeadline(A, n, M) = A + M * n + M
<1>1. M * n \in Nat
  OBVIOUS
<1>2. CalcPeriodDeadline(A, n, M) = A + M * n + M
  BY DEF CalcPeriodDeadline
<1>3. QED BY <1>1, <1>2

\* Deadlines are a period apart at least.
LEMMA DeadlinesInOrder ==
  ASSUME NEW A \in Nat, NEW M \in Nat \ {0}, NEW n \in Nat, NEW m \in Nat, n < m
  PROVE  CalcPeriodDeadline(A, n, M) <= CalcPeriodDeadline(A, m, M) - M
<1>1. n + 1 \in Nat /\ n + 1 <= m
  OBVIOUS
<1>2. M * (n + 1) <= M * m
  BY <1>1, MultiplesInOrder
<1>3. M * (n + 1) = M * n + M /\ M * n \in Nat /\ M * m \in Nat
  OBVIOUS
<1>4. /\ CalcPeriodDeadline(A, n, M) = A + M * n + M
      /\ CalcPeriodDeadline(A, m, M) = A + M * m + M
  BY DeadlineType
<1> DEFINE a == M * n
           b == M * m
<1>5. a \in Nat /\ b \in Nat /\ a + M <= b
  BY <1>2, <1>3
<1> HIDE DEF a, b
<1>6. A + a + M <= A + b + M - M
  BY <1>5
<1>7. QED BY <1>4, <1>6 DEF a, b

\* An epoch after activation belongs to a period, and lies in it.
LEMMA EpochInPeriod ==
  ASSUME NEW A \in Nat \ {0}, NEW M \in Nat \ {0}, NEW e \in Nat, A < e
  PROVE  LET p == ProvingPeriodForEpoch(A, e, M)
         IN  /\ p \in Nat
             /\ CalcPeriodDeadline(A, p, M) - M < e
             /\ e <= CalcPeriodDeadline(A, p, M)
<1> DEFINE n == e - A - 1
           p == n \div M
<1>1. n \in Nat /\ e = n + A + 1
  OBVIOUS
<1>2. ProvingPeriodForEpoch(A, e, M) = p
  BY DEF ProvingPeriodForEpoch, NeverActivated
<1> HIDE DEF n
<1>3. p \in Nat /\ M * p <= n /\ n < M * p + M
  BY <1>1, DivisionBounds
<1> HIDE DEF p
<1>4. CalcPeriodDeadline(A, p, M) = A + M * p + M /\ M * p \in Nat
  BY <1>3, DeadlineType
<1>5. QED BY <1>1, <1>2, <1>3, <1>4

\* Later epochs belong to later periods.
LEMMA PeriodsInOrder ==
  ASSUME NEW A \in Nat \ {0}, NEW M \in Nat \ {0}, NEW e \in Nat, NEW f \in Nat, A < e, e <= f
  PROVE  ProvingPeriodForEpoch(A, e, M) <= ProvingPeriodForEpoch(A, f, M)
<1> DEFINE p == ProvingPeriodForEpoch(A, e, M)
           q == ProvingPeriodForEpoch(A, f, M)
<1>1. p \in Nat /\ CalcPeriodDeadline(A, p, M) - M < e
  BY EpochInPeriod
<1>2. q \in Nat /\ f <= CalcPeriodDeadline(A, q, M)
  BY EpochInPeriod
<1> HIDE DEF p, q
<1>3. ASSUME q < p PROVE FALSE
  <2>1. CalcPeriodDeadline(A, q, M) <= CalcPeriodDeadline(A, p, M) - M
    BY <1>1, <1>2, <1>3, DeadlinesInOrder
  <2>2. CalcPeriodDeadline(A, q, M) \in Nat /\ CalcPeriodDeadline(A, p, M) \in Nat
    BY <1>1, <1>2, DeadlineType
  <2>3. QED BY <1>1, <1>2, <2>1, <2>2
<1>4. p <= q
  BY <1>1, <1>2, <1>3
<1>5. QED BY <1>4 DEF p, q

\* The epochs of a range that lie in a period with a proof.
ProvenWithin(proven, from, to, A, M) ==
  {e \in from + 1 .. to : ProvingPeriodForEpoch(A, e, M) \in proven}

\* The proven epochs of a range are finitely many, and come after its start.
LEMMA ProvenWithinType ==
  ASSUME NEW proven, NEW from \in Nat, NEW to \in Nat, NEW A, NEW M
  PROVE  /\ IsFiniteSet(ProvenWithin(proven, from, to, A, M))
         /\ \A e \in ProvenWithin(proven, from, to, A, M) : e \in Nat /\ from < e /\ e <= to
<1>1. ProvenWithin(proven, from, to, A, M) \subseteq from + 1 .. to
  BY DEF ProvenWithin
<1>2. IsFiniteSet(from + 1 .. to)
  BY FS_Interval
<1>3. QED BY <1>1, <1>2, FS_Subset

\* A range is cut in two at any of its epochs.
LEMMA ProvenWithinSplit ==
  ASSUME NEW proven, NEW a \in Nat, NEW b \in Nat, NEW c \in Nat, a <= b, b <= c, NEW A, NEW M
  PROVE  /\ ProvenWithin(proven, a, c, A, M)
              = ProvenWithin(proven, a, b, A, M) \cup ProvenWithin(proven, b, c, A, M)
         /\ ProvenWithin(proven, a, b, A, M) \cap ProvenWithin(proven, b, c, A, M) = {}
<1>1. /\ a + 1 .. c = (a + 1 .. b) \cup (b + 1 .. c)
      /\ (a + 1 .. b) \cap (b + 1 .. c) = {}
  OBVIOUS
<1>2. QED BY <1>1 DEF ProvenWithin

\* Nothing lies between an epoch and itself.
LEMMA ProvenWithinNothing ==
  ASSUME NEW proven, NEW a \in Nat, NEW A, NEW M
  PROVE  ProvenWithin(proven, a, a, A, M) = {}
BY DEF ProvenWithin

\* The period of the last epoch of a range has a proof, or missed its deadline.
LastPeriodResolved(proven, to, A, M, now) ==
  LET final == ProvingPeriodForEpoch(A, to, M)
  IN  final \in proven \/ DeadlinePassed(CalcPeriodDeadline(A, final, M), now)

\* How far a range is settled: to its end, or to the end of the period before the last if
\* that one is open.
SettledWithin(proven, from, to, A, M, now) ==
  IF LastPeriodResolved(proven, to, A, M, now)
  THEN to
  ELSE Max({Max({from, A}), CalcPeriodDeadline(A, ProvingPeriodForEpoch(A, to, M), M) - M})

\* What _findProvenEpochs answers: only the last period of a range can be open.  If it is
\* not, the whole range is settled, else all that comes before that period; and every
\* epoch that is settled and lies in a period with a proof is counted once.
LEMMA FindProvenEpochsAnswer ==
  ASSUME NEW proven \in SUBSET Nat, NEW from \in Nat, NEW to \in Nat, from < to,
         NEW A \in Nat \ {0}, NEW M \in Nat \ {0}, NEW now \in Nat, A < to, to <= now
  PROVE  LET upTo == SettledWithin(proven, from, to, A, M, now)
         IN  /\ FindProvenEpochs(proven, from, to, A, M, now)
                  = [ok |-> TRUE, count |-> Cardinality(ProvenWithin(proven, from, upTo, A, M)),
                     settleUpTo |-> upTo]
             /\ upTo \in Max({from, A}) .. to
<1> DEFINE start    == Max({from, A})
           deadline(p) == CalcPeriodDeadline(A, p, M)
           first    == ProvingPeriodForEpoch(A, start + 1, M)
           final    == ProvingPeriodForEpoch(A, to, M)
           resolved == {p \in first .. final : p \in proven \/ DeadlinePassed(deadline(p), now)}
           reached  == {start} \cup {Min({to, deadline(p)}) : p \in resolved}
           epochs   == UNION {EpochsOfPeriodWithin(A, p, M, start, to)
                                : p \in (first .. final) \cap proven}
           before   == deadline(final) - M
           upTo     == IF LastPeriodResolved(proven, to, A, M, now)
                       THEN to ELSE Max({start, before})
           found    == FindProvenEpochs(proven, from, to, A, M, now)
<1>1. found = [ok |-> TRUE, count |-> Cardinality(epochs), settleUpTo |-> Max(reached)]
  BY DEF FindProvenEpochs
<1>2. start \in Nat /\ from <= start /\ A <= start /\ start < to /\ start + 1 \in Nat /\ A < start + 1
      /\ start \in {from, A}
  BY MaxOfTwo
<1>3. /\ first \in Nat /\ final \in Nat /\ first <= final
      /\ deadline(first) - M <= start
      /\ before < to /\ to <= deadline(final)
  <2>1. first \in Nat /\ deadline(first) - M < start + 1 /\ first <= final
    <3> HIDE DEF start
    <3> QED BY <1>2, EpochInPeriod, PeriodsInOrder
  <2>2. final \in Nat /\ before < to /\ to <= deadline(final)
    BY EpochInPeriod
  <2>3. deadline(first) \in Nat
    <3> HIDE DEF first
    <3> QED BY <2>1, DeadlineType
  <2> HIDE DEF first, final, deadline, before, start
  <2>4. QED BY <1>2, <2>1, <2>2, <2>3
<1>4. /\ \A p \in Nat : deadline(p) \in Nat /\ deadline(p) - M \in Nat
      /\ before \in Nat /\ deadline(final) = before + M
  <2>1. \A p \in Nat : deadline(p) \in Nat /\ deadline(p) - M \in Nat
    BY DeadlineType
  <2> HIDE DEF deadline, final
  <2>2. QED BY <1>3, <2>1
<1> HIDE DEF first, final
<1>5. ASSUME NEW p \in first .. final
      PROVE  /\ p \in Nat
             /\ p = final => Min({to, deadline(p)}) = to
             /\ p # final => /\ deadline(p) <= before
                             /\ Min({to, deadline(p)}) = deadline(p)
                             /\ p \in resolved
  <2>1. p \in Nat /\ p <= final
    BY <1>3
  <2>2. CASE p = final
    <3>1. deadline(p) \in Int /\ to <= deadline(p)
      BY <1>3, <1>4, <2>1, <2>2
    <3> HIDE DEF deadline
    <3>2. Min({to, deadline(p)}) = to
      BY <3>1, MinOfTwo
    <3>3. QED BY <2>1, <2>2, <3>2
  <2>3. CASE p # final
    <3>1. deadline(p) <= before
      BY <1>3, <2>1, <2>3, DeadlinesInOrder
    <3> HIDE DEF deadline, before
    <3>2. deadline(p) \in Nat /\ deadline(p) < to
      BY <1>3, <1>4, <2>1, <3>1
    <3>3. Min({to, deadline(p)}) = deadline(p)
      BY <3>2, MinOfTwo
    <3>4. DeadlinePassed(deadline(p), now)
      BY <3>2 DEF DeadlinePassed
    <3>5. QED BY <2>1, <2>3, <3>1, <3>3, <3>4
  <2>4. QED BY <2>2, <2>3
<1>6. LastPeriodResolved(proven, to, A, M, now) <=> final \in resolved
  BY <1>3 DEF LastPeriodResolved, final
<1>7. /\ Max({start, before}) = IF start >= before THEN start ELSE before
      /\ before \in Int /\ start \in Int
  <2>1. before \in Int /\ start \in Int
    <3> HIDE DEF before, start
    <3> QED BY <1>2, <1>4
  <2> HIDE DEF before, start
  <2>2. QED BY <2>1, MaxOfTwo
<1>8. upTo \in start .. to
  <2>1. CASE LastPeriodResolved(proven, to, A, M, now)
    <3> HIDE DEF start
    <3> QED BY <1>2, <2>1
  <2>2. CASE ~LastPeriodResolved(proven, to, A, M, now)
    <3>1. upTo = IF start >= before THEN start ELSE before
      BY <1>7, <2>2
    <3> HIDE DEF start, before, upTo
    <3>2. QED BY <1>2, <1>3, <1>7, <3>1
  <2>3. QED BY <2>1, <2>2
<1>9. Max(reached) = upTo
  <2>1. ASSUME NEW x \in reached
        PROVE  \/ x = start
               \/ x = to /\ final \in resolved
               \/ x \in Nat /\ x <= before
    <3> SUFFICES ASSUME x # start
                 PROVE  \/ x = to /\ final \in resolved
                        \/ x \in Nat /\ x <= before
      OBVIOUS
    <3>1. PICK p \in resolved : x = Min({to, deadline(p)})
      <4> HIDE DEF resolved, start, deadline
      <4> QED OBVIOUS
    <3>2. p \in first .. final
      BY <3>1
    <3> HIDE DEF resolved, deadline, before
    <3>3. QED BY <1>4, <1>5, <3>1, <3>2
  <2>2. CASE final \in resolved
    <3>1. to \in reached
      <4>1. final \in first .. final
        BY <1>3
      <4>2. Min({to, deadline(final)}) = to
        BY <1>5, <4>1
      <4> HIDE DEF resolved, deadline, start
      <4>3. QED BY <2>2, <4>2
    <3>2. \A x \in reached : x \in Int /\ x <= to
      <4> HIDE DEF reached, before, start
      <4> QED BY <1>2, <1>3, <1>4, <2>1
    <3> HIDE DEF reached
    <3>3. Max(reached) = to
      BY <3>1, <3>2, MaxReached
    <3>4. QED BY <1>6, <2>2, <3>3
  <2>3. CASE final \notin resolved
    <3>1. upTo = IF start >= before THEN start ELSE before
      BY <1>6, <1>7, <2>3
    <3>2. upTo \in reached
      <4>1. CASE start >= before
        <5>1. start \in reached
          OBVIOUS
        <5> HIDE DEF reached, upTo, start, before
        <5>2. QED BY <3>1, <4>1, <5>1
      <4>2. CASE ~(start >= before)
        <5> DEFINE p == final - 1
        <5>1. first # final
          BY <1>2, <1>3, <1>4, <4>2
        <5>2. p \in first .. final /\ p # final /\ p \in Nat
          BY <1>3, <5>1
        <5>3. p \in resolved /\ Min({to, deadline(p)}) = deadline(p)
          BY <1>5, <5>2
        <5>4. deadline(p) = before
          <6> DEFINE m == M * p
          <6>1. /\ deadline(p) = A + m + M
                /\ deadline(final) = A + M * final + M
            BY <1>3, <5>2, DeadlineType
          <6>2. M * final = m + M /\ m \in Nat
            <7>1. final = p + 1
              BY <1>3
            <7> HIDE DEF p
            <7>2. QED BY <5>2, <7>1
          <6> HIDE DEF m, p, deadline
          <6>3. QED BY <1>4, <6>1, <6>2
        <5>5. before \in reached
          <6> HIDE DEF resolved, deadline, start, before, p
          <6> QED BY <5>3, <5>4
        <5> HIDE DEF reached, upTo, start, before
        <5>6. QED BY <3>1, <4>2, <5>5
      <4>3. QED BY <4>1, <4>2
    <3>3. \A x \in reached : x \in Int /\ x <= upTo
      <4> HIDE DEF reached, before, start, upTo
      <4> QED BY <1>2, <1>4, <2>1, <2>3, <3>1
    <3> HIDE DEF reached, upTo
    <3>4. QED BY <3>2, <3>3, MaxReached
  <2>4. QED BY <2>2, <2>3
<1>10. epochs = ProvenWithin(proven, from, upTo, A, M)
  <2>1. ASSUME NEW e \in epochs PROVE e \in ProvenWithin(proven, from, upTo, A, M)
    <3>1. PICK p \in (first .. final) \cap proven : e \in EpochsOfPeriodWithin(A, p, M, start, to)
      OBVIOUS
    <3>2. p \in Nat /\ deadline(p) \in Nat /\ deadline(p) - M \in Nat
      BY <1>3, <1>4
    <3>3. e \in Max({deadline(p) - M, start}) + 1 .. Min({to, deadline(p)})
      BY <3>1 DEF EpochsOfPeriodWithin
    <3>4. e \in Nat /\ deadline(p) - M < e /\ start < e /\ e <= to /\ e <= deadline(p)
      <4> HIDE DEF deadline, start
      <4> QED BY <1>2, <3>2, <3>3, MinOfTwo, MaxOfTwo
    <3>5. ProvingPeriodForEpoch(A, e, M) = p
      BY <3>2, <3>4, EpochBelongsToPeriod DEF NeverActivated
    <3>6. e <= upTo
      <4>1. CASE p = final
        <5>1. final \in resolved
          BY <1>3, <3>1, <4>1
        <5>2. upTo = to
          BY <1>6, <5>1
        <5> HIDE DEF upTo
        <5>3. QED BY <3>4, <5>2
      <4>2. CASE p # final
        <5>1. deadline(p) <= before
          BY <1>5, <3>1, <4>2
        <5>2. before <= upTo
          <6>1. CASE LastPeriodResolved(proven, to, A, M, now)
            <7> HIDE DEF before
            <7> QED BY <1>3, <1>4, <6>1
          <6>2. CASE ~LastPeriodResolved(proven, to, A, M, now)
            <7>1. upTo = IF start >= before THEN start ELSE before
              BY <1>7, <6>2
            <7> HIDE DEF before, start, upTo
            <7>2. QED BY <1>7, <7>1
          <6>3. QED BY <6>1, <6>2
        <5>3. upTo \in Int
          <6> HIDE DEF upTo, start
          <6> QED BY <1>2, <1>8
        <5> HIDE DEF deadline, before, upTo
        <5>4. QED BY <1>4, <3>2, <3>4, <5>1, <5>2, <5>3
      <4>3. QED BY <4>1, <4>2
    <3> HIDE DEF upTo, start, deadline
    <3>7. e \in from + 1 .. upTo
      BY <1>2, <1>8, <3>4, <3>6
    <3>8. QED BY <3>1, <3>5, <3>7 DEF ProvenWithin
  <2>2. ASSUME NEW e \in ProvenWithin(proven, from, upTo, A, M) PROVE e \in epochs
    <3> DEFINE p == ProvingPeriodForEpoch(A, e, M)
    <3>1. e \in from + 1 .. upTo /\ p \in proven
      BY DEF ProvenWithin
    <3>2. e \in Nat /\ from < e /\ e <= to
      <4> HIDE DEF upTo, start, p
      <4> QED BY <1>2, <1>8, <3>1
    <3>3. A < e
      BY <3>1, <3>2 DEF ProvingPeriodForEpoch, NoPeriod
    <3>4. start + 1 <= e
      <4> HIDE DEF start
      <4> QED BY <1>2, <3>2, <3>3
    <3>5. p \in first .. final
      <4>1. ProvingPeriodForEpoch(A, start + 1, M) <= p
        <5> HIDE DEF start
        <5> QED BY <1>2, <3>2, <3>4, PeriodsInOrder
      <4>2. p <= ProvingPeriodForEpoch(A, to, M)
        BY <3>2, <3>3, PeriodsInOrder
      <4>3. p \in Nat
        BY <3>1
      <4> HIDE DEF p
      <4>4. QED BY <1>3, <4>1, <4>2, <4>3 DEF first, final
    <3>6. deadline(p) - M < e /\ e <= deadline(p)
      BY <3>2, <3>3, EpochInPeriod
    <3>7. deadline(p) \in Nat /\ deadline(p) - M \in Nat
      BY <1>4, <3>1
    <3> HIDE DEF p
    <3>8. e \in EpochsOfPeriodWithin(A, p, M, start, to)
      <4>1. e \in Max({deadline(p) - M, start}) + 1 .. Min({to, deadline(p)})
        <5> HIDE DEF deadline, start
        <5> QED BY <1>2, <3>2, <3>4, <3>6, <3>7, MinOfTwo, MaxOfTwo
      <4>2. QED BY <4>1 DEF EpochsOfPeriodWithin
    <3>9. QED BY <3>1, <3>5, <3>8
  <2>3. QED
    <3> HIDE DEF epochs
    <3> QED BY <2>1, <2>2
<1>11. found = [ok |-> TRUE, count |-> Cardinality(ProvenWithin(proven, from, upTo, A, M)),
                settleUpTo |-> upTo]
  <2> HIDE DEF found, epochs, reached, upTo
  <2> QED BY <1>1, <1>9, <1>10
<1>12. SettledWithin(proven, from, to, A, M, now) = upTo
  BY DEF SettledWithin, final
<1> HIDE DEF found, upTo, start
<1>13. QED BY <1>8, <1>11, <1>12 DEF found, start
=============================================================================
