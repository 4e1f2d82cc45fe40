-------------------------------- MODULE Sums ---------------------------------
(***************************************************************************)
(* Facts about SumFunctionOnSet over a finite set of natural numbers, which *)
(* is how the fee tables add up.  Induction is by a least counterexample:  *)
(* the sizes of the sets that go wrong are natural numbers, and a non-empty *)
(* set of natural numbers has a least element.                             *)
(***************************************************************************)
EXTENDS Functions, FiniteSetTheorems, WellFoundedInduction, TLAPS

LEMMA LeastNatural ==
    ASSUME NEW T \in SUBSET Nat, T # {}
    PROVE  \E n \in T : \A k \in T : n <= k
<1>1. IsWellFoundedOn(OpToRel(<, Nat), Nat)
  BY NatLessThanWellFounded
<1>2. PICK R : R = {ss \in Nat \X Nat : ss[1] < ss[2]}
  OBVIOUS
<1>3. IsWellFoundedOn(R, Nat)
  BY <1>1, <1>2 DEF OpToRel
<1>4. PICK n \in T : \A k \in T : ~(<<k, n>> \in R)
  BY <1>3, WFMin
<1>5. \A k \in T : ~(k < n)
  BY <1>2, <1>4
<1>6. QED BY <1>5

(* Sizes of the subsets of a finite set. *)
LEMMA Sizes ==
    ASSUME NEW S, IsFiniteSet(S), NEW t \in SUBSET S
    PROVE  /\ IsFiniteSet(t) /\ Cardinality(t) \in Nat
           /\ Cardinality(t) = 0 <=> t = {}
           /\ \A x \in t : Cardinality(t \ {x}) = Cardinality(t) - 1
<1>1. IsFiniteSet(t)
  BY FS_Subset
<1>2. QED BY <1>1, FS_CardinalityType, FS_EmptySet, FS_RemoveElement

-----------------------------------------------------------------------------
Pick(t) == CHOOSE x \in t : TRUE

LEMMA PickIn == ASSUME NEW t, t # {} PROVE Pick(t) \in t
BY DEF Pick

(* h[t] is what the fold computes for each subset t of S. *)
IsSum(h, f, S) ==
    h = [t \in SUBSET S |-> IF t = {} THEN 0 ELSE f[Pick(t)] + h[t \ {Pick(t)}]]

LEMMA SumIs ==
    ASSUME NEW f, NEW S, \E h : IsSum(h, f, S)
    PROVE  \E g : IsSum(g, f, S) /\ SumFunctionOnSet(f, S) = g[S]
<1> DEFINE g == CHOOSE h : IsSum(h, f, S)
<1>1. IsSum(g, f, S)
  OBVIOUS
<1>2. SumFunctionOnSet(f, S) = g[S]
  BY DEF SumFunctionOnSet, FoldFunctionOnSet, MapThenFoldSet, IsSum, Pick
<1>3. QED BY <1>1, <1>2

(* The subsets of S of at most n elements. *)
UpTo(S, n) == {t \in SUBSET S : Cardinality(t) <= n}

SumsUpTo(f, S, n) ==
    \E h \in [UpTo(S, n) -> Nat] :
        \A t \in UpTo(S, n) :
            h[t] = IF t = {} THEN 0 ELSE f[Pick(t)] + h[t \ {Pick(t)}]

LEMMA SumsGrow ==
    ASSUME NEW S, IsFiniteSet(S), NEW f, \A x \in S : f[x] \in Nat,
           NEW n \in Nat, SumsUpTo(f, S, n)
    PROVE  SumsUpTo(f, S, n + 1)
<1>1. PICK h \in [UpTo(S, n) -> Nat] :
          \A t \in UpTo(S, n) : h[t] = IF t = {} THEN 0 ELSE f[Pick(t)] + h[t \ {Pick(t)}]
  BY DEF SumsUpTo
<1>2. ASSUME NEW t \in UpTo(S, n + 1), t # {}
      PROVE  t \ {Pick(t)} \in UpTo(S, n) /\ f[Pick(t)] \in Nat
  <2>1. Pick(t) \in t /\ t \in SUBSET S /\ Cardinality(t) <= n + 1
    BY <1>2, PickIn DEF UpTo
  <2>2. Cardinality(t \ {Pick(t)}) = Cardinality(t) - 1 /\ Cardinality(t) \in Nat
    BY <2>1, Sizes
  <2>3. QED BY <2>1, <2>2 DEF UpTo
<1>3. PICK k : k = [t \in UpTo(S, n + 1) |->
                      IF t = {} THEN 0 ELSE f[Pick(t)] + h[t \ {Pick(t)}]]
  OBVIOUS
<1>4. k \in [UpTo(S, n + 1) -> Nat]
  <2>1. ASSUME NEW t \in UpTo(S, n + 1) PROVE k[t] \in Nat
    <3>1. CASE t = {}
      BY <1>3, <3>1
    <3>2. CASE t # {}
      <4>1. f[Pick(t)] \in Nat /\ h[t \ {Pick(t)}] \in Nat
        BY <1>2, <3>2
      <4>2. QED BY <1>3, <3>2, <4>1
    <3>3. QED BY <3>1, <3>2
  <2>2. QED BY <1>3, <2>1
<1>5. \A t \in UpTo(S, n) : k[t] = h[t]
  <2>1. \A t \in UpTo(S, n) : t \in UpTo(S, n + 1)
    <3>1. ASSUME NEW t \in UpTo(S, n) PROVE t \in UpTo(S, n + 1)
      <4>1. t \in SUBSET S /\ Cardinality(t) <= n
        BY DEF UpTo
      <4>2. Cardinality(t) \in Nat
        BY <4>1, Sizes
      <4>3. QED BY <4>1, <4>2 DEF UpTo
    <3>2. QED BY <3>1
  <2>2. QED BY <1>1, <1>3, <2>1
<1>6. \A t \in UpTo(S, n + 1) : k[t] = IF t = {} THEN 0 ELSE f[Pick(t)] + k[t \ {Pick(t)}]
  BY <1>2, <1>3, <1>5
<1>7. QED BY <1>4, <1>6 DEF SumsUpTo

LEMMA SumsExist ==
    ASSUME NEW S, IsFiniteSet(S), NEW f, \A x \in S : f[x] \in Nat, NEW n \in Nat
    PROVE  SumsUpTo(f, S, n)
<1> DEFINE Bad == {m \in Nat : ~SumsUpTo(f, S, m)}
<1>1. SumsUpTo(f, S, 0)
  <2>1. \A t \in UpTo(S, 0) : t = {}
    <3>1. ASSUME NEW t \in UpTo(S, 0) PROVE t = {}
      <4>1. t \in SUBSET S /\ Cardinality(t) <= 0
        BY DEF UpTo
      <4>2. Cardinality(t) \in Nat /\ (Cardinality(t) = 0 <=> t = {})
        BY <4>1, Sizes
      <4>3. QED BY <4>1, <4>2
    <3>2. QED BY <3>1
  <2>2. PICK h : h = [t \in UpTo(S, 0) |-> 0]
    OBVIOUS
  <2>3. h \in [UpTo(S, 0) -> Nat]
    BY <2>2
  <2>4. QED BY <2>1, <2>2, <2>3 DEF SumsUpTo
<1>2. SUFFICES ASSUME Bad # {} PROVE FALSE
  OBVIOUS
<1>3. PICK m \in Bad : \A k \in Bad : m <= k
  <2>1. Bad \in SUBSET Nat
    OBVIOUS
  <2> HIDE DEF Bad
  <2>2. QED BY <1>2, <2>1, LeastNatural
<1>4. m \in Nat /\ m # 0 /\ m - 1 \in Nat /\ m = (m - 1) + 1 /\ ~(m <= m - 1)
  BY <1>1
<1>5. SumsUpTo(f, S, m - 1)
  BY <1>3, <1>4
<1>6. SumsUpTo(f, S, (m - 1) + 1)
  BY <1>4, <1>5, SumsGrow
<1>7. QED BY <1>4, <1>6

(* On a finite set of natural numbers the fold is well defined. *)
LEMMA SumDefined ==
    ASSUME NEW S, IsFiniteSet(S), NEW f, \A x \in S : f[x] \in Nat
    PROVE  \E h \in [SUBSET S -> Nat] : IsSum(h, f, S)
<1>1. Cardinality(S) \in Nat
  BY FS_CardinalityType
<1>2. UpTo(S, Cardinality(S)) = SUBSET S
  BY FS_Subset DEF UpTo
<1>3. SumsUpTo(f, S, Cardinality(S))
  BY <1>1, SumsExist
<1>4. PICK h \in [SUBSET S -> Nat] :
          \A t \in SUBSET S : h[t] = IF t = {} THEN 0 ELSE f[Pick(t)] + h[t \ {Pick(t)}]
  BY <1>2, <1>3 DEF SumsUpTo
<1>5. IsSum(h, f, S)
  BY <1>4 DEF IsSum
<1>6. QED BY <1>5

(* The order in which the elements are taken does not matter. *)
LEMMA AnyOrder ==
    ASSUME NEW S, IsFiniteSet(S), NEW f, \A x \in S : f[x] \in Nat,
           NEW h \in [SUBSET S -> Nat], IsSum(h, f, S), NEW u \in SUBSET S, NEW y \in u
    PROVE  h[u] = f[y] + h[u \ {y}]
<1> DEFINE Wrong(t) == \E x \in t : h[t] # f[x] + h[t \ {x}]
           Bad == {m \in Nat : \E t \in SUBSET S : Cardinality(t) = m /\ Wrong(t)}
<1>1. SUFFICES ASSUME Wrong(u) PROVE FALSE
  OBVIOUS
<1>2. PICK m \in Bad : \A k \in Bad : m <= k
  <2>1. Cardinality(u) \in Nat
    BY Sizes
  <2>2. Cardinality(u) \in Bad
    BY <1>1, <2>1
  <2>3. Bad \in SUBSET Nat
    OBVIOUS
  <2> HIDE DEF Bad
  <2>4. QED BY <2>2, <2>3, LeastNatural
<1>3. PICK t \in SUBSET S : Cardinality(t) = m /\ Wrong(t)
  OBVIOUS
<1>4. PICK x \in t : h[t] # f[x] + h[t \ {x}]
  BY <1>3
<1>5. PICK z \in t : z = Pick(t)
  BY <1>4, PickIn
<1>6. h[t] = f[z] + h[t \ {z}]
  BY <1>4, <1>5 DEF IsSum
<1>7. x # z /\ x \in t \ {z} /\ z \in t \ {x}
  BY <1>4, <1>5, <1>6
<1>8. ASSUME NEW w \in t PROVE ~Wrong(t \ {w})
  <2>1. Cardinality(t \ {w}) = m - 1 /\ m \in Nat /\ Cardinality(t \ {w}) \in Nat
    BY <1>3, Sizes
  <2>2. m - 1 \notin Bad /\ m - 1 \in Nat
    BY <1>2, <2>1
  <2>3. QED BY <2>1, <2>2
<1>9. h[t \ {z}] = f[x] + h[(t \ {z}) \ {x}] /\ h[t \ {x}] = f[z] + h[(t \ {x}) \ {z}]
  BY <1>5, <1>7, <1>8
<1>10. PICK r \in Nat : r = h[(t \ {z}) \ {x}] /\ r = h[(t \ {x}) \ {z}]
  <2>1. (t \ {z}) \ {x} = (t \ {x}) \ {z} /\ (t \ {z}) \ {x} \in SUBSET S
    OBVIOUS
  <2>2. QED BY <2>1
<1>11. f[x] \in Nat /\ f[z] \in Nat
  OBVIOUS
<1>12. QED BY <1>4, <1>6, <1>9, <1>10, <1>11

(* Two folds over the same values agree where both are defined. *)
LEMMA SumsAgree ==
    ASSUME NEW S, IsFiniteSet(S), NEW f, NEW e, NEW U \in SUBSET S, \A x \in U : f[x] = e[x],
           NEW g, IsSum(g, f, S), NEW h, IsSum(h, e, U), NEW v \in SUBSET U
    PROVE  g[v] = h[v]
<1> DEFINE Bad == {m \in Nat : \E t \in SUBSET U : Cardinality(t) = m /\ g[t] # h[t]}
<1>1. SUFFICES ASSUME g[v] # h[v] PROVE FALSE
  OBVIOUS
<1>2. \A t \in SUBSET U : t \in SUBSET S
  OBVIOUS
<1>3. PICK m \in Bad : \A k \in Bad : m <= k
  <2>1. Cardinality(v) \in Nat
    BY <1>2, Sizes
  <2>2. Cardinality(v) \in Bad
    BY <1>1, <2>1
  <2>3. Bad \in SUBSET Nat
    OBVIOUS
  <2> HIDE DEF Bad
  <2>4. QED BY <2>2, <2>3, LeastNatural
<1>4. PICK t \in SUBSET U : Cardinality(t) = m /\ g[t] # h[t]
  OBVIOUS
<1>5. t # {}
  BY <1>2, <1>4 DEF IsSum
<1>6. PICK z \in t : z = Pick(t)
  BY <1>5, PickIn
<1>7. g[t] = f[z] + g[t \ {z}] /\ h[t] = e[z] + h[t \ {z}]
  BY <1>2, <1>5, <1>6 DEF IsSum
<1>8. Cardinality(t \ {z}) = m - 1 /\ m \in Nat /\ Cardinality(t \ {z}) \in Nat
  BY <1>2, <1>4, Sizes
<1>9. m - 1 \notin Bad /\ m - 1 \in Nat
  BY <1>3, <1>8
<1>10. g[t \ {z}] = h[t \ {z}]
  BY <1>8, <1>9
<1>11. f[z] = e[z]
  OBVIOUS
<1>12. QED BY <1>4, <1>7, <1>10, <1>11

-----------------------------------------------------------------------------
(* What the rest of the project uses. *)
LEMMA SumNat ==
    ASSUME NEW S, IsFiniteSet(S), NEW f, \A x \in S : f[x] \in Nat
    PROVE  SumFunctionOnSet(f, S) \in Nat
<1>1. PICK h \in [SUBSET S -> Nat] : IsSum(h, f, S)
  BY SumDefined
<1>2. PICK g : IsSum(g, f, S) /\ SumFunctionOnSet(f, S) = g[S]
  BY <1>1, SumIs
<1>3. g[S] = h[S]
  BY <1>1, <1>2, SumsAgree
<1>4. QED BY <1>1, <1>2, <1>3

LEMMA SumEmpty ==
    ASSUME NEW f
    PROVE  SumFunctionOnSet(f, {}) = 0
<1>1. IsFiniteSet({})
  BY FS_EmptySet
<1>2. PICK h \in [SUBSET {} -> Nat] : IsSum(h, f, {})
  BY <1>1, SumDefined
<1>3. PICK g : IsSum(g, f, {}) /\ SumFunctionOnSet(f, {}) = g[{}]
  BY <1>2, SumIs
<1>4. QED BY <1>3 DEF IsSum

LEMMA SumTakeOut ==
    ASSUME NEW S, IsFiniteSet(S), NEW f, \A x \in S : f[x] \in Nat, NEW y \in S
    PROVE  SumFunctionOnSet(f, S) = f[y] + SumFunctionOnSet(f, S \ {y})
<1>1. PICK h \in [SUBSET S -> Nat] : IsSum(h, f, S)
  BY SumDefined
<1>2. PICK g : IsSum(g, f, S) /\ SumFunctionOnSet(f, S) = g[S]
  BY <1>1, SumIs
<1>3. g[S] = h[S]
  BY <1>1, <1>2, SumsAgree
<1>4. h[S] = f[y] + h[S \ {y}]
  BY <1>1, AnyOrder
<1>5. PICK T \in SUBSET S : T = S \ {y}
  OBVIOUS
<1>6. IsFiniteSet(T) /\ \A x \in T : f[x] \in Nat
  BY FS_Subset
<1>7. PICK k \in [SUBSET T -> Nat] : IsSum(k, f, T)
  BY <1>6, SumDefined
<1>8. PICK l : IsSum(l, f, T) /\ SumFunctionOnSet(f, T) = l[T]
  BY <1>7, SumIs
<1>9. h[T] = l[T]
  BY <1>1, <1>8, SumsAgree
<1>10. QED BY <1>2, <1>3, <1>4, <1>5, <1>8, <1>9

LEMMA SumSame ==
    ASSUME NEW S, IsFiniteSet(S), NEW f, NEW e, \A x \in S : f[x] \in Nat /\ f[x] = e[x]
    PROVE  SumFunctionOnSet(f, S) = SumFunctionOnSet(e, S)
<1>1. PICK h \in [SUBSET S -> Nat] : IsSum(h, f, S)
  BY SumDefined
<1>2. PICK g : IsSum(g, f, S) /\ SumFunctionOnSet(f, S) = g[S]
  BY <1>1, SumIs
<1>3. PICK k \in [SUBSET S -> Nat] : IsSum(k, e, S)
  BY SumDefined
<1>4. PICK l : IsSum(l, e, S) /\ SumFunctionOnSet(e, S) = l[S]
  BY <1>3, SumIs
<1>5. g[S] = l[S]
  BY <1>2, <1>4, SumsAgree
<1>6. QED BY <1>2, <1>4, <1>5

LEMMA SumZero ==
    ASSUME NEW S, IsFiniteSet(S), NEW f, \A x \in S : f[x] = 0
    PROVE  SumFunctionOnSet(f, S) = 0
<1>1. PICK h : h = [t \in SUBSET S |-> 0]
  OBVIOUS
<1>2. ASSUME NEW t \in SUBSET S
      PROVE  h[t] = IF t = {} THEN 0 ELSE f[Pick(t)] + h[t \ {Pick(t)}]
  <2>1. CASE t = {}
    BY <1>1, <2>1
  <2>2. CASE t # {}
    <3>1. f[Pick(t)] = 0 /\ h[t \ {Pick(t)}] = 0 /\ h[t] = 0
      BY <1>1, <2>2, PickIn
    <3>2. QED BY <2>2, <3>1
  <2>3. QED BY <2>1, <2>2
<1>3. IsSum(h, f, S)
  BY <1>1, <1>2 DEF IsSum
<1>4. PICK g : IsSum(g, f, S) /\ SumFunctionOnSet(f, S) = g[S]
  BY <1>3, SumIs
<1>5. g[S] = h[S]
  BY <1>3, <1>4, SumsAgree
<1>6. QED BY <1>1, <1>4, <1>5

(* A running total, one index further. *)
LEMMA SumNext ==
    ASSUME NEW n \in Nat, NEW f, \A i \in 1 .. n + 1 : f[i] \in Nat
    PROVE  /\ SumFunctionOnSet(f, 1 .. n) \in Nat
           /\ SumFunctionOnSet(f, 1 .. n + 1) = f[n + 1] + SumFunctionOnSet(f, 1 .. n)
<1>1. IsFiniteSet(1 .. n) /\ IsFiniteSet(1 .. n + 1)
  BY FS_Interval
<1>2. (1 .. n + 1) \ {n + 1} = 1 .. n /\ n + 1 \in 1 .. n + 1 /\ \A i \in 1 .. n : i \in 1 .. n + 1
  OBVIOUS
<1>3. SumFunctionOnSet(f, 1 .. n) \in Nat
  BY <1>1, <1>2, SumNat
<1>4. PICK S : S = 1 .. n + 1
  OBVIOUS
<1>5. SumFunctionOnSet(f, S) = f[n + 1] + SumFunctionOnSet(f, S \ {n + 1})
  BY <1>1, <1>2, <1>4, SumTakeOut
<1>6. QED BY <1>2, <1>3, <1>4, <1>5

LEMMA TotalsGrow ==
    ASSUME NEW N \in Nat, NEW f \in [1 .. N -> Nat], NEW m \in 0 .. N, NEW n \in m .. N
    PROVE  SumFunctionOnSet(f, 1 .. m) <= SumFunctionOnSet(f, 1 .. n)
<1> DEFINE Total(k) == SumFunctionOnSet(f, 1 .. k)
           Bad == {k \in m .. N : ~(Total(m) <= Total(k))}
<1>1. \A k \in 0 .. N : Total(k) \in Nat
  <2>1. ASSUME NEW k \in 0 .. N PROVE Total(k) \in Nat
    <3>1. IsFiniteSet(1 .. k)
      BY FS_Interval
    <3>2. \A i \in 1 .. k : f[i] \in Nat
      OBVIOUS
    <3>3. QED BY <3>1, <3>2, SumNat
  <2>2. QED BY <2>1
<1>2. SUFFICES ASSUME Bad # {} PROVE FALSE
  BY DEF Total
<1>3. PICK b \in Bad : \A k \in Bad : b <= k
  <2>1. Bad \in SUBSET Nat
    OBVIOUS
  <2> HIDE DEF Bad
  <2>2. QED BY <1>2, <2>1, LeastNatural
<1>4. PICK k \in Nat : b = k + 1 /\ k \in m .. N /\ b \in m .. N /\ k \in 0 .. N
  <2>1. m \in Nat /\ b \in m .. N /\ b # m
    <3>1. Total(m) \in Nat
      BY <1>1
    <3>2. QED BY <3>1
  <2>2. QED BY <2>1
<1>5. Total(m) <= Total(k)
  <2>1. k \notin Bad
    BY <1>3, <1>4
  <2>2. QED BY <1>4, <2>1
<1>6. \A i \in 1 .. k + 1 : f[i] \in Nat
  BY <1>4
<1>7. SumFunctionOnSet(f, 1 .. k + 1) = f[k + 1] + SumFunctionOnSet(f, 1 .. k)
  BY <1>4, <1>6, SumNext
<1>8. Total(b) = f[b] + Total(k) /\ f[b] \in Nat /\ Total(k) \in Nat /\ Total(m) \in Nat
  <2>1. f[b] \in Nat
    BY <1>4, <1>6
  <2>2. QED BY <1>1, <1>4, <1>7, <2>1
<1>9. ~(Total(m) <= Total(b))
  OBVIOUS
<1> HIDE DEF Total
<1>10. QED BY <1>5, <1>8, <1>9
=============================================================================
