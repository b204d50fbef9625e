--------------------------------- MODULE Sums ---------------------------------
(***************************************************************************)
(* Facts about sums over finite sets, as SumFunctionOnSet of the community *)
(* module Functions computes them: the models add up days of leave and     *)
(* amounts of payslips with it.                                            *)
(*                                                                         *)
(* It is defined by recursion over the subsets of the set, in an order     *)
(* that CHOOSE picks.  Instead of an induction the proofs take a smallest  *)
(* set that goes wrong, which a well-founded order has.                    *)
(***************************************************************************)
EXTENDS Integers, FiniteSets, Functions, FiniteSetTheorems, WellFoundedInduction, TLAPS

----------------------------------------------------------------------------
(* Smallest elements *)

\* A set of natural numbers has a least element.
LEMMA Least ==
  ASSUME NEW T \in SUBSET Nat, T # {}
  PROVE  \E n \in T : \A m \in T : n <= m
<1>1. IsWellFoundedOn(OpToRel(<, Nat), Nat)
  BY NatLessThanWellFounded
<1> DEFINE R == OpToRel(<, Nat)
<1>2. PICK n \in T : \A m \in T : ~(<<m, n>> \in R)
  <2> HIDE DEF R
  <2>1. IsWellFoundedOn(R, Nat)
    BY <1>1 DEF R
  <2> QED
    BY <2>1, WFMin
<1>3. \A m \in T : <<m, n>> \in R <=> m < n
  BY DEF OpToRel
<1> HIDE DEF R
<1>4. ASSUME NEW m \in T PROVE n <= m
  <2>1. ~(m < n)
    BY <1>2, <1>3
  <2> QED
    BY <2>1
<1> QED
  BY <1>4

\* Among finite sets there is one of which none misses a single element.
LEMMA Smallest ==
  ASSUME NEW S, IsFiniteSet(S), NEW F \in SUBSET SUBSET S, F # {}
  PROVE  \E T \in F : \A x \in T : T \ {x} \notin F
<1>1. \A T \in F : IsFiniteSet(T) /\ Cardinality(T) \in Nat
  BY FS_Subset, FS_CardinalityType
<1> DEFINE sizes == {Cardinality(T) : T \in F}
<1>2. PICK n \in sizes : \A m \in sizes : n <= m
  <2>1. sizes \in SUBSET Nat /\ sizes # {}
    BY <1>1
  <2> HIDE DEF sizes
  <2> QED
    BY <2>1, Least
<1>3. PICK T \in F : Cardinality(T) = n
  BY <1>2
<1>4. ASSUME NEW x \in T, T \ {x} \in F PROVE FALSE
  <2>1. Cardinality(T \ {x}) = Cardinality(T) - 1
    BY <1>1, FS_RemoveElement
  <2>2. n <= Cardinality(T \ {x})
    BY <1>2, <1>4
  <2> QED
    BY <1>1, <1>3, <2>1, <2>2
<1> QED
  BY <1>3, <1>4

----------------------------------------------------------------------------
(* What a sum is *)

\* g sums f over every subset of S, whichever element is taken out first.
Adds(f, S, g) ==
  /\ g \in [SUBSET S -> Int]
  /\ g[{}] = 0
  /\ \A T \in SUBSET S : \A x \in T : g[T] = f[x] + g[T \ {x}]

\* Such a function exists.
LEMMA AddsExists ==
  ASSUME NEW f, NEW S, IsFiniteSet(S), \A x \in S : f[x] \in Int
  PROVE  \E g : Adds(f, S, g)
<1> DEFINE F == {T \in SUBSET S : ~\E g : Adds(f, T, g)}
<1> SUFFICES ASSUME F # {} PROVE FALSE
  OBVIOUS
<1>1. PICK T \in F : \A x \in T : T \ {x} \notin F
  <2>1. F \in SUBSET SUBSET S
    OBVIOUS
  <2> HIDE DEF F
  <2> QED
    BY <2>1, Smallest
<1>2. CASE T = {}
  <2>1. Adds(f, {}, [U \in SUBSET {} |-> 0])
    BY DEF Adds
  <2> QED
    BY <1>2, <2>1
<1>3. CASE T # {}
  <2>1. PICK x : x \in T
    BY <1>3
  <2> DEFINE T0 == T \ {x}
  <2>2. PICK h : Adds(f, T0, h)
    BY <1>1, <2>1
  <2> DEFINE g == [U \in SUBSET T |-> IF x \in U THEN f[x] + h[U \ {x}] ELSE h[U]]
  <2>3. f[x] \in Int /\ \A y \in T : f[y] \in Int
    BY <2>1
  <2>4. /\ h \in [SUBSET T0 -> Int] /\ h[{}] = 0
        /\ \A U \in SUBSET T0 : \A y \in U : h[U] = f[y] + h[U \ {y}]
    BY <2>2 DEF Adds
  <2>5. \A U \in SUBSET T : U \ {x} \in SUBSET T0 /\ (x \notin U => U \in SUBSET T0)
    OBVIOUS
  <2>6. g \in [SUBSET T -> Int] /\ g[{}] = 0
    <3>1. \A U \in SUBSET T : (IF x \in U THEN f[x] + h[U \ {x}] ELSE h[U]) \in Int
      BY <2>3, <2>4, <2>5
    <3> QED
      BY <2>4, <3>1
  <2>7. ASSUME NEW U \in SUBSET T, NEW y \in U PROVE g[U] = f[y] + g[U \ {y}]
    <3>0. U \ {y} \in SUBSET T
      OBVIOUS
    <3>1. CASE x \notin U
      <4>1. h[U] = f[y] + h[U \ {y}]
        BY <2>4, <2>5, <3>1
      <4> QED
        BY <3>0, <3>1, <4>1
    <3>2. CASE y = x
      BY <3>0, <3>2
    <3>3. CASE x \in U /\ y # x
      <4>1. U \ {x} \in SUBSET T0 /\ y \in U \ {x} /\ (U \ {x}) \ {y} = (U \ {y}) \ {x}
        BY <3>3
      <4>2. h[U \ {x}] = f[y] + h[(U \ {y}) \ {x}]
        <5>1. h[U \ {x}] = f[y] + h[(U \ {x}) \ {y}]
          BY <2>4, <4>1
        <5> HIDE DEF T0
        <5> QED
          BY <4>1, <5>1
      <4>3. g[U] = f[x] + h[U \ {x}] /\ g[U \ {y}] = f[x] + h[(U \ {y}) \ {x}]
        BY <3>0, <3>3
      <4>4. (U \ {y}) \ {x} \in SUBSET T0
        OBVIOUS
      <4>5. f[x] \in Int /\ f[y] \in Int /\ h[(U \ {y}) \ {x}] \in Int
        BY <2>3, <2>4, <4>4
      <4> HIDE DEF g
      <4> QED
        BY <4>2, <4>3, <4>5
    <3> QED
      BY <3>1, <3>2, <3>3
  <2>8. Adds(f, T, g)
    BY <2>6, <2>7 DEF Adds
  <2> QED
    BY <1>1, <2>8
<1> QED
  BY <1>2, <1>3

\* One step of the recursion that defines the sum.
SumStep(f, S, g) ==
  [T \in SUBSET S |->
     IF T = {} THEN 0 ELSE f[CHOOSE x \in T : TRUE] + g[T \ {CHOOSE x \in T : TRUE}]]

\* The sum is the value that such a function has for the whole set.
LEMMA SumIs ==
  ASSUME NEW f, NEW S, IsFiniteSet(S), NEW g, Adds(f, S, g)
  PROVE  SumFunctionOnSet(f, S) = g[S]
<1>1. SumFunctionOnSet(f, S) = (CHOOSE h : h = SumStep(f, S, h))[S]
  BY DEF SumFunctionOnSet, FoldFunctionOnSet, MapThenFoldSet, SumStep
<1>2. g = SumStep(f, S, g)
  BY DEF Adds, SumStep
<1>3. PICK h : h = (CHOOSE k : k = SumStep(f, S, k)) /\ h = SumStep(f, S, h)
  BY <1>2
<1> DEFINE F == {T \in SUBSET S : h[T] # g[T]}
<1>4. F = {}
  <2> SUFFICES ASSUME F # {} PROVE FALSE
    OBVIOUS
  <2>1. PICK T \in F : \A x \in T : T \ {x} \notin F
    <3>1. F \in SUBSET SUBSET S
      OBVIOUS
    <3> HIDE DEF F
    <3> QED
      BY <3>1, Smallest
  <2>2. T \in SUBSET S /\ h[T] # g[T]
    BY <2>1
  <2>3. CASE T = {}
    BY <1>3, <2>2, <2>3 DEF Adds, SumStep
  <2>4. CASE T # {}
    <3>1. PICK x \in T : x = CHOOSE y \in T : TRUE
      BY <2>4
    <3>2. h[T] = f[x] + h[T \ {x}]
      BY <1>3, <2>2, <2>4, <3>1 DEF SumStep
    <3>3. g[T] = f[x] + g[T \ {x}]
      BY <2>2 DEF Adds
    <3>4. h[T \ {x}] = g[T \ {x}]
      BY <2>1, <2>2
    <3> QED
      BY <2>2, <3>2, <3>3, <3>4
  <2> QED
    BY <2>3, <2>4
<1>5. h[S] = g[S]
  BY <1>4
<1> QED
  BY <1>1, <1>3, <1>5

----------------------------------------------------------------------------
(* Sums *)

\* A sum over nothing, and of integers.
LEMMA SumType ==
  ASSUME NEW f, NEW S, IsFiniteSet(S), \A x \in S : f[x] \in Int
  PROVE  SumFunctionOnSet(f, S) \in Int /\ SumFunctionOnSet(f, {}) = 0
<1>1. PICK g : Adds(f, S, g)
  BY AddsExists
<1>2. PICK h : Adds(f, {}, h)
  <2>1. IsFiniteSet({})
    BY FS_EmptySet
  <2> QED
    BY <2>1, AddsExists
<1>3. SumFunctionOnSet(f, S) = g[S] /\ SumFunctionOnSet(f, {}) = h[{}]
  BY <1>1, <1>2, SumIs, FS_EmptySet
<1> QED
  BY <1>1, <1>2, <1>3 DEF Adds

\* An element that is taken out takes its summand with it.
LEMMA SumWithout ==
  ASSUME NEW f, NEW S, IsFiniteSet(S), \A x \in S : f[x] \in Int, NEW x \in S
  PROVE  SumFunctionOnSet(f, S) = f[x] + SumFunctionOnSet(f, S \ {x})
<1>1. PICK g : Adds(f, S, g)
  BY AddsExists
<1> DEFINE T == S \ {x}
           h == [U \in SUBSET T |-> g[U]]
<1>2. Adds(f, T, h)
  <2>1. /\ g \in [SUBSET S -> Int] /\ g[{}] = 0
        /\ \A U \in SUBSET S : \A y \in U : g[U] = f[y] + g[U \ {y}]
    BY <1>1 DEF Adds
  <2>2. h \in [SUBSET T -> Int] /\ h[{}] = 0
    BY <2>1
  <2>3. ASSUME NEW U \in SUBSET T, NEW y \in U PROVE h[U] = f[y] + h[U \ {y}]
    <3>1. U \in SUBSET S /\ U \ {y} \in SUBSET T
      OBVIOUS
    <3> QED
      BY <2>1, <3>1
  <2> QED
    BY <2>2, <2>3 DEF Adds
<1>3. SumFunctionOnSet(f, S) = g[S]
  BY <1>1, SumIs
<1>4. SumFunctionOnSet(f, T) = h[T]
  <2>1. IsFiniteSet(T)
    BY FS_RemoveElement
  <2> HIDE DEF T, h
  <2> QED
    BY <1>2, <2>1, SumIs
<1>5. h[T] = g[T]
  OBVIOUS
<1>6. g[S] = f[x] + g[T]
  BY <1>1 DEF Adds
<1> QED
  BY <1>3, <1>4, <1>5, <1>6

\* Functions that agree have the same sum.
LEMMA SumSame ==
  ASSUME NEW f, NEW h, NEW S, IsFiniteSet(S), \A x \in S : f[x] \in Int /\ f[x] = h[x]
  PROVE  SumFunctionOnSet(f, S) = SumFunctionOnSet(h, S)
<1>1. PICK g : Adds(f, S, g)
  BY AddsExists
<1>2. Adds(h, S, g)
  BY <1>1 DEF Adds
<1> QED
  BY <1>1, <1>2, SumIs

\* Nothing but zeros adds up to zero.
LEMMA SumZero ==
  ASSUME NEW f, NEW S, IsFiniteSet(S), \A x \in S : f[x] = 0
  PROVE  SumFunctionOnSet(f, S) = 0
<1>1. Adds(f, S, [T \in SUBSET S |-> 0])
  BY DEF Adds
<1> QED
  BY <1>1, SumIs

\* A set that splits in two has the sum of both parts.
LEMMA SumSplits ==
  ASSUME NEW f, NEW S, NEW T, IsFiniteSet(S), IsFiniteSet(T), S \cap T = {},
         \A x \in S \cup T : f[x] \in Int
  PROVE  SumFunctionOnSet(f, S \cup T) = SumFunctionOnSet(f, S) + SumFunctionOnSet(f, T)
<1>1. IsFiniteSet(S \cup T)
  BY FS_Union
<1> DEFINE Sum(U) == SumFunctionOnSet(f, U)
           F == {U \in SUBSET T : Sum(S \cup U) # Sum(S) + Sum(U)}
<1>2. Sum(S) \in Int /\ Sum({}) = 0
  BY SumType
<1> SUFFICES ASSUME F # {} PROVE FALSE
  OBVIOUS
<1>3. PICK U \in F : \A x \in U : U \ {x} \notin F
  <2>1. F \in SUBSET SUBSET T
    OBVIOUS
  <2> HIDE DEF F
  <2> QED
    BY <2>1, Smallest
<1>4. U \in SUBSET T /\ Sum(S \cup U) # Sum(S) + Sum(U)
  BY <1>3
<1>5. CASE U = {}
  <2>1. S \cup U = S
    BY <1>5
  <2> HIDE DEF Sum
  <2> QED
    BY <1>2, <1>4, <1>5, <2>1
<1>6. ASSUME NEW x \in U PROVE FALSE
  <2>1. /\ U \ {x} \in SUBSET T /\ f[x] \in Int /\ x \in S \cup U /\ x \notin S
        /\ (S \cup U) \ {x} = S \cup (U \ {x})
    BY <1>4
  <2>2. IsFiniteSet(U) /\ IsFiniteSet(S \cup U) /\ IsFiniteSet(U \ {x})
    BY <1>1, <1>4, FS_Subset, FS_RemoveElement, FS_Union
  <2>3. Sum(S \cup U) = f[x] + Sum(S \cup (U \ {x}))
    <3>1. \A y \in S \cup U : f[y] \in Int
      BY <1>4
    <3>2. Sum(S \cup U) = f[x] + Sum((S \cup U) \ {x})
      BY <2>1, <2>2, <3>1, SumWithout
    <3> QED
      BY <2>1, <3>2
  <2>4. Sum(U) = f[x] + Sum(U \ {x})
    BY <1>4, <2>2, SumWithout
  <2>5. Sum(U \ {x}) \in Int
    BY <2>1, <2>2, SumType
  <2>6. Sum(S \cup (U \ {x})) = Sum(S) + Sum(U \ {x})
    BY <1>3, <1>6, <2>1
  <2> HIDE DEF Sum
  <2> QED
    BY <1>2, <1>4, <2>1, <2>3, <2>4, <2>5, <2>6
<1> QED
  BY <1>5, <1>6

\* A sum of natural numbers is one.
LEMMA SumNotNegative ==
  ASSUME NEW f, NEW S, IsFiniteSet(S), \A x \in S : f[x] \in Nat
  PROVE  SumFunctionOnSet(f, S) \in Nat
<1>1. \A x \in S : f[x] \in Int
  OBVIOUS
<1>2. PICK g : Adds(f, S, g)
  BY <1>1, AddsExists
<1>3. SumFunctionOnSet(f, S) = g[S]
  BY <1>2, SumIs
<1> DEFINE F == {T \in SUBSET S : g[T] \notin Nat}
<1> SUFFICES ASSUME F # {} PROVE FALSE
  BY <1>3
<1>4. PICK T \in F : \A x \in T : T \ {x} \notin F
  BY Smallest
<1>5. T # {}
  <2>1. g[{}] \in Nat /\ g[T] \notin Nat
    BY <1>2 DEF Adds
  <2> QED
    BY <2>1
<1>6. PICK x \in T : TRUE
  BY <1>5
<1>7. g[T] = f[x] + g[T \ {x}]
  BY <1>2 DEF Adds
<1>8. g[T \ {x}] \in Nat /\ f[x] \in Nat
  BY <1>4
<1> QED
  BY <1>7, <1>8

\* A sum of n natural numbers, none of them above D, is at most n * D.
LEMMA SumBounded ==
  ASSUME NEW f, NEW S, IsFiniteSet(S), NEW D \in Nat, \A x \in S : f[x] \in Nat /\ f[x] <= D
  PROVE  SumFunctionOnSet(f, S) <= Cardinality(S) * D
<1>1. \A x \in S : f[x] \in Int
  OBVIOUS
<1>2. PICK g : Adds(f, S, g)
  BY <1>1, AddsExists
<1>3. SumFunctionOnSet(f, S) = g[S]
  BY <1>2, SumIs
<1> DEFINE F == {T \in SUBSET S : ~(g[T] <= Cardinality(T) * D)}
<1> SUFFICES ASSUME F # {} PROVE FALSE
  BY <1>3
<1>4. PICK T \in F : \A x \in T : T \ {x} \notin F
  BY Smallest
<1>5. T \in SUBSET S /\ IsFiniteSet(T) /\ ~(g[T] <= Cardinality(T) * D)
  BY <1>4, FS_Subset
<1>6. PICK x \in T : TRUE
  <2>1. g[{}] = 0 /\ Cardinality({}) = 0
    BY <1>2, FS_EmptySet DEF Adds
  <2>2. CASE T = {}
    BY <1>5, <2>1, <2>2
  <2> QED
    BY <2>2
<1>7. /\ g[T] = f[x] + g[T \ {x}]
      /\ g[T \ {x}] \in Int
  BY <1>2, <1>5 DEF Adds
<1>8. g[T \ {x}] <= Cardinality(T \ {x}) * D
  BY <1>4, <1>5
<1>9. Cardinality(T \ {x}) = Cardinality(T) - 1 /\ Cardinality(T) \in Nat
  BY <1>5, FS_RemoveElement, FS_CardinalityType
<1>10. f[x] \in Nat /\ f[x] <= D
  BY <1>5
<1> DEFINE n == Cardinality(T)
           rest == g[T \ {x}]
<1>11. n \in Nat /\ rest \in Int /\ rest <= (n - 1) * D
  BY <1>7, <1>8, <1>9
<1>12. ~(f[x] + rest <= n * D)
  BY <1>5, <1>7
<1> HIDE DEF n, rest
<1>13. (n - 1) * D = n * D - D
  BY <1>11
<1> DEFINE m == n * D
<1>14. m \in Int /\ rest <= m - D /\ ~(f[x] + rest <= m)
  BY <1>11, <1>12, <1>13
<1> HIDE DEF m
<1> QED
  BY <1>10, <1>11, <1>14

\* The sum over the first n numbers ends with the n-th summand.
LEMMA SumUpTo ==
  ASSUME NEW f, NEW n \in Nat \ {0}, \A i \in 1 .. n : f[i] \in Int
  PROVE  SumFunctionOnSet(f, 1 .. n) = f[n] + SumFunctionOnSet(f, 1 .. (n - 1))
<1>1. IsFiniteSet(1 .. n)
  BY FS_Interval
<1>2. n \in 1 .. n /\ (1 .. n) \ {n} = 1 .. (n - 1)
  OBVIOUS
<1> QED
  BY <1>1, <1>2, SumWithout
===============================================================================
