-------------------------------- MODULE Sums --------------------------------
(***************************************************************************)
(* Facts about SumFunction, the sum of a function over its finite domain.  *)
(* The accounting invariants of the project ("what the vault holds is the  *)
(* sum of what it owes") are equations between a counter of a contract and *)
(* a sum over a Solidity mapping, so every preservation proof needs to     *)
(* know what updating one entry of the mapping does to the sum.            *)
(*                                                                         *)
(* SumFunction is a fold, i.e. a recursively defined function. The         *)
(* induction theorems of the library that take a predicate as a parameter  *)
(* are replaced here by an induction principle over sets of naturals.      *)
(*                                                                         *)
(* The last parts are about what else the contracts share: sets kept as    *)
(* arrays without duplicates, and loops over an array.                     *)
(***************************************************************************)
EXTENDS Integers, FiniteSets, Sequences, Functions, FiniteSetTheorems, WellFoundedInduction, TLAPS

\* The element the fold of the Folds module takes out of a nonempty set.
Pick(T) == CHOOSE x \in T : TRUE

\* The recursion equation of the fold, for a partial sum function g on D.
IsPartialSum(f, g, D) ==
    g = [T \in D |-> IF T = {} THEN 0 ELSE f[Pick(T)] + g[T \ {Pick(T)}]]

-----------------------------------------------------------------------------
\* Every nonempty set of naturals has a least element.
LEMMA NatMin ==
    ASSUME NEW T \in SUBSET Nat, T # {}
    PROVE  \E m \in T : \A k \in T : m <= k
<1> DEFINE Lt == OpToRel(<, Nat)
<1>1. \E m \in T : \A k \in T : ~ (<<k, m>> \in Lt)
  <2>1. IsWellFoundedOn(Lt, Nat)
    BY NatLessThanWellFounded
  <2> HIDE DEF Lt
  <2> QED BY <2>1, WFMin
<1>2. PICK m \in T : \A k \in T : ~ (<<k, m>> \in Lt)
  BY <1>1
<1>3. ASSUME NEW k \in T PROVE m <= k
  <2>1. <<k, m>> \in Nat \X Nat  OBVIOUS
  <2>2. ~ (k < m)  BY <1>2, <2>1 DEF OpToRel
  <2> QED BY <2>2
<1> QED BY <1>3

\* Induction over the naturals, for a set instead of a predicate.
LEMMA SetInduction ==
    ASSUME NEW T \in SUBSET Nat, 0 \in T, \A n \in T : n + 1 \in T
    PROVE  T = Nat
<1>1. SUFFICES ASSUME Nat \ T # {} PROVE FALSE  OBVIOUS
<1>2. PICK m \in Nat \ T : \A k \in Nat \ T : m <= k
  BY <1>1, NatMin
<1>3. m - 1 \in Nat /\ m - 1 \in T
  BY <1>2
<1> QED BY <1>2, <1>3

\* A finite set has subsets of bounded size only, so the recursion equation
\* has a solution on all of them: extend a solution one size at a time.
LEMMA PartialSumExists ==
    ASSUME NEW S, IsFiniteSet(S), NEW f \in [S -> Int]
    PROVE  \E g : IsPartialSum(f, g, SUBSET S)
<1> DEFINE Small(n) == {T \in SUBSET S : Cardinality(T) <= n}
           Good == {n \in Nat : \E g : IsPartialSum(f, g, Small(n))}
<1>1. \A T \in SUBSET S : IsFiniteSet(T) /\ Cardinality(T) \in Nat
  BY FS_Subset, FS_CardinalityType
<1>2. 0 \in Good
  <2>1. Small(0) = {{}}
    BY <1>1, FS_EmptySet
  <2>2. IsPartialSum(f, [T \in {{}} |-> 0], {{}})
    BY DEF IsPartialSum
  <2> QED BY <2>1, <2>2
<1>3. ASSUME NEW n \in Good PROVE n + 1 \in Good
  <2>1. PICK g : IsPartialSum(f, g, Small(n))  OBVIOUS
  <2> DEFINE h == [T \in Small(n+1) |-> IF T = {} THEN 0 ELSE f[Pick(T)] + g[T \ {Pick(T)}]]
  <2>2. ASSUME NEW T \in Small(n+1), T # {}
        PROVE  T \ {Pick(T)} \in Small(n)
    <3>1. Pick(T) \in T  BY <2>2 DEF Pick
    <3>2. Cardinality(T \ {Pick(T)}) = Cardinality(T) - 1
      BY <1>1, <3>1, FS_RemoveElement
    <3> QED BY <1>1, <3>2
  <2>3. \A T \in Small(n) : T \in Small(n+1) /\ h[T] = g[T]
    <3> SUFFICES ASSUME NEW T \in Small(n) PROVE T \in Small(n+1) /\ h[T] = g[T]  OBVIOUS
    <3>1. T \in Small(n+1)  BY <1>1
    <3>2. g[T] = IF T = {} THEN 0 ELSE f[Pick(T)] + g[T \ {Pick(T)}]
      BY <2>1 DEF IsPartialSum
    <3> QED BY <3>1, <3>2
  <2>4. \A T \in Small(n+1) :
           h[T] = IF T = {} THEN 0 ELSE f[Pick(T)] + h[T \ {Pick(T)}]
    BY <2>2, <2>3
  <2>5. IsPartialSum(f, h, Small(n+1))
    <3> DEFINE k == [T \in Small(n+1) |-> IF T = {} THEN 0 ELSE f[Pick(T)] + h[T \ {Pick(T)}]]
    <3>1. \A T \in Small(n+1) : h[T] = k[T]  BY <2>4
    <3>2. h = k  BY <3>1
    <3> QED BY <3>2 DEF IsPartialSum
  <2>6. \E k : IsPartialSum(f, k, Small(n+1))
    <3> HIDE DEF h, Small
    <3> QED BY <2>5
  <2>7. n + 1 \in Nat  OBVIOUS
  <2> HIDE DEF Small
  <2> QED BY <2>6, <2>7
<1>4. Good = Nat
  <2> HIDE DEF Good
  <2>1. Good \in SUBSET Nat  BY DEF Good
  <2> QED BY <1>2, <1>3, <2>1, SetInduction
<1>5. Small(Cardinality(S)) = SUBSET S
  BY <1>1, FS_Subset
<1>6. Cardinality(S) \in Good
  <2> HIDE DEF Good
  <2> QED BY <1>1, <1>4
<1>7. \E g : IsPartialSum(f, g, Small(Cardinality(S)))
  <2> HIDE DEF Small
  <2> QED BY <1>6
<1> HIDE DEF Small
<1> QED BY <1>5, <1>7

\* SumFunction is the value, at the whole domain, of a partial sum function.
LEMMA SumFunctionDef ==
    ASSUME NEW S, IsFiniteSet(S), NEW f \in [S -> Int]
    PROVE  \E g : IsPartialSum(f, g, SUBSET S) /\ SumFunction(f) = g[S]
<1>1. PICK g : IsPartialSum(f, g, SUBSET S)
  BY PartialSumExists
<1> DEFINE it == CHOOSE k : IsPartialSum(f, k, SUBSET S)
<1>2. IsPartialSum(f, it, SUBSET S)
  BY <1>1
<1>3. SumFunction(f) = it[S]
  <2>1. DOMAIN f = S  OBVIOUS
  <2> QED BY <2>1 DEF SumFunction, SumFunctionOnSet, FoldFunctionOnSet, MapThenFoldSet,
                     IsPartialSum, Pick
<1> HIDE DEF it
<1> QED BY <1>2, <1>3

\* Induction over the subsets of a finite set, along the order of the fold.
LEMMA SubsetInduction ==
    ASSUME NEW S, IsFiniteSet(S), NEW B \in SUBSET (SUBSET S), {} \in B,
           \A T \in SUBSET S : T # {} /\ T \ {Pick(T)} \in B => T \in B
    PROVE  B = SUBSET S
<1> DEFINE Good == {n \in Nat : \A T \in SUBSET S : Cardinality(T) <= n => T \in B}
<1>1. \A T \in SUBSET S : IsFiniteSet(T) /\ Cardinality(T) \in Nat
  BY FS_Subset, FS_CardinalityType
<1>2. 0 \in Good
  <2>1. ASSUME NEW T \in SUBSET S, Cardinality(T) <= 0 PROVE T \in B
    <3>1. Cardinality(T) = 0  BY <1>1, <2>1
    <3> QED BY <1>1, <3>1, FS_EmptySet
  <2> QED BY <2>1
<1>3. ASSUME NEW n \in Good PROVE n + 1 \in Good
  <2>1. ASSUME NEW T \in SUBSET S, Cardinality(T) <= n + 1 PROVE T \in B
    <3>1. CASE T = {}  BY <3>1
    <3>2. CASE T # {}
      <4>1. Pick(T) \in T  BY <3>2 DEF Pick
      <4>2. Cardinality(T \ {Pick(T)}) = Cardinality(T) - 1
        BY <1>1, <4>1, FS_RemoveElement
      <4>3. T \ {Pick(T)} \in SUBSET S /\ Cardinality(T \ {Pick(T)}) <= n
        BY <1>1, <2>1, <4>2
      <4> QED BY <3>2, <4>3
    <3> QED BY <3>1, <3>2
  <2> QED BY <2>1
<1>4. Good = Nat
  <2> HIDE DEF Good
  <2>1. Good \in SUBSET Nat  BY DEF Good
  <2> QED BY <1>2, <1>3, <2>1, SetInduction
<1>5. \A T \in SUBSET S : T \in B
  BY <1>1, <1>4
<1> QED BY <1>5

\* A partial sum function is integer valued.
LEMMA PartialSumInt ==
    ASSUME NEW S, IsFiniteSet(S), NEW f \in [S -> Int], NEW g, IsPartialSum(f, g, SUBSET S)
    PROVE  \A T \in SUBSET S : g[T] \in Int
<1> DEFINE B == {T \in SUBSET S : g[T] \in Int}
<1>1. \A T \in SUBSET S : g[T] = IF T = {} THEN 0 ELSE f[Pick(T)] + g[T \ {Pick(T)}]
  BY DEF IsPartialSum
<1>2. {} \in B
  <2>1. {} \in SUBSET S /\ g[{}] = 0  BY <1>1
  <2> QED BY <2>1
<1>3. ASSUME NEW T \in SUBSET S, T # {}, T \ {Pick(T)} \in B PROVE T \in B
  <2>1. Pick(T) \in T /\ f[Pick(T)] \in Int  BY <1>3 DEF Pick
  <2>2. g[T] = f[Pick(T)] + g[T \ {Pick(T)}]  BY <1>1, <1>3
  <2>3. g[T \ {Pick(T)}] \in Int  BY <1>3
  <2> QED BY <2>1, <2>2, <2>3
<1>4. B = SUBSET S
  <2> HIDE DEF B
  <2>1. B \in SUBSET (SUBSET S)  BY DEF B
  <2> QED BY <1>2, <1>3, <2>1, SubsetInduction
<1> QED BY <1>4

-----------------------------------------------------------------------------
\* The sum of an integer function is an integer.
LEMMA SumFunctionInt ==
    ASSUME NEW S, IsFiniteSet(S), NEW f \in [S -> Int]
    PROVE  SumFunction(f) \in Int
<1>1. PICK g : IsPartialSum(f, g, SUBSET S) /\ SumFunction(f) = g[S]
  BY SumFunctionDef
<1>2. \A T \in SUBSET S : g[T] \in Int
  BY <1>1, PartialSumInt
<1> QED BY <1>1, <1>2

\* The sum of a function that is zero everywhere is zero.
LEMMA SumFunctionZero ==
    ASSUME NEW S, IsFiniteSet(S), NEW f \in [S -> Int], \A x \in S : f[x] = 0
    PROVE  SumFunction(f) = 0
<1>1. PICK g : IsPartialSum(f, g, SUBSET S) /\ SumFunction(f) = g[S]
  BY SumFunctionDef
<1> DEFINE B == {T \in SUBSET S : g[T] = 0}
<1>2. \A T \in SUBSET S : g[T] = IF T = {} THEN 0 ELSE f[Pick(T)] + g[T \ {Pick(T)}]
  BY <1>1 DEF IsPartialSum
<1>3. {} \in B
  <2>1. {} \in SUBSET S /\ g[{}] = 0  BY <1>2
  <2> QED BY <2>1
<1>4. ASSUME NEW T \in SUBSET S, T # {}, T \ {Pick(T)} \in B PROVE T \in B
  <2>1. Pick(T) \in T /\ f[Pick(T)] = 0  BY <1>4 DEF Pick
  <2>2. g[T] = f[Pick(T)] + g[T \ {Pick(T)}]  BY <1>2, <1>4
  <2>3. g[T \ {Pick(T)}] = 0  BY <1>4
  <2> QED BY <2>1, <2>2, <2>3
<1>5. B = SUBSET S
  <2> HIDE DEF B
  <2>1. B \in SUBSET (SUBSET S)  BY DEF B
  <2> QED BY <1>3, <1>4, <2>1, SubsetInduction
<1> QED BY <1>1, <1>5

\* The sum of a function with values in Nat is at least each of its values.
LEMMA SumFunctionNat ==
    ASSUME NEW S, IsFiniteSet(S), NEW f \in [S -> Nat]
    PROVE  SumFunction(f) \in Nat /\ \A x \in S : f[x] <= SumFunction(f)
<1>0. f \in [S -> Int]  OBVIOUS
<1>1. PICK g : IsPartialSum(f, g, SUBSET S) /\ SumFunction(f) = g[S]
  BY <1>0, SumFunctionDef
<1> DEFINE B == {T \in SUBSET S : g[T] \in Nat /\ \A x \in T : f[x] <= g[T]}
<1>2. \A T \in SUBSET S : g[T] = IF T = {} THEN 0 ELSE f[Pick(T)] + g[T \ {Pick(T)}]
  BY <1>1 DEF IsPartialSum
<1>3. {} \in B
  <2>1. {} \in SUBSET S /\ g[{}] = 0  BY <1>2
  <2> QED BY <2>1
<1>4. ASSUME NEW T \in SUBSET S, T # {}, T \ {Pick(T)} \in B PROVE T \in B
  <2>1. Pick(T) \in S  BY <1>4 DEF Pick
  <2>2. g[T] = f[Pick(T)] + g[T \ {Pick(T)}] /\ f[Pick(T)] \in Nat
    BY <1>2, <1>4, <2>1
  <2>3. ASSUME NEW x \in T PROVE f[x] <= g[T]
    <3>1. f[x] \in Nat /\ (x = Pick(T) \/ x \in T \ {Pick(T)})  OBVIOUS
    <3> QED BY <1>4, <2>2, <3>1
  <2> QED BY <1>4, <2>2, <2>3
<1>5. B = SUBSET S
  <2> HIDE DEF B
  <2>1. B \in SUBSET (SUBSET S)  BY DEF B
  <2> QED BY <1>3, <1>4, <2>1, SubsetInduction
<1> QED BY <1>1, <1>5

\* Changing one value of a function changes its sum by the difference.
THEOREM SumFunctionUpdate ==
    ASSUME NEW S, IsFiniteSet(S), NEW f \in [S -> Int], NEW x \in S, NEW v \in Int
    PROVE  SumFunction([f EXCEPT ![x] = v]) = SumFunction(f) + v - f[x]
<1> DEFINE e == [f EXCEPT ![x] = v]
<1>0. e \in [S -> Int]  OBVIOUS
<1>1. PICK g : IsPartialSum(f, g, SUBSET S) /\ SumFunction(f) = g[S]
  BY SumFunctionDef
<1>2. PICK h : IsPartialSum(e, h, SUBSET S) /\ SumFunction(e) = h[S]
  <2> HIDE DEF e
  <2> QED BY <1>0, SumFunctionDef
<1> DEFINE B == {T \in SUBSET S : h[T] = g[T] + (IF x \in T THEN v - f[x] ELSE 0)}
<1>3. \A T \in SUBSET S :
         /\ g[T] = IF T = {} THEN 0 ELSE f[Pick(T)] + g[T \ {Pick(T)}]
         /\ h[T] = IF T = {} THEN 0 ELSE e[Pick(T)] + h[T \ {Pick(T)}]
  BY <1>1, <1>2 DEF IsPartialSum
<1>4. \A T \in SUBSET S : g[T] \in Int
  BY <1>1, PartialSumInt
<1>5. {} \in B
  <2>1. {} \in SUBSET S /\ g[{}] = 0 /\ h[{}] = 0  BY <1>3
  <2> QED BY <2>1
<1>6. ASSUME NEW T \in SUBSET S, T # {}, T \ {Pick(T)} \in B PROVE T \in B
  <2> DEFINE p == Pick(T)
  <2>1. p \in T /\ p \in S  BY <1>6 DEF Pick
  <2>2. g[T] = f[p] + g[T \ {p}] /\ h[T] = e[p] + h[T \ {p}]
    BY <1>3, <1>6
  <2>3. h[T \ {p}] = g[T \ {p}] + (IF x \in T \ {p} THEN v - f[x] ELSE 0)
    BY <1>6
  <2>4. g[T \ {p}] \in Int /\ f[p] \in Int /\ f[x] \in Int  BY <1>4, <2>1
  <2> HIDE DEF p
  <2>5. CASE p = x
    <3>1. e[p] = v /\ h[T \ {p}] = g[T \ {p}] /\ x \in T  BY <2>1, <2>3, <2>4, <2>5
    <3> QED BY <2>2, <2>4, <2>5, <3>1
  <2>6. CASE p # x
    <3>1. e[p] = f[p] /\ (x \in T \ {p} <=> x \in T)  BY <2>1, <2>6
    <3> QED BY <2>2, <2>3, <2>4, <3>1
  <2> QED BY <2>5, <2>6
<1>7. B = SUBSET S
  <2> HIDE DEF B
  <2>1. B \in SUBSET (SUBSET S)  BY DEF B
  <2> QED BY <1>5, <1>6, <2>1, SubsetInduction
<1>8. h[S] = g[S] + v - f[x]
  <2>1. S \in B /\ g[S] \in Int /\ f[x] \in Int  BY <1>4, <1>7
  <2> QED BY <2>1
<1> QED BY <1>1, <1>2, <1>8

\* The same of two functions that differ at most at x.
THEOREM SumFunctionChange ==
    ASSUME NEW S, IsFiniteSet(S), NEW f \in [S -> Int], NEW x \in S, NEW g \in [S -> Int],
           \A y \in S : y # x => g[y] = f[y]
    PROVE  SumFunction(g) = SumFunction(f) + g[x] - f[x]
<1>1. g = [f EXCEPT ![x] = g[x]] /\ g[x] \in Int  OBVIOUS
<1> QED BY <1>1, SumFunctionUpdate

\* The order of the fold does not matter: any element may be taken out first.
AnyOrder(f, g, S) == \A T \in SUBSET S : \A y \in T : g[T] = f[y] + g[T \ {y}]
LEMMA PartialSumAnyOrder ==
    ASSUME NEW S, IsFiniteSet(S), NEW f \in [S -> Int], NEW g, IsPartialSum(f, g, SUBSET S)
    PROVE  AnyOrder(f, g, S)
<1> DEFINE Splits(T) == \A y \in T : g[T] = f[y] + g[T \ {y}]
           Good == {n \in Nat : \A T \in SUBSET S : Cardinality(T) <= n => Splits(T)}
<1>1. \A T \in SUBSET S : IsFiniteSet(T) /\ Cardinality(T) \in Nat
  BY FS_Subset, FS_CardinalityType
<1>2. \A T \in SUBSET S : g[T] = IF T = {} THEN 0 ELSE f[Pick(T)] + g[T \ {Pick(T)}]
  BY DEF IsPartialSum
<1>3. \A T \in SUBSET S : g[T] \in Int  BY PartialSumInt
<1>4. 0 \in Good
  <2>1. ASSUME NEW T \in SUBSET S, Cardinality(T) <= 0 PROVE Splits(T)
    <3>1. Cardinality(T) = 0  BY <1>1, <2>1
    <3>2. T = {}  BY <1>1, <3>1, FS_EmptySet
    <3> QED BY <3>2
  <2> QED BY <2>1
<1>5. ASSUME NEW n \in Good PROVE n + 1 \in Good
  <2>1. ASSUME NEW T \in SUBSET S, Cardinality(T) <= n + 1, NEW y \in T
        PROVE  g[T] = f[y] + g[T \ {y}]
    <3> DEFINE p == Pick(T)
    <3>1. p \in T /\ g[T] = f[p] + g[T \ {p}]  BY <1>2 DEF Pick
    <3>2. CASE p = y  BY <3>1, <3>2
    <3>3. CASE p # y
      <4> HIDE DEF p
      <4>1. /\ Cardinality(T \ {p}) = Cardinality(T) - 1
            /\ Cardinality(T \ {y}) = Cardinality(T) - 1
        BY <1>1, <3>1, FS_RemoveElement
      <4>2. /\ T \ {p} \in SUBSET S /\ Cardinality(T \ {p}) <= n
            /\ T \ {y} \in SUBSET S /\ Cardinality(T \ {y}) <= n
        BY <1>1, <2>1, <4>1
      <4>3. Splits(T \ {p}) /\ Splits(T \ {y})  BY <4>2
      <4>4. /\ g[T \ {p}] = f[y] + g[(T \ {p}) \ {y}]
            /\ g[T \ {y}] = f[p] + g[(T \ {y}) \ {p}]
        BY <3>1, <3>3, <4>3
      <4>5. (T \ {p}) \ {y} = (T \ {y}) \ {p} /\ (T \ {p}) \ {y} \in SUBSET S  OBVIOUS
      <4>6. f[p] \in Int /\ f[y] \in Int /\ g[(T \ {p}) \ {y}] \in Int  BY <1>3, <3>1, <4>5
      <4> DEFINE r == g[(T \ {p}) \ {y}]
      <4>7. /\ g[T] = f[p] + g[T \ {p}]
            /\ g[T \ {p}] = f[y] + r /\ g[T \ {y}] = f[p] + r /\ r \in Int
        BY <3>1, <4>4, <4>5, <4>6
      <4> HIDE DEF r, Splits, Good
      <4> QED BY <4>6, <4>7
    <3> QED BY <3>2, <3>3
  <2> QED BY <2>1
<1>6. Good = Nat
  <2> HIDE DEF Good
  <2>1. Good \in SUBSET Nat  BY DEF Good
  <2> QED BY <1>4, <1>5, <2>1, SetInduction
<1>7. ASSUME NEW T \in SUBSET S PROVE Splits(T)
  <2>1. Cardinality(T) \in Good /\ Cardinality(T) <= Cardinality(T)  BY <1>1, <1>6
  <2> HIDE DEF Splits
  <2> QED BY <2>1
<1> QED BY <1>7 DEF AnyOrder

\* Taking one element out of the domain takes its value out of the sum.
THEOREM SumFunctionExtend ==
    ASSUME NEW S, IsFiniteSet(S), NEW x, x \notin S, NEW D, D = S \cup {x},
           NEW f \in [D -> Int], NEW g \in [S -> Int], \A y \in S : f[y] = g[y]
    PROVE  SumFunction(f) = SumFunction(g) + f[x]
<1>1. IsFiniteSet(D) /\ x \in D /\ D \ {x} = S  BY FS_AddElement
<1>2. PICK h : IsPartialSum(f, h, SUBSET D) /\ SumFunction(f) = h[D]
  BY <1>1, SumFunctionDef
<1>3. PICK k : IsPartialSum(g, k, SUBSET S) /\ SumFunction(g) = k[S]
  BY SumFunctionDef
<1> DEFINE B == {T \in SUBSET S : h[T] = k[T]}
<1>4. \A T \in SUBSET D : h[T] = IF T = {} THEN 0 ELSE f[Pick(T)] + h[T \ {Pick(T)}]
  BY <1>2 DEF IsPartialSum
<1>5. \A T \in SUBSET S : k[T] = IF T = {} THEN 0 ELSE g[Pick(T)] + k[T \ {Pick(T)}]
  BY <1>3 DEF IsPartialSum
<1>6. {} \in B
  <2>1. {} \in SUBSET S /\ {} \in SUBSET D  OBVIOUS
  <2> QED BY <1>4, <1>5, <2>1
<1>7. ASSUME NEW T \in SUBSET S, T # {}, T \ {Pick(T)} \in B PROVE T \in B
  <2>1. Pick(T) \in T /\ f[Pick(T)] = g[Pick(T)]  BY <1>7 DEF Pick
  <2>2. T \in SUBSET D  OBVIOUS
  <2>3. h[T \ {Pick(T)}] = k[T \ {Pick(T)}]  BY <1>7
  <2> QED BY <1>4, <1>5, <1>7, <2>1, <2>2, <2>3
<1>8. S \in B
  <2> HIDE DEF B
  <2>1. B \in SUBSET (SUBSET S)  BY DEF B
  <2>2. B = SUBSET S  BY <1>6, <1>7, <2>1, SubsetInduction
  <2> QED BY <2>2
<1>9. h[D] = f[x] + h[S]
  <2>1. AnyOrder(f, h, D)  BY <1>1, <1>2, PartialSumAnyOrder
  <2> QED BY <1>1, <2>1 DEF AnyOrder
<1>10. k[S] \in Int /\ f[x] \in Int
  <2>1. \A T \in SUBSET S : k[T] \in Int  BY <1>3, PartialSumInt
  <2> QED BY <1>1, <2>1
<1> QED BY <1>2, <1>3, <1>8, <1>9, <1>10

\* The sum of f + k * g is the sum of f plus k times the sum of g.
THEOREM SumFunctionLinear ==
    ASSUME NEW S, IsFiniteSet(S), NEW f \in [S -> Int], NEW g \in [S -> Int], NEW k \in Int,
           NEW e \in [S -> Int], \A x \in S : e[x] = f[x] + k * g[x]
    PROVE  SumFunction(e) = SumFunction(f) + k * SumFunction(g)
<1>1. PICK p : IsPartialSum(f, p, SUBSET S) /\ SumFunction(f) = p[S]
  BY SumFunctionDef
<1>2. PICK q : IsPartialSum(g, q, SUBSET S) /\ SumFunction(g) = q[S]
  BY SumFunctionDef
<1>3. PICK h : IsPartialSum(e, h, SUBSET S) /\ SumFunction(e) = h[S]
  BY SumFunctionDef
<1> DEFINE B == {T \in SUBSET S : h[T] = p[T] + k * q[T]}
<1>4. \A T \in SUBSET S :
         /\ p[T] = IF T = {} THEN 0 ELSE f[Pick(T)] + p[T \ {Pick(T)}]
         /\ q[T] = IF T = {} THEN 0 ELSE g[Pick(T)] + q[T \ {Pick(T)}]
         /\ h[T] = IF T = {} THEN 0 ELSE e[Pick(T)] + h[T \ {Pick(T)}]
  BY <1>1, <1>2, <1>3 DEF IsPartialSum
<1>5. \A T \in SUBSET S : p[T] \in Int /\ q[T] \in Int
  BY <1>1, <1>2, PartialSumInt
<1>6. {} \in B
  <2>1. {} \in SUBSET S /\ p[{}] = 0 /\ q[{}] = 0 /\ h[{}] = 0  BY <1>4
  <2> QED BY <2>1
<1>7. ASSUME NEW T \in SUBSET S, T # {}, T \ {Pick(T)} \in B PROVE T \in B
  <2> DEFINE c == Pick(T)
             R == T \ {c}
  <2>1. c \in S  BY <1>7 DEF Pick
  <2>2. p[T] = f[c] + p[R] /\ q[T] = g[c] + q[R] /\ h[T] = e[c] + h[R]
    BY <1>4, <1>7
  <2>3. h[R] = p[R] + k * q[R]  BY <1>7
  <2>4. R \in SUBSET S  OBVIOUS
  <2>5. p[R] \in Int /\ q[R] \in Int /\ f[c] \in Int /\ g[c] \in Int
    <3> HIDE DEF R, c
    <3> QED BY <1>5, <2>1, <2>4
  <2>6. e[c] = f[c] + k * g[c]  BY <2>1
  <2>7. h[T] = p[T] + k * q[T]
    <3> HIDE DEF R, c
    <3> QED BY <2>2, <2>3, <2>5, <2>6
  <2> QED BY <2>7
<1>8. B = SUBSET S
  <2> HIDE DEF B
  <2>1. B \in SUBSET (SUBSET S)  BY DEF B
  <2> QED BY <1>6, <1>7, <2>1, SubsetInduction
<1>9. h[S] = p[S] + k * q[S]
  <2>1. S \in B  BY <1>8
  <2> QED BY <2>1
<1> QED BY <1>1, <1>2, <1>3, <1>9

\* The sum of a difference is the difference of the sums.
THEOREM SumFunctionMinus ==
    ASSUME NEW S, IsFiniteSet(S), NEW f \in [S -> Int], NEW g \in [S -> Int],
           NEW e \in [S -> Int], \A x \in S : e[x] = f[x] - g[x]
    PROVE  SumFunction(e) = SumFunction(f) - SumFunction(g)
<1> DEFINE k == -1
<1>1. k \in Int /\ \A x \in S : e[x] = f[x] + k * g[x]
  <2>1. \A x \in S : f[x] \in Int /\ g[x] \in Int  OBVIOUS
  <2> QED BY <2>1
<1>2. SumFunction(f) \in Int /\ SumFunction(g) \in Int  BY SumFunctionInt
<1> HIDE DEF k
<1>3. SumFunction(e) = SumFunction(f) + k * SumFunction(g)  BY <1>1, SumFunctionLinear
<1> QED BY <1>2, <1>3 DEF k

\* The sum grows with every value.
THEOREM SumFunctionLeq ==
    ASSUME NEW S, IsFiniteSet(S), NEW f \in [S -> Int], NEW g \in [S -> Int],
           \A x \in S : f[x] <= g[x]
    PROVE  SumFunction(f) <= SumFunction(g)
<1> DEFINE e == [x \in S |-> g[x] - f[x]]
<1>1. e \in [S -> Nat] /\ e \in [S -> Int] /\ \A x \in S : e[x] = g[x] - f[x]
  <2>1. \A x \in S : f[x] \in Int /\ g[x] \in Int  OBVIOUS
  <2> QED BY <2>1
<1>2. SumFunction(f) \in Int /\ SumFunction(g) \in Int  BY SumFunctionInt
<1> HIDE DEF e
<1>3. SumFunction(e) \in Nat  BY <1>1, SumFunctionNat
<1>4. SumFunction(e) = SumFunction(g) - SumFunction(f)
  BY <1>1, <1>2, <1>3, SumFunctionMinus
<1> QED BY <1>2, <1>3, <1>4

\* A function that is zero outside T has the sum of its values on T.
THEOREM SumFunctionPart ==
    ASSUME NEW S, IsFiniteSet(S), NEW T \in SUBSET S, NEW f \in [T -> Int],
           NEW g \in [S -> Int], \A x \in S : g[x] = IF x \in T THEN f[x] ELSE 0
    PROVE  SumFunction(f) = SumFunction(g)
<1>1. IsFiniteSet(T)  BY FS_Subset
<1>2. PICK h : IsPartialSum(g, h, SUBSET S) /\ SumFunction(g) = h[S]
  BY SumFunctionDef
<1>3. PICK k : IsPartialSum(f, k, SUBSET T) /\ SumFunction(f) = k[T]
  BY <1>1, SumFunctionDef
<1>4. \A U \in SUBSET S : h[U] = IF U = {} THEN 0 ELSE g[Pick(U)] + h[U \ {Pick(U)}]
  BY <1>2 DEF IsPartialSum
<1>5. \A U \in SUBSET T : k[U] = IF U = {} THEN 0 ELSE f[Pick(U)] + k[U \ {Pick(U)}]
  BY <1>3 DEF IsPartialSum
<1>6. \A U \in SUBSET T : k[U] \in Int  BY <1>1, <1>3, PartialSumInt
<1>7. AnyOrder(f, k, T)  BY <1>1, <1>3, PartialSumAnyOrder
<1> DEFINE B == {U \in SUBSET S : h[U] = k[U \cap T]}
<1>8. {} \in B
  <2>1. {} \in SUBSET S /\ {} \in SUBSET T /\ {} \cap T = {}  OBVIOUS
  <2>2. h[{}] = 0 /\ k[{}] = 0  BY <1>4, <1>5, <2>1
  <2> QED BY <2>1, <2>2
<1>9. ASSUME NEW U \in SUBSET S, U # {}, U \ {Pick(U)} \in B PROVE U \in B
  <2> DEFINE p == Pick(U)
  <2>1. p \in U /\ p \in S  BY <1>9 DEF Pick
  <2>2. h[U] = g[p] + h[U \ {p}] /\ h[U \ {p}] = k[(U \ {p}) \cap T]  BY <1>4, <1>9
  <2> HIDE DEF p
  <2>3. ASSUME p \in T PROVE h[U] = k[U \cap T]
    <3>1. U \cap T \in SUBSET T /\ p \in U \cap T /\ (U \ {p}) \cap T = (U \cap T) \ {p}
      BY <2>1, <2>3
    <3>2. k[U \cap T] = f[p] + k[(U \cap T) \ {p}]  BY <1>7, <3>1 DEF AnyOrder
    <3>3. g[p] = f[p]  BY <2>1, <2>3
    <3> QED BY <2>2, <3>1, <3>2, <3>3
  <2>4. ASSUME p \notin T PROVE h[U] = k[U \cap T]
    <3>1. (U \ {p}) \cap T = U \cap T /\ U \cap T \in SUBSET T  BY <2>4
    <3>2. g[p] = 0  BY <2>1, <2>4
    <3> DEFINE V == U \cap T
    <3>3. k[V] \in Int /\ h[U] = 0 + k[V]  BY <1>6, <2>2, <3>1, <3>2
    <3> HIDE DEF V
    <3>4. h[U] = k[V]  BY <3>3
    <3> QED BY <3>4 DEF V
  <2>5. h[U] = k[U \cap T]  BY <2>3, <2>4
  <2> QED BY <2>5
<1>10. S \in B
  <2> HIDE DEF B
  <2>1. B \in SUBSET (SUBSET S)  BY DEF B
  <2>2. B = SUBSET S  BY <1>8, <1>9, <2>1, SubsetInduction
  <2> QED BY <2>2
<1>11. S \cap T = T  OBVIOUS
<1> QED BY <1>2, <1>3, <1>10, <1>11

\* A matrix has the same sum by rows and by columns.
THEOREM SumFunctionSwap ==
    ASSUME NEW X, IsFiniteSet(X), NEW Y, IsFiniteSet(Y), NEW f \in [X -> [Y -> Int]],
           NEW a \in [X -> Int], \A x \in X : a[x] = SumFunction(f[x]),
           NEW b \in [Y -> Int], \A y \in Y : b[y] = SumFunction([x \in X |-> f[x][y]])
    PROVE  SumFunction(a) = SumFunction(b)
<1> DEFINE Row(T) == [x \in X |-> IF x \in T THEN a[x] ELSE 0]
           Entry(T, y) == [x \in X |-> IF x \in T THEN f[x][y] ELSE 0]
           Column(T) == [y \in Y |-> SumFunction(Entry(T, y))]
           B == {T \in SUBSET X : SumFunction(Row(T)) = SumFunction(Column(T))}
<1>1. \A T \in SUBSET X : Row(T) \in [X -> Int] /\ \A y \in Y : Entry(T, y) \in [X -> Int]
  OBVIOUS
<1>2. \A T \in SUBSET X : Column(T) \in [Y -> Int]
  <2> SUFFICES ASSUME NEW T \in SUBSET X PROVE \A y \in Y : SumFunction(Entry(T, y)) \in Int
    OBVIOUS
  <2> HIDE DEF Entry
  <2> QED BY <1>1, SumFunctionInt
<1>3. {} \in B
  <2>1. Row({}) \in [X -> Int] /\ \A x \in X : Row({})[x] = 0  OBVIOUS
  <2>2. SumFunction(Row({})) = 0
    <3> HIDE DEF Row
    <3> QED BY <2>1, SumFunctionZero
  <2>3. ASSUME NEW y \in Y PROVE Column({})[y] = 0
    <3>1. Entry({}, y) \in [X -> Int] /\ \A x \in X : Entry({}, y)[x] = 0  OBVIOUS
    <3>2. SumFunction(Entry({}, y)) = 0
      <4> HIDE DEF Entry
      <4> QED BY <3>1, SumFunctionZero
    <3> HIDE DEF Entry
    <3> QED BY <3>2
  <2>4. SumFunction(Column({})) = 0
    <3> HIDE DEF Column
    <3>1. {} \in SUBSET X  OBVIOUS
    <3>2. Column({}) \in [Y -> Int]  BY <1>2, <3>1
    <3> QED BY <2>3, <3>2, SumFunctionZero
  <2> HIDE DEF Row, Column
  <2> QED BY <2>2, <2>4
<1>4. ASSUME NEW T \in SUBSET X, T # {}, T \ {Pick(T)} \in B PROVE T \in B
  <2> DEFINE p == Pick(T)
             V == T \ {p}
  <2>1. p \in T /\ p \in X  BY <1>4 DEF Pick
  <2>2. V \in SUBSET X /\ p \notin V /\ SumFunction(Row(V)) = SumFunction(Column(V))  BY <1>4
  <2>3. \A x \in X : x \in T <=> x \in V \/ x = p  BY <2>1
  <2> HIDE DEF p, V
  <2>4. SumFunction(Row(T)) = SumFunction(Row(V)) + a[p]
    <3>1. Row(V)[p] = 0 /\ Row(T)[p] = a[p] /\ \A x \in X : x # p => Row(T)[x] = Row(V)[x]
      BY <2>1, <2>2, <2>3
    <3>2. Row(T) \in [X -> Int] /\ Row(V) \in [X -> Int] /\ a[p] \in Int  BY <1>1, <2>1, <2>2
    <3> HIDE DEF Row
    <3>3. SumFunction(Row(T)) = SumFunction(Row(V)) + Row(T)[p] - Row(V)[p]
      BY <2>1, <3>1, <3>2, SumFunctionChange
    <3>4. SumFunction(Row(V)) \in Int  BY <3>2, SumFunctionInt
    <3> QED BY <3>1, <3>2, <3>3, <3>4
  <2>5. ASSUME NEW y \in Y PROVE Column(T)[y] = Column(V)[y] + f[p][y]
    <3> DEFINE g == Entry(V, y)  h == Entry(T, y)
    <3>1. g[p] = 0 /\ h[p] = f[p][y] /\ \A x \in X : x # p => h[x] = g[x]
      BY <2>1, <2>2, <2>3
    <3>2. h \in [X -> Int] /\ g \in [X -> Int] /\ f[p][y] \in Int  BY <1>1, <2>1, <2>2
    <3>3. Column(T)[y] = SumFunction(h) /\ Column(V)[y] = SumFunction(g)  OBVIOUS
    <3> HIDE DEF g, h, Column
    <3>4. SumFunction(h) = SumFunction(g) + h[p] - g[p]
      BY <2>1, <3>1, <3>2, SumFunctionChange
    <3>5. SumFunction(g) \in Int  BY <3>2, SumFunctionInt
    <3> QED BY <3>1, <3>2, <3>3, <3>4, <3>5
  <2>6. SumFunction(Column(T)) = SumFunction(Column(V)) + a[p]
    <3> DEFINE c == Column(V)  d == Column(T)  row == f[p]
    <3> HIDE DEF Column
    <3>1. c \in [Y -> Int] /\ d \in [Y -> Int] /\ row \in [Y -> Int]  BY <1>2, <2>1, <2>2
    <3>2. \A y \in Y : row[y] = d[y] - c[y]
      <4> TAKE y \in Y
      <4>1. d[y] \in Int /\ c[y] \in Int /\ row[y] \in Int  BY <3>1
      <4>2. d[y] = c[y] + row[y]  BY <2>5
      <4> HIDE DEF c, d, row
      <4> QED BY <4>1, <4>2
    <3> HIDE DEF c, d, row
    <3>3. SumFunction(c) \in Int /\ SumFunction(d) \in Int  BY <3>1, SumFunctionInt
    <3>4. SumFunction(row) = SumFunction(d) - SumFunction(c)
      BY <3>1, <3>2, <3>3, SumFunctionMinus
    <3>5. SumFunction(d) = SumFunction(c) + SumFunction(row)  BY <3>3, <3>4
    <3>6. SumFunction(row) = a[p]  BY <2>1 DEF row
    <3> HIDE DEF Column
    <3> QED BY <3>5, <3>6 DEF c, d
  <2> HIDE DEF Row, Column
  <2> QED BY <2>2, <2>4, <2>6
<1>5. X \in B
  <2> HIDE DEF B
  <2>1. B \in SUBSET (SUBSET X)  BY DEF B
  <2>2. B = SUBSET X  BY <1>3, <1>4, <2>1, SubsetInduction
  <2> QED BY <2>2
<1>6. Row(X) = a  OBVIOUS
<1>7. Column(X) = b
  <2>1. ASSUME NEW y \in Y PROVE Column(X)[y] = b[y]
    <3>1. Entry(X, y) = [x \in X |-> f[x][y]]  OBVIOUS
    <3> HIDE DEF Entry
    <3> QED BY <3>1
  <2>2. Column(X) \in [Y -> Int]  BY <1>2
  <2> HIDE DEF Column
  <2> QED BY <2>1, <2>2
<1> HIDE DEF Row, Column
<1> QED BY <1>5, <1>6, <1>7

\* What the orders of T, of all orders Ids, put in of token t.
PutIn(put, Ids, T, t) == SumFunction([id \in Ids |-> IF id \in T THEN put[id][t] ELSE 0])

LEMMA PutInFacts ==
    ASSUME NEW Ids, IsFiniteSet(Ids), NEW Tokens, NEW put \in [Ids -> [Tokens -> Nat]],
           NEW T, NEW t \in Tokens, NEW f, f = [id \in Ids |-> IF id \in T THEN put[id][t] ELSE 0]
    PROVE  /\ f \in [Ids -> Int] /\ PutIn(put, Ids, T, t) = SumFunction(f)
           /\ PutIn(put, Ids, T, t) \in Nat
<1>1. f \in [Ids -> Nat]  OBVIOUS
<1>2. SumFunction(f) \in Nat  BY <1>1, SumFunctionNat
<1> QED BY <1>1, <1>2 DEF PutIn

\* A new order adds to what is held what it adds to what is owed.
LEMMA PutInCreate ==
    ASSUME NEW Ids, IsFiniteSet(Ids), NEW Tokens, NEW id \in Ids, NEW t \in Tokens,
           NEW put \in [Ids -> [Tokens -> Nat]], NEW next \in [Ids -> [Tokens -> Nat]],
           \A x \in Ids \ {id} : next[x] = put[x]
    PROVE  PutIn(next, Ids, Ids, t) <= PutIn(put, Ids, Ids, t) + next[id][t]
<1> DEFINE f == [x \in Ids |-> IF x \in Ids THEN put[x][t] ELSE 0]
           g == [x \in Ids |-> IF x \in Ids THEN next[x][t] ELSE 0]
<1>1. f \in [Ids -> Int] /\ PutIn(put, Ids, Ids, t) = SumFunction(f)  BY PutInFacts
<1>2. g \in [Ids -> Int] /\ PutIn(next, Ids, Ids, t) = SumFunction(g)  BY PutInFacts
<1>3. \A x \in Ids : x # id => g[x] = f[x]  OBVIOUS
<1>4. f[id] \in Nat /\ g[id] = next[id][t] /\ next[id][t] \in Nat  OBVIOUS
<1> HIDE DEF f, g
<1>5. SumFunction(f) \in Int /\ SumFunction(g) \in Int  BY <1>1, <1>2, SumFunctionInt
<1>6. SumFunction(g) = SumFunction(f) + g[id] - f[id]
  BY <1>1, <1>2, <1>3, <1>5, SumFunctionChange
<1> QED BY <1>1, <1>2, <1>4, <1>5, <1>6

\* Settling orders takes out of what is owed what they put in.
LEMMA PutInSettle ==
    ASSUME NEW Ids, IsFiniteSet(Ids), NEW Tokens, NEW T \in SUBSET Ids, NEW t \in Tokens,
           NEW put \in [Ids -> [Tokens -> Nat]], NEW next \in [Ids -> [Tokens -> Nat]],
           \A x \in Ids : next[x][t] = IF x \in T THEN 0 ELSE put[x][t]
    PROVE  PutIn(next, Ids, Ids, t) = PutIn(put, Ids, Ids, t) - PutIn(put, Ids, T, t)
<1> DEFINE f == [x \in Ids |-> IF x \in Ids THEN put[x][t] ELSE 0]
           g == [x \in Ids |-> IF x \in Ids THEN next[x][t] ELSE 0]
           h == [x \in Ids |-> IF x \in T THEN put[x][t] ELSE 0]
<1>1. f \in [Ids -> Int] /\ PutIn(put, Ids, Ids, t) = SumFunction(f)  BY PutInFacts
<1>2. g \in [Ids -> Int] /\ PutIn(next, Ids, Ids, t) = SumFunction(g)  BY PutInFacts
<1>3. h \in [Ids -> Int] /\ PutIn(put, Ids, T, t) = SumFunction(h)  BY PutInFacts
<1>4. \A x \in Ids : g[x] = f[x] - h[x]
  <2> TAKE x \in Ids
  <2>1. put[x][t] \in Nat  OBVIOUS
  <2>2. f[x] = put[x][t] /\ g[x] = next[x][t] /\ h[x] = IF x \in T THEN put[x][t] ELSE 0  OBVIOUS
  <2> HIDE DEF f, g, h
  <2> QED BY <2>1, <2>2
<1> HIDE DEF f, g, h
<1> QED BY <1>1, <1>2, <1>3, <1>4, SumFunctionMinus

\* Matrix g is f with the entries of row x cleared at the columns of T, and r
\* lists those entries.
IsCleared(g, f, D, x, T) ==
    \A z \in D : g[z] = IF z[1] = x /\ z[2] \in T THEN 0 ELSE f[z]
IsRow(r, f, Y, x, T) == \A y \in Y : r[y] = IF y \in T THEN f[<<x, y>>] ELSE 0

\* Clearing the row of x in a matrix, at the columns of T, takes the sum of
\* those entries out of the sum of the matrix.
THEOREM SumFunctionClearRow ==
    ASSUME NEW X, IsFiniteSet(X), NEW Y, IsFiniteSet(Y), NEW D, D = X \X Y,
           NEW f \in [D -> Int], NEW x \in X, NEW T \in SUBSET Y, NEW g \in [D -> Int],
           NEW r \in [Y -> Int],
           IsCleared(g, f, D, x, T), IsRow(r, f, Y, x, T)
    PROVE  SumFunction(g) = SumFunction(f) - SumFunction(r)
<1> DEFINE M(U) == [z \in D |-> IF z[1] = x /\ z[2] \in U THEN 0 ELSE f[z]]
           R(U) == [y \in Y |-> IF y \in U THEN f[<<x, y>>] ELSE 0]
           B == {U \in SUBSET Y : SumFunction(M(U)) = SumFunction(f) - SumFunction(R(U))}
<1>1. IsFiniteSet(D)  BY FS_Product
<1>2. SumFunction(f) \in Int  BY <1>1, SumFunctionInt
<1>3. \A U \in SUBSET Y : M(U) \in [D -> Int] /\ R(U) \in [Y -> Int]
  OBVIOUS
<1>4. {} \in B
  <2>1. M({}) = f  OBVIOUS
  <2>2. R({}) \in [Y -> Int] /\ \A y \in Y : R({})[y] = 0  OBVIOUS
  <2>3. SumFunction(R({})) = 0
    <3> HIDE DEF R
    <3> QED BY <2>2, SumFunctionZero
  <2> HIDE DEF M, R
  <2> QED BY <1>2, <2>1, <2>3
<1>5. ASSUME NEW U \in SUBSET Y, U # {}, U \ {Pick(U)} \in B PROVE U \in B
  <2> DEFINE y == Pick(U)
             V == U \ {y}
  <2>1. y \in U /\ y \in Y /\ V \in SUBSET Y  BY <1>5 DEF Pick
  <2>2. SumFunction(M(V)) = SumFunction(f) - SumFunction(R(V))  BY <1>5
  <2> HIDE DEF y
  <2>3. <<x, y>> \in D /\ f[<<x, y>>] \in Int  BY <2>1
  <2>4. M(U) = [M(V) EXCEPT ![<<x, y>>] = 0] /\ M(V)[<<x, y>>] = f[<<x, y>>]
    <3>1. M(V)[<<x, y>>] = f[<<x, y>>]  BY <2>3
    <3>2. ASSUME NEW z \in D PROVE M(U)[z] = [M(V) EXCEPT ![<<x, y>>] = 0][z]
      <4>1. z = <<z[1], z[2]>>  OBVIOUS
      <4>2. z = <<x, y>> <=> z[1] = x /\ z[2] = y  BY <4>1
      <4>3. z[2] \in U <=> z[2] \in V \/ z[2] = y  BY <2>1
      <4>4. M(U)[z] = IF z[1] = x /\ z[2] \in U THEN 0 ELSE f[z]  OBVIOUS
      <4>5. [M(V) EXCEPT ![<<x, y>>] = 0][z]
              = IF z = <<x, y>> THEN 0 ELSE IF z[1] = x /\ z[2] \in V THEN 0 ELSE f[z]
        BY <2>3
      <4> HIDE DEF M, V
      <4> QED BY <4>2, <4>3, <4>4, <4>5
    <3>3. M(U) = [z \in D |-> M(U)[z]]  BY Zenon
    <3>4. [M(V) EXCEPT ![<<x, y>>] = 0] = [z \in D |-> [M(V) EXCEPT ![<<x, y>>] = 0][z]]
      OBVIOUS
    <3> HIDE DEF M
    <3> QED BY <3>1, <3>2, <3>3, <3>4
  <2>5. R(U) = [R(V) EXCEPT ![y] = f[<<x, y>>]] /\ R(V)[y] = 0  BY <2>1, <2>3
  <2>6. SumFunction(M(U)) = SumFunction(M(V)) + 0 - f[<<x, y>>]
    <3> DEFINE m == M(V)
    <3>1. m \in [D -> Int]  BY <1>3, <2>1
    <3> HIDE DEF m
    <3>2. SumFunction([m EXCEPT ![<<x, y>>] = 0]) = SumFunction(m) + 0 - m[<<x, y>>]
      <4> DEFINE p == <<x, y>>
      <4>1. IsFiniteSet(D) /\ m \in [D -> Int] /\ p \in D /\ 0 \in Int  BY <1>1, <2>3, <3>1
      <4> HIDE DEF p
      <4>2. SumFunction([m EXCEPT ![p] = 0]) = SumFunction(m) + 0 - m[p]
        BY <4>1, SumFunctionUpdate
      <4> QED BY <4>2 DEF p
    <3> USE DEF m
    <3> HIDE DEF M
    <3> QED BY <2>4, <3>2
  <2>7. SumFunction(R(U)) = SumFunction(R(V)) + f[<<x, y>>] - 0
    <3> DEFINE row == R(V)
    <3>1. row \in [Y -> Int]  BY <1>3, <2>1
    <3> HIDE DEF row
    <3>2. SumFunction([row EXCEPT ![y] = f[<<x, y>>]]) = SumFunction(row) + f[<<x, y>>] - row[y]
      BY <2>1, <2>3, <3>1, SumFunctionUpdate
    <3> USE DEF row
    <3> HIDE DEF R
    <3> QED BY <2>5, <3>2
  <2> HIDE DEF M, R, V
  <2>8. SumFunction(R(V)) \in Int  BY <1>3, <2>1, SumFunctionInt
  <2> QED BY <1>2, <2>2, <2>3, <2>6, <2>7, <2>8
<1>6. B = SUBSET Y
  <2> HIDE DEF B
  <2>1. B \in SUBSET (SUBSET Y)  BY DEF B
  <2> QED BY <1>4, <1>5, <2>1, SubsetInduction
<1>7. T \in B  BY <1>6
<1>8. g = M(T) /\ r = R(T)  BY DEF IsCleared, IsRow
<1> HIDE DEF M, R
<1> QED BY <1>7, <1>8

-----------------------------------------------------------------------------
(***************************************************************************)
(* The contracts keep sets as arrays without duplicates. An element is     *)
(* removed by putting the last one in its place and popping.               *)
(***************************************************************************)
Elems(list) == {list[i] : i \in 1..Len(list)}
Distinct(list) == \A i, j \in 1..Len(list) : list[i] = list[j] => i = j
Popped(list, i) == [j \in 1..(Len(list) - 1) |-> IF j = i THEN list[Len(list)] ELSE list[j]]

LEMMA ListAppend ==
    ASSUME NEW S, NEW list \in Seq(S), Distinct(list), NEW x \in S, x \notin Elems(list)
    PROVE  /\ Append(list, x) \in Seq(S) /\ Distinct(Append(list, x))
           /\ Elems(Append(list, x)) = Elems(list) \cup {x}
<1> DEFINE n == Len(list)
           l == Append(list, x)
<1>1. n \in Nat /\ l \in Seq(S) /\ Len(l) = n + 1  OBVIOUS
<1>2. \A i \in 1..n : l[i] = list[i]  OBVIOUS
<1>3. l[n + 1] = x  OBVIOUS
<1>4. 1..(n + 1) = (1..n) \cup {n + 1}  BY <1>1
<1> HIDE DEF l
<1>5. Elems(l) = Elems(list) \cup {x}
  BY <1>1, <1>2, <1>3, <1>4 DEF Elems
<1>6. ASSUME NEW i \in 1..(n + 1), NEW j \in 1..(n + 1), l[i] = l[j] PROVE i = j
  <2>1. CASE i \in 1..n /\ j \in 1..n  BY <1>2, <1>6, <2>1 DEF Distinct
  <2>2. CASE i \in 1..n /\ j = n + 1
    <3>1. l[i] \in Elems(list)  BY <1>2, <2>2 DEF Elems
    <3> QED BY <1>3, <1>6, <2>2, <3>1
  <2>3. CASE i = n + 1 /\ j \in 1..n
    <3>1. l[j] \in Elems(list)  BY <1>2, <2>3 DEF Elems
    <3> QED BY <1>3, <1>6, <2>3, <3>1
  <2>4. CASE i = n + 1 /\ j = n + 1  BY <2>4
  <2> QED BY <1>4, <2>1, <2>2, <2>3, <2>4
<1>7. Distinct(l)  BY <1>1, <1>6 DEF Distinct
<1> QED BY <1>1, <1>5, <1>7 DEF l

LEMMA ListRemove ==
    ASSUME NEW S, NEW list \in Seq(S), Distinct(list), NEW i \in 1..Len(list)
    PROVE  /\ Popped(list, i) \in Seq(S) /\ Distinct(Popped(list, i))
           /\ Elems(Popped(list, i)) = Elems(list) \ {list[i]}
<1> DEFINE n == Len(list)
           l == Popped(list, i)
<1>1. n \in Nat /\ n >= 1 /\ n - 1 \in Nat /\ i \in 1..n /\ n \in 1..n  OBVIOUS
<1>2. l = [j \in 1..(n - 1) |-> IF j = i THEN list[n] ELSE list[j]]  BY DEF Popped
<1>3. \A j \in 1..n : list[j] \in S  OBVIOUS
<1>4. \A j \in 1..(n - 1) : j \in 1..n  BY <1>1
<1> HIDE DEF l, n
<1>5. \A j \in 1..(n - 1) : l[j] \in S  BY <1>1, <1>2, <1>3, <1>4
<1>6. l \in [1..(n - 1) -> S]  BY <1>2, <1>5
<1>7. l \in Seq(S) /\ Len(l) = n - 1  BY <1>1, <1>6
\* The index, in the list, of the j-th element of the shortened one.
<1> DEFINE at(j) == IF j = i THEN n ELSE j
<1>8. \A j \in 1..(n - 1) : at(j) \in 1..n /\ l[j] = list[at(j)] /\ at(j) # i
  <2> TAKE j \in 1..(n - 1)
  <2>1. j \in 1..n /\ j # n  BY <1>1, <1>4
  <2>2. CASE j = i  BY <1>1, <1>2, <2>1, <2>2
  <2>3. CASE j # i  BY <1>1, <1>2, <2>1, <2>3
  <2> QED BY <2>2, <2>3
<1>9. \A j, k \in 1..(n - 1) : at(j) = at(k) => j = k
  <2> TAKE j, k \in 1..(n - 1)
  <2>1. j # n /\ k # n  BY <1>1
  <2> QED BY <2>1
<1>10. \A k \in 1..n : k # i => \E j \in 1..(n - 1) : at(j) = k
  <2> TAKE k \in 1..n
  <2>1. CASE k = n /\ k # i
    <3>1. i \in 1..(n - 1)  BY <1>1, <2>1
    <3> QED BY <2>1, <3>1
  <2>2. CASE k # n /\ k # i
    <3>1. k \in 1..(n - 1)  BY <1>1, <2>2
    <3> QED BY <2>2, <3>1
  <2> QED BY <2>1, <2>2
<1>11. \A j, k \in 1..n : list[j] = list[k] => j = k  BY DEF Distinct, n
<1> HIDE DEF at
<1>12. Distinct(l)
  <2> SUFFICES ASSUME NEW j \in 1..(n - 1), NEW k \in 1..(n - 1), l[j] = l[k] PROVE j = k
    BY <1>7 DEF Distinct
  <2>1. at(j) = at(k)  BY <1>8, <1>11
  <2> QED BY <1>9, <2>1
<1>13. ASSUME NEW y PROVE y \in Elems(l) <=> y \in Elems(list) /\ y # list[i]
  <2>1. ASSUME y \in Elems(l) PROVE y \in Elems(list) /\ y # list[i]
    <3>1. PICK j \in 1..(n - 1) : y = l[j]  BY <1>7, <2>1 DEF Elems
    <3>2. at(j) \in 1..n /\ y = list[at(j)] /\ at(j) # i  BY <1>8, <3>1
    <3>3. y \in Elems(list)  BY <3>2 DEF Elems, n
    <3> QED BY <1>1, <1>11, <3>2, <3>3
  <2>2. ASSUME y \in Elems(list), y # list[i] PROVE y \in Elems(l)
    <3>1. PICK k \in 1..n : y = list[k]  BY <2>2 DEF Elems, n
    <3>2. PICK j \in 1..(n - 1) : at(j) = k  BY <1>10, <2>2, <3>1
    <3>3. y = l[j]  BY <1>8, <3>1, <3>2
    <3> QED BY <1>7, <3>3 DEF Elems
  <2> QED BY <2>1, <2>2
<1>14. Elems(l) = Elems(list) \ {list[i]}  BY <1>13
<1> QED BY <1>7, <1>12, <1>14 DEF l

\* A list without duplicates has one element exactly if its set has.
LEMMA ListSingle ==
    ASSUME NEW S, NEW list \in Seq(S), Distinct(list), NEW x, x \in Elems(list)
    PROVE  Len(list) = 1 <=> Elems(list) = {x}
<1> DEFINE n == Len(list)
<1>1. n \in Nat  OBVIOUS
<1>2. PICK i \in 1..n : list[i] = x  BY DEF Elems
<1>3. ASSUME n = 1 PROVE Elems(list) = {x}
  <2>1. \A j \in 1..n : j = i  BY <1>1, <1>3
  <2> QED BY <1>2, <2>1 DEF Elems
<1>4. ASSUME Elems(list) = {x} PROVE n = 1
  <2>1. \A j \in 1..n : list[j] = x  BY <1>4 DEF Elems
  <2>2. \A j \in 1..n : j = i  BY <1>2, <2>1 DEF Distinct
  <2>3. n \in 1..n /\ 1 \in 1..n  BY <1>1
  <2> HIDE DEF n
  <2>4. n = i /\ 1 = i  BY <2>2, <2>3
  <2> QED BY <2>4
<1> QED BY <1>3, <1>4

-----------------------------------------------------------------------------
(***************************************************************************)
(* Loops. A loop of n turns is a function f from 0..n: f[0] is the state   *)
(* before it and f[i] the state after turn i.                              *)
(***************************************************************************)
IsLoop(f, s, step, n) == f = [i \in 0..n |-> IF i = 0 THEN s ELSE step[i][f[i - 1]]]

\* Induction over the turns.
LEMMA TurnInduction ==
    ASSUME NEW n \in Nat, NEW T, 0 \in T, \A i \in 1..n : i - 1 \in T => i \in T
    PROVE  \A i \in 0..n : i \in T
<1> DEFINE G == {i \in Nat : i <= n => i \in T}
<1>1. 0 \in G  OBVIOUS
<1>2. ASSUME NEW i \in G PROVE i + 1 \in G
  <2> SUFFICES ASSUME i + 1 <= n PROVE i + 1 \in T
    OBVIOUS
  <2>1. i + 1 \in 1..n /\ (i + 1) - 1 = i /\ i \in T  OBVIOUS
  <2> QED BY <2>1
<1>3. G = Nat
  <2>1. G \in SUBSET Nat  OBVIOUS
  <2> HIDE DEF G
  <2> QED BY <1>1, <1>2, <2>1, SetInduction
<1> QED BY <1>3

LEMMA LoopExists ==
    ASSUME NEW n \in Nat, NEW s, NEW step
    PROVE  \E f : IsLoop(f, s, step, n)
<1> DEFINE T == {i \in 0..n : \E f : IsLoop(f, s, step, i)}
<1>1. 0 \in T
  <2>1. IsLoop([i \in 0..0 |-> s], s, step, 0)  BY DEF IsLoop
  <2> QED BY <2>1
<1>2. ASSUME NEW i \in 1..n, i - 1 \in T PROVE i \in T
  <2>1. PICK f : IsLoop(f, s, step, i - 1)  BY <1>2
  <2> DEFINE h == [j \in 0..i |-> IF j < i THEN f[j] ELSE step[i][f[i - 1]]]
             k == [j \in 0..i |-> IF j = 0 THEN s ELSE step[j][h[j - 1]]]
  <2>2. i \in Nat /\ i # 0 /\ i - 1 \in Nat  OBVIOUS
  <2>3. \A j \in 0..(i - 1) : f[j] = IF j = 0 THEN s ELSE step[j][f[j - 1]]
    BY <2>1 DEF IsLoop
  <2>4. \A j \in 0..i : h[j] = k[j]
    <3> TAKE j \in 0..i
    <3>1. CASE j = i
      <4>1. h[i] = step[i][f[i - 1]] /\ h[i - 1] = f[i - 1]  BY <2>2
      <4> QED BY <2>2, <3>1, <4>1
    <3>2. CASE j < i
      <4>1. j \in 0..(i - 1) /\ h[j] = f[j]  BY <2>2, <3>2
      <4>2. j # 0 => h[j - 1] = f[j - 1]  BY <2>2, <3>2
      <4>3. k[j] = IF j = 0 THEN s ELSE step[j][h[j - 1]]  OBVIOUS
      <4> HIDE DEF h, k
      <4> QED BY <2>3, <4>1, <4>2, <4>3
    <3> QED BY <2>2, <3>1, <3>2
  <2>5. h = k  BY <2>4
  <2>6. IsLoop(h, s, step, i)  BY <2>5 DEF IsLoop
  <2> HIDE DEF h
  <2> QED BY <2>6
<1>3. \A i \in 0..n : i \in T
  <2> HIDE DEF T
  <2> QED BY <1>1, <1>2, TurnInduction
<1> QED BY <1>3

\* What holds before the loop and is kept by every turn holds after it.
LEMMA LoopInvariant ==
    ASSUME NEW n \in Nat, NEW s, NEW step, NEW f, IsLoop(f, s, step, n),
           NEW V, s \in V[0], \A i \in 1..n : \A x \in V[i - 1] : step[i][x] \in V[i]
    PROVE  \A i \in 0..n : f[i] \in V[i]
<1> DEFINE T == {i \in 0..n : f[i] \in V[i]}
<1>1. \A i \in 0..n : f[i] = IF i = 0 THEN s ELSE step[i][f[i - 1]]  BY DEF IsLoop
<1>2. 0 \in T  BY <1>1
<1>3. ASSUME NEW i \in 1..n, i - 1 \in T PROVE i \in T
  <2>1. i \in 0..n /\ i # 0  OBVIOUS
  <2> QED BY <1>1, <1>3, <2>1
<1>4. \A i \in 0..n : i \in T
  <2> HIDE DEF T
  <2> QED BY <1>2, <1>3, TurnInduction
<1> QED BY <1>4

\* A loop whose turns stay in U has a solution that does.
LEMMA LoopIn ==
    ASSUME NEW n \in Nat, NEW U, NEW s \in U, NEW step \in [1..n -> [U -> U]]
    PROVE  \E f \in [0..n -> U] : IsLoop(f, s, step, n)
<1>1. PICK f : IsLoop(f, s, step, n)  BY LoopExists
<1> DEFINE V == [i \in 0..n |-> U]
<1>2. s \in V[0] /\ \A i \in 1..n : \A x \in V[i - 1] : step[i][x] \in V[i]
  <2>1. ASSUME NEW i \in 1..n PROVE V[i - 1] = U /\ V[i] = U /\ step[i] \in [U -> U]
    <3>1. i \in 0..n /\ i - 1 \in 0..n  OBVIOUS
    <3> QED BY <3>1
  <2>2. V[0] = U  OBVIOUS
  <2> HIDE DEF V
  <2> QED BY <2>1, <2>2
<1>3. \A i \in 0..n : V[i] = U  OBVIOUS
<1> HIDE DEF V
<1>4. \A i \in 0..n : f[i] \in V[i]  BY <1>1, <1>2, LoopInvariant
<1>5. \A i \in 0..n : f[i] \in U  BY <1>3, <1>4
<1>6. f \in [0..n -> U]
  <2>1. f = [i \in 0..n |-> f[i]]  BY <1>1 DEF IsLoop
  <2> QED BY <1>5, <2>1
<1> QED BY <1>1, <1>6
=============================================================================
