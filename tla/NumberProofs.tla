---------------------------- MODULE NumberProofs ----------------------------
(***************************************************************************)
(* Facts about sets of natural numbers that the proofs of several modules  *)
(* rest on: a least number instead of an induction over the slots of the   *)
(* heap, a greatest one for the rowid that an INSERT takes, and sums for   *)
(* the sizes of the files in the cache.                                    *)
(***************************************************************************)
EXTENDS Integers, FiniteSetsExt, FiniteSetTheorems, WellFoundedInduction, TLAPS

(* A set of natural numbers that is not empty has a least one.             *)
LEMMA LeastNumber ==
    ASSUME NEW S \in SUBSET Nat, S # {}
    PROVE  \E n \in S : \A m \in S : n <= m
<1> DEFINE R == {p \in Nat \X Nat : p[1] < p[2]}
<1>1. IsWellFoundedOn(R, Nat)
    BY NatLessThanWellFounded DEF OpToRel
<1>2. PICK n \in S : \A m \in S : ~(<<m, n>> \in R)
  <2> HIDE DEF R
  <2> QED
    BY <1>1, WFMin
<1>3. \A m \in S : ~(m < n)
    BY <1>2
<1> QED
    BY <1>3

-----------------------------------------------------------------------------
(* A finite set of numbers that is not empty has a greatest one.           *)

LEMMA OneMoreIsBounded ==
    ASSUME NEW n \in Nat, NEW f \in [1 .. n -> Nat], NEW m \in 1 .. n, NEW b \in Nat,
           \A i \in 1 .. n : i <= m - 1 => f[i] <= b
    PROVE  \E c \in Nat : \A i \in 1 .. n : i <= m => f[i] <= c
<1>1. f[m] \in Nat /\ m \in Nat
    OBVIOUS
<1>2. \A i \in 1 .. n : i <= m => i <= m - 1 \/ i = m
    OBVIOUS
<1>3. \A i \in 1 .. n : i <= m => f[i] <= b + f[m]
  <2> SUFFICES ASSUME NEW i \in 1 .. n, i <= m PROVE f[i] <= b + f[m]
      OBVIOUS
  <2>1. f[i] \in Nat
      OBVIOUS
  <2>2. CASE i = m
      BY <1>1, <2>2
  <2>3. CASE i <= m - 1
      BY <1>1, <2>1, <2>3
  <2> QED
      BY <1>2, <2>2, <2>3
<1>4. b + f[m] \in Nat
    BY <1>1
<1> QED
    BY <1>3, <1>4

LEMMA ValuesAreBounded ==
    ASSUME NEW n \in Nat, NEW f \in [1 .. n -> Nat]
    PROVE  \E b \in Nat : \A i \in 1 .. n : f[i] <= b
<1> DEFINE Bound(m) == \E b \in Nat : \A i \in 1 .. n : i <= m => f[i] <= b
           Unbounded == {m \in 0 .. n : ~Bound(m)}
<1>1. ASSUME NEW m \in 1 .. n, Bound(m - 1) PROVE Bound(m)
    BY <1>1, OneMoreIsBounded
<1>2. Bound(0)
    OBVIOUS
<1> HIDE DEF Bound
<1>3. Unbounded = {}
  <2> SUFFICES ASSUME Unbounded # {} PROVE FALSE
      OBVIOUS
  <2>1. Unbounded \in SUBSET Nat
      OBVIOUS
  <2>2. PICK m \in Nat : m \in Unbounded /\ \A l \in Unbounded : m <= l
      BY <2>1, LeastNumber
  <2>3. m \in 1 .. n /\ ~Bound(m)
      BY <1>2, <2>2
  <2>4. m - 1 \in 0 .. n /\ ~(m <= m - 1)
      BY <2>3
  <2>5. Bound(m - 1)
      BY <2>2, <2>4
  <2> QED
      BY <1>1, <2>3, <2>5
<1>4. Bound(n)
    BY <1>3
<1> QED
    BY <1>4 DEF Bound

LEMMA FiniteIsBounded ==
    ASSUME NEW S \in SUBSET Nat, IsFiniteSet(S)
    PROVE  \E b \in Nat : \A x \in S : x <= b
<1>1. PICK n \in Nat : ExistsBijection(1 .. n, S)
    BY FS_CardinalityType
<1>2. PICK f \in Bijection(1 .. n, S) : TRUE
    BY <1>1 DEF ExistsBijection
<1>3. f \in [1 .. n -> Nat] /\ \A x \in S : \E i \in 1 .. n : f[i] = x
    BY <1>2 DEF Bijection, Surjection
<1>4. PICK b \in Nat : \A i \in 1 .. n : f[i] <= b
    BY <1>3, ValuesAreBounded
<1> QED
    BY <1>3, <1>4

LEMMA GreatestNumber ==
    ASSUME NEW S \in SUBSET Nat, IsFiniteSet(S), S # {}
    PROVE  Max(S) \in S /\ \A x \in S : x <= Max(S)
<1> DEFINE B == {b \in Nat : \A x \in S : x <= b}
<1>1. B # {}
    BY FiniteIsBounded
<1>2. PICK b \in B : \A c \in B : b <= c
  <2> HIDE DEF B
  <2>1. B \in SUBSET Nat
      BY DEF B
  <2> QED
      BY <1>1, <2>1, LeastNumber
<1>3. b \in S
  <2> SUFFICES ASSUME b \notin S PROVE FALSE
      OBVIOUS
  <2>1. \A x \in S : x <= b /\ x # b /\ x \in Nat
      BY <1>2
  <2>2. PICK x \in S : TRUE
      OBVIOUS
  <2>3. b - 1 \in Nat /\ \A y \in S : y <= b - 1
      BY <2>1, <2>2, <1>2
  <2>4. b - 1 \in B
      BY <2>3
  <2> QED
      BY <2>4, <1>2
<1>4. \A y \in S : b >= y
    BY <1>2
<1> QED
    BY <1>3, <1>4 DEF Max

(* The rowid after the greatest is a new one.                              *)
LEMMA NextNumber ==
    ASSUME NEW S \in SUBSET Nat, IsFiniteSet(S)
    PROVE  /\ 1 + Max({0} \cup S) \in Nat \ {0}
           /\ \A x \in S : x < 1 + Max({0} \cup S)
<1> DEFINE T == {0} \cup S
<1>1. IsFiniteSet(T) /\ T # {} /\ T \in SUBSET Nat
  <2>1. T = S \cup {0}
      OBVIOUS
  <2> QED
      BY <2>1, FS_AddElement
<1> HIDE DEF T
<1>2. Max(T) \in T /\ \A x \in T : x <= Max(T)
    BY <1>1, GreatestNumber
<1>3. Max(T) \in Nat /\ \A x \in S : x \in T /\ x \in Nat
    BY <1>1, <1>2 DEF T
<1> QED
    BY <1>2, <1>3 DEF T

(* A function on a finite set takes finitely many values.                  *)
LEMMA ValuesAreFinite ==
    ASSUME NEW S, IsFiniteSet(S), NEW f, f = [x \in S |-> f[x]]
    PROVE  IsFiniteSet({f[x] : x \in S})
<1> DEFINE T == {f[x] : x \in S}
<1>1. f \in Surjection(S, T)
    BY DEF Surjection
<1> HIDE DEF T
<1> QED
    BY <1>1, FS_Surjection DEF T
-----------------------------------------------------------------------------
(***************************************************************************)
(* Sums.  A set of subsets of a finite set that has every subset whose     *)
(* immediate predecessors it has, has them all: this stands for induction. *)
(***************************************************************************)
LEMMA AllSubsets ==
    ASSUME NEW S, IsFiniteSet(S), NEW G,
           \A T \in SUBSET S : (\A x \in T : T \ {x} \in G) => T \in G
    PROVE  \A T \in SUBSET S : T \in G
<1> SUFFICES ASSUME \E T \in SUBSET S : T \notin G PROVE FALSE
    OBVIOUS
<1> DEFINE Cards == {Cardinality(T) : T \in (SUBSET S) \ G}
<1>1. \A T \in SUBSET S : IsFiniteSet(T) /\ Cardinality(T) \in Nat
    BY FS_Subset, FS_CardinalityType
<1>2. Cards \in SUBSET Nat /\ Cards # {}
    BY <1>1
<1>3. PICK n \in Cards : \A m \in Cards : n <= m
  <2> HIDE DEF Cards
  <2> QED
      BY <1>2, LeastNumber
<1>4. PICK T \in (SUBSET S) \ G : Cardinality(T) = n
    BY <1>3
<1>5. PICK x \in T : T \ {x} \notin G
    BY <1>4
<1>6. Cardinality(T \ {x}) = Cardinality(T) - 1
    BY <1>1, <1>4, <1>5, FS_RemoveElement
<1>7. Cardinality(T \ {x}) \in Cards
    BY <1>4, <1>5
<1> HIDE DEF Cards
<1>8. n <= Cardinality(T \ {x})
    BY <1>3, <1>7
<1>9. Cardinality(T) \in Nat
    BY <1>1, <1>4
<1> QED
    BY <1>4, <1>6, <1>8, <1>9

Pick(s) == CHOOSE x \in s : TRUE

\* g sums w over the subsets of S
Adds(g, w, S) ==
    \A s \in SUBSET S : g[s] = IF s = {} THEN 0 ELSE w[Pick(s)] + g[s \ {Pick(s)}]

\* and so does g for the subsets with at most n elements
AddsTo(g, w, S, n) ==
    /\ g = [s \in SUBSET S |-> g[s]]
    /\ \A s \in SUBSET S : Cardinality(s) <= n =>
         g[s] = IF s = {} THEN 0 ELSE w[Pick(s)] + g[s \ {Pick(s)}]

LEMMA AddsToSize ==
    ASSUME NEW S, IsFiniteSet(S), NEW w
    PROVE  \A n \in Nat : \E g : AddsTo(g, w, S, n)
<1> DEFINE Fits(g, n) == AddsTo(g, w, S, n)
           Bad == {n \in Nat : \A g : ~Fits(g, n)}
<1> USE DEF AddsTo
<1>1. \A T \in SUBSET S : IsFiniteSet(T) /\ Cardinality(T) \in Nat
    BY FS_Subset, FS_CardinalityType
<1>2. \E g : Fits(g, 0)
  <2> DEFINE g == [s \in SUBSET S |-> 0]
  <2>1. \A s \in SUBSET S : Cardinality(s) <= 0 => s = {}
      BY <1>1, FS_EmptySet
  <2>2. Fits(g, 0)
      BY <2>1
  <2> QED
      BY <2>2
<1>3. ASSUME NEW n \in Nat, NEW g, Fits(g, n) PROVE \E h : Fits(h, n + 1)
  <2> DEFINE h == [s \in SUBSET S |-> IF s = {} THEN 0 ELSE w[Pick(s)] + g[s \ {Pick(s)}]]
  <2>1. \A s \in SUBSET S : Cardinality(s) <= n + 1 /\ s # {} =>
           Pick(s) \in s /\ s \ {Pick(s)} \in SUBSET S /\ Cardinality(s \ {Pick(s)}) <= n
    <3> SUFFICES ASSUME NEW s \in SUBSET S, Cardinality(s) <= n + 1, s # {}
                 PROVE  Pick(s) \in s /\ s \ {Pick(s)} \in SUBSET S /\ Cardinality(s \ {Pick(s)}) <= n
        OBVIOUS
    <3>1. Pick(s) \in s
        BY DEF Pick
    <3>2. Cardinality(s \ {Pick(s)}) = Cardinality(s) - 1
        BY <1>1, <3>1, FS_RemoveElement
    <3> QED
        BY <1>1, <3>1, <3>2
  <2>2. \A s \in SUBSET S : Cardinality(s) <= n => h[s] = g[s]
      BY <1>3
  <2>3. \A s \in SUBSET S : h[s] = IF s = {} THEN 0 ELSE w[Pick(s)] + g[s \ {Pick(s)}]
      OBVIOUS
  <2>4. h = [s \in SUBSET S |-> h[s]]
      OBVIOUS
  <2> HIDE DEF h
  <2>5. Fits(h, n + 1)
      BY <2>1, <2>2, <2>3, <2>4
  <2> QED
      BY <2>5
<1> HIDE DEF Fits, AddsTo
<1>4. Bad = {}
  <2> SUFFICES ASSUME Bad # {} PROVE FALSE
      OBVIOUS
  <2>1. PICK n \in Bad : \A m \in Bad : n <= m
    <3>1. Bad \in SUBSET Nat
        OBVIOUS
    <3> HIDE DEF Bad
    <3> QED
        BY <3>1, LeastNumber
  <2>2. n \in Nat \ {0} /\ n - 1 \in Nat /\ n - 1 + 1 = n
      BY <1>2, <2>1
  <2>3. PICK g : Fits(g, n - 1)
      BY <2>1, <2>2
  <2> QED
      BY <1>3, <2>1, <2>2, <2>3
<1>5. \A n \in Nat : \E g : Fits(g, n)
    BY <1>4
<1> QED
    BY <1>5 DEF Fits

LEMMA SumIsDefined ==
    ASSUME NEW S, IsFiniteSet(S), NEW w
    PROVE  \E g : Adds(g, w, S) /\ SumFunctionOnSet(w, S) = g[S]
<1>1. Cardinality(S) \in Nat /\ \A s \in SUBSET S : Cardinality(s) <= Cardinality(S)
    BY FS_Subset, FS_CardinalityType
<1>2. PICK h : AddsTo(h, w, S, Cardinality(S))
    BY <1>1, AddsToSize
<1>3. h = [s \in SUBSET S |-> IF s = {} THEN 0 ELSE w[Pick(s)] + h[s \ {Pick(s)}]]
    BY <1>1, <1>2 DEF AddsTo
<1> DEFINE iter[s \in SUBSET S] == IF s = {} THEN 0 ELSE w[Pick(s)] + iter[s \ {Pick(s)}]
<1>4. SumFunctionOnSet(w, S) = iter[S]
    BY DEF SumFunctionOnSet, FoldFunctionOnSet, MapThenFoldSet, Pick
<1>5. iter = [s \in SUBSET S |-> IF s = {} THEN 0 ELSE w[Pick(s)] + iter[s \ {Pick(s)}]]
    BY <1>3
<1> HIDE DEF iter
<1>6. Adds(iter, w, S)
    BY <1>5 DEF Adds
<1> QED
    BY <1>4, <1>6

\* two functions agree on a set where they sum the same numbers
LEMMA SumsAgree ==
    ASSUME NEW S, IsFiniteSet(S), NEW g, NEW h, NEW v, NEW w,
           Adds(g, v, S), Adds(h, w, S), \A x \in S : v[x] = w[x]
    PROVE  \A T \in SUBSET S : g[T] = h[T]
<1> DEFINE G == {T \in SUBSET S : g[T] = h[T]}
<1>1. ASSUME NEW T \in SUBSET S, \A x \in T : T \ {x} \in G PROVE T \in G
  <2>1. CASE T = {}
      BY <2>1 DEF Adds
  <2>2. CASE T # {}
    <3>1. Pick(T) \in T
        BY <2>2 DEF Pick
    <3>2. v[Pick(T)] = w[Pick(T)] /\ g[T \ {Pick(T)}] = h[T \ {Pick(T)}]
        BY <1>1, <3>1
    <3> QED
        BY <2>2, <3>2 DEF Adds
  <2> QED
      BY <2>1, <2>2
<1> HIDE DEF G
<1>2. \A T \in SUBSET S : T \in G
    BY <1>1, AllSubsets
<1> QED
    BY <1>2 DEF G

LEMMA SumOfEqual ==
    ASSUME NEW S, IsFiniteSet(S), NEW v, NEW w, \A x \in S : v[x] = w[x]
    PROVE  SumFunctionOnSet(v, S) = SumFunctionOnSet(w, S)
    BY SumIsDefined, SumsAgree

LEMMA SumOfNone == ASSUME NEW w PROVE SumFunctionOnSet(w, {}) = 0
    BY SumIsDefined, FS_EmptySet DEF Adds

LEMMA SumTakesPick ==
    ASSUME NEW S, IsFiniteSet(S), S # {}, NEW w
    PROVE  /\ Pick(S) \in S
           /\ SumFunctionOnSet(w, S) = w[Pick(S)] + SumFunctionOnSet(w, S \ {Pick(S)})
<1> DEFINE T == S \ {Pick(S)}
<1>1. Pick(S) \in S
    BY DEF Pick
<1>2. IsFiniteSet(T) /\ T \in SUBSET S
    BY FS_Subset
<1>3. PICK g : Adds(g, w, S) /\ SumFunctionOnSet(w, S) = g[S]
    BY SumIsDefined
<1>4. PICK h : Adds(h, w, T) /\ SumFunctionOnSet(w, T) = h[T]
  <2> HIDE DEF T
  <2> QED
      BY <1>2, SumIsDefined
<1>5. Adds(g, w, T)
    BY <1>2, <1>3 DEF Adds
<1>6. g[T] = h[T]
  <2> HIDE DEF T
  <2> QED
      BY <1>2, <1>4, <1>5, SumsAgree
<1>7. g[S] = w[Pick(S)] + g[T]
    BY <1>3 DEF Adds
<1> QED
    BY <1>1, <1>3, <1>4, <1>6, <1>7

LEMMA SumType ==
    ASSUME NEW S, IsFiniteSet(S), NEW w, \A x \in S : w[x] \in Nat
    PROVE  SumFunctionOnSet(w, S) \in Nat
<1> DEFINE G == {T \in SUBSET S : SumFunctionOnSet(w, T) \in Nat}
<1>1. ASSUME NEW T \in SUBSET S, \A x \in T : T \ {x} \in G PROVE T \in G
  <2>1. CASE T = {}
      BY <2>1, SumOfNone
  <2>2. CASE T # {}
    <3>1. /\ IsFiniteSet(T) /\ Pick(T) \in T
          /\ SumFunctionOnSet(w, T) = w[Pick(T)] + SumFunctionOnSet(w, T \ {Pick(T)})
        BY <2>2, SumTakesPick, FS_Subset
    <3>2. T \ {Pick(T)} \in G
        BY <1>1, <3>1
    <3> QED
        BY <3>1, <3>2
  <2> QED
      BY <2>1, <2>2
<1> HIDE DEF G
<1>2. \A T \in SUBSET S : T \in G
    BY <1>1, AllSubsets
<1> QED
    BY <1>2 DEF G

\* any element may be taken out first
LEMMA SumTakesAny ==
    ASSUME NEW S, IsFiniteSet(S), NEW w, \A x \in S : w[x] \in Nat, NEW x \in S
    PROVE  SumFunctionOnSet(w, S) = w[x] + SumFunctionOnSet(w, S \ {x})
<1> DEFINE Sum(T) == SumFunctionOnSet(w, T)
           G == {T \in SUBSET S : \A y \in T : Sum(T) = w[y] + Sum(T \ {y})}
<1>1. \A T \in SUBSET S : IsFiniteSet(T) /\ Sum(T) \in Nat
    BY FS_Subset, SumType
<1>2. \A T \in SUBSET S : T # {} => Pick(T) \in T /\ Sum(T) = w[Pick(T)] + Sum(T \ {Pick(T)})
    BY FS_Subset, SumTakesPick
<1> HIDE DEF Sum
<1>3. ASSUME NEW T \in SUBSET S, \A y \in T : T \ {y} \in G PROVE T \in G
  <2> SUFFICES ASSUME NEW y \in T PROVE Sum(T) = w[y] + Sum(T \ {y})
      OBVIOUS
  <2> DEFINE p == Pick(T)
  <2>1. p \in T /\ Sum(T) = w[p] + Sum(T \ {p})
      BY <1>2
  <2> HIDE DEF p
  <2>2. CASE y = p
      BY <2>1, <2>2
  <2>3. CASE y # p
    <3> DEFINE R == T \ {y, p}
    <3>1. R = (T \ {p}) \ {y} /\ R = (T \ {y}) \ {p} /\ R \in SUBSET S
        OBVIOUS
    <3>2. T \ {p} \in G /\ T \ {y} \in G
        BY <1>3, <2>1
    <3>3. y \in T \ {p} /\ p \in T \ {y}
        BY <2>1, <2>3
    <3>4. Sum(T \ {p}) = w[y] + Sum(R) /\ Sum(T \ {y}) = w[p] + Sum(R)
        BY <3>1, <3>2, <3>3
    <3>5. w[y] \in Nat /\ w[p] \in Nat /\ Sum(R) \in Nat
        BY <1>1, <2>1, <3>1
    <3> HIDE DEF R
    <3> QED
        BY <2>1, <3>4, <3>5
  <2> QED
      BY <2>2, <2>3
<1> HIDE DEF G
<1>4. \A T \in SUBSET S : T \in G
    BY <1>3, AllSubsets
<1> QED
    BY <1>4 DEF G, Sum

(* The sum over a set in which one number is replaced.                     *)
LEMMA SumChanges ==
    ASSUME NEW S, IsFiniteSet(S), NEW v, NEW w, NEW x \in S,
           \A y \in S : v[y] \in Nat /\ w[y] \in Nat,
           \A y \in S \ {x} : v[y] = w[y]
    PROVE  SumFunctionOnSet(w, S) = SumFunctionOnSet(v, S) - v[x] + w[x]
<1> DEFINE T == S \ {x}
<1>1. IsFiniteSet(T) /\ \A y \in T : v[y] = w[y] /\ v[y] \in Nat /\ w[y] \in Nat
    BY FS_Subset
<1>2. /\ SumFunctionOnSet(v, S) = v[x] + SumFunctionOnSet(v, T)
      /\ SumFunctionOnSet(w, S) = w[x] + SumFunctionOnSet(w, T)
    BY SumTakesAny
<1> HIDE DEF T
<1>3. SumFunctionOnSet(v, T) = SumFunctionOnSet(w, T) /\ SumFunctionOnSet(v, T) \in Nat
    BY <1>1, SumOfEqual, SumType
<1> QED
    BY <1>2, <1>3

(* Larger numbers have a larger sum.                                       *)
LEMMA SumGrows ==
    ASSUME NEW S, IsFiniteSet(S), NEW v, NEW w,
           \A x \in S : v[x] \in Nat /\ w[x] \in Nat /\ v[x] <= w[x]
    PROVE  SumFunctionOnSet(v, S) <= SumFunctionOnSet(w, S)
<1> DEFINE G == {T \in SUBSET S : SumFunctionOnSet(v, T) <= SumFunctionOnSet(w, T)}
<1>1. ASSUME NEW T \in SUBSET S, \A x \in T : T \ {x} \in G PROVE T \in G
  <2>1. CASE T = {}
      BY <2>1, SumOfNone
  <2>2. CASE T # {}
    <3> DEFINE p == Pick(T)
    <3>1. /\ p \in T
          /\ SumFunctionOnSet(v, T) = v[p] + SumFunctionOnSet(v, T \ {p})
          /\ SumFunctionOnSet(w, T) = w[p] + SumFunctionOnSet(w, T \ {p})
        BY <2>2, SumTakesPick, FS_Subset
    <3> HIDE DEF p
    <3>2. SumFunctionOnSet(v, T \ {p}) \in Nat /\ SumFunctionOnSet(w, T \ {p}) \in Nat
        BY SumType, FS_Subset
    <3>3. SumFunctionOnSet(v, T \ {p}) <= SumFunctionOnSet(w, T \ {p})
        BY <1>1, <3>1
    <3> QED
        BY <3>1, <3>2, <3>3
  <2> QED
      BY <2>1, <2>2
<1> HIDE DEF G
<1>2. \A T \in SUBSET S : T \in G
    BY <1>1, AllSubsets
<1> QED
    BY <1>2 DEF G

(* Zeros sum up to zero.                                                   *)
LEMMA SumOfZeros ==
    ASSUME NEW S, IsFiniteSet(S), NEW w, \A x \in S : w[x] = 0
    PROVE  SumFunctionOnSet(w, S) = 0
<1> DEFINE G == {T \in SUBSET S : SumFunctionOnSet(w, T) = 0}
<1>1. ASSUME NEW T \in SUBSET S, \A x \in T : T \ {x} \in G PROVE T \in G
  <2>1. CASE T = {}
      BY <2>1, SumOfNone
  <2>2. CASE T # {}
    <3>1. /\ IsFiniteSet(T) /\ Pick(T) \in T
          /\ SumFunctionOnSet(w, T) = w[Pick(T)] + SumFunctionOnSet(w, T \ {Pick(T)})
        BY <2>2, SumTakesPick, FS_Subset
    <3>2. T \ {Pick(T)} \in G
        BY <1>1, <3>1
    <3> QED
        BY <3>1, <3>2
  <2> QED
      BY <2>1, <2>2
<1> HIDE DEF G
<1>2. \A T \in SUBSET S : T \in G
    BY <1>1, AllSubsets
<1> QED
    BY <1>2 DEF G

(* Only what is not zero need be summed.                                   *)
LEMMA SumOfSome ==
    ASSUME NEW S, IsFiniteSet(S), NEW w, NEW R \in SUBSET S,
           \A x \in S : w[x] \in Nat, \A x \in S \ R : w[x] = 0
    PROVE  SumFunctionOnSet(w, S) = SumFunctionOnSet(w, R)
<1> DEFINE G == {T \in SUBSET S : SumFunctionOnSet(w, T) = SumFunctionOnSet(w, T \cap R)}
<1>1. ASSUME NEW T \in SUBSET S, \A x \in T : T \ {x} \in G PROVE T \in G
  <2>1. CASE T \subseteq R
    <3>1. T \cap R = T
        BY <2>1
    <3> QED
        BY <3>1
  <2>2. CASE ~(T \subseteq R)
    <3>1. PICK x \in T : x \notin R
        BY <2>2
    <3>2. (T \ {x}) \cap R = T \cap R
        BY <3>1
    <3>3. SumFunctionOnSet(w, T) = w[x] + SumFunctionOnSet(w, T \ {x})
        BY SumTakesAny, FS_Subset
    <3>4. w[x] = 0 /\ SumFunctionOnSet(w, T \ {x}) \in Nat
        BY <3>1, SumType, FS_Subset
    <3>5. SumFunctionOnSet(w, T \ {x}) = SumFunctionOnSet(w, T \cap R)
        BY <1>1, <3>1, <3>2
    <3> QED
        BY <3>3, <3>4, <3>5
  <2> QED
      BY <2>1, <2>2
<1> HIDE DEF G
<1>2. \A T \in SUBSET S : T \in G
    BY <1>1, AllSubsets
<1>3. S \cap R = R
    OBVIOUS
<1> QED
    BY <1>2, <1>3 DEF G
=============================================================================
