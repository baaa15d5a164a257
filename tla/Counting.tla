------------------------------ MODULE Counting ------------------------------
(***************************************************************************)
(* Facts that several proofs need about natural numbers, iterated          *)
(* functions, cardinalities, and the sums of the community modules.        *)
(* Induction is over a set of numbers, since the induction theorems of     *)
(* the library take an operator the provers cannot instantiate.            *)
(***************************************************************************)
EXTENDS Integers, FiniteSets, Functions, FiniteSetTheorems, WellFoundedInduction, TLAPS

-----------------------------------------------------------------------------
(* Numbers, iteration and cardinalities.                                   *)

\* A lemma: a set of naturals that is not empty has a least element.
LEMMA Least ==
    ASSUME NEW S \in SUBSET Nat, S # {}
    PROVE  \E m \in S : \A n \in S : m <= n
<1> DEFINE R == OpToRel(<, Nat)
<1>1. IsWellFoundedOn(R, Nat)
  BY NatLessThanWellFounded
<1>2. PICK m \in S : \A n \in S : ~(<<n, m>> \in R)
  <2> HIDE DEF R
  <2> QED
    BY <1>1, WFMin
<1>3. \A n \in S : ~(n < m)
  BY <1>2 DEF OpToRel
<1> QED
  BY <1>3

\* A lemma: induction, about a set.
LEMMA CountUp ==
    ASSUME NEW T \in SUBSET Nat, 0 \in T, \A n \in T : n + 1 \in T
    PROVE  T = Nat
<1>1. SUFFICES ASSUME Nat \ T # {} PROVE FALSE
  OBVIOUS
<1>2. PICK m \in Nat \ T : \A n \in Nat \ T : m <= n
  BY <1>1, Least
<1>3. m - 1 \in T
  BY <1>2
<1> QED
  BY <1>2, <1>3

\* The values of N applications of g, from a on.
IsIteration(f, A, a, g, N) ==
    /\ f \in [0 .. N -> A]
    /\ f[0] = a
    /\ \A n \in 1 .. N : f[n] = g[f[n - 1]]

\* A lemma: a function can be iterated any number of times.
LEMMA Iterates ==
    ASSUME NEW A, NEW a \in A, NEW g \in [A -> A], NEW N \in Nat
    PROVE  \E f : IsIteration(f, A, a, g, N)
<1> DEFINE Upto(k, f) == f[0] = a /\ \A n \in 1 .. k : f[n] = g[f[n - 1]]
           T == {k \in Nat : \E f \in [0 .. k -> A] : Upto(k, f)}
<1>1. 0 \in T
  <2>1. [n \in 0 .. 0 |-> a] \in [0 .. 0 -> A] /\ Upto(0, [n \in 0 .. 0 |-> a])
    OBVIOUS
  <2> QED
    BY <2>1
<1>2. ASSUME NEW k \in T PROVE k + 1 \in T
  <2>1. PICK f \in [0 .. k -> A] : Upto(k, f)
    OBVIOUS
  <2> DEFINE h == [n \in 0 .. k + 1 |-> IF n = k + 1 THEN g[f[k]] ELSE f[n]]
  <2>2. h \in [0 .. k + 1 -> A]
    OBVIOUS
  <2>3. h[0] = a
    BY <2>1
  <2>4. ASSUME NEW n \in 1 .. k + 1 PROVE h[n] = g[h[n - 1]]
    <3>1. n - 1 \in 0 .. k /\ h[n - 1] = f[n - 1]
      OBVIOUS
    <3>2. CASE n = k + 1
      BY <3>1, <3>2
    <3>3. CASE n \in 1 .. k
      BY <2>1, <3>1, <3>3
    <3> QED
      BY <3>2, <3>3
  <2>5. Upto(k + 1, h)
    BY <2>3, <2>4
  <2> HIDE DEF h, Upto
  <2> QED
    BY <2>2, <2>5
<1>3. T = Nat
  <2> HIDE DEF T
  <2>1. T \in SUBSET Nat
    BY DEF T
  <2> QED
    BY <1>1, <1>2, <2>1, CountUp
<1> QED
  BY <1>3 DEF IsIteration

\* A lemma: sets without a common element add up.
LEMMA Disjoint ==
    ASSUME NEW S, NEW T, IsFiniteSet(S), IsFiniteSet(T), S \cap T = {}
    PROVE  /\ IsFiniteSet(S \cup T)
           /\ Cardinality(S \cup T) = Cardinality(S) + Cardinality(T)
           /\ Cardinality(S) \in Nat /\ Cardinality(T) \in Nat
  BY FS_Union, FS_EmptySet, FS_CardinalityType

\* A lemma: what a set loses and gains.
LEMMA LoseAndGain ==
    ASSUME NEW S, IsFiniteSet(S), NEW L \in SUBSET S, NEW G, IsFiniteSet(G), G \cap S = {}
    PROVE  /\ Cardinality((S \ L) \cup G) = Cardinality(S) - Cardinality(L) + Cardinality(G)
           /\ Cardinality(L) \in Nat /\ Cardinality(G) \in Nat /\ Cardinality(S) \in Nat
<1>1. IsFiniteSet(L) /\ IsFiniteSet(S \ L) /\ L \cap (S \ L) = {} /\ L \cup (S \ L) = S
  BY FS_Subset
<1>2. /\ Cardinality(S) = Cardinality(L) + Cardinality(S \ L)
      /\ Cardinality(L) \in Nat /\ Cardinality(S \ L) \in Nat
  BY <1>1, Disjoint
<1>3. (S \ L) \cap G = {}
  OBVIOUS
<1>4. Cardinality((S \ L) \cup G) = Cardinality(S \ L) + Cardinality(G) /\ Cardinality(G) \in Nat
  BY <1>1, <1>3, Disjoint
<1> QED
  BY <1>2, <1>4

-----------------------------------------------------------------------------
(* Sums.                                                                   *)

\* The partial sums of f over the subsets of S, in the order of the library.
PartialSums(f, S, g) ==
    g = [s \in SUBSET S |-> IF s = {} THEN 0
                            ELSE LET x == CHOOSE x \in s : TRUE
                                 IN  f[x] + g[s \ {x}]]

\* A lemma: removing the element that is chosen first.
LEMMA Chosen ==
    ASSUME NEW s, IsFiniteSet(s), s # {}
    PROVE  LET x == CHOOSE x \in s : TRUE
           IN  /\ x \in s /\ IsFiniteSet(s \ {x})
               /\ Cardinality(s \ {x}) = Cardinality(s) - 1
               /\ Cardinality(s) \in Nat \ {0} /\ Cardinality(s \ {x}) \in Nat
<1> DEFINE x == CHOOSE x \in s : TRUE
<1>1. x \in s
  OBVIOUS
<1> HIDE DEF x
<1>2. IsFiniteSet(s \ {x}) /\ Cardinality(s \ {x}) = Cardinality(s) - 1
  BY <1>1, FS_RemoveElement
<1>3. Cardinality(s) \in Nat /\ Cardinality(s \ {x}) \in Nat
  BY <1>2, FS_CardinalityType
<1> QED
  BY <1>1, <1>2, <1>3 DEF x

\* A lemma: a finite set has partial sums.
LEMMA PartialSumsExist ==
    ASSUME NEW f, NEW S, IsFiniteSet(S)
    PROVE  \E g : PartialSums(f, S, g)
<1> DEFINE Value(g, s) == IF s = {} THEN 0
                          ELSE LET x == CHOOSE x \in s : TRUE
                               IN  f[x] + g[s \ {x}]
           Upto(n, g) == \A s \in SUBSET S : Cardinality(s) <= n => g[s] = Value(g, s)
           T == {n \in Nat : \E g : g = [s \in SUBSET S |-> g[s]] /\ Upto(n, g)}
<1>1. \A s \in SUBSET S : IsFiniteSet(s) /\ Cardinality(s) \in Nat
  BY FS_Subset, FS_CardinalityType
<1>2. 0 \in T
  <2> DEFINE g == [s \in SUBSET S |-> 0]
  <2>1. ASSUME NEW s \in SUBSET S, Cardinality(s) <= 0 PROVE g[s] = Value(g, s)
    <3>1. s = {}
      BY <1>1, <2>1, FS_EmptySet
    <3> QED
      BY <3>1
  <2>2. Upto(0, g) /\ g = [s \in SUBSET S |-> g[s]]
    BY <2>1
  <2> HIDE DEF g, Upto
  <2> QED
    BY <2>2
<1>3. ASSUME NEW n \in T PROVE n + 1 \in T
  <2>1. PICK g : g = [s \in SUBSET S |-> g[s]] /\ Upto(n, g)
    OBVIOUS
  <2> DEFINE h == [s \in SUBSET S |-> IF Cardinality(s) = n + 1 THEN Value(g, s) ELSE g[s]]
  <2>2. n \in Nat
    OBVIOUS
  <2>3. ASSUME NEW s \in SUBSET S, Cardinality(s) <= n + 1 PROVE h[s] = Value(h, s)
    <3>1. CASE s = {}
      <4>1. Cardinality(s) = 0
        BY <3>1, FS_EmptySet
      <4>2. Cardinality(s) # n + 1 /\ Cardinality(s) <= n
        BY <2>2, <4>1
      <4>3. h[s] = g[s] /\ g[s] = Value(g, s)
        BY <2>1, <4>2
      <4> QED
        BY <3>1, <4>3
    <3>2. CASE s # {}
      <4> DEFINE x == CHOOSE x \in s : TRUE
                 r == s \ {x}
      <4>1. r \in SUBSET S /\ Cardinality(r) = Cardinality(s) - 1 /\ Cardinality(s) \in Nat
        BY <1>1, <3>2, Chosen
      <4>2. h[r] = g[r]
        <5>1. Cardinality(r) # n + 1
          BY <2>2, <2>3, <4>1
        <5> HIDE DEF r
        <5> QED
          BY <4>1, <5>1
      <4>3. Value(h, s) = Value(g, s)
        BY <3>2, <4>2
      <4>4. h[s] = Value(g, s)
        <5>1. CASE Cardinality(s) = n + 1
          BY <5>1
        <5>2. CASE Cardinality(s) # n + 1
          <6>1. Cardinality(s) <= n
            BY <2>2, <2>3, <4>1, <5>2
          <6>2. h[s] = g[s] /\ g[s] = Value(g, s)
            BY <2>1, <5>2, <6>1
          <6> QED
            BY <6>2
        <5> QED
          BY <5>1, <5>2
      <4> QED
        BY <4>3, <4>4
    <3> QED
      BY <3>1, <3>2
  <2>4. Upto(n + 1, h) /\ h = [s \in SUBSET S |-> h[s]]
    <3>1. h = [s \in SUBSET S |-> h[s]]
      OBVIOUS
    <3> HIDE DEF h, Value
    <3>2. Upto(n + 1, h)
      BY <2>3
    <3> QED
      BY <3>1, <3>2
  <2>5. \E e : e = [s \in SUBSET S |-> e[s]] /\ Upto(n + 1, e)
    <3> HIDE DEF h, Upto
    <3> QED
      BY <2>4
  <2>6. n + 1 \in Nat
    BY <2>2
  <2> HIDE DEF Upto
  <2> QED
    BY <2>5, <2>6
<1>4. T = Nat
  <2> HIDE DEF T
  <2>1. T \in SUBSET Nat
    BY DEF T
  <2> QED
    BY <1>2, <1>3, <2>1, CountUp
<1>5. Cardinality(S) \in T
  BY <1>1, <1>4
<1>6. PICK g : g = [s \in SUBSET S |-> g[s]] /\ Upto(Cardinality(S), g)
  BY <1>5
<1>7. \A s \in SUBSET S : g[s] = Value(g, s)
  <2>1. \A s \in SUBSET S : Cardinality(s) <= Cardinality(S)
    BY FS_Subset
  <2> QED
    BY <1>6, <2>1
<1>8. PartialSums(f, S, g)
  BY <1>6, <1>7 DEF PartialSums
<1> QED
  BY <1>8

\* A lemma: functions that agree on a set have the same partial sums.
LEMMA PartialSumsAgree ==
    ASSUME NEW f, NEW S, NEW g, PartialSums(f, S, g),
           NEW e, NEW R, NEW h, PartialSums(e, R, h),
           IsFiniteSet(R), R \subseteq S, \A x \in R : f[x] = e[x]
    PROVE  g[R] = h[R]
<1> DEFINE T == {n \in Nat : \A s \in SUBSET R : Cardinality(s) = n => g[s] = h[s]}
<1>1. \A s \in SUBSET R : IsFiniteSet(s) /\ Cardinality(s) \in Nat /\ s \in SUBSET S
  BY FS_Subset, FS_CardinalityType
<1>2. \A s \in SUBSET R :
          /\ g[s] = IF s = {} THEN 0
                    ELSE LET x == CHOOSE x \in s : TRUE IN f[x] + g[s \ {x}]
          /\ h[s] = IF s = {} THEN 0
                    ELSE LET x == CHOOSE x \in s : TRUE IN e[x] + h[s \ {x}]
  BY <1>1 DEF PartialSums
<1>3. 0 \in T
  <2>1. ASSUME NEW s \in SUBSET R, Cardinality(s) = 0 PROVE g[s] = h[s]
    <3>1. s = {}
      BY <1>1, <2>1, FS_EmptySet
    <3> QED
      BY <1>2, <3>1
  <2> QED
    BY <2>1
<1>4. ASSUME NEW n \in T PROVE n + 1 \in T
  <2>1. ASSUME NEW s \in SUBSET R, Cardinality(s) = n + 1 PROVE g[s] = h[s]
    <3>1. s # {}
      <4>1. n + 1 # 0
        OBVIOUS
      <4> QED
        BY <2>1, <4>1, FS_EmptySet
    <3> DEFINE x == CHOOSE x \in s : TRUE
    <3>2. x \in s /\ Cardinality(s \ {x}) = n /\ s \ {x} \in SUBSET R
      <4>1. x \in s /\ Cardinality(s \ {x}) = Cardinality(s) - 1
        BY <1>1, <3>1, Chosen
      <4>2. n + 1 - 1 = n
        OBVIOUS
      <4> QED
        BY <2>1, <4>1, <4>2
    <3>3. g[s \ {x}] = h[s \ {x}] /\ f[x] = e[x]
      BY <3>2
    <3>4. g[s] = f[x] + g[s \ {x}] /\ h[s] = e[x] + h[s \ {x}]
      BY <1>2, <3>1
    <3> QED
      BY <3>3, <3>4
  <2> QED
    BY <2>1
<1>5. T = Nat
  <2> HIDE DEF T
  <2>1. T \in SUBSET Nat
    BY DEF T
  <2> QED
    BY <1>3, <1>4, <2>1, CountUp
<1>6. Cardinality(R) \in T
  BY <1>1, <1>5
<1> QED
  BY <1>6

\* A lemma: the sum over a set is one of its partial sums.
LEMMA SumIs ==
    ASSUME NEW f, NEW S, IsFiniteSet(S)
    PROVE  \E g : PartialSums(f, S, g) /\ SumFunctionOnSet(f, S) = g[S]
<1> DEFINE g == CHOOSE g : PartialSums(f, S, g)
<1>1. PartialSums(f, S, g)
  BY PartialSumsExist
<1>2. SumFunctionOnSet(f, S) = g[S]
  BY DEF SumFunctionOnSet, FoldFunctionOnSet, MapThenFoldSet, PartialSums
<1> QED
  BY <1>1, <1>2

\* A lemma: no terms, or one term and the sum of the others.
LEMMA SumUnfolds ==
    ASSUME NEW f, NEW S, IsFiniteSet(S)
    PROVE  /\ S = {} => SumFunctionOnSet(f, S) = 0
           /\ S # {} => LET x == CHOOSE x \in S : TRUE
                        IN  SumFunctionOnSet(f, S) = f[x] + SumFunctionOnSet(f, S \ {x})
<1>1. PICK g : PartialSums(f, S, g) /\ SumFunctionOnSet(f, S) = g[S]
  BY SumIs
<1>2. g[S] = IF S = {} THEN 0 ELSE LET x == CHOOSE x \in S : TRUE IN f[x] + g[S \ {x}]
  BY <1>1 DEF PartialSums
<1>3. ASSUME S # {}
      PROVE  LET x == CHOOSE x \in S : TRUE
             IN  SumFunctionOnSet(f, S) = f[x] + SumFunctionOnSet(f, S \ {x})
  <2> DEFINE x == CHOOSE x \in S : TRUE
             R == S \ {x}
  <2>1. IsFiniteSet(R)
    BY <1>3, Chosen
  <2>2. PICK h : PartialSums(f, R, h) /\ SumFunctionOnSet(f, R) = h[R]
    BY <2>1, SumIs
  <2>3. R \subseteq S
    OBVIOUS
  <2>4. g[R] = h[R]
    <3> HIDE DEF R
    <3> QED
      BY <1>1, <2>1, <2>2, <2>3, PartialSumsAgree
  <2> QED
    BY <1>1, <1>2, <1>3, <2>2, <2>4
<1> QED
  BY <1>1, <1>2, <1>3

\* A lemma: a sum depends on its terms only.
LEMMA SumOfSame ==
    ASSUME NEW f, NEW e, NEW S, IsFiniteSet(S), \A x \in S : f[x] = e[x]
    PROVE  SumFunctionOnSet(f, S) = SumFunctionOnSet(e, S)
<1>1. PICK g : PartialSums(f, S, g) /\ SumFunctionOnSet(f, S) = g[S]
  BY SumIs
<1>2. PICK h : PartialSums(e, S, h) /\ SumFunctionOnSet(e, S) = h[S]
  BY SumIs
<1>3. g[S] = h[S]
  BY <1>1, <1>2, PartialSumsAgree
<1> QED
  BY <1>1, <1>2, <1>3

\* A lemma: induction over the subsets of a finite set, about a set of them.
LEMMA BuildUp ==
    ASSUME NEW S, IsFiniteSet(S), NEW P \in SUBSET (SUBSET S), {} \in P,
           \A s \in SUBSET S : s # {} /\ s \ {CHOOSE x \in s : TRUE} \in P => s \in P
    PROVE  P = SUBSET S
<1> DEFINE T == {n \in Nat : \A s \in SUBSET S : Cardinality(s) = n => s \in P}
<1>1. \A s \in SUBSET S : IsFiniteSet(s) /\ Cardinality(s) \in Nat
  BY FS_Subset, FS_CardinalityType
<1>2. 0 \in T
  <2>1. ASSUME NEW s \in SUBSET S, Cardinality(s) = 0 PROVE s \in P
    BY <1>1, <2>1, FS_EmptySet
  <2> QED
    BY <2>1
<1>3. ASSUME NEW n \in T PROVE n + 1 \in T
  <2>1. ASSUME NEW s \in SUBSET S, Cardinality(s) = n + 1 PROVE s \in P
    <3>1. s # {}
      <4>1. n + 1 # 0
        OBVIOUS
      <4> QED
        BY <2>1, <4>1, FS_EmptySet
    <3> DEFINE x == CHOOSE x \in s : TRUE
    <3>2. s \ {x} \in SUBSET S /\ Cardinality(s \ {x}) = n
      <4>1. Cardinality(s \ {x}) = Cardinality(s) - 1
        BY <1>1, <3>1, Chosen
      <4>2. n + 1 - 1 = n
        OBVIOUS
      <4> QED
        BY <2>1, <4>1, <4>2
    <3>3. s \ {x} \in P
      BY <3>2
    <3> QED
      BY <3>1, <3>3
  <2> QED
    BY <2>1
<1>4. T = Nat
  <2> HIDE DEF T
  <2>1. T \in SUBSET Nat
    BY DEF T
  <2> QED
    BY <1>2, <1>3, <2>1, CountUp
<1>5. \A s \in SUBSET S : Cardinality(s) \in T
  BY <1>1, <1>4
<1>6. \A s \in SUBSET S : s \in P
  BY <1>5
<1> QED
  BY <1>6

\* A lemma: a sum of integers is an integer, one of natural numbers natural.
LEMMA SumType ==
    ASSUME NEW f, NEW S, IsFiniteSet(S), \A x \in S : f[x] \in Int
    PROVE  /\ SumFunctionOnSet(f, S) \in Int
           /\ (\A x \in S : f[x] \in Nat) => SumFunctionOnSet(f, S) \in Nat
<1> DEFINE P == {s \in SUBSET S :
                    /\ SumFunctionOnSet(f, s) \in Int
                    /\ (\A x \in S : f[x] \in Nat) => SumFunctionOnSet(f, s) \in Nat}
<1>1. {} \in P
  <2>1. IsFiniteSet({})
    BY FS_EmptySet
  <2>2. SumFunctionOnSet(f, {}) = 0
    BY <2>1, SumUnfolds
  <2> QED
    BY <2>2
<1>2. ASSUME NEW s \in SUBSET S, s # {}, s \ {CHOOSE x \in s : TRUE} \in P
      PROVE  s \in P
  <2> DEFINE x == CHOOSE x \in s : TRUE
  <2>1. IsFiniteSet(s) /\ x \in S
    BY <1>2, FS_Subset
  <2>2. SumFunctionOnSet(f, s) = f[x] + SumFunctionOnSet(f, s \ {x})
    BY <1>2, <2>1, SumUnfolds
  <2> HIDE DEF x
  <2>3. s \ {x} \in P
    BY <1>2 DEF x
  <2> QED
    BY <2>1, <2>2, <2>3
<1>3. P = SUBSET S
  <2> HIDE DEF P
  <2>1. P \in SUBSET (SUBSET S)
    BY DEF P
  <2> QED
    BY <1>1, <1>2, <2>1, BuildUp
<1>4. S \in P
  BY <1>3
<1> QED
  BY <1>4

\* A lemma: any term can be taken out of a sum.
LEMMA SumWithout ==
    ASSUME NEW f, NEW S, IsFiniteSet(S), \A x \in S : f[x] \in Int, NEW a \in S
    PROVE  SumFunctionOnSet(f, S) = f[a] + SumFunctionOnSet(f, S \ {a})
<1> DEFINE Sum(s) == SumFunctionOnSet(f, s)
           T == {n \in Nat : \A s \in SUBSET S : Cardinality(s) = n =>
                    \A x \in s : Sum(s) = f[x] + Sum(s \ {x})}
<1>1. \A s \in SUBSET S : IsFiniteSet(s) /\ Cardinality(s) \in Nat
  BY FS_Subset, FS_CardinalityType
<1>2. 0 \in T
  <2>1. ASSUME NEW s \in SUBSET S, Cardinality(s) = 0, NEW x \in s PROVE FALSE
    BY <1>1, <2>1, FS_EmptySet
  <2> QED
    BY <2>1
<1>3. ASSUME NEW n \in T PROVE n + 1 \in T
  <2>1. ASSUME NEW s \in SUBSET S, Cardinality(s) = n + 1, NEW x \in s
        PROVE  Sum(s) = f[x] + Sum(s \ {x})
    <3> DEFINE c == CHOOSE y \in s : TRUE
    <3>1. c \in s
      OBVIOUS
    <3>2. \A y \in s : s \ {y} \in SUBSET S /\ Cardinality(s \ {y}) = n
      <4>1. \A y \in s : Cardinality(s \ {y}) = Cardinality(s) - 1
        BY <1>1, FS_RemoveElement
      <4>2. n + 1 - 1 = n
        OBVIOUS
      <4> QED
        BY <2>1, <4>1, <4>2
    <3>3. Sum(s) = f[c] + Sum(s \ {c})
      BY <1>1, SumUnfolds
    <3>4. CASE x = c
      BY <3>3, <3>4
    <3>5. CASE x # c
      <4> HIDE DEF c
      <4>1. Sum(s \ {c}) = f[x] + Sum((s \ {c}) \ {x})
        BY <3>1, <3>2, <3>5
      <4>2. Sum(s \ {x}) = f[c] + Sum((s \ {x}) \ {c})
        BY <3>1, <3>2, <3>5
      <4>3. (s \ {c}) \ {x} = (s \ {x}) \ {c}
        OBVIOUS
      <4> DEFINE r == (s \ {x}) \ {c}
      <4>4. Sum(r) \in Int /\ f[x] \in Int /\ f[c] \in Int
        <5>1. r \in SUBSET S
          OBVIOUS
        <5>2. IsFiniteSet(r) /\ \A y \in r : f[y] \in Int
          BY <1>1, <5>1
        <5> HIDE DEF r
        <5>3. Sum(r) \in Int
          BY <5>2, SumType
        <5> QED
          BY <3>1, <5>3
      <4> HIDE DEF r
      <4> QED
        <5> DEFINE X == Sum(s) Y == Sum(s \ {c}) Z == Sum(s \ {x}) W == Sum((s \ {x}) \ {c})
                   p == f[x]
                   q == f[c]
        <5>1. X = q + Y /\ Y = p + W /\ Z = q + W
          BY <3>3, <4>1, <4>2, <4>3
        <5>2. W \in Int /\ p \in Int /\ q \in Int
          BY <4>4 DEF r
        <5> HIDE DEF X, Y, Z, W, p, q
        <5>3. X = p + Z
          BY <5>1, <5>2
        <5> QED
          BY <5>3 DEF X, Z, p
    <3> QED
      BY <3>4, <3>5
  <2> HIDE DEF Sum
  <2> QED
    BY <2>1
<1>4. T = Nat
  <2> HIDE DEF T
  <2>1. T \in SUBSET Nat
    BY DEF T
  <2> QED
    BY <1>2, <1>3, <2>1, CountUp
<1>5. Cardinality(S) \in T
  BY <1>1, <1>4
<1> QED
  BY <1>5

\* A lemma: the sum over two sets without a common element.
LEMMA SumOfUnion ==
    ASSUME NEW f, NEW S, NEW R, IsFiniteSet(S), IsFiniteSet(R), S \cap R = {},
           \A x \in S \cup R : f[x] \in Int
    PROVE  /\ SumFunctionOnSet(f, S \cup R)
                  = SumFunctionOnSet(f, S) + SumFunctionOnSet(f, R)
           /\ SumFunctionOnSet(f, S) \in Int /\ SumFunctionOnSet(f, R) \in Int
<1> DEFINE Sum(s) == SumFunctionOnSet(f, s)
           P == {r \in SUBSET R : Sum(S \cup r) = Sum(S) + Sum(r)}
<1>1. Sum(S) \in Int /\ \A r \in SUBSET R : IsFiniteSet(r) /\ Sum(r) \in Int
  <2>1. Sum(S) \in Int
    BY SumType
  <2>2. ASSUME NEW r \in SUBSET R PROVE IsFiniteSet(r) /\ Sum(r) \in Int
    <3>1. IsFiniteSet(r) /\ \A x \in r : f[x] \in Int
      BY FS_Subset
    <3> QED
      BY <3>1, SumType
  <2> QED
    BY <2>1, <2>2
<1>2. {} \in P
  <2>1. Sum({}) = 0 /\ S \cup {} = S
    BY FS_EmptySet, SumUnfolds
  <2> HIDE DEF Sum
  <2> QED
    BY <1>1, <2>1
<1>3. ASSUME NEW r \in SUBSET R, r # {}, r \ {CHOOSE x \in r : TRUE} \in P
      PROVE  r \in P
  <2> DEFINE x == CHOOSE x \in r : TRUE
             q == r \ {x}
  <2>1. x \in r
    BY <1>3
  <2>2. Sum(S \cup q) = Sum(S) + Sum(q)
    BY <1>3
  <2> HIDE DEF x
  <2>3. q \in SUBSET R /\ f[x] \in Int /\ x \notin S
    BY <2>1
  <2>4. Sum(r) = f[x] + Sum(q)
    BY <1>1, <2>1, SumWithout
  <2>5. Sum(S \cup r) = f[x] + Sum(S \cup q)
    <3>1. IsFiniteSet(S \cup r) /\ x \in S \cup r /\ \A y \in S \cup r : f[y] \in Int
      BY <1>1, <2>1, FS_Union
    <3>2. (S \cup r) \ {x} = S \cup q
      BY <2>3
    <3> QED
      BY <3>1, <3>2, SumWithout
  <2> HIDE DEF Sum, q
  <2>6. Sum(S \cup r) = Sum(S) + Sum(r)
    BY <1>1, <2>2, <2>3, <2>4, <2>5
  <2> QED
    BY <2>6
<1>4. P = SUBSET R
  <2> HIDE DEF P
  <2>1. P \in SUBSET (SUBSET R)
    BY DEF P
  <2> QED
    BY <1>2, <1>3, <2>1, BuildUp
<1>5. R \in P
  BY <1>4
<1> QED
  BY <1>1, <1>5

\* A lemma: with natural terms, more of them add up to as much or more.
LEMMA SumOfPart ==
    ASSUME NEW f, NEW S, IsFiniteSet(S), \A x \in S : f[x] \in Nat, NEW R \in SUBSET S
    PROVE  /\ SumFunctionOnSet(f, R) <= SumFunctionOnSet(f, S)
           /\ SumFunctionOnSet(f, R) \in Nat /\ SumFunctionOnSet(f, S) \in Nat
           /\ SumFunctionOnSet(f, S)
                  = SumFunctionOnSet(f, R) + SumFunctionOnSet(f, S \ R)
<1>1. IsFiniteSet(R) /\ IsFiniteSet(S \ R) /\ R \cap (S \ R) = {} /\ R \cup (S \ R) = S
  BY FS_Subset
<1>2. SumFunctionOnSet(f, S) = SumFunctionOnSet(f, R) + SumFunctionOnSet(f, S \ R)
  <2>1. \A x \in R \cup (S \ R) : f[x] \in Int
    OBVIOUS
  <2>2. SumFunctionOnSet(f, R \cup (S \ R))
            = SumFunctionOnSet(f, R) + SumFunctionOnSet(f, S \ R)
    BY <1>1, <2>1, SumOfUnion
  <2> QED
    BY <1>1, <2>2
<1>3. \A q \in SUBSET S : SumFunctionOnSet(f, q) \in Nat
  <2>1. ASSUME NEW q \in SUBSET S PROVE SumFunctionOnSet(f, q) \in Nat
    <3>1. IsFiniteSet(q) /\ \A x \in q : f[x] \in Int /\ f[x] \in Nat
      BY FS_Subset
    <3> QED
      BY <3>1, SumType
  <2> QED
    BY <2>1
<1>4. /\ SumFunctionOnSet(f, R) \in Nat /\ SumFunctionOnSet(f, S \ R) \in Nat
      /\ SumFunctionOnSet(f, S) \in Nat
  BY <1>3
<1> QED
  BY <1>2, <1>4

\* A lemma: terms of at most, or of at least, t each.
LEMMA SumBounds ==
    ASSUME NEW f, NEW S, IsFiniteSet(S), \A x \in S : f[x] \in Int, NEW t \in Int
    PROVE  /\ (\A x \in S : f[x] <= t) => SumFunctionOnSet(f, S) <= Cardinality(S) * t
           /\ (\A x \in S : f[x] >= t) => SumFunctionOnSet(f, S) >= Cardinality(S) * t
<1> DEFINE Sum(s) == SumFunctionOnSet(f, s)
           P == {s \in SUBSET S :
                    /\ (\A x \in S : f[x] <= t) => Sum(s) <= Cardinality(s) * t
                    /\ (\A x \in S : f[x] >= t) => Sum(s) >= Cardinality(s) * t}
<1>1. {} \in P
  <2>1. Sum({}) = 0 /\ Cardinality({}) = 0
    BY FS_EmptySet, SumUnfolds
  <2> HIDE DEF Sum
  <2> QED
    BY <2>1
<1>2. ASSUME NEW s \in SUBSET S, s # {}, s \ {CHOOSE x \in s : TRUE} \in P
      PROVE  s \in P
  <2> DEFINE x == CHOOSE x \in s : TRUE
             r == s \ {x}
  <2>1. /\ x \in s /\ IsFiniteSet(s) /\ IsFiniteSet(r)
        /\ Cardinality(r) = Cardinality(s) - 1
        /\ Cardinality(s) \in Nat /\ Cardinality(r) \in Nat
    BY <1>2, FS_Subset, Chosen
  <2>2. Sum(s) = f[x] + Sum(r)
    BY <1>2, <2>1, SumUnfolds
  <2>3. r \in P
    BY <1>2
  <2>4. Sum(r) \in Int
    <3>1. \A y \in r : f[y] \in Int
      OBVIOUS
    <3> HIDE DEF r
    <3> QED
      BY <2>1, <3>1, SumType
  <2>5. f[x] \in Int /\ x \in S
    BY <2>1
  <2> HIDE DEF x, r, Sum
  <2> DEFINE n == Cardinality(r)
  <2>6. Cardinality(s) * t = n * t + t /\ n * t \in Int
    <3>1. Cardinality(s) = n + 1
      BY <2>1
    <3> QED
      BY <2>1, <3>1
  <2>7. (\A y \in S : f[y] <= t) => Sum(s) <= Cardinality(s) * t
    BY <2>2, <2>3, <2>4, <2>5, <2>6
  <2>8. (\A y \in S : f[y] >= t) => Sum(s) >= Cardinality(s) * t
    BY <2>2, <2>3, <2>4, <2>5, <2>6
  <2> QED
    BY <2>7, <2>8
<1>3. P = SUBSET S
  <2> HIDE DEF P
  <2>1. P \in SUBSET (SUBSET S)
    BY DEF P
  <2> QED
    BY <1>1, <1>2, <2>1, BuildUp
<1>4. S \in P
  BY <1>3
<1> QED
  BY <1>4

\* A lemma: exchanging the elements of S for at least as many of R, none of
\* them smaller than those that go, does not make the sum smaller.
LEMMA SumOfExchange ==
    ASSUME NEW f, NEW S, NEW R, IsFiniteSet(S), IsFiniteSet(R),
           \A x \in S \cup R : f[x] \in Nat, NEW t \in Nat,
           Cardinality(S) <= Cardinality(R),
           \A x \in S \ R : f[x] <= t, \A x \in R \ S : f[x] >= t
    PROVE  SumFunctionOnSet(f, S) <= SumFunctionOnSet(f, R)
<1> DEFINE Sum(s) == SumFunctionOnSet(f, s)
           a == Cardinality(S \ R)
           b == Cardinality(R \ S)
<1>1. /\ IsFiniteSet(S \ R) /\ IsFiniteSet(R \ S) /\ IsFiniteSet(S \cap R)
      /\ (S \ R) \cap (S \cap R) = {} /\ (R \ S) \cap (S \cap R) = {}
      /\ (S \ R) \cup (S \cap R) = S /\ (R \ S) \cup (S \cap R) = R
  BY FS_Subset
<1>2. a <= b /\ a \in Nat /\ b \in Nat
  <2>1. /\ Cardinality(S) = a + Cardinality(S \cap R)
        /\ Cardinality(R) = b + Cardinality(S \cap R)
        /\ a \in Nat /\ b \in Nat /\ Cardinality(S \cap R) \in Nat
    BY <1>1, Disjoint
  <2> HIDE DEF a, b
  <2> QED
    BY <2>1
<1>3. Sum(S \ R) <= a * t /\ Sum(R \ S) >= b * t
  <2>1. (\A x \in S \ R : f[x] \in Int) /\ (\A x \in R \ S : f[x] \in Int)
    OBVIOUS
  <2> QED
    BY <1>1, <2>1, SumBounds
<1>4. /\ Sum(S) = Sum(S \ R) + Sum(S \cap R)
      /\ Sum(R) = Sum(R \ S) + Sum(S \cap R)
      /\ Sum(S \ R) \in Int /\ Sum(R \ S) \in Int /\ Sum(S \cap R) \in Int
  <2>1. /\ \A x \in (S \ R) \cup (S \cap R) : f[x] \in Int
        /\ \A x \in (R \ S) \cup (S \cap R) : f[x] \in Int
    OBVIOUS
  <2>2. Sum((S \ R) \cup (S \cap R)) = Sum(S \ R) + Sum(S \cap R)
    BY <1>1, <2>1, SumOfUnion
  <2>3. Sum((R \ S) \cup (S \cap R)) = Sum(R \ S) + Sum(S \cap R)
    BY <1>1, <2>1, SumOfUnion
  <2>4. Sum(S \ R) \in Int /\ Sum(R \ S) \in Int /\ Sum(S \cap R) \in Int
    BY <1>1, <2>1, SumType
  <2> QED
    BY <1>1, <2>2, <2>3, <2>4
<1>5. a * t <= b * t
  <2>1. \A d \in Nat : d * t >= 0
    OBVIOUS
  <2>2. b - a \in Nat
    BY <1>2
  <2> HIDE DEF a, b
  <2>3. b * t - a * t = (b - a) * t
    BY <1>2
  <2>4. a * t \in Int /\ b * t \in Int
    BY <1>2
  <2> QED
    BY <2>1, <2>2, <2>3, <2>4
<1>6. a * t \in Int /\ b * t \in Int
  BY <1>2
<1> HIDE DEF Sum, a, b
<1>7. Sum(S) <= Sum(R)
  BY <1>3, <1>4, <1>5, <1>6
<1> QED
  BY <1>7 DEF Sum

\* A lemma: a sum of sums.
LEMMA SumOfPlus ==
    ASSUME NEW f, NEW e, NEW h, NEW S, IsFiniteSet(S),
           \A x \in S : f[x] \in Int /\ e[x] \in Int /\ h[x] = f[x] + e[x]
    PROVE  SumFunctionOnSet(h, S) = SumFunctionOnSet(f, S) + SumFunctionOnSet(e, S)
<1> DEFINE Equal(s) == SumFunctionOnSet(h, s) = SumFunctionOnSet(f, s) + SumFunctionOnSet(e, s)
           P == {s \in SUBSET S : Equal(s)}
<1>1. {} \in P
  <2>1. /\ SumFunctionOnSet(h, {}) = 0 /\ SumFunctionOnSet(f, {}) = 0
        /\ SumFunctionOnSet(e, {}) = 0
    BY FS_EmptySet, SumUnfolds
  <2> QED
    BY <2>1
<1>2. ASSUME NEW s \in SUBSET S, s # {}, s \ {CHOOSE x \in s : TRUE} \in P
      PROVE  s \in P
  <2> DEFINE x == CHOOSE x \in s : TRUE
             r == s \ {x}
  <2>1. x \in S /\ IsFiniteSet(s) /\ IsFiniteSet(r)
    BY <1>2, FS_Subset
  <2>2. /\ SumFunctionOnSet(h, s) = h[x] + SumFunctionOnSet(h, r)
        /\ SumFunctionOnSet(f, s) = f[x] + SumFunctionOnSet(f, r)
        /\ SumFunctionOnSet(e, s) = e[x] + SumFunctionOnSet(e, r)
    BY <1>2, <2>1, SumUnfolds
  <2>3. Equal(r)
    BY <1>2
  <2>4. SumFunctionOnSet(f, r) \in Int /\ SumFunctionOnSet(e, r) \in Int
    <3>1. \A y \in r : f[y] \in Int /\ e[y] \in Int
      OBVIOUS
    <3> HIDE DEF r
    <3> QED
      BY <2>1, <3>1, SumType
  <2>5. f[x] \in Int /\ e[x] \in Int /\ h[x] = f[x] + e[x]
    BY <2>1
  <2> HIDE DEF x, r
  <2>6. Equal(s)
    BY <2>2, <2>3, <2>4, <2>5
  <2> QED
    BY <2>6
<1>3. P = SUBSET S
  <2> HIDE DEF P
  <2>1. P \in SUBSET (SUBSET S)
    BY DEF P
  <2> QED
    BY <1>1, <1>2, <2>1, BuildUp
<1>4. S \in P
  BY <1>3
<1> QED
  BY <1>4

\* A lemma: terms of zero add nothing.
LEMMA SumOfZeros ==
    ASSUME NEW f, NEW S, IsFiniteSet(S), \A x \in S : f[x] \in Int,
           NEW R \in SUBSET S, \A x \in S \ R : f[x] = 0
    PROVE  SumFunctionOnSet(f, S) = SumFunctionOnSet(f, R)
<1>1. IsFiniteSet(R) /\ IsFiniteSet(S \ R) /\ R \cap (S \ R) = {} /\ R \cup (S \ R) = S
  BY FS_Subset
<1>2. \A x \in R \cup (S \ R) : f[x] \in Int
  OBVIOUS
<1>3. /\ SumFunctionOnSet(f, R \cup (S \ R))
             = SumFunctionOnSet(f, R) + SumFunctionOnSet(f, S \ R)
      /\ SumFunctionOnSet(f, R) \in Int /\ SumFunctionOnSet(f, S \ R) \in Int
  BY <1>1, <1>2, SumOfUnion
<1>4. SumFunctionOnSet(f, S \ R) = 0
  <2>1. \A x \in S \ R : f[x] \in Int /\ f[x] <= 0 /\ f[x] >= 0
    OBVIOUS
  <2>2. /\ SumFunctionOnSet(f, S \ R) <= Cardinality(S \ R) * 0
        /\ SumFunctionOnSet(f, S \ R) >= Cardinality(S \ R) * 0
    BY <1>1, <2>1, SumBounds
  <2>3. Cardinality(S \ R) * 0 = 0
    BY <1>1, FS_CardinalityType
  <2> QED
    BY <1>3, <2>2, <2>3
<1>5. SumFunctionOnSet(f, S) = SumFunctionOnSet(f, R) + SumFunctionOnSet(f, S \ R)
  BY <1>1, <1>3
<1> QED
  BY <1>3, <1>4, <1>5

\* A lemma: a sum follows a change of two of its terms.
LEMMA SumOfTwoChanges ==
    ASSUME NEW f, NEW e, NEW S, IsFiniteSet(S), \A x \in S : f[x] \in Int /\ e[x] \in Int,
           NEW a \in S, NEW b \in S \ {a}, \A x \in S \ {a, b} : e[x] = f[x]
    PROVE  SumFunctionOnSet(e, S)
               = SumFunctionOnSet(f, S) + ((e[a] - f[a]) + (e[b] - f[b]))
<1> DEFINE R == S \ {a}
           Q == R \ {b}
<1>1. IsFiniteSet(R) /\ IsFiniteSet(Q) /\ b \in R
  BY FS_Subset
<1>2. /\ \A x \in R : f[x] \in Int /\ e[x] \in Int
      /\ \A x \in Q : f[x] \in Int /\ e[x] \in Int /\ f[x] = e[x]
  OBVIOUS
<1> HIDE DEF Q
<1>3. SumFunctionOnSet(f, S) = f[a] + SumFunctionOnSet(f, R)
  BY SumWithout
<1>4. SumFunctionOnSet(e, S) = e[a] + SumFunctionOnSet(e, R)
  BY SumWithout
<1> HIDE DEF R
<1>5. /\ SumFunctionOnSet(f, R) = f[b] + SumFunctionOnSet(f, Q)
      /\ SumFunctionOnSet(e, R) = e[b] + SumFunctionOnSet(e, Q)
  BY <1>1, <1>2, SumWithout DEF Q
<1>6. SumFunctionOnSet(f, Q) = SumFunctionOnSet(e, Q) /\ SumFunctionOnSet(f, Q) \in Int
  BY <1>1, <1>2, SumOfSame, SumType
<1>7. f[a] \in Int /\ e[a] \in Int /\ f[b] \in Int /\ e[b] \in Int
  OBVIOUS
<1> QED
  BY <1>3, <1>4, <1>5, <1>6, <1>7

\* A lemma: what every step of a sequence keeps holds all along it.
LEMMA Along ==
    ASSUME NEW N \in Nat, NEW c, NEW B, c[0] \in B[0],
           \A i \in 1 .. N : c[i - 1] \in B[i - 1] => c[i] \in B[i]
    PROVE  \A i \in 0 .. N : c[i] \in B[i]
<1> DEFINE T == {n \in Nat : n <= N => c[n] \in B[n]}
<1>1. 0 \in T
  OBVIOUS
<1>2. ASSUME NEW n \in T PROVE n + 1 \in T
  <2>1. CASE n + 1 <= N
    <3>1. n + 1 \in 1 .. N /\ (n + 1) - 1 = n /\ c[n] \in B[n]
      BY <1>2, <2>1
    <3>2. c[n + 1] \in B[n + 1]
      BY <3>1
    <3> QED
      BY <3>2
  <2> QED
    BY <2>1
<1>3. T = Nat
  <2> HIDE DEF T
  <2>1. T \in SUBSET Nat
    BY DEF T
  <2> QED
    BY <1>1, <1>2, <2>1, CountUp
<1> QED
  BY <1>3

\* A lemma: the image of a finite set.
LEMMA ImageIsFinite ==
    ASSUME NEW S, IsFiniteSet(S), NEW b
    PROVE  IsFiniteSet({b[x] : x \in S})
<1> DEFINE T == {b[x] : x \in S}
           f == [x \in S |-> b[x]]
<1>1. f \in Surjection(S, T)
  BY DEF Surjection
<1> HIDE DEF f, T
<1>2. IsFiniteSet(T)
  BY <1>1, FS_Surjection
<1> QED
  BY <1>2 DEF T

\* A lemma: a sum may run over the images of its indices.
LEMMA SumReindexed ==
    ASSUME NEW f, NEW S, IsFiniteSet(S), NEW h, NEW b, NEW T, T = {b[x] : x \in S},
           \A x \in S : f[x] \in Int /\ h[b[x]] = f[x],
           \A x, y \in S : b[x] = b[y] => x = y
    PROVE  SumFunctionOnSet(f, S) = SumFunctionOnSet(h, T)
<1> DEFINE Image(s) == {b[x] : x \in s}
           P == {s \in SUBSET S : SumFunctionOnSet(f, s) = SumFunctionOnSet(h, Image(s))}
<1>1. {} \in P
  <2>1. Image({}) = {}
    OBVIOUS
  <2>2. SumFunctionOnSet(f, {}) = 0 /\ SumFunctionOnSet(h, {}) = 0
    BY FS_EmptySet, SumUnfolds
  <2> QED
    BY <2>1, <2>2
<1>2. ASSUME NEW s \in SUBSET S, s # {}, s \ {CHOOSE x \in s : TRUE} \in P
      PROVE  s \in P
  <2> DEFINE x == CHOOSE x \in s : TRUE
             r == s \ {x}
  <2>1. x \in s /\ r \in P /\ x \in S
    BY <1>2
  <2>2. IsFiniteSet(s) /\ IsFiniteSet(Image(s))
    BY FS_Subset, ImageIsFinite
  <2>3. SumFunctionOnSet(f, s) = f[x] + SumFunctionOnSet(f, r)
    BY <1>2, <2>2, SumUnfolds
  <2> HIDE DEF x
  <2>4. b[x] \in Image(s) /\ Image(s) \ {b[x]} = Image(r)
    BY <2>1
  <2>5. \A y \in Image(s) : h[y] \in Int
    OBVIOUS
  <2>6. SumFunctionOnSet(h, Image(s)) = h[b[x]] + SumFunctionOnSet(h, Image(r))
    <3> HIDE DEF Image, r
    <3> QED
      BY <2>2, <2>4, <2>5, SumWithout
  <2>7. SumFunctionOnSet(f, r) = SumFunctionOnSet(h, Image(r)) /\ h[b[x]] = f[x]
    BY <2>1
  <2>8. SumFunctionOnSet(f, s) = SumFunctionOnSet(h, Image(s))
    <3> HIDE DEF Image, r
    <3> QED
      BY <2>3, <2>6, <2>7
  <2> QED
    BY <2>8
<1>3. P = SUBSET S
  <2> HIDE DEF P
  <2>1. P \in SUBSET (SUBSET S)
    BY DEF P
  <2> QED
    BY <1>1, <1>2, <2>1, BuildUp
<1>4. S \in P
  BY <1>3
<1> QED
  BY <1>4

\* A lemma: a sum is the sum of the sums over the fibres of a map.
LEMMA SumOfFibres ==
    ASSUME NEW f, NEW S, IsFiniteSet(S), \A x \in S : f[x] \in Int,
           NEW T, IsFiniteSet(T), NEW m, \A x \in S : m[x] \in T,
           NEW h, \A t \in T : h[t] = SumFunctionOnSet(f, {x \in S : m[x] = t})
    PROVE  SumFunctionOnSet(f, S) = SumFunctionOnSet(h, T)
<1> DEFINE Over(R) == {x \in S : m[x] \in R}
           P == {R \in SUBSET T : SumFunctionOnSet(f, Over(R)) = SumFunctionOnSet(h, R)}
<1>1. {} \in P
  <2>1. Over({}) = {}
    OBVIOUS
  <2>2. SumFunctionOnSet(f, {}) = 0 /\ SumFunctionOnSet(h, {}) = 0
    BY FS_EmptySet, SumUnfolds
  <2> QED
    BY <2>1, <2>2
<1>2. ASSUME NEW R \in SUBSET T, R # {}, R \ {CHOOSE x \in R : TRUE} \in P
      PROVE  R \in P
  <2> DEFINE t == CHOOSE x \in R : TRUE
             Q == R \ {t}
             one == {x \in S : m[x] = t}
  <2>1. t \in R /\ Q \in P /\ t \in T
    BY <1>2
  <2>2. IsFiniteSet(R)
    BY FS_Subset
  <2>3. SumFunctionOnSet(h, R) = h[t] + SumFunctionOnSet(h, Q)
    BY <1>2, <2>2, SumUnfolds
  <2> HIDE DEF t
  <2>4. Over(R) = one \cup Over(Q) /\ one \cap Over(Q) = {}
    BY <2>1
  <2>5. /\ IsFiniteSet(one) /\ IsFiniteSet(Over(Q))
        /\ \A x \in one \cup Over(Q) : f[x] \in Int
    BY FS_Subset
  <2>6. /\ SumFunctionOnSet(f, Over(R))
               = SumFunctionOnSet(f, one) + SumFunctionOnSet(f, Over(Q))
    <3> HIDE DEF Over, one, Q
    <3> QED
      BY <2>4, <2>5, SumOfUnion
  <2>7. SumFunctionOnSet(f, one) = h[t] /\ SumFunctionOnSet(f, Over(Q)) = SumFunctionOnSet(h, Q)
    BY <2>1
  <2>8. SumFunctionOnSet(f, Over(R)) = SumFunctionOnSet(h, R)
    <3> HIDE DEF Over, one, Q
    <3> QED
      BY <2>3, <2>6, <2>7
  <2> QED
    BY <2>8
<1>3. P = SUBSET T
  <2> HIDE DEF P
  <2>1. P \in SUBSET (SUBSET T)
    BY DEF P
  <2> QED
    BY <1>1, <1>2, <2>1, BuildUp
<1>4. T \in P /\ Over(T) = S
  BY <1>3
<1> QED
  BY <1>4

\* A lemma: of finitely many things with a score and a key, one has the least
\* key of those with the best score.
LEMMA BestOf ==
    ASSUME NEW S, IsFiniteSet(S), S # {},
           NEW f, NEW k, \A x \in S : f[x] \in Int /\ k[x] \in Int
    PROVE  \E m \in S : \A x \in S : f[m] > f[x] \/ (f[m] = f[x] /\ k[m] <= k[x])
<1> DEFINE Better(m, x) == f[m] > f[x] \/ (f[m] = f[x] /\ k[m] <= k[x])
           P == {s \in SUBSET S : s # {} => \E m \in s : \A x \in s : Better(m, x)}
<1>1. ASSUME NEW s \in SUBSET S, s # {}, s \ {CHOOSE x \in s : TRUE} \in P
      PROVE  s \in P
  <2> DEFINE y == CHOOSE x \in s : TRUE
             r == s \ {y}
  <2>1. y \in s /\ r \in P
    BY <1>1
  <2> HIDE DEF y
  <2>2. CASE r = {}
    <3>1. \A x \in s : x = y
      BY <2>2
    <3>2. Better(y, y)
      BY <2>1
    <3> HIDE DEF Better
    <3>3. \E m \in s : \A x \in s : Better(m, x)
      BY <2>1, <3>1, <3>2
    <3> QED
      BY <3>3
  <2>3. CASE r # {}
    <3>1. PICK m \in r : \A x \in r : Better(m, x)
      BY <2>1, <2>3
    <3>2. /\ f[y] \in Int /\ f[m] \in Int /\ k[y] \in Int /\ k[m] \in Int
          /\ m \in s /\ Better(y, y)
      BY <2>1
    <3>3. CASE Better(m, y)
      <4>1. \A x \in s : Better(m, x)
        <5> HIDE DEF Better
        <5> QED
          BY <3>1, <3>3
      <4> HIDE DEF Better
      <4> QED
        BY <3>2, <4>1
    <3>4. CASE ~Better(m, y)
      <4>1. ASSUME NEW x \in r PROVE Better(y, x)
        <5>1. f[x] \in Int /\ k[x] \in Int /\ Better(m, x)
          BY <3>1
        <5> QED
          BY <3>2, <3>4, <5>1
      <4>2. \A x \in s : Better(y, x)
        <5> HIDE DEF Better
        <5> QED
          BY <3>2, <4>1
      <4> HIDE DEF Better
      <4> QED
        BY <2>1, <4>2
    <3> QED
      BY <3>3, <3>4
  <2> QED
    BY <2>2, <2>3
<1>2. {} \in P
  OBVIOUS
<1>3. P = SUBSET S
  <2> HIDE DEF P
  <2>1. P \in SUBSET (SUBSET S)
    BY DEF P
  <2> QED
    BY <1>1, <1>2, <2>1, BuildUp
<1>4. S \in P
  BY <1>3
<1> QED
  BY <1>4

\* A lemma: of finitely many scored numbers, one is the first of the best.
LEMMA FirstOfBest ==
    ASSUME NEW S \in SUBSET Nat, IsFiniteSet(S), S # {}, NEW f, \A x \in S : f[x] \in Int
    PROVE  \E m \in S : \A x \in S : f[m] > f[x] \/ (f[m] = f[x] /\ m <= x)
<1> DEFINE k == [x \in S |-> x]
<1>1. \A x \in S : f[x] \in Int /\ k[x] \in Int /\ k[x] = x
  OBVIOUS
<1> HIDE DEF k
<1>2. \E m \in S : \A x \in S : f[m] > f[x] \/ (f[m] = f[x] /\ k[m] <= k[x])
  BY <1>1, BestOf
<1> QED
  BY <1>1, <1>2

\* f starts at a and takes step g[i] to its i-th value.
Takes(f, A, a, g, N) ==
    /\ f \in [0 .. N -> A]
    /\ f = [i \in 0 .. N |-> IF i = 0 THEN a ELSE g[i][f[i - 1]]]

\* A lemma: a function can be defined step by step, with a step for each
\* number.
LEMMA Recursion ==
    ASSUME NEW A, NEW a \in A, NEW N \in Nat, NEW g \in [1 .. N -> [A -> A]]
    PROVE  \E f : Takes(f, A, a, g, N)
<1> DEFINE X == Nat \X A
           Turn(x) == <<x[1] + 1, IF x[1] + 1 \in 1 .. N THEN g[x[1] + 1][x[2]] ELSE x[2]>>
           step == [x \in X |-> Turn(x)]
<1>1. step \in [X -> X]
  <2>1. ASSUME NEW x \in X PROVE Turn(x) \in X
    <3>1. CASE x[1] + 1 \in 1 .. N
      <4>1. g[x[1] + 1] \in [A -> A]
        BY <3>1
      <4>2. g[x[1] + 1][x[2]] \in A
        BY <4>1
      <4> QED
        BY <3>1, <4>2
    <3>2. CASE x[1] + 1 \notin 1 .. N
      BY <3>2
    <3> QED
      BY <3>1, <3>2
  <2> QED
    BY <2>1
<1>2. PICK F \in [0 .. N -> X] : F[0] = <<0, a>> /\ \A n \in 1 .. N : F[n] = step[F[n - 1]]
  <2> HIDE DEF step
  <2>1. <<0, a>> \in X
    OBVIOUS
  <2> HIDE DEF X
  <2>2. \E f : IsIteration(f, X, <<0, a>>, step, N)
    BY <1>1, <2>1, Iterates
  <2> QED
    BY <2>2 DEF IsIteration
<1> DEFINE B == [i \in 0 .. N |-> {x \in X : x[1] = i}]
<1>3. \A i \in 0 .. N : F[i] \in X /\ F[i][1] = i
  <2>1. F[0] \in B[0]
    BY <1>2
  <2>2. ASSUME NEW i \in 1 .. N, F[i - 1] \in B[i - 1] PROVE F[i] \in B[i]
    <3>1. i - 1 \in 0 .. N /\ i \in 0 .. N
      OBVIOUS
    <3>2. F[i - 1] \in X /\ F[i - 1][1] = i - 1
      BY <2>2, <3>1
    <3>3. F[i] = Turn(F[i - 1])
      BY <1>2, <3>2
    <3>4. F[i][1] = i
      BY <3>2, <3>3
    <3> QED
      BY <1>2, <3>1, <3>4
  <2>3. \A i \in 0 .. N : F[i] \in B[i]
    <3> HIDE DEF B
    <3> QED
      BY <2>1, <2>2, Along
  <2> QED
    BY <2>3
<1> DEFINE f == [i \in 0 .. N |-> F[i][2]]
<1>4. f \in [0 .. N -> A]
  BY <1>3
<1>5. ASSUME NEW i \in 0 .. N PROVE f[i] = IF i = 0 THEN a ELSE g[i][f[i - 1]]
  <2>1. CASE i = 0
    BY <1>2, <2>1
  <2>2. CASE i # 0
    <3>1. i \in 1 .. N /\ i - 1 \in 0 .. N /\ (i - 1) + 1 = i
      BY <2>2
    <3>2. F[i] = Turn(F[i - 1]) /\ F[i - 1][1] = i - 1
      BY <1>2, <1>3, <3>1
    <3>3. F[i][2] = g[i][F[i - 1][2]]
      BY <3>1, <3>2
    <3> QED
      BY <2>2, <3>1, <3>3
  <2> QED
    BY <2>1, <2>2
<1>6. f = [i \in 0 .. N |-> IF i = 0 THEN a ELSE g[i][f[i - 1]]]
  <2> HIDE DEF f
  <2>1. f = [i \in 0 .. N |-> f[i]]
    BY <1>4
  <2> QED
    BY <1>5, <2>1
<1>7. Takes(f, A, a, g, N)
  BY <1>4, <1>6 DEF Takes
<1> QED
  BY <1>7

\* A lemma: a factor common to all terms.
LEMMA SumScaled ==
    ASSUME NEW f, NEW h, NEW S, IsFiniteSet(S), NEW c \in Int,
           \A x \in S : f[x] \in Int /\ h[x] = c * f[x]
    PROVE  SumFunctionOnSet(h, S) = c * SumFunctionOnSet(f, S)
<1> DEFINE Equal(s) == SumFunctionOnSet(h, s) = c * SumFunctionOnSet(f, s)
           P == {s \in SUBSET S : Equal(s)}
<1>1. {} \in P
  <2>1. SumFunctionOnSet(h, {}) = 0 /\ SumFunctionOnSet(f, {}) = 0
    BY FS_EmptySet, SumUnfolds
  <2> QED
    BY <2>1
<1>2. ASSUME NEW s \in SUBSET S, s # {}, s \ {CHOOSE x \in s : TRUE} \in P
      PROVE  s \in P
  <2> DEFINE x == CHOOSE x \in s : TRUE
             r == s \ {x}
  <2>1. x \in S /\ IsFiniteSet(s) /\ IsFiniteSet(r)
    BY <1>2, FS_Subset
  <2>2. /\ SumFunctionOnSet(h, s) = h[x] + SumFunctionOnSet(h, r)
        /\ SumFunctionOnSet(f, s) = f[x] + SumFunctionOnSet(f, r)
    BY <1>2, <2>1, SumUnfolds
  <2>3. Equal(r)
    BY <1>2
  <2>4. SumFunctionOnSet(f, r) \in Int
    <3>1. \A y \in r : f[y] \in Int
      OBVIOUS
    <3> HIDE DEF r
    <3> QED
      BY <2>1, <3>1, SumType
  <2>5. f[x] \in Int /\ h[x] = c * f[x]
    BY <2>1
  <2> HIDE DEF x, r
  <2>6. \A a, b \in Int : c * (a + b) = c * a + c * b
    OBVIOUS
  <2>7. Equal(s)
    BY <2>2, <2>3, <2>4, <2>5, <2>6
  <2> QED
    BY <2>7
<1>3. P = SUBSET S
  <2> HIDE DEF P
  <2>1. P \in SUBSET (SUBSET S)
    BY DEF P
  <2> QED
    BY <1>1, <1>2, <2>1, BuildUp
<1>4. S \in P
  BY <1>3
<1> QED
  BY <1>4

\* A lemma: a sum that is no less in any term and more in one is more.
LEMMA SumIncreases ==
    ASSUME NEW f, NEW e, NEW S, IsFiniteSet(S), NEW a \in S, f[a] < e[a],
           \A x \in S : f[x] \in Int /\ e[x] \in Int /\ f[x] <= e[x]
    PROVE  SumFunctionOnSet(f, S) < SumFunctionOnSet(e, S)
<1> DEFINE h == [x \in S |-> e[x] - f[x]]
<1>1. \A x \in S : f[x] \in Int /\ h[x] \in Int /\ h[x] \in Nat /\ e[x] = f[x] + h[x]
  OBVIOUS
<1>2. h[a] >= 1
  OBVIOUS
<1> HIDE DEF h
<1>3. SumFunctionOnSet(e, S) = SumFunctionOnSet(f, S) + SumFunctionOnSet(h, S)
  BY <1>1, SumOfPlus
<1>4. SumFunctionOnSet(h, S) = h[a] + SumFunctionOnSet(h, S \ {a})
  BY <1>1, SumWithout
<1>5. SumFunctionOnSet(h, S \ {a}) \in Nat
  <2>1. IsFiniteSet(S \ {a}) /\ \A x \in S \ {a} : h[x] \in Int /\ h[x] \in Nat
    BY <1>1, FS_Subset
  <2> QED
    BY <2>1, SumType
<1>6. SumFunctionOnSet(f, S) \in Int
  BY <1>1, SumType
<1> QED
  BY <1>1, <1>2, <1>3, <1>4, <1>5, <1>6
=============================================================================
