---------------------------- MODULE OnlineProofs ----------------------------
(***************************************************************************)
(* Proofs about OnlineStream and the incremental re-partitioning it calls, *)
(* for every stream, window, staleness bound, budget and number of devices *)
(***************************************************************************)
EXTENDS OnlineStream, Counting

-----------------------------------------------------------------------------
(* Numbers, orders and iteration.                                          *)

\* A lemma: among the devices one is the first of the largest.
LEMMA FirstOfLargest ==
    ASSUME NEW x \in [Devices -> Int]
    PROVE  \E d \in Devices : \A c \in Devices : Ahead(x[d], d, x[c], c)
<1> USE PartitionAssumption DEF PartitionAssumption, Devices
<1> DEFINE Best(k, d) == \A c \in 0 .. k : Ahead(x[d], d, x[c], c)
           T == {k \in Nat : k < D => \E d \in 0 .. k : Best(k, d)}
<1>1. 0 \in T
  BY DEF Ahead
<1>2. ASSUME NEW k \in T PROVE k + 1 \in T
  <2>1. SUFFICES ASSUME k + 1 < D PROVE \E d \in 0 .. k + 1 : Best(k + 1, d)
    OBVIOUS
  <2>2. PICK d \in 0 .. k : Best(k, d)
    BY <2>1
  <2>3. /\ x[d] \in Int /\ x[k + 1] \in Int
        /\ \A c \in 0 .. k + 1 : x[c] \in Int /\ (c \in 0 .. k \/ c = k + 1)
    BY <2>1
  <2>4. CASE x[k + 1] > x[d]
    <3>1. Best(k + 1, k + 1) /\ k + 1 \in 0 .. k + 1
      BY <2>2, <2>3, <2>4 DEF Ahead
    <3> HIDE DEF Best
    <3> QED
      BY <3>1
  <2>5. CASE ~(x[k + 1] > x[d])
    <3>1. Best(k + 1, d) /\ d \in 0 .. k + 1
      BY <2>2, <2>3, <2>5 DEF Ahead
    <3> HIDE DEF Best
    <3> QED
      BY <3>1
  <2> QED
    BY <2>4, <2>5
<1>3. T = Nat
  <2> HIDE DEF T
  <2>1. T \in SUBSET Nat
    BY DEF T
  <2> QED
    BY <1>1, <1>2, <2>1, CountUp
<1>4. \E d \in 0 .. D - 1 : Best(D - 1, d)
  <2>1. D - 1 \in Nat /\ D - 1 < D
    OBVIOUS
  <2>2. D - 1 \in T
    <3> HIDE DEF T
    <3> QED
      BY <1>3, <2>1
  <2> HIDE DEF Best
  <2> QED
    BY <2>1, <2>2
<1> QED
  BY <1>4

\* How many elements of the set S are below v.
Rank(S, v) == Cardinality({u \in S : u < v})

\* A lemma: ranks are below the size of the set and tell its elements apart.
LEMMA RankIs ==
    ASSUME NEW S \in SUBSET Nat, IsFiniteSet(S)
    PROVE  /\ \A v \in S : Rank(S, v) \in 0 .. Cardinality(S) - 1
           /\ \A u, v \in S : Rank(S, u) = Rank(S, v) => u = v
<1> DEFINE n == Cardinality(S)
           Below(v) == {u \in S : u < v}
<1>1. n \in Nat
  BY FS_CardinalityType
<1>2. ASSUME NEW v \in S
      PROVE  /\ IsFiniteSet(Below(v)) /\ Cardinality(Below(v)) \in 0 .. n - 1
             /\ Rank(S, v) = Cardinality(Below(v))
  <2>1. Below(v) \in SUBSET (S \ {v}) /\ IsFiniteSet(S \ {v})
        /\ Cardinality(S \ {v}) = n - 1
    BY FS_RemoveElement
  <2>2. IsFiniteSet(Below(v)) /\ Cardinality(Below(v)) <= n - 1
    BY <2>1, FS_Subset
  <2>3. Cardinality(Below(v)) \in Nat /\ Rank(S, v) = Cardinality(Below(v))
    BY <2>2, FS_CardinalityType DEF Rank
  <2> HIDE DEF Below
  <2> QED
    BY <1>1, <2>2, <2>3
<1> HIDE DEF n
<1>3. ASSUME NEW u \in S, NEW v \in S, u < v PROVE Rank(S, u) < Rank(S, v)
  <2>1. ASSUME NEW w \in Below(u) \cup {u} PROVE w \in Below(v)
    <3>1. w \in Nat /\ u \in Nat /\ v \in Nat /\ w \in S /\ w <= u
      OBVIOUS
    <3> QED
      BY <1>3, <3>1
  <2>2. u \notin Below(u)
    OBVIOUS
  <2> HIDE DEF Below
  <2>3. Below(u) \cup {u} \in SUBSET Below(v) /\ u \notin Below(u)
    BY <2>1, <2>2
  <2>4. Cardinality(Below(u) \cup {u}) = Cardinality(Below(u)) + 1
    BY <1>2, <2>3, FS_AddElement
  <2>5. Cardinality(Below(u) \cup {u}) <= Cardinality(Below(v))
    BY <1>2, <2>3, FS_Subset
  <2>6. /\ Rank(S, u) = Cardinality(Below(u)) /\ Rank(S, v) = Cardinality(Below(v))
        /\ Cardinality(Below(u)) \in Int /\ Cardinality(Below(v)) \in Int
    BY <1>2
  <2> QED
    BY <2>4, <2>5, <2>6
<1> HIDE DEF Below
<1>4. \A u, v \in S : Rank(S, u) = Rank(S, v) => u = v
  <2> SUFFICES ASSUME NEW u \in S, NEW v \in S, Rank(S, u) = Rank(S, v), u # v PROVE FALSE
    OBVIOUS
  <2>1. u < v \/ v < u
    OBVIOUS
  <2>2. Rank(S, u) \in Int /\ Rank(S, v) \in Int
    BY <1>2
  <2> QED
    BY <1>3, <2>1, <2>2
<1> QED
  BY <1>2, <1>4 DEF n

\* A lemma: Ascending lists the set.
LEMMA AscendingLists ==
    ASSUME NEW S \in SUBSET Nat, IsFiniteSet(S)
    PROVE  /\ Ascending(S) \in Seq(S) /\ Len(Ascending(S)) = Cardinality(S)
           /\ ToSet(Ascending(S)) = S
<1> DEFINE n == Cardinality(S)
           s == Ascending(S)
           rank == [v \in S |-> Rank(S, v)]
<1>1. n \in Nat
  BY FS_CardinalityType
<1>2. \A k \in 1 .. n : \E v \in S : Rank(S, v) = k - 1
  <2>1. rank \in Injection(S, 0 .. n - 1)
    BY RankIs DEF Injection, IsInjective
  <2> HIDE DEF n
  <2>2. IsFiniteSet(0 .. n - 1) /\ Cardinality(0 .. n - 1) = n
    BY <1>1, FS_Interval
  <2>3. rank \in Surjection(S, 0 .. n - 1)
    <3> HIDE DEF rank
    <3> QED
      BY <2>1, <2>2, FS_Injection DEF n
  <2>4. ASSUME NEW k \in 1 .. n PROVE \E v \in S : rank[v] = k - 1
    <3>1. k - 1 \in 0 .. n - 1
      BY <1>1
    <3> HIDE DEF rank
    <3> QED
      BY <2>3, <3>1 DEF Surjection
  <2> QED
    BY <2>4
<1>3. s = [k \in 1 .. n |-> CHOOSE v \in S : Rank(S, v) = k - 1]
  BY DEF Ascending, Rank
<1> HIDE DEF s, n
<1>4. ASSUME NEW k \in 1 .. n PROVE s[k] \in S /\ Rank(S, s[k]) = k - 1
  <2>1. s[k] = CHOOSE v \in S : Rank(S, v) = k - 1
    BY <1>3
  <2> QED
    BY <1>2, <2>1
<1>5. s \in Seq(S) /\ Len(s) = n /\ DOMAIN s = 1 .. n
  <2>1. s \in [1 .. n -> S]
    BY <1>3, <1>4
  <2> QED
    BY <1>1, <2>1
<1>6. ASSUME NEW v \in S PROVE v \in ToSet(s)
  <2> DEFINE k == Rank(S, v) + 1
  <2>1. Rank(S, v) \in 0 .. n - 1
    BY RankIs DEF n
  <2>2. k \in 1 .. n /\ k - 1 = Rank(S, v)
    BY <1>1, <2>1
  <2> HIDE DEF k
  <2>3. s[k] = v
    BY <1>4, <2>2, RankIs
  <2> QED
    BY <1>5, <2>2, <2>3 DEF ToSet
<1>7. ToSet(s) \subseteq S
  BY <1>4, <1>5 DEF ToSet
<1> QED
  BY <1>5, <1>6, <1>7 DEF s, n

\* A lemma: at most n elements have a rank below n, the least one has.
LEMMA RanksBelow ==
    ASSUME NEW S \in SUBSET Nat, IsFiniteSet(S), NEW n \in Nat
    PROVE  /\ IsFiniteSet({v \in S : Rank(S, v) < n})
           /\ Cardinality({v \in S : Rank(S, v) < n}) <= n
           /\ n > 0 /\ S # {} => {v \in S : Rank(S, v) < n} # {}
<1> DEFINE R == {v \in S : Rank(S, v) < n}
           rank == [v \in R |-> Rank(S, v)]
<1>1. IsFiniteSet(0 .. n - 1) /\ Cardinality(0 .. n - 1) = n
  BY FS_Interval
<1>2. rank \in Injection(R, 0 .. n - 1)
  <2>1. \A v \in R : v \in S /\ Rank(S, v) \in Nat /\ Rank(S, v) < n
    BY RankIs
  <2>2. rank \in [R -> 0 .. n - 1]
    <3>1. \A v \in R : Rank(S, v) \in 0 .. n - 1
      BY <2>1
    <3> QED
      BY <3>1
  <2>3. \A u, v \in R : rank[u] = rank[v] => u = v
    BY RankIs
  <2> HIDE DEF rank, R
  <2> QED
    BY <2>2, <2>3 DEF Injection, IsInjective
<1>3. IsFiniteSet(R) /\ Cardinality(R) <= n
  <2> HIDE DEF rank, R
  <2> QED
    BY <1>1, <1>2, FS_Injection
<1>4. ASSUME n > 0, S # {} PROVE R # {}
  <2>1. PICK m \in S : \A v \in S : m <= v
    BY <1>4, Least
  <2>2. {u \in S : u < m} = {}
    <3>1. \A v \in S : m \in Nat /\ v \in Nat /\ m <= v => ~(v < m)
      OBVIOUS
    <3> QED
      BY <2>1, <3>1
  <2>3. Rank(S, m) = 0
    BY <2>2, FS_EmptySet DEF Rank
  <2> QED
    BY <1>4, <2>3
<1> QED
  BY <1>3, <1>4

-----------------------------------------------------------------------------
(* Which vertices a refresh places, and where.                             *)

Layouts(size) == [Vertex(size) -> Devices]

\* A lemma: the vertices below a size.
LEMMA VertexType ==
    ASSUME NEW size \in Nat
    PROVE  /\ Vertex(size) \in SUBSET Nat /\ IsFiniteSet(Vertex(size))
           /\ Cardinality(Vertex(size)) = size
<1>1. IsFiniteSet(0 .. size - 1) /\ Cardinality(0 .. size - 1) = size
  BY FS_Interval
<1> QED
  BY <1>1 DEF Vertex

\* A lemma: the budget, in vertices, is the percentage rounded down.
LEMMA BudgetIs ==
    ASSUME NEW size \in Nat
    PROVE  Budget(size) \in Nat /\ 100 * Budget(size) <= BudgetPercent * size
<1>1. BudgetPercent * size \in Nat
  BY PartitionAssumption DEF PartitionAssumption
<1>2. ASSUME NEW z \in Nat PROVE z \div 100 \in Nat /\ 100 * (z \div 100) <= z
  OBVIOUS
<1> QED
  BY <1>1, <1>2 DEF Budget

\* A lemma: only old vertices move, and no more of them than the budget has.
LEMMA OldMovesAre ==
    ASSUME NEW view, NEW prior, NEW lo, NEW size \in Nat,
           DOMAIN prior \in SUBSET Nat, IsFiniteSet(DOMAIN prior),
           NEW m \in OldMoves(view, prior, lo, size)
    PROVE  /\ m \in Seq(DOMAIN prior)
           /\ IsFiniteSet(ToSet(m)) /\ Cardinality(ToSet(m)) <= Budget(size)
<1> DEFINE touched == Endpoints(view, lo) \cap DOMAIN prior
           B == Budget(size)
<1>1. /\ touched \in SUBSET DOMAIN prior /\ touched \in SUBSET Nat
      /\ IsFiniteSet(touched) /\ B \in Nat
  BY BudgetIs, FS_Subset
<1>2. CASE m = << >>
  <2>1. ToSet(m) = {} /\ m \in Seq(DOMAIN prior)
    BY <1>2 DEF ToSet
  <2> QED
    BY <1>1, <2>1, FS_EmptySet
<1>3. CASE m = Ascending(touched) /\ Cardinality(touched) <= B
  <2> HIDE DEF touched
  <2>1. m \in Seq(touched) /\ ToSet(m) = touched
    BY <1>1, <1>3, AscendingLists
  <2>2. m \in Seq(DOMAIN prior)
    BY <1>1, <2>1
  <2> QED
    BY <1>1, <1>3, <2>1, <2>2
<1>4. ASSUME NEW S \in SUBSET touched, Cardinality(S) = B, m \in SetToSeqs(S)
      PROVE  /\ m \in Seq(DOMAIN prior) /\ ToSet(m) \in SUBSET S
  <2> HIDE DEF touched, B
  <2>1. m \in [1 .. B -> S]
    BY <1>4 DEF SetToSeqs
  <2>2. m \in Seq(S)
    BY <1>1, <2>1
  <2> QED
    BY <1>1, <1>4, <2>1, <2>2 DEF ToSet
<1>5. ASSUME NEW S \in SUBSET touched, Cardinality(S) = B, m \in SetToSeqs(S)
      PROVE  IsFiniteSet(ToSet(m)) /\ Cardinality(ToSet(m)) <= B
  <2> HIDE DEF touched, B
  <2>1. IsFiniteSet(S)
    BY <1>1, FS_Subset
  <2> QED
    BY <1>4, <1>5, <2>1, FS_Subset
<1>6. \/ m = << >>
      \/ m = Ascending(touched) /\ Cardinality(touched) <= B
      \/ \E S \in SUBSET touched : Cardinality(S) = B /\ m \in SetToSeqs(S)
  BY DEF OldMoves
<1> QED
  BY <1>2, <1>3, <1>4, <1>5, <1>6

\* A layout being refreshed: the prior one has fewer vertices or as many.
Grows(prior, old, size) ==
    old \in Nat /\ size \in Nat /\ old <= size /\ prior \in Layouts(old)

\* A lemma: the order lists the new vertices and those that may move.
LEMMA OrderIs ==
    ASSUME NEW view, NEW prior, NEW old, NEW lo, NEW size, Grows(prior, old, size),
           NEW order \in ToPlace(view, prior, lo, size)
    PROVE  /\ order \in Seq(Vertex(size))
           /\ Vertex(size) \ Vertex(old) \subseteq ToSet(order)
           /\ IsFiniteSet(ToSet(order) \cap Vertex(old))
           /\ Cardinality(ToSet(order) \cap Vertex(old)) <= Budget(size)
<1> DEFINE new == Vertex(size) \ Vertex(old)
           a == Ascending(new)
<1>1. /\ old \in Nat /\ size \in Nat /\ DOMAIN prior = Vertex(old)
      /\ Vertex(old) \subseteq Vertex(size) /\ Vertex(size) \in SUBSET Nat
      /\ IsFiniteSet(Vertex(size)) /\ IsFiniteSet(Vertex(old))
  <2>1. old \in Nat /\ size \in Nat /\ old <= size /\ DOMAIN prior = Vertex(old)
    BY DEF Grows, Layouts
  <2>2. Vertex(old) \subseteq Vertex(size)
    BY <2>1 DEF Vertex
  <2> QED
    BY <2>1, <2>2, VertexType
<1>2. PICK m \in OldMoves(view, prior, lo, size) : order = a \o m
  BY <1>1 DEF ToPlace
<1>3. /\ m \in Seq(Vertex(old)) /\ IsFiniteSet(ToSet(m))
      /\ Cardinality(ToSet(m)) <= Budget(size) /\ Budget(size) \in Nat
  BY <1>1, <1>2, OldMovesAre, BudgetIs
<1>4. a \in Seq(new) /\ ToSet(a) = new
  <2>1. new \in SUBSET Nat /\ IsFiniteSet(new)
    BY <1>1, FS_Subset
  <2> QED
    BY <2>1, AscendingLists
<1>5. a \in Seq(Vertex(size)) /\ m \in Seq(Vertex(size))
  BY <1>1, <1>3, <1>4
<1> HIDE DEF a
<1>6. order \in Seq(Vertex(size))
  BY <1>2, <1>5
<1>7. ToSet(order) = ToSet(a) \cup ToSet(m)
  <2>1. /\ Len(order) = Len(a) + Len(m) /\ Len(a) \in Nat /\ Len(m) \in Nat
        /\ DOMAIN order = 1 .. Len(order) /\ DOMAIN a = 1 .. Len(a)
        /\ DOMAIN m = 1 .. Len(m)
        /\ \A k \in 1 .. Len(a) : order[k] = a[k]
        /\ \A k \in 1 .. Len(m) : order[Len(a) + k] = m[k]
    BY <1>2, <1>5
  <2>2. ASSUME NEW v \in ToSet(order) PROVE v \in ToSet(a) \cup ToSet(m)
    <3>1. PICK k \in 1 .. Len(order) : order[k] = v
      BY <2>1 DEF ToSet
    <3>2. CASE k <= Len(a)
      BY <2>1, <3>1, <3>2 DEF ToSet
    <3>3. CASE k > Len(a)
      <4>1. k - Len(a) \in 1 .. Len(m) /\ Len(a) + (k - Len(a)) = k
        BY <2>1, <3>3
      <4>2. m[k - Len(a)] = v
        BY <2>1, <3>1, <4>1
      <4> QED
        BY <2>1, <4>1, <4>2 DEF ToSet
    <3> QED
      BY <2>1, <3>2, <3>3
  <2>3. ASSUME NEW v \in ToSet(a) PROVE v \in ToSet(order)
    <3>1. PICK k \in 1 .. Len(a) : a[k] = v
      BY <2>1 DEF ToSet
    <3>2. k \in 1 .. Len(order) /\ order[k] = v
      BY <2>1, <3>1
    <3> QED
      BY <2>1, <3>2 DEF ToSet
  <2>4. ASSUME NEW v \in ToSet(m) PROVE v \in ToSet(order)
    <3>1. PICK k \in 1 .. Len(m) : m[k] = v
      BY <2>1 DEF ToSet
    <3>2. Len(a) + k \in 1 .. Len(order) /\ order[Len(a) + k] = v
      BY <2>1, <3>1
    <3> QED
      BY <2>1, <3>2 DEF ToSet
  <2> QED
    BY <2>2, <2>3, <2>4
<1>8. ToSet(m) \subseteq Vertex(old)
  BY <1>3 DEF ToSet
<1>9. ToSet(order) \cap Vertex(old) = ToSet(m)
  BY <1>4, <1>7, <1>8
<1> QED
  BY <1>3, <1>4, <1>6, <1>7, <1>9

\* A lemma: a round of the propagation gives every vertex a device.
LEMMA RoundType ==
    ASSUME NEW view, IsFiniteSet(DOMAIN view), NEW prior, NEW placing,
           NEW tent \in [placing -> Devices]
    PROVE  Round(view, prior, placing, tent) \in [placing -> Devices]
<1>1. SUFFICES ASSUME NEW v \in placing
               PROVE  Round(view, prior, placing, tent)[v] \in Devices
  BY DEF Round
<1> DEFINE Vote(d) ==
               4 * Votes(view, v, {u \in DOMAIN prior \ placing : prior[u] = d})
               + Votes(view, v, {u \in placing : tent[u] = d})
           vote == [d \in Devices |-> Vote(d)]
<1>2. ASSUME NEW S PROVE Votes(view, v, S) \in Nat
  <2> DEFINE E1 == {e \in DOMAIN view : view[e][1] = v /\ view[e][2] \in S}
             E2 == {e \in DOMAIN view : view[e][2] = v /\ view[e][1] \in S}
  <2>1. E1 \in SUBSET DOMAIN view /\ E2 \in SUBSET DOMAIN view
    OBVIOUS
  <2>2. Votes(view, v, S) = Cardinality(E1) + Cardinality(E2)
    BY DEF Votes
  <2> HIDE DEF E1, E2
  <2>3. Cardinality(E1) \in Nat /\ Cardinality(E2) \in Nat
    BY <2>1, FS_Subset, FS_CardinalityType
  <2> QED
    BY <2>2, <2>3
<1>3. vote \in [Devices -> Int]
  BY <1>2
<1>4. \E d \in Devices : \A c \in Devices : Ahead(vote[d], d, vote[c], c)
  <2> HIDE DEF vote
  <2> QED
    BY <1>3, FirstOfLargest
<1>5. Round(view, prior, placing, tent)[v] =
          IF \A d \in Devices : vote[d] = 0 THEN tent[v]
          ELSE CHOOSE d \in Devices : \A c \in Devices : Ahead(vote[d], d, vote[c], c)
  BY DEF Round
<1> HIDE DEF vote
<1> QED
  BY <1>4, <1>5

\* A lemma: so do all the rounds.
LEMMA PropagatedType ==
    ASSUME NEW view, IsFiniteSet(DOMAIN view), NEW prior, NEW placing \in SUBSET Nat
    PROVE  Propagated(view, prior, placing) \in [placing -> Devices]
<1> DEFINE A == [placing -> Devices]
           first == [v \in placing |-> v % D]
           step == [t \in A |-> Round(view, prior, placing, t)]
           Rounds(tent) == [n \in 0 .. 6 |->
               IF n = 0 THEN first
               ELSE LET old == tent[n - 1]
                        new == Round(view, prior, placing, old)
                    IN  IF new = old THEN old ELSE new]
           tent == CHOOSE f : f = Rounds(f)
<1>1. first \in A
  BY PartitionAssumption DEF Devices, PartitionAssumption
<1>2. \A t \in A : Round(view, prior, placing, t) \in A
  BY RoundType
<1>3. Propagated(view, prior, placing) = tent[6]
  BY DEF Propagated
<1> HIDE DEF A, first
<1>4. \E f : f = Rounds(f)
  <2>1. step \in [A -> A]
    BY <1>2
  <2>2. PICK f \in [0 .. 6 -> A] :
            f[0] = first /\ \A n \in 1 .. 6 : f[n] = step[f[n - 1]]
    <3> HIDE DEF step
    <3>1. \E f : IsIteration(f, A, first, step, 6)
      BY <1>1, <2>1, Iterates
    <3> QED
      BY <3>1 DEF IsIteration
  <2>3. ASSUME NEW n \in 0 .. 6 PROVE f[n] = Rounds(f)[n]
    <3>1. CASE n = 0
      BY <2>2, <3>1
    <3>2. CASE n # 0
      <4>1. n \in 1 .. 6 /\ n - 1 \in 0 .. 6 /\ f[n - 1] \in A
        BY <2>2, <3>2
      <4>2. f[n] = Round(view, prior, placing, f[n - 1])
        BY <2>2, <4>1
      <4> QED
        BY <3>2, <4>2
    <3> QED
      BY <3>1, <3>2
  <2>4. f = Rounds(f)
    BY <2>2, <2>3
  <2> QED
    BY <2>4
<1>5. tent = Rounds(tent)
  BY <1>4
<1> HIDE DEF tent
<1>6. /\ tent[0] = first
      /\ \A n \in 1 .. 6 : tent[n] = Round(view, prior, placing, tent[n - 1])
  BY <1>5
<1>7. tent[1] \in A /\ tent[2] \in A /\ tent[3] \in A
  BY <1>1, <1>2, <1>6
<1>8. tent[4] \in A /\ tent[5] \in A /\ tent[6] \in A
  BY <1>2, <1>6, <1>7
<1> QED
  BY <1>3, <1>8 DEF A

\* A lemma: the scans of the relief loop find the first of the fullest and
\* the first of the emptiest devices.
LEMMA FullestIs ==
    ASSUME NEW a, IsFiniteSet(DOMAIN a)
    PROVE  /\ \A d \in Devices : LoadOn(a, d) \in Nat
           /\ Fullest(a) \in Devices
           /\ \A d \in Devices : LoadOn(a, d) <= LoadOn(a, Fullest(a))
           /\ Emptiest(a) \in Devices
           /\ \A d \in Devices : LoadOn(a, Emptiest(a)) <= LoadOn(a, d)
<1>1. ASSUME NEW d \in Devices PROVE LoadOn(a, d) \in Nat
  <2>1. {v \in DOMAIN a : a[v] = d} \in SUBSET DOMAIN a
    OBVIOUS
  <2> QED
    BY <2>1, FS_Subset, FS_CardinalityType DEF LoadOn
<1> DEFINE most  == [d \in Devices |-> LoadOn(a, d)]
           least == [d \in Devices |-> -LoadOn(a, d)]
<1>2. most \in [Devices -> Int] /\ least \in [Devices -> Int]
  BY <1>1
<1>3. \E d \in Devices : \A c \in Devices : Ahead(LoadOn(a, d), d, LoadOn(a, c), c)
  <2>1. \E d \in Devices : \A c \in Devices : Ahead(most[d], d, most[c], c)
    <3> HIDE DEF most
    <3> QED
      BY <1>2, FirstOfLargest
  <2> QED
    BY <2>1
<1>4. \E d \in Devices : \A c \in Devices : Ahead(-LoadOn(a, d), d, -LoadOn(a, c), c)
  <2>1. \E d \in Devices : \A c \in Devices : Ahead(least[d], d, least[c], c)
    <3> HIDE DEF least
    <3> QED
      BY <1>2, FirstOfLargest
  <2> QED
    BY <2>1
<1>5. /\ Fullest(a) \in Devices
      /\ \A c \in Devices : Ahead(LoadOn(a, Fullest(a)), Fullest(a), LoadOn(a, c), c)
  BY <1>3 DEF Fullest
<1>6. /\ Emptiest(a) \in Devices
      /\ \A c \in Devices : Ahead(-LoadOn(a, Emptiest(a)), Emptiest(a), -LoadOn(a, c), c)
  BY <1>4 DEF Emptiest
<1>7. \A c \in Devices : LoadOn(a, c) <= LoadOn(a, Fullest(a))
  BY <1>1, <1>5 DEF Ahead
<1>8. \A c \in Devices : LoadOn(a, Emptiest(a)) <= LoadOn(a, c)
  BY <1>1, <1>6 DEF Ahead
<1> QED
  BY <1>1, <1>5, <1>6, <1>7, <1>8

\* A lemma: an iteration of the relief loop gives every vertex a device and
\* changes only vertices that are being placed.
LEMMA ReliefType ==
    ASSUME NEW size \in Nat, NEW a \in Layouts(size), NEW order
    PROVE  /\ Relief(a, order, size) \in Layouts(size)
           /\ \A v \in Vertex(size) \ ToSet(order) : Relief(a, order, size)[v] = a[v]
<1>1. DOMAIN a = Vertex(size) /\ Emptiest(a) \in Devices
  BY VertexType, FullestIs DEF Layouts
<1>2. Taken(a, order, size) \subseteq ToSet(order)
  BY DEF Taken, ToSet
<1> QED
  BY <1>1, <1>2 DEF Relief, Layouts

\* The states of the relief loop.
IsRelief(f, a, order, size) ==
    /\ f \in [0 .. size -> Layouts(size)]
    /\ f[0] = a
    /\ \A n \in 1 .. size : f[n] = Relief(f[n - 1], order, size)

\* A lemma: the relief loop returns the last of its states.
LEMMA RelievedIs ==
    ASSUME NEW size \in Nat, NEW a \in Layouts(size), NEW order
    PROVE  \E f : IsRelief(f, a, order, size) /\ Relieved(a, order, size) = f[size]
<1> DEFINE A == Layouts(size)
           step == [b \in A |-> Relief(b, order, size)]
           States(relief) == [n \in 0 .. size |->
               IF n = 0 THEN a
               ELSE LET old == relief[n - 1]
                        new == Relief(old, order, size)
                    IN  IF new = old THEN old ELSE new]
           relief == CHOOSE f : f = States(f)
<1>1. \A b \in A : Relief(b, order, size) \in A
  BY ReliefType
<1>2. Relieved(a, order, size) = relief[size]
  BY DEF Relieved
<1>3. PICK f \in [0 .. size -> A] :
          f[0] = a /\ \A n \in 1 .. size : f[n] = step[f[n - 1]]
  <2>1. step \in [A -> A]
    BY <1>1
  <2> HIDE DEF step, A
  <2>2. a \in A /\ size \in Nat
    BY DEF A
  <2> QED
    <3>1. \E f : IsIteration(f, A, a, step, size)
      BY <2>1, <2>2, Iterates
    <3> QED
      BY <3>1 DEF IsIteration
<1> HIDE DEF A
<1>4. ASSUME NEW n \in 1 .. size
      PROVE  f[n] = Relief(f[n - 1], order, size) /\ f[n - 1] \in A
  <2>1. n - 1 \in 0 .. size
    OBVIOUS
  <2> QED
    BY <1>3, <2>1
<1>5. f = States(f)
  <2>1. ASSUME NEW n \in 0 .. size PROVE f[n] = States(f)[n]
    <3>1. CASE n = 0
      BY <1>3, <3>1
    <3>2. CASE n # 0
      <4>1. n \in 1 .. size
        BY <3>2
      <4> QED
        BY <1>4, <3>2, <4>1
    <3> QED
      BY <3>1, <3>2
  <2> QED
    BY <1>3, <2>1
<1>6. relief = States(relief)
  BY <1>5
<1> HIDE DEF relief
<1>7. relief = f
  <2> DEFINE T == {n \in Nat : n <= size => relief[n] = f[n]}
  <2>1. 0 \in T
    BY <1>3, <1>6
  <2>2. ASSUME NEW n \in T PROVE n + 1 \in T
    <3>1. SUFFICES ASSUME n + 1 <= size PROVE relief[n + 1] = f[n + 1]
      OBVIOUS
    <3>2. n \in Nat /\ n + 1 \in 1 .. size /\ (n + 1) - 1 = n /\ relief[n] = f[n]
      BY <3>1
    <3>3. relief[n + 1] = Relief(relief[n], order, size)
      BY <1>6, <3>2
    <3> QED
      BY <1>4, <3>2, <3>3
  <2>3. T = Nat
    <3> HIDE DEF T
    <3>1. T \in SUBSET Nat
      BY DEF T
    <3> QED
      BY <2>1, <2>2, <3>1, CountUp
  <2>4. \A n \in 0 .. size : relief[n] = f[n]
    <3>1. \A n \in 0 .. size : n \in Nat /\ n <= size
      OBVIOUS
    <3> QED
      BY <2>3, <3>1
  <2>5. relief = [n \in 0 .. size |-> relief[n]]
    BY <1>6
  <2> QED
    BY <1>3, <2>4, <2>5
<1>8. IsRelief(f, a, order, size)
  BY <1>3, <1>4 DEF IsRelief, A
<1> QED
  BY <1>2, <1>7, <1>8

\* A lemma: the relief loop gives every vertex a device and changes only
\* vertices that are being placed.
LEMMA RelievedType ==
    ASSUME NEW size \in Nat, NEW a \in Layouts(size), NEW order
    PROVE  /\ Relieved(a, order, size) \in Layouts(size)
           /\ \A v \in Vertex(size) \ ToSet(order) :
                  Relieved(a, order, size)[v] = a[v]
<1>1. PICK f : IsRelief(f, a, order, size) /\ Relieved(a, order, size) = f[size]
  BY RelievedIs
<1> DEFINE Keeps(b) == \A v \in Vertex(size) \ ToSet(order) : b[v] = a[v]
           T == {n \in Nat : n <= size => Keeps(f[n])}
<1>2. 0 \in T
  BY <1>1 DEF IsRelief
<1>3. ASSUME NEW n \in T PROVE n + 1 \in T
  <2>1. SUFFICES ASSUME n + 1 <= size PROVE Keeps(f[n + 1])
    OBVIOUS
  <2>2. n + 1 \in 1 .. size /\ n \in 0 .. size /\ (n + 1) - 1 = n /\ Keeps(f[n])
    BY <2>1
  <2>3. f[n + 1] = Relief(f[n], order, size) /\ f[n] \in Layouts(size)
    BY <1>1, <2>2 DEF IsRelief
  <2> QED
    BY <2>2, <2>3, ReliefType
<1>4. T = Nat
  <2> HIDE DEF T
  <2>1. T \in SUBSET Nat
    BY DEF T
  <2> QED
    BY <1>2, <1>3, <2>1, CountUp
<1>5. Keeps(f[size]) /\ size \in 0 .. size
  BY <1>4
<1> QED
  BY <1>1, <1>5 DEF IsRelief

\* A lemma: the layout before the relief has every vertex on a device, and
\* the vertices that are not placed where they were.
LEMMA PlacedType ==
    ASSUME NEW view, IsFiniteSet(DOMAIN view), NEW prior, NEW old, NEW lo, NEW size,
           Grows(prior, old, size), NEW order \in ToPlace(view, prior, lo, size)
    PROVE  /\ Placed(view, prior, order, size) \in Layouts(size)
           /\ \A v \in Vertex(old) \ ToSet(order) :
                  Placed(view, prior, order, size)[v] = prior[v]
<1> DEFINE placing == ToSet(order)
           tent == Propagated(view, prior, placing)
           new == Placed(view, prior, order, size)
<1>1. /\ old \in Nat /\ size \in Nat /\ old <= size /\ DOMAIN prior = Vertex(old)
      /\ \A v \in Vertex(old) : prior[v] \in Devices
  BY DEF Grows, Layouts
<1>2. Vertex(old) \subseteq Vertex(size) /\ Vertex(size) \in SUBSET Nat
  BY <1>1 DEF Vertex
<1>3. order \in Seq(Vertex(size)) /\ Vertex(size) \ Vertex(old) \subseteq placing
  BY OrderIs
<1>4. placing \in SUBSET Nat
  BY <1>2, <1>3 DEF ToSet
<1>5. tent \in [placing -> Devices]
  BY <1>4, PropagatedType
<1>6. new = [v \in Vertex(size) |-> IF v \in placing THEN tent[v]
                                    ELSE IF v \in Vertex(old) THEN prior[v]
                                    ELSE Unplaced]
  BY <1>1 DEF Placed
<1> HIDE DEF placing, tent, new
<1>7. new \in Layouts(size)
  BY <1>1, <1>3, <1>5, <1>6 DEF Layouts
<1>8. \A v \in Vertex(old) \ placing : new[v] = prior[v]
  BY <1>2, <1>6
<1> QED
  BY <1>7, <1>8 DEF new, placing

\* A lemma: partition_incremental moves old vertices within the budget.
LEMMA IncrementalIs ==
    ASSUME NEW view, IsFiniteSet(DOMAIN view), NEW prior, NEW old, NEW lo, NEW size,
           Grows(prior, old, size),
           NEW cur \in PartitionIncremental(view, prior, lo, size)
    PROVE  /\ cur \in Layouts(size)
           /\ Changed(prior, cur) \in Nat /\ Changed(prior, cur) <= Budget(size)
<1>1. PICK order \in ToPlace(view, prior, lo, size) :
          cur = Relieved(Placed(view, prior, order, size), order, size)
  BY DEF PartitionIncremental
<1> DEFINE a == Placed(view, prior, order, size)
<1>2. /\ old \in Nat /\ size \in Nat /\ DOMAIN prior = Vertex(old)
      /\ Vertex(old) \subseteq Vertex(size)
  BY DEF Grows, Layouts, Vertex
<1>3. a \in Layouts(size) /\ \A v \in Vertex(old) \ ToSet(order) : a[v] = prior[v]
  BY PlacedType
<1> HIDE DEF a
<1>4. cur \in Layouts(size) /\ \A v \in Vertex(size) \ ToSet(order) : cur[v] = a[v]
  <2>1. cur = Relieved(a, order, size)
    BY <1>1 DEF a
  <2> QED
    BY <1>2, <1>3, <2>1, RelievedType
<1>5. {v \in DOMAIN prior : prior[v] # cur[v]} \in SUBSET (ToSet(order) \cap Vertex(old))
  BY <1>2, <1>3, <1>4
<1>6. /\ IsFiniteSet(ToSet(order) \cap Vertex(old))
      /\ Cardinality(ToSet(order) \cap Vertex(old)) <= Budget(size)
  BY OrderIs
<1>7. /\ Cardinality(ToSet(order) \cap Vertex(old)) \in Nat /\ Budget(size) \in Nat
      /\ Changed(prior, cur) \in Nat
      /\ Changed(prior, cur) <= Cardinality(ToSet(order) \cap Vertex(old))
  BY <1>2, <1>5, <1>6, BudgetIs, FS_Subset, FS_CardinalityType DEF Changed
<1> QED
  BY <1>4, <1>6, <1>7

-----------------------------------------------------------------------------
(* The renaming of the labels.                                             *)

\* A lemma: of some label maps, one is listed before all the others.
LEMMA ListedFirst ==
    ASSUME NEW P \in SUBSET [Devices -> Devices], P # {}
    PROVE  \E p \in P : \A q \in P \ {p} : ListedBefore(p, q)
<1> USE PartitionAssumption DEF PartitionAssumption, Devices
<1> DEFINE Same(p, q, k) == \A c \in 0 .. k - 1 : p[c] = q[c]
           Before(p, q, k) == \E d \in 0 .. k - 1 : p[d] < q[d] /\ Same(p, q, d)
           First(p, k) == \A q \in P : Before(p, q, k) \/ Same(p, q, k)
           T == {k \in Nat : k <= D => \E p \in P : First(p, k)}
<1>1. 0 \in T
  <2>1. PICK p \in P : TRUE
    OBVIOUS
  <2>2. First(p, 0)
    OBVIOUS
  <2> QED
    BY <2>2
<1>2. ASSUME NEW k \in T PROVE k + 1 \in T
  <2>1. SUFFICES ASSUME k + 1 <= D PROVE \E p \in P : First(p, k + 1)
    OBVIOUS
  <2>2. k \in Nat /\ k \in Devices /\ k <= D
    BY <2>1
  <2>3. PICK p \in P : First(p, k)
    BY <2>2
  <2> DEFINE Q == {q \in P : Same(p, q, k)}
             L == {q[k] : q \in Q}
  <2>4. L \in SUBSET Nat /\ L # {}
    <3>1. \A q \in P : q[k] \in Nat
      BY <2>2
    <3>2. p[k] \in L
      OBVIOUS
    <3>3. L \in SUBSET Nat
      <4>1. ASSUME NEW j \in L PROVE j \in Nat
        <5>1. PICK q \in P : j = q[k]
          OBVIOUS
        <5> QED
          BY <3>1, <5>1
      <4> HIDE DEF L
      <4> QED
        BY <4>1
    <3> HIDE DEF L
    <3> QED
      BY <3>2, <3>3
  <2>5. PICK l \in L : \A j \in L : l <= j
    <3> HIDE DEF L
    <3> QED
      BY <2>4, Least
  <2>6. PICK r \in Q : r[k] = l
    OBVIOUS
  <2>7. ASSUME NEW q \in P PROVE Before(r, q, k + 1) \/ Same(r, q, k + 1)
    <3>0. \A d \in 0 .. k - 1 : \A c \in 0 .. d - 1 : c \in 0 .. k - 1
      BY <2>2
    <3>1. \A c \in 0 .. k - 1 : r[c] = p[c]
      BY <2>2, <2>6
    <3>2. CASE Before(p, q, k)
      <4>1. PICK d \in 0 .. k - 1 : p[d] < q[d] /\ Same(p, q, d)
        BY <3>2
      <4>2. d \in 0 .. k + 1 - 1 /\ r[d] < q[d] /\ Same(r, q, d)
        BY <2>2, <3>0, <3>1, <4>1
      <4> QED
        BY <4>2
    <3>3. CASE Same(p, q, k)
      <4>1. q \in Q /\ Same(r, q, k)
        BY <3>1, <3>3
      <4>2. r[k] <= q[k] /\ r[k] \in Nat /\ q[k] \in Nat
        BY <2>4, <2>5, <2>6, <4>1
      <4>3. CASE r[k] < q[k]
        <5>1. k \in 0 .. k + 1 - 1
          BY <2>2
        <5> QED
          BY <4>1, <4>3, <5>1
      <4>4. CASE r[k] = q[k]
        <5>1. \A c \in 0 .. k + 1 - 1 : c \in 0 .. k - 1 \/ c = k
          BY <2>2
        <5>2. ASSUME NEW c \in 0 .. k + 1 - 1 PROVE r[c] = q[c]
          BY <4>1, <4>4, <5>1
        <5> QED
          BY <5>2
      <4>5. r[k] < q[k] \/ r[k] = q[k]
        <5>1. ASSUME NEW x \in Nat, NEW y \in Nat, x <= y PROVE x < y \/ x = y
          BY <5>1
        <5> QED
          BY <4>2, <5>1
      <4> HIDE DEF Before, Same
      <4> QED
        BY <4>3, <4>4, <4>5
    <3> HIDE DEF Before, Same
    <3> QED
      BY <2>3, <3>2, <3>3
  <2> QED
    BY <2>6, <2>7
<1>3. T = Nat
  <2> HIDE DEF T
  <2>1. T \in SUBSET Nat
    BY DEF T
  <2> QED
    BY <1>1, <1>2, <2>1, CountUp
<1>4. \E p \in P : First(p, D)
  <2>1. D \in T
    <3> HIDE DEF T
    <3> QED
      BY <1>3
  <2> HIDE DEF First
  <2> QED
    BY <2>1
<1>5. PICK p \in P : First(p, D)
  BY <1>4
<1>6. ASSUME NEW q \in P \ {p} PROVE ListedBefore(p, q)
  <2>1. ~Same(p, q, D)
    <3> SUFFICES ASSUME Same(p, q, D) PROVE p = q
      OBVIOUS
    <3> QED
      OBVIOUS
  <2>2. Before(p, q, D)
    BY <1>5, <2>1
  <2> QED
    BY <2>2 DEF ListedBefore
<1> QED
  BY <1>6

\* The label maps that leave as many old vertices in place as cur does.
Gentle(p, prior, cur) ==
    /\ p \in [Devices -> Devices]
    /\ Changed(prior, Through(p, cur)) <= Changed(prior, cur)

\* A lemma: the search over the permutations ends with one that moves no
\* more than leaving the labels alone.
LEMMA ExactIsGentle ==
    ASSUME NEW prior, NEW old, NEW size, Grows(prior, old, size), NEW cur \in Layouts(size)
    PROVE  ExactRemap(prior, cur) \in Permutation /\ Gentle(ExactRemap(prior, cur), prior, cur)
<1> DEFINE Cost(p) == Changed(prior, Through(p, cur))
           id == [d \in Devices |-> d]
<1>1. old \in Nat /\ size \in Nat /\ DOMAIN prior = Vertex(old) /\ IsFiniteSet(DOMAIN prior)
  BY VertexType DEF Grows, Layouts
<1>2. ASSUME NEW p PROVE Cost(p) \in Nat
  <2>1. {v \in DOMAIN prior : prior[v] # Through(p, cur)[v]} \in SUBSET DOMAIN prior
    OBVIOUS
  <2> QED
    BY <1>1, <2>1, FS_Subset, FS_CardinalityType DEF Changed
<1>3. id \in Permutation
  BY DEF Permutation
<1>4. Cost(id) = Changed(prior, cur)
  <2>1. Through(id, cur) = cur
    BY DEF Through, Layouts
  <2> QED
    BY <2>1
<1> HIDE DEF Cost, id
<1> DEFINE Costs == {Cost(p) : p \in Permutation}
<1>5. PICK m \in Costs : \A n \in Costs : m <= n
  <2>1. Costs \in SUBSET Nat /\ Costs # {}
    BY <1>2, <1>3
  <2> HIDE DEF Costs
  <2> QED
    BY <2>1, Least
<1> DEFINE P == {p \in Permutation : Cost(p) = m}
<1>6. PICK p \in P : \A q \in P \ {p} : ListedBefore(p, q)
  <2>1. P \in SUBSET [Devices -> Devices] /\ P # {}
    BY DEF Permutation
  <2> HIDE DEF P
  <2> QED
    BY <2>1, ListedFirst
<1> DEFINE cost == [q \in Permutation |-> Cost(q)]
           Is(r) == \A q \in Permutation \ {r} :
                        cost[r] < cost[q] \/ (cost[r] = cost[q] /\ ListedBefore(r, q))
<1>7. p \in Permutation /\ Is(p)
  <2>1. ASSUME NEW q \in Permutation \ {p}
        PROVE  cost[p] < cost[q] \/ (cost[p] = cost[q] /\ ListedBefore(p, q))
    <3>1. cost[p] = m /\ cost[q] = Cost(q) /\ Cost(q) \in Nat /\ m \in Nat /\ m <= Cost(q)
      BY <1>2, <1>5
    <3>2. CASE Cost(q) = m
      BY <1>6, <3>1, <3>2
    <3> QED
      BY <3>1, <3>2
  <2> QED
    BY <2>1
<1>8. ExactRemap(prior, cur) = CHOOSE r \in Permutation : Is(r)
  BY DEF ExactRemap, Cost
<1> DEFINE e == ExactRemap(prior, cur)
<1>9. e \in Permutation /\ Is(e)
  <2> HIDE DEF Is
  <2> QED
    BY <1>7, <1>8
<1> HIDE DEF e
<1>10. Cost(e) <= Cost(id)
  <2>1. CASE e = id
    BY <1>2, <2>1
  <2>2. CASE e # id
    BY <1>2, <1>3, <1>9, <2>2
  <2> QED
    BY <2>1, <2>2
<1>11. Gentle(e, prior, cur)
  BY <1>4, <1>9, <1>10 DEF Gentle, Cost, Permutation
<1> QED
  BY <1>9, <1>11 DEF e

\* A lemma: so does the greedy map, although it may merge two labels.
LEMMA GreedyIsGentle ==
    ASSUME NEW prior, NEW old, NEW size, Grows(prior, old, size), NEW cur \in Layouts(size)
    PROVE  Gentle(GreedyRemap(prior, cur), prior, cur)
<1> DEFINE V == DOMAIN prior
           Both(d, c) == {v \in V : cur[v] = d /\ prior[v] = c}
           overlap == [d \in Devices |-> [c \in Devices |-> Cardinality(Both(d, c))]]
           g == GreedyRemap(prior, cur)
<1>1. /\ IsFiniteSet(V) /\ V \subseteq DOMAIN cur
      /\ \A v \in V : cur[v] \in Devices /\ prior[v] \in Devices
  <2>1. old \in Nat /\ size \in Nat /\ V = Vertex(old) /\ DOMAIN cur = Vertex(size)
    BY DEF Grows, Layouts
  <2>2. IsFiniteSet(V) /\ V \subseteq DOMAIN cur
    BY <2>1, VertexType DEF Grows, Vertex
  <2> QED
    BY <2>2 DEF Grows, Layouts
<1>2. ASSUME NEW d, NEW c
      PROVE  IsFiniteSet(Both(d, c)) /\ Cardinality(Both(d, c)) \in Nat
  <2>1. Both(d, c) \in SUBSET V
    OBVIOUS
  <2> QED
    BY <1>1, <2>1, FS_Subset, FS_CardinalityType
<1>3. ASSUME NEW d \in Devices
      PROVE  /\ g[d] \in Devices
             /\ Cardinality(Both(d, d)) <= Cardinality(Both(d, g[d]))
  <2>1. overlap[d] \in [Devices -> Int]
    BY <1>2
  <2>2. \E c \in Devices : \A e \in Devices : Ahead(overlap[d][c], c, overlap[d][e], e)
    <3> DEFINE x == overlap[d]
    <3>1. \E c \in Devices : \A e \in Devices : Ahead(x[c], c, x[e], e)
      <4> HIDE DEF x, overlap
      <4> QED
        BY <2>1, FirstOfLargest DEF x
    <3> QED
      BY <3>1
  <2>3. g[d] = CHOOSE c \in Devices : \A e \in Devices :
                   Ahead(overlap[d][c], c, overlap[d][e], e)
    BY DEF GreedyRemap
  <2> HIDE DEF g
  <2>4. g[d] \in Devices /\ Ahead(overlap[d][g[d]], g[d], overlap[d][d], d)
    <3> HIDE DEF overlap
    <3> QED
      BY <2>2, <2>3
  <2>5. /\ overlap[d][g[d]] = Cardinality(Both(d, g[d]))
        /\ overlap[d][d] = Cardinality(Both(d, d))
    BY <2>4
  <2> HIDE DEF overlap, Both
  <2> QED
    BY <1>2, <2>4, <2>5 DEF Ahead
<1>4. g \in [Devices -> Devices]
  <2>1. g = [d \in Devices |-> CHOOSE c \in Devices : \A e \in Devices :
                Ahead(overlap[d][c], c, overlap[d][e], e)]
    BY DEF GreedyRemap
  <2> HIDE DEF g, overlap
  <2> QED
    BY <1>3, <2>1
<1> HIDE DEF g, overlap
<1> DEFINE K1(k) == {v \in V : cur[v] < k /\ prior[v] = cur[v]}
           K2(k) == {v \in V : cur[v] < k /\ prior[v] = g[cur[v]]}
           T == {k \in Nat : k <= D => Cardinality(K1(k)) <= Cardinality(K2(k))}
<1>5. 0 \in T
  <2>1. K1(0) = {} /\ K2(0) = {}
    BY <1>1 DEF Devices
  <2> QED
    BY <2>1, FS_EmptySet
<1>6. ASSUME NEW k PROVE IsFiniteSet(K1(k)) /\ IsFiniteSet(K2(k))
  <2>1. K1(k) \in SUBSET V /\ K2(k) \in SUBSET V
    OBVIOUS
  <2> QED
    BY <1>1, <2>1, FS_Subset
<1>7. ASSUME NEW k \in T PROVE k + 1 \in T
  <2>1. SUFFICES ASSUME k + 1 <= D
                 PROVE  Cardinality(K1(k + 1)) <= Cardinality(K2(k + 1))
    OBVIOUS
  <2>2. k \in Nat /\ k \in Devices /\ Cardinality(K1(k)) <= Cardinality(K2(k))
    BY <2>1, PartitionAssumption DEF Devices, PartitionAssumption
  <2>3. \A v \in V : cur[v] \in Nat /\ (cur[v] < k + 1 <=> cur[v] < k \/ cur[v] = k)
    BY <1>1, <2>2 DEF Devices
  <2>4. /\ K1(k + 1) = K1(k) \cup Both(k, k) /\ K1(k) \cap Both(k, k) = {}
        /\ K2(k + 1) = K2(k) \cup Both(k, g[k]) /\ K2(k) \cap Both(k, g[k]) = {}
    BY <2>3
  <2> HIDE DEF K1, K2, Both
  <2>5. /\ Cardinality(K1(k + 1)) = Cardinality(K1(k)) + Cardinality(Both(k, k))
        /\ Cardinality(K2(k + 1)) = Cardinality(K2(k)) + Cardinality(Both(k, g[k]))
        /\ Cardinality(K1(k)) \in Nat /\ Cardinality(K2(k)) \in Nat
    BY <1>2, <1>6, <2>4, Disjoint
  <2> QED
    BY <1>2, <1>3, <2>2, <2>5
<1>8. T = Nat
  <2> HIDE DEF T
  <2>1. T \in SUBSET Nat
    BY DEF T
  <2> QED
    BY <1>5, <1>7, <2>1, CountUp
<1>9. Cardinality(K1(D)) <= Cardinality(K2(D))
  <2>1. D \in T /\ D \in Nat /\ D <= D
    <3> HIDE DEF T
    <3> QED
      BY <1>8, PartitionAssumption DEF PartitionAssumption
  <2> HIDE DEF K1, K2
  <2> QED
    BY <2>1
<1> DEFINE M1 == {v \in V : prior[v] # cur[v]}
           M2 == {v \in V : prior[v] # Through(g, cur)[v]}
<1>10. M1 = V \ K1(D) /\ M2 = V \ K2(D) /\ K1(D) \subseteq V /\ K2(D) \subseteq V
  <2>1. \A v \in V : cur[v] < D /\ Through(g, cur)[v] = g[cur[v]]
    BY <1>1, PartitionAssumption DEF Through, Devices, PartitionAssumption
  <2> QED
    BY <2>1
<1>11. Changed(prior, cur) = Cardinality(M1) /\ Changed(prior, Through(g, cur)) = Cardinality(M2)
  BY DEF Changed
<1> HIDE DEF M1, M2, K1, K2
<1>12. /\ Cardinality(M1) = Cardinality(V) - Cardinality(K1(D))
       /\ Cardinality(M2) = Cardinality(V) - Cardinality(K2(D))
       /\ Cardinality(V) \in Nat /\ Cardinality(K1(D)) \in Nat /\ Cardinality(K2(D)) \in Nat
  <2>1. V \cap K1(D) = K1(D) /\ V \cap K2(D) = K2(D) /\ IsFiniteSet(V)
        /\ IsFiniteSet(K1(D)) /\ IsFiniteSet(K2(D))
    BY <1>1, <1>10, FS_Subset
  <2>2. Cardinality(V \ K1(D)) = Cardinality(V) - Cardinality(V \cap K1(D))
    BY <2>1, FS_Difference
  <2>3. Cardinality(V \ K2(D)) = Cardinality(V) - Cardinality(V \cap K2(D))
    BY <2>1, FS_Difference
  <2>4. Cardinality(V) \in Nat /\ Cardinality(K1(D)) \in Nat /\ Cardinality(K2(D)) \in Nat
    BY <2>1, FS_CardinalityType
  <2> QED
    BY <1>10, <2>1, <2>2, <2>3, <2>4
<1> QED
  BY <1>4, <1>9, <1>11, <1>12 DEF Gentle, g

\* A lemma: the renamed layout has every vertex on a device and moves no
\* more old vertices.
LEMMA MatchIs ==
    ASSUME NEW prior, NEW old, NEW size, Grows(prior, old, size), NEW cur \in Layouts(size)
    PROVE  /\ MigrationMatch(prior, cur) \in Layouts(size)
           /\ Changed(prior, MigrationMatch(prior, cur)) <= Changed(prior, cur)
<1>1. ASSUME NEW p, Gentle(p, prior, cur)
      PROVE  /\ Through(p, cur) \in Layouts(size)
             /\ Changed(prior, Through(p, cur)) <= Changed(prior, cur)
  BY <1>1 DEF Gentle, Through, Layouts
<1>2. Changed(prior, cur) \in Nat
  <2>1. {v \in DOMAIN prior : prior[v] # cur[v]} \in SUBSET DOMAIN prior
    OBVIOUS
  <2>2. IsFiniteSet(DOMAIN prior)
    BY VertexType DEF Grows, Layouts
  <2> QED
    BY <2>1, <2>2, FS_Subset, FS_CardinalityType DEF Changed
<1>3. CASE DOMAIN prior = {}
  BY <1>2, <1>3 DEF MigrationMatch
<1>4. CASE DOMAIN prior # {}
  BY <1>1, <1>4, ExactIsGentle, GreedyIsGentle DEF MigrationMatch
<1> QED
  BY <1>3, <1>4

-----------------------------------------------------------------------------
(* The balance.                                                            *)

\* A lemma: the capacity leaves room for one vertex more, and grows.
LEMMA CapIs ==
    ASSUME NEW size \in Nat
    PROVE  /\ CapOf(size) \in Nat /\ D * CapOf(size) > size
           /\ \A old \in Nat : old <= size => CapOf(old) <= CapOf(size)
<1> USE PartitionAssumption DEF PartitionAssumption
<1>1. ASSUME NEW n \in Nat
      PROVE  n \div D \in Nat /\ D * (n \div D) <= n /\ n < D * (n \div D) + D
  OBVIOUS
<1>2. ASSUME NEW q \in Nat, NEW r \in Nat, q < r PROVE D * q + D <= D * r
  <2> DEFINE k == r - q - 1
  <2>1. k \in Nat /\ r = q + (1 + k)
    BY <1>2
  <2> HIDE DEF k
  <2>2. D * (q + (1 + k)) = D * q + D * (1 + k)
    BY <2>1
  <2>3. D * (1 + k) = D + D * k
    BY <2>1
  <2>4. D * k \in Nat /\ D * q \in Nat
    BY <2>1
  <2> QED
    BY <2>1, <2>2, <2>3, <2>4
<1>3. CapOf(size) \in Nat /\ D * CapOf(size) > size
  <2>1. D * (size \div D + 1) = D * (size \div D) + D
    BY <1>1
  <2> QED
    BY <1>1, <2>1 DEF CapOf
<1>4. ASSUME NEW old \in Nat, old <= size PROVE CapOf(old) <= CapOf(size)
  <2> DEFINE q == old \div D
             r == size \div D
  <2>1. q \in Nat /\ r \in Nat /\ D * q <= old /\ size < D * r + D
    BY <1>1
  <2> HIDE DEF q, r
  <2>2. ~(r < q)
    <3> SUFFICES ASSUME r < q PROVE FALSE
      OBVIOUS
    <3>1. D * r + D <= D * q
      BY <1>2, <2>1
    <3>2. D * r \in Nat /\ D * q \in Nat
      BY <2>1
    <3> QED
      BY <1>4, <2>1, <3>1, <3>2
  <2> QED
    BY <2>1, <2>2 DEF CapOf, q, r
<1> QED
  BY <1>3, <1>4

\* A lemma: some device has room.
LEMMA SomeRoom ==
    ASSUME NEW size \in Nat, NEW a \in Layouts(size)
    PROVE  LoadOn(a, Emptiest(a)) < CapOf(size)
<1> SUFFICES ASSUME ~(LoadOn(a, Emptiest(a)) < CapOf(size)) PROVE FALSE
  OBVIOUS
<1> DEFINE V == Vertex(size)
           cap == CapOf(size)
           On(d) == {v \in V : a[v] = d}
           Under(k) == {v \in V : a[v] < k}
<1>1. /\ DOMAIN a = V /\ IsFiniteSet(V) /\ Cardinality(V) = size
      /\ \A v \in V : a[v] \in Devices
      /\ D \in Nat /\ cap \in Nat /\ D * cap > size
  BY VertexType, CapIs, PartitionAssumption DEF Layouts, PartitionAssumption
<1>2. \A d \in Devices : LoadOn(a, d) = Cardinality(On(d)) /\ LoadOn(a, d) \in Nat
  BY <1>1, FullestIs DEF LoadOn
<1>3. \A d \in Devices : cap <= LoadOn(a, d)
  <2>1. Emptiest(a) \in Devices /\ \A d \in Devices : LoadOn(a, Emptiest(a)) <= LoadOn(a, d)
    BY <1>1, FullestIs
  <2>2. LoadOn(a, Emptiest(a)) \in Nat
    BY <1>2, <2>1
  <2>3. ~(LoadOn(a, Emptiest(a)) < cap)
    OBVIOUS
  <2> HIDE DEF cap
  <2>4. cap <= LoadOn(a, Emptiest(a))
    BY <1>1, <2>2, <2>3
  <2>5. cap \in Nat /\ \A d \in Devices : LoadOn(a, d) \in Nat
    BY <1>1, <1>2
  <2> QED
    BY <2>1, <2>2, <2>4, <2>5
<1> DEFINE T == {k \in Nat : k <= D => k * cap <= Cardinality(Under(k))}
<1>4. ASSUME NEW k PROVE IsFiniteSet(Under(k)) /\ IsFiniteSet(On(k))
  <2>1. Under(k) \in SUBSET V /\ On(k) \in SUBSET V
    OBVIOUS
  <2> QED
    BY <1>1, <2>1, FS_Subset
<1> HIDE DEF cap
<1>5. 0 \in T
  <2>1. Cardinality(Under(0)) \in Nat
    BY <1>4, FS_CardinalityType
  <2> HIDE DEF Under
  <2> QED
    BY <1>1, <2>1
<1>6. ASSUME NEW k \in T PROVE k + 1 \in T
  <2>1. SUFFICES ASSUME k + 1 <= D PROVE (k + 1) * cap <= Cardinality(Under(k + 1))
    OBVIOUS
  <2>2. k \in Nat /\ k \in Devices /\ k * cap <= Cardinality(Under(k))
    BY <1>1, <2>1 DEF Devices
  <2>3. \A v \in V : a[v] \in Nat /\ (a[v] < k + 1 <=> a[v] < k \/ a[v] = k)
    BY <1>1, <2>2 DEF Devices
  <2>4. Under(k + 1) = Under(k) \cup On(k) /\ Under(k) \cap On(k) = {}
    BY <2>3
  <2> HIDE DEF Under, On, V
  <2>5. /\ Cardinality(Under(k + 1)) = Cardinality(Under(k)) + Cardinality(On(k))
        /\ Cardinality(Under(k)) \in Nat /\ Cardinality(On(k)) \in Nat
    BY <1>4, <2>4, Disjoint
  <2>6. cap <= Cardinality(On(k))
    BY <1>2, <1>3, <2>2
  <2>7. (k + 1) * cap = k * cap + cap /\ k * cap \in Nat
    BY <1>1, <2>2
  <2> QED
    BY <1>1, <2>2, <2>5, <2>6, <2>7
<1>7. T = Nat
  <2> HIDE DEF T
  <2>1. T \in SUBSET Nat
    BY DEF T
  <2> QED
    BY <1>5, <1>6, <2>1, CountUp
<1>8. D * cap <= Cardinality(Under(D))
  <2>1. D \in T /\ D <= D
    <3> HIDE DEF T
    <3> QED
      BY <1>1, <1>7
  <2> HIDE DEF Under
  <2> QED
    BY <2>1
<1>9. Cardinality(Under(D)) <= size /\ Cardinality(Under(D)) \in Nat
  <2>1. Under(D) \in SUBSET V
    OBVIOUS
  <2> HIDE DEF Under, V
  <2> QED
    BY <1>1, <2>1, FS_Subset, FS_CardinalityType
<1> HIDE DEF Under
<1>10. D * cap \in Nat
  BY <1>1
<1> QED
  BY <1>1, <1>8, <1>9, <1>10

\* A lemma: an iteration takes at most as many vertices as the emptiest
\* device has room for, and at least one if a placed one is to be had.
LEMMA TakenIs ==
    ASSUME NEW size \in Nat, NEW a \in Layouts(size),
           NEW order \in Seq(Vertex(size)), Overflow(a, size) > 0
    PROVE  /\ \A v \in Taken(a, order, size) : v \in Vertex(size) /\ a[v] = Fullest(a)
           /\ IsFiniteSet(Taken(a, order, size))
           /\ Cardinality(Taken(a, order, size)) <= CapOf(size) - LoadOn(a, Emptiest(a))
           /\ (\E v \in ToSet(order) : a[v] = Fullest(a)) => Taken(a, order, size) # {}
<1> DEFINE room == CapOf(size) - LoadOn(a, Emptiest(a))
           over == Overflow(a, size)
           n == IF over < room THEN over ELSE room
           movers == {j \in DOMAIN order : a[order[j]] = Fullest(a)}
           R == {k \in movers : Rank(movers, k) < n}
<1>1. DOMAIN order = 1 .. Len(order) /\ Len(order) \in Nat
  OBVIOUS
<1>2. n \in Nat /\ n > 0 /\ room \in Nat /\ n <= room
  <2>1. /\ LoadOn(a, Emptiest(a)) \in Nat /\ LoadOn(a, Fullest(a)) \in Nat
        /\ CapOf(size) \in Nat
    BY VertexType, FullestIs, CapIs DEF Layouts
  <2>2. room \in Nat /\ room > 0 /\ over \in Nat /\ over > 0
    BY <2>1, SomeRoom DEF Overflow
  <2> HIDE DEF room, over
  <2>3. CASE over < room
    <3>1. n = over
      BY <2>3
    <3> HIDE DEF n
    <3> QED
      BY <2>2, <2>3, <3>1
  <2>4. CASE ~(over < room)
    <3>1. n = room
      BY <2>4
    <3> HIDE DEF n
    <3> QED
      BY <2>2, <3>1
  <2> QED
    BY <2>3, <2>4
<1>3. movers \in SUBSET Nat /\ IsFiniteSet(movers)
  <2>1. movers \in SUBSET (1 .. Len(order)) /\ IsFiniteSet(1 .. Len(order))
    BY <1>1, FS_Interval
  <2>2. \A j \in 1 .. Len(order) : j \in Nat
    BY <1>1
  <2> HIDE DEF movers
  <2> QED
    BY <2>1, <2>2, FS_Subset
<1>4. Taken(a, order, size) = {order[j] : j \in R}
  BY DEF Taken, Rank
<1> HIDE DEF n, room
<1>5. /\ IsFiniteSet(R) /\ Cardinality(R) <= n
      /\ movers # {} => R # {}
  <2> HIDE DEF movers
  <2> QED
    BY <1>2, <1>3, RanksBelow
<1>6. ASSUME NEW v \in Taken(a, order, size) PROVE v \in Vertex(size) /\ a[v] = Fullest(a)
  <2>1. PICK j \in R : v = order[j]
    BY <1>4
  <2> QED
    BY <2>1
<1>7. /\ IsFiniteSet(Taken(a, order, size))
      /\ Cardinality(Taken(a, order, size)) <= Cardinality(R)
  <2> DEFINE f == [j \in R |-> order[j]]
  <2> HIDE DEF R
  <2>1. f \in Surjection(R, Taken(a, order, size))
    BY <1>4 DEF Surjection
  <2> HIDE DEF f
  <2> QED
    BY <1>5, <2>1, FS_Surjection
<1>8. ASSUME \E v \in ToSet(order) : a[v] = Fullest(a) PROVE Taken(a, order, size) # {}
  <2>1. movers # {}
    BY <1>8 DEF ToSet
  <2> HIDE DEF R, movers
  <2> QED
    BY <1>4, <1>5, <2>1
<1>9. Cardinality(Taken(a, order, size)) <= room
  <2> HIDE DEF R
  <2>1. Cardinality(R) \in Nat /\ Cardinality(Taken(a, order, size)) \in Nat
    BY <1>5, <1>7, FS_CardinalityType
  <2> QED
    BY <1>2, <1>5, <1>7, <2>1
<1> QED
  BY <1>6, <1>7, <1>8, <1>9 DEF room

\* A lemma: what an iteration does to the loads.
LEMMA ReliefLoads ==
    ASSUME NEW size \in Nat, NEW a \in Layouts(size),
           NEW order \in Seq(Vertex(size)), Overflow(a, size) > 0
    PROVE  LET b == Relief(a, order, size)
               taken == Taken(a, order, size)
           IN  /\ \A v \in Vertex(size) : b[v] = IF v \in taken THEN Emptiest(a) ELSE a[v]
               /\ LoadOn(b, Emptiest(a)) <= CapOf(size)
               /\ \A d \in Devices \ {Emptiest(a), Fullest(a)} : LoadOn(b, d) = LoadOn(a, d)
               /\ LoadOn(a, Fullest(a)) > CapOf(size) /\ Emptiest(a) # Fullest(a)
<1> DEFINE b == Relief(a, order, size)
           taken == Taken(a, order, size)
           E == Emptiest(a)
           F == Fullest(a)
           V == Vertex(size)
           On(x, d) == {v \in V : x[v] = d}
<1>1. /\ DOMAIN a = V /\ IsFiniteSet(V) /\ E \in Devices /\ F \in Devices
      /\ \A d \in Devices : LoadOn(a, d) \in Nat
      /\ CapOf(size) \in Nat
  BY VertexType, FullestIs, CapIs DEF Layouts
<1>2. /\ \A v \in taken : v \in V /\ a[v] = F
      /\ IsFiniteSet(taken) /\ Cardinality(taken) <= CapOf(size) - LoadOn(a, E)
  BY TakenIs
<1>3. b = [v \in V |-> IF v \in taken THEN E ELSE a[v]]
  BY <1>1 DEF Relief
<1>4. LoadOn(a, F) > CapOf(size) /\ E # F
  <2>1. LoadOn(a, F) > CapOf(size)
    BY <1>1 DEF Overflow
  <2>2. LoadOn(a, E) < CapOf(size)
    BY SomeRoom
  <2> QED
    BY <1>1, <2>1, <2>2
<1> HIDE DEF b, taken, E, F
<1>5. /\ \A d : LoadOn(a, d) = Cardinality(On(a, d)) /\ LoadOn(b, d) = Cardinality(On(b, d))
  BY <1>1, <1>3 DEF LoadOn
<1>6. LoadOn(b, E) <= CapOf(size)
  <2>1. On(b, E) = On(a, E) \cup taken /\ On(a, E) \cap taken = {}
    BY <1>2, <1>3, <1>4
  <2>2. IsFiniteSet(On(a, E))
    <3>1. On(a, E) \in SUBSET V
      OBVIOUS
    <3> QED
      BY <1>1, <3>1, FS_Subset
  <2> HIDE DEF On
  <2>3. /\ Cardinality(On(b, E)) = Cardinality(On(a, E)) + Cardinality(taken)
        /\ Cardinality(On(a, E)) \in Nat /\ Cardinality(taken) \in Nat
    BY <1>2, <2>1, <2>2, Disjoint
  <2> QED
    BY <1>1, <1>2, <1>5, <2>3
<1>7. ASSUME NEW d \in Devices \ {E, F} PROVE LoadOn(b, d) = LoadOn(a, d)
  <2>1. On(b, d) = On(a, d)
    BY <1>2, <1>3
  <2> QED
    BY <1>5, <2>1
<1>8. \A v \in V : b[v] = IF v \in taken THEN E ELSE a[v]
  BY <1>3
<1> QED
  BY <1>4, <1>6, <1>7, <1>8 DEF b, taken, E, F


\* No device holds more than its capacity.
Balanced(a, size) == \A d \in Devices : LoadOn(a, d) <= CapOf(size)

\* Nor do the vertices that stay alone.
StayersFit(a, order, size) ==
    \A d \in Devices :
        Cardinality({v \in Vertex(size) \ ToSet(order) : a[v] = d}) <= CapOf(size)

\* The vertices the relief loop has taken off a device.
Moved(a, b, size) == {v \in Vertex(size) : b[v] # a[v]}

\* What n iterations of the relief loop have made of a: a vertex it moved is
\* on a device that is not overfull, and there are n such vertices unless no
\* device is overfull.
Eases(a, b, order, size, n) ==
    /\ b \in Layouts(size)
    /\ \A v \in Vertex(size) \ ToSet(order) : b[v] = a[v]
    /\ \A v \in Moved(a, b, size) : LoadOn(b, b[v]) <= CapOf(size)
    /\ Balanced(b, size) \/ n <= Cardinality(Moved(a, b, size))

\* A lemma: an iteration that finds an overfull device moves a vertex that
\* was never moved before, so no vertex moves twice.
LEMMA ReliefEases ==
    ASSUME NEW size \in Nat, NEW a \in Layouts(size),
           NEW order \in Seq(Vertex(size)), StayersFit(a, order, size),
           NEW b, NEW n \in Nat, Eases(a, b, order, size, n)
    PROVE  Eases(a, Relief(b, order, size), order, size, n + 1)
<1> DEFINE V == Vertex(size)
           c == Relief(b, order, size)
           cap == CapOf(size)
           E == Emptiest(b)
           F == Fullest(b)
           taken == Taken(b, order, size)
           M == Moved(a, b, size)
           N == Moved(a, c, size)
<1>1. /\ b \in Layouts(size) /\ DOMAIN b = V /\ IsFiniteSet(V)
      /\ \A v \in V : b[v] \in Devices
      /\ \A v \in V \ ToSet(order) : b[v] = a[v]
  BY VertexType DEF Eases, Layouts
<1>2. /\ \A d \in Devices : LoadOn(b, d) \in Nat
      /\ E \in Devices /\ F \in Devices
      /\ \A d \in Devices : LoadOn(b, d) <= LoadOn(b, F)
      /\ cap \in Nat
  BY <1>1, FullestIs, CapIs
<1>3. c \in Layouts(size) /\ \A v \in V \ ToSet(order) : c[v] = b[v]
  BY <1>1, ReliefType
<1>4. IsFiniteSet(M) /\ IsFiniteSet(N) /\ Cardinality(M) \in Nat /\ Cardinality(N) \in Nat
  <2>1. M \in SUBSET V /\ N \in SUBSET V
    BY DEF Moved
  <2> QED
    BY <1>1, <2>1, FS_Subset, FS_CardinalityType
<1>5. CASE ~(Overflow(b, size) > 0)
  <2>1. Balanced(b, size)
    <3> SUFFICES ASSUME NEW d \in Devices PROVE LoadOn(b, d) <= CapOf(size)
      BY DEF Balanced
    <3>1. LoadOn(b, F) <= CapOf(size)
      BY <1>2, <1>5 DEF Overflow
    <3>2. LoadOn(b, d) <= LoadOn(b, F) /\ LoadOn(b, d) \in Nat /\ LoadOn(b, F) \in Nat
          /\ CapOf(size) \in Nat
      BY <1>2
    <3> QED
      BY <3>1, <3>2
  <2>2. c = b
    <3>1. c = [v \in V |-> b[v]]
      BY <1>1, <1>5 DEF Relief
    <3> QED
      BY <1>1, <3>1 DEF Layouts
  <2> QED
    BY <2>1, <2>2 DEF Eases
<1>6. CASE Overflow(b, size) > 0
  <2>1. /\ \A v \in V : c[v] = IF v \in taken THEN E ELSE b[v]
        /\ LoadOn(c, E) <= cap
        /\ \A d \in Devices \ {E, F} : LoadOn(c, d) = LoadOn(b, d)
        /\ LoadOn(b, F) > cap /\ E # F
    BY <1>1, <1>6, ReliefLoads
  <2>2. /\ \A v \in taken : v \in V /\ b[v] = F
        /\ (\E v \in ToSet(order) : b[v] = F) => taken # {}
    BY <1>1, <1>6, TakenIs
  <2>3. \A v \in M : LoadOn(b, b[v]) <= cap
    BY DEF Eases
  <2> HIDE DEF c, cap, E, F, taken, M, N
  <2>4. M = {v \in V : b[v] # a[v]} /\ N = {v \in V : c[v] # a[v]}
    BY DEF M, N, Moved
  <2>5. \A v \in M : b[v] # F
    <3>1. ~(LoadOn(b, F) <= cap)
      BY <1>2, <2>1
    <3> QED
      BY <2>3, <3>1
  <2>6. N = M \cup taken /\ M \cap taken = {}
    <3>1. M \cap taken = {}
      BY <2>2, <2>5
    <3>2. \A v \in taken : c[v] = E /\ a[v] = F
      BY <2>1, <2>2, <2>4, <2>5
    <3> QED
      BY <2>1, <2>2, <2>4, <3>1, <3>2
  <2>7. ASSUME NEW v \in N PROVE LoadOn(c, c[v]) <= cap
    <3>1. CASE v \in taken
      BY <2>1, <2>2, <3>1
    <3>2. CASE v \in M \ taken
      <4>1. c[v] = b[v] /\ b[v] # F /\ b[v] \in Devices /\ LoadOn(b, b[v]) <= cap
        BY <1>1, <2>1, <2>3, <2>4, <2>5, <3>2
      <4> QED
        BY <2>1, <4>1
    <3> QED
      BY <2>6, <3>1, <3>2
  <2>8. PICK t : t \in taken
    <3> SUFFICES ASSUME ~\E v \in ToSet(order) : b[v] = F PROVE FALSE
      BY <2>2
    <3> DEFINE On   == {v \in V : b[v] = F}
               Stay == {v \in V \ ToSet(order) : a[v] = F}
    <3>1. On \subseteq Stay /\ Stay \subseteq V
      BY <1>1
    <3>2. LoadOn(b, F) = Cardinality(On)
      BY <1>1 DEF LoadOn
    <3>3. Cardinality(Stay) <= cap
      BY <1>2 DEF StayersFit, cap
    <3> HIDE DEF On, Stay
    <3>4. IsFiniteSet(Stay)
      BY <1>1, <3>1, FS_Subset
    <3>5. Cardinality(On) <= Cardinality(Stay) /\ Cardinality(On) \in Nat
          /\ Cardinality(Stay) \in Nat
      BY <3>1, <3>4, FS_Subset, FS_CardinalityType
    <3> QED
      BY <1>2, <2>1, <3>2, <3>3, <3>5
  <2>9. Cardinality(M) + 1 <= Cardinality(N)
    <3>1. t \notin M /\ M \cup {t} \in SUBSET N
      BY <2>6, <2>8
    <3>2. Cardinality(M \cup {t}) = Cardinality(M) + 1
      BY <1>4, <3>1, FS_AddElement
    <3>3. Cardinality(M \cup {t}) <= Cardinality(N)
      BY <1>4, <3>1, FS_Subset
    <3> QED
      BY <3>2, <3>3
  <2>10. n <= Cardinality(M)
    <3>1. ~Balanced(b, size)
      <4>1. ~(LoadOn(b, F) <= CapOf(size))
        BY <1>2, <2>1 DEF cap
      <4> QED
        BY <1>2, <4>1 DEF Balanced
    <3> QED
      BY <3>1 DEF Eases, M
  <2>11. n + 1 <= Cardinality(N)
    BY <1>4, <2>9, <2>10
  <2>12. \A v \in V \ ToSet(order) : c[v] = a[v]
    BY <1>1, <1>3 DEF c
  <2> QED
    BY <1>3, <2>7, <2>11, <2>12 DEF Eases, c, cap, N
<1> QED
  BY <1>5, <1>6

\* A lemma: the relief loop, which has as many iterations as there are
\* vertices, leaves no device overfull.
LEMMA RelievedIsBalanced ==
    ASSUME NEW size \in Nat, NEW a \in Layouts(size),
           NEW order \in Seq(Vertex(size)), StayersFit(a, order, size)
    PROVE  Balanced(Relieved(a, order, size), size)
<1>1. PICK f : IsRelief(f, a, order, size) /\ Relieved(a, order, size) = f[size]
  BY RelievedIs
<1> DEFINE T == {n \in Nat : n <= size => Eases(a, f[n], order, size, n)}
<1>2. 0 \in T
  <2>1. Moved(a, a, size) = {}
    BY DEF Moved
  <2>2. Eases(a, a, order, size, 0)
    BY <2>1, FS_EmptySet DEF Eases
  <2> QED
    BY <1>1, <2>2 DEF IsRelief
<1>3. ASSUME NEW n \in T PROVE n + 1 \in T
  <2>1. SUFFICES ASSUME n + 1 <= size PROVE Eases(a, f[n + 1], order, size, n + 1)
    OBVIOUS
  <2>2. n \in Nat /\ n + 1 \in 1 .. size /\ (n + 1) - 1 = n
        /\ Eases(a, f[n], order, size, n)
    BY <2>1
  <2>3. f[n + 1] = Relief(f[n], order, size)
    BY <1>1, <2>2 DEF IsRelief
  <2> QED
    BY <2>2, <2>3, ReliefEases
<1>4. T = Nat
  <2> HIDE DEF T
  <2>1. T \in SUBSET Nat
    BY DEF T
  <2> QED
    BY <1>2, <1>3, <2>1, CountUp
<1> DEFINE b == f[size]
           M == Moved(a, b, size)
           V == Vertex(size)
<1>5. Eases(a, b, order, size, size)
  BY <1>4
<1> HIDE DEF b
<1>6. CASE Balanced(b, size)
  BY <1>1, <1>6 DEF b
<1>7. CASE size <= Cardinality(M)
  <2>1. IsFiniteSet(V) /\ Cardinality(V) = size /\ DOMAIN b = V
    BY <1>5, VertexType DEF Eases, Layouts
  <2>2. M \in SUBSET V
    BY DEF Moved
  <2> HIDE DEF M, V
  <2>3. M = V
    <3>1. Cardinality(M) <= size /\ Cardinality(M) \in Nat
      BY <2>1, <2>2, FS_Subset, FS_CardinalityType
    <3> QED
      BY <1>7, <2>1, <2>2, <3>1, FS_Subset
  <2>4. ASSUME NEW d \in Devices PROVE LoadOn(b, d) <= CapOf(size)
    <3>1. CASE \E v \in V : b[v] = d
      BY <1>5, <2>3, <3>1 DEF Eases, M
    <3>2. CASE ~\E v \in V : b[v] = d
      <4>1. {v \in DOMAIN b : b[v] = d} = {}
        BY <2>1, <3>2
      <4>2. LoadOn(b, d) = 0
        BY <4>1, FS_EmptySet DEF LoadOn
      <4> QED
        BY <4>2, CapIs
    <3> QED
      BY <3>1, <3>2
  <2> QED
    BY <1>1, <2>4 DEF Balanced, b
<1> QED
  BY <1>5, <1>6, <1>7 DEF Eases

\* A lemma: partition_incremental keeps a balanced layout balanced.
LEMMA IncrementalIsBalanced ==
    ASSUME NEW view, IsFiniteSet(DOMAIN view), NEW prior, NEW old, NEW lo, NEW size,
           Grows(prior, old, size), Balanced(prior, old),
           NEW cur \in PartitionIncremental(view, prior, lo, size)
    PROVE  Balanced(cur, size)
<1>1. PICK order \in ToPlace(view, prior, lo, size) :
          cur = Relieved(Placed(view, prior, order, size), order, size)
  BY DEF PartitionIncremental
<1> DEFINE a == Placed(view, prior, order, size)
<1>2. /\ old \in Nat /\ size \in Nat /\ old <= size /\ DOMAIN prior = Vertex(old)
      /\ order \in Seq(Vertex(size))
      /\ Vertex(size) \ Vertex(old) \subseteq ToSet(order)
  BY OrderIs DEF Grows, Layouts
<1>3. a \in Layouts(size) /\ \A v \in Vertex(old) \ ToSet(order) : a[v] = prior[v]
  BY PlacedType
<1> HIDE DEF a
<1>4. ASSUME NEW d \in Devices
      PROVE  Cardinality({v \in Vertex(size) \ ToSet(order) : a[v] = d}) <= CapOf(size)
  <2> DEFINE Stay == {v \in Vertex(size) \ ToSet(order) : a[v] = d}
             On   == {v \in DOMAIN prior : prior[v] = d}
  <2>1. Stay \subseteq On /\ On \subseteq Vertex(old)
    BY <1>2, <1>3
  <2>2. Cardinality(On) <= CapOf(old)
    BY DEF Balanced, LoadOn
  <2> HIDE DEF Stay, On
  <2>3. IsFiniteSet(On)
    BY <1>2, <2>1, VertexType, FS_Subset
  <2>4. /\ Cardinality(Stay) <= Cardinality(On)
        /\ Cardinality(Stay) \in Nat /\ Cardinality(On) \in Nat
    BY <2>1, <2>3, FS_Subset, FS_CardinalityType
  <2>5. CapOf(old) <= CapOf(size) /\ CapOf(old) \in Nat /\ CapOf(size) \in Nat
    BY <1>2, CapIs
  <2>6. Cardinality(Stay) <= CapOf(size)
    BY <2>2, <2>4, <2>5
  <2> QED
    BY <2>6 DEF Stay
<1>5. StayersFit(a, order, size)
  BY <1>4 DEF StayersFit
<1>6. cur = Relieved(a, order, size)
  BY <1>1 DEF a
<1> QED
  BY <1>2, <1>3, <1>5, <1>6, RelievedIsBalanced

\* A lemma: renaming the labels by a permutation renames the loads.
LEMMA MatchIsBalanced ==
    ASSUME D <= ExactMatchMax, NEW prior, NEW old, NEW size, Grows(prior, old, size),
           NEW cur \in Layouts(size), Balanced(cur, size)
    PROVE  Balanced(MigrationMatch(prior, cur), size)
<1>1. CASE DOMAIN prior = {}
  BY <1>1 DEF MigrationMatch
<1>2. CASE DOMAIN prior # {}
  <2> DEFINE p == ExactRemap(prior, cur)
  <2>1. MigrationMatch(prior, cur) = Through(p, cur)
    BY <1>2 DEF MigrationMatch
  <2>2. p \in Permutation
    BY ExactIsGentle
  <2> HIDE DEF p
  <2>3. p \in Surjection(Devices, Devices)
    <3>1. p \in Injection(Devices, Devices)
      BY <2>2 DEF Permutation, Injection, IsInjective
    <3>2. IsFiniteSet(Devices)
      BY FS_Interval, PartitionAssumption DEF Devices, PartitionAssumption
    <3> QED
      BY <3>1, <3>2, FS_Injection
  <2>4. ASSUME NEW d \in Devices PROVE LoadOn(Through(p, cur), d) <= CapOf(size)
    <3>1. PICK c \in Devices : p[c] = d
      BY <2>3 DEF Surjection
    <3>2. \A v \in DOMAIN cur : cur[v] \in Devices
      BY DEF Layouts
    <3>3. \A e \in Devices : p[e] = d <=> e = c
      BY <2>2, <3>1 DEF Permutation
    <3>4. {v \in DOMAIN Through(p, cur) : Through(p, cur)[v] = d}
              = {v \in DOMAIN cur : cur[v] = c}
      BY <3>2, <3>3 DEF Through
    <3> QED
      BY <3>4 DEF Balanced, LoadOn
  <2> QED
    BY <2>1, <2>4 DEF Balanced
<1> QED
  BY <1>1, <1>2

-----------------------------------------------------------------------------
(* The cursor and the staleness counter.                                   *)

\* After some step, the last rearrangement is as many steps ago as the
\* counter says; processed_edges is the end of the last window.
DriverInv ==
    /\ stream \in Streams
    /\ hi \in 0 .. Len(stream)
    /\ trace \in Seq(BOOLEAN) /\ Len(trace) <= hi
    /\ staleness \in 0 .. StaleBound
    /\ trace # << >> => staleness < Len(trace) /\ trace[Len(trace) - staleness]
    /\ StalenessBounded

CursorInv ==
    /\ processed = hi
    /\ trace = << >> => hi = 0
    /\ ingested = [e \in 1 .. Len(stream) |-> IF e <= hi THEN 1 ELSE 0]

\* A lemma: a window shows at least one event more than the one before.
LEMMA NextWindow ==
    ASSUME DriverInv, MoreWindows
    PROVE  /\ Len(stream) \in Nat /\ stream \in Seq(Nat \X Nat)
           /\ Len(stream) <= Len(Sizes)
           /\ NextHi \in hi + 1 .. Len(stream)
<1>1. stream \in Seq(Nat \X Nat) /\ Len(stream) <= Len(Sizes)
  BY StreamAssumption DEF DriverInv, StreamAssumption
<1>2. Len(stream) \in Nat /\ hi \in Nat /\ hi < Len(stream) /\ WindowEdges \in Nat \ {0}
  BY <1>1, StreamAssumption DEF DriverInv, MoreWindows, StreamAssumption
<1>3. NextHi \in hi + 1 .. Len(stream)
  BY <1>2 DEF NextHi
<1> QED
  BY <1>1, <1>2, <1>3

\* A lemma: what a step records, with rearranged the entry of the trace.
LEMMA TraceGrows ==
    ASSUME DriverInv, MoreWindows, NEW b \in BOOLEAN, NEW lo, Ingest(b, lo),
           \/ b /\ staleness' = 0
           \/ /\ ~b /\ trace # << >> /\ ~OverStaleness
              /\ staleness' = staleness + 1
    PROVE  DriverInv'
<1> DEFINE n == Len(trace)
<1>1. /\ n \in Nat /\ trace' = Append(trace, b) /\ stream' = stream /\ hi' = NextHi
      /\ hi \in Nat /\ staleness \in Nat /\ trace \in Seq(BOOLEAN)
      /\ StaleBound \in Nat \ {0} /\ n <= hi
  <2>1. StaleBound \in Nat \ {0}
    BY StreamAssumption DEF StaleBound, StreamAssumption
  <2>2. Len(stream) \in Nat
    BY NextWindow
  <2> QED
    BY <2>1, <2>2 DEF Ingest, DriverInv
<1>2. /\ trace' \in Seq(BOOLEAN) /\ Len(trace') = n + 1 /\ trace'[n + 1] = b
      /\ \A w \in 1 .. n : trace'[w] = trace[w]
      /\ trace' # << >>
  BY <1>1
<1>3. hi' \in 0 .. Len(stream') /\ n + 1 <= hi'
  <2>1. Len(stream) \in Nat /\ NextHi \in hi + 1 .. Len(stream)
    BY NextWindow
  <2> QED
    BY <1>1, <2>1
<1>4. /\ staleness' \in 0 .. StaleBound /\ staleness' < n + 1
      /\ trace'[n + 1 - staleness']
  <2>1. CASE b /\ staleness' = 0
    BY <1>1, <1>2, <2>1
  <2>2. CASE /\ ~b /\ trace # << >> /\ ~OverStaleness
             /\ staleness' = staleness + 1
    <3>1. staleness + 1 <= StaleBound
      BY <1>1, <2>2 DEF OverStaleness
    <3>2. staleness < n /\ trace[n - staleness]
      BY <2>2 DEF DriverInv
    <3>3. n + 1 - staleness' = n - staleness /\ n - staleness \in 1 .. n
      BY <1>1, <2>2, <3>2
    <3> QED
      BY <1>1, <1>2, <2>2, <3>1, <3>2, <3>3
  <2> QED
    BY <2>1, <2>2
<1>5. StalenessBounded'
  <2>1. SUFFICES ASSUME NEW w \in 1 .. Len(trace') - StaleBound
                 PROVE  \E x \in w .. w + StaleBound : trace'[x]
    BY DEF StalenessBounded
  <2>2. CASE w <= n - StaleBound
    <3>1. w \in 1 .. n - StaleBound
      BY <1>1, <2>2
    <3>2. PICK x \in w .. w + StaleBound : trace[x]
      BY <3>1 DEF DriverInv, StalenessBounded
    <3>3. x \in 1 .. n
      BY <1>1, <2>2
    <3> QED
      BY <1>2, <3>2, <3>3
  <2>3. CASE w = n + 1 - StaleBound
    <3>1. n + 1 - staleness' \in w .. w + StaleBound
      BY <1>1, <1>4, <2>3
    <3> QED
      BY <1>4, <3>1
  <2> QED
    BY <1>1, <1>2, <2>2, <2>3
<1> QED
  BY <1>1, <1>2, <1>3, <1>4, <1>5 DEF DriverInv

LEMMA DriverStart == Init => DriverInv
<1> SUFFICES ASSUME Init PROVE DriverInv
  OBVIOUS
<1>1. stream \in Streams /\ Len(stream) \in Nat
  BY StreamAssumption DEF Init, StreamAssumption
<1>2. StaleBound \in Nat
  BY StreamAssumption DEF StaleBound, StreamAssumption
<1>3. trace = << >> /\ Len(trace) = 0 /\ trace \in Seq(BOOLEAN)
  BY DEF Init
<1> QED
  BY <1>1, <1>2, <1>3, StreamAssumption
     DEF Init, DriverInv, StalenessBounded, StreamAssumption

LEMMA DriverStep == DriverInv /\ [Next]_vars => DriverInv'
<1> SUFFICES ASSUME DriverInv, [Next]_vars PROVE DriverInv'
  OBVIOUS
<1>1. CASE ColdStart
  BY <1>1, TraceGrows DEF ColdStart
<1>2. ASSUME NEW drift \in BOOLEAN, Reuse(drift) PROVE DriverInv'
  BY <1>2, TraceGrows DEF Reuse
<1>3. ASSUME NEW drift \in BOOLEAN, Refresh(drift) PROVE DriverInv'
  BY <1>3, TraceGrows DEF Refresh
<1>4. CASE UNCHANGED vars
  BY <1>4 DEF vars, DriverInv, StalenessBounded, StaleBound
<1> QED
  BY <1>1, <1>2, <1>3, <1>4 DEF Next, Terminated

LEMMA DriverInvariance == Spec => []DriverInv
  BY DriverStart, DriverStep, PTL DEF Spec

\* For every stream, window and staleness bound, and whatever the drift: of
\* max(1, bound) + 1 windows in a row, one rearranged the layout.
THEOREM StalenessIsBounded == Spec => []StalenessBounded
<1>1. DriverInv => StalenessBounded
  BY DEF DriverInv
<1> QED
  BY <1>1, DriverInvariance, PTL

\* A lemma: a growing view is a prefix of the stream.
LEMMA WholeView ==
    ASSUME DriverInv, MoreWindows, Growing
    PROVE  Len(View) = NextHi
<1>1. /\ NextHi \in Nat /\ NextHi <= Len(stream) /\ Len(stream) \in Nat
      /\ stream \in Seq(Nat \X Nat)
  BY NextWindow DEF DriverInv
<1>2. View = SubSeq(stream, 1, NextHi)
  <2>1. Lo = 0 /\ 0 + 1 = 1
    BY DEF Lo
  <2> QED
    BY <2>1 DEF View
<1>3. ASSUME NEW n \in Nat, n <= Len(stream)
      PROVE  Len(SubSeq(stream, 1, n)) = n
  BY <1>1, <1>3
<1> QED
  BY <1>1, <1>2, <1>3

\* A lemma: with growing views the cursor is the end of the last window.
LEMMA CursorMoves ==
    ASSUME DriverInv, CursorInv, Growing, MoreWindows, NEW b, NEW lo,
           Ingest(b, lo), lo = hi
    PROVE  CursorInv'
<1>1. /\ hi' = NextHi /\ stream' = stream /\ trace' = Append(trace, b)
      /\ processed' = Len(View) /\ hi \in Nat /\ trace \in Seq(BOOLEAN)
      /\ ingested' = [e \in DOMAIN ingested |->
                         IF e \in Lo + lo + 1 .. NextHi THEN ingested[e] + 1
                                                        ELSE ingested[e]]
  BY DEF Ingest, DriverInv
<1>2. NextHi \in hi + 1 .. Len(stream) /\ Len(stream) \in Nat /\ stream \in Seq(Nat \X Nat)
  BY NextWindow
<1>3. Lo = 0 /\ Len(View) = NextHi
  BY WholeView DEF Lo
<1>4. ingested' = [e \in 1 .. Len(stream) |-> IF e <= NextHi THEN 1 ELSE 0]
  <2> DEFINE top == NextHi
             n == Len(stream)
  <2>1. /\ top \in hi + 1 .. n /\ n \in Nat /\ hi \in Nat /\ Lo = 0 /\ lo = hi
        /\ ingested = [e \in 1 .. n |-> IF e <= hi THEN 1 ELSE 0]
        /\ ingested' = [e \in DOMAIN ingested |->
                           IF e \in Lo + lo + 1 .. top THEN ingested[e] + 1 ELSE ingested[e]]
    BY <1>1, <1>2, <1>3 DEF CursorInv
  <2> HIDE DEF top, n
  <2>2. DOMAIN ingested = 1 .. n /\ Lo + lo + 1 = hi + 1
    BY <2>1
  <2>3. ASSUME NEW e \in 1 .. n
        PROVE  (IF e \in hi + 1 .. top THEN ingested[e] + 1 ELSE ingested[e])
                   = IF e <= top THEN 1 ELSE 0
    <3>1. ingested[e] = (IF e <= hi THEN 1 ELSE 0) /\ e \in Nat /\ top \in Nat /\ hi < top
      BY <2>1
    <3> QED
      BY <2>1, <3>1
  <2>4. ingested' = [e \in 1 .. n |-> IF e <= top THEN 1 ELSE 0]
    BY <2>1, <2>2, <2>3
  <2> QED
    BY <2>4 DEF top, n
<1>5. trace' # << >>
  BY <1>1
<1> QED
  BY <1>1, <1>3, <1>4, <1>5 DEF CursorInv

LEMMA CursorStep == Growing /\ DriverInv /\ CursorInv /\ [Next]_vars => CursorInv'
<1> SUFFICES ASSUME Growing, DriverInv, CursorInv, [Next]_vars PROVE CursorInv'
  OBVIOUS
<1>1. ASSUME MoreWindows PROVE NewEdgeLo = hi
  <2>1. Len(View) = NextHi
    BY <1>1, WholeView
  <2>2. NextHi \in hi + 1 .. Len(stream) /\ Len(stream) \in Nat /\ hi \in Nat
    BY <1>1, NextWindow DEF DriverInv
  <2> QED
    BY <2>1, <2>2 DEF NewEdgeLo, CursorInv
<1>2. CASE ColdStart
  BY <1>2, CursorMoves DEF ColdStart, CursorInv
<1>3. ASSUME NEW drift \in BOOLEAN, Reuse(drift) PROVE CursorInv'
  BY <1>1, <1>3, CursorMoves DEF Reuse
<1>4. ASSUME NEW drift \in BOOLEAN, Refresh(drift) PROVE CursorInv'
  BY <1>1, <1>4, CursorMoves DEF Refresh
<1>5. CASE UNCHANGED vars
  BY <1>5 DEF vars, CursorInv
<1> QED
  BY <1>2, <1>3, <1>4, <1>5 DEF Next, Terminated

\* For every stream and window, when the views grow every event up to the
\* end of the last window was new to exactly one step.
THEOREM GrowingIngestsOnce == Growing /\ Spec => []EveryEventIngestedOnce
<1>1. Init => CursorInv
  <2> SUFFICES ASSUME Init PROVE CursorInv
    OBVIOUS
  <2>1. stream \in Seq(Nat \X Nat) /\ Len(stream) \in Nat
    BY StreamAssumption DEF Init, StreamAssumption
  <2> QED
    BY <2>1 DEF Init, CursorInv
<1>2. DriverInv /\ CursorInv => EveryEventIngestedOnce
  BY DEF DriverInv, CursorInv, EveryEventIngestedOnce
<1>3. Growing' <=> Growing
  OBVIOUS
<1> QED
  BY <1>1, <1>2, <1>3, CursorStep, DriverInvariance, PTL DEF Spec

-----------------------------------------------------------------------------
(* The layout through the stream.                                          *)

\* The layout gives every vertex of some earlier, no larger graph a device.
LayoutInv ==
    /\ trace = << >> => layout = << >>
    /\ \E old \in Nat : /\ layout \in Layouts(old)
                         /\ \A w \in DOMAIN Sizes : Len(trace) <= w => old <= Sizes[w]

\* A lemma: what a step sees.
LEMMA ViewType ==
    ASSUME DriverInv, MoreWindows
    PROVE  /\ IsFiniteSet(DOMAIN View)
           /\ Window \in DOMAIN Sizes /\ Size \in Nat /\ Len(trace) \in Nat
           /\ \A w \in DOMAIN Sizes : Window <= w => Size <= Sizes[w]
<1>1. /\ stream \in Seq(Nat \X Nat) /\ Len(stream) \in Nat /\ Len(stream) <= Len(Sizes)
      /\ NextHi \in hi + 1 .. Len(stream) /\ hi \in Nat
  BY NextWindow DEF DriverInv
<1>2. /\ Len(trace) \in Nat /\ Len(trace) <= hi
      /\ Sizes \in Seq(Nat \ {0})
      /\ \A v, w \in DOMAIN Sizes : v <= w => Sizes[v] <= Sizes[w]
  BY StreamAssumption DEF DriverInv, StreamAssumption
<1>3. Window \in DOMAIN Sizes
  BY <1>1, <1>2 DEF Window
<1>4. IsFiniteSet(DOMAIN View)
  <2>1. Lo \in Nat /\ NextHi \in Nat /\ NextHi <= Len(stream)
    BY <1>1, StreamAssumption DEF Lo, StreamAssumption
  <2>2. DOMAIN View = 1 .. NextHi + 1 - (Lo + 1)
    BY <1>1, <2>1 DEF View
  <2> QED
    BY <2>1, <2>2, FS_Interval
<1> QED
  BY <1>2, <1>3, <1>4 DEF Size

\* A lemma: the prior layout of a step is one of no more vertices.
LEMMA PriorIs ==
    ASSUME DriverInv, LayoutInv, MoreWindows
    PROVE  \E old \in Nat : Grows(layout, old, Size)
<1>1. PICK old \in Nat : /\ layout \in Layouts(old)
                         /\ \A w \in DOMAIN Sizes : Len(trace) <= w => old <= Sizes[w]
  BY DEF LayoutInv
<1>2. Len(trace) <= Window
  BY ViewType DEF Window
<1> QED
  BY <1>1, <1>2, ViewType DEF Grows, Size

\* A lemma: a layout of the current view serves the windows that follow.
LEMMA LayoutServes ==
    ASSUME DriverInv, MoreWindows, NEW b, NEW lo, Ingest(b, lo), layout' \in Layouts(Size)
    PROVE  LayoutInv'
<1>1. trace' = Append(trace, b) /\ trace \in Seq(BOOLEAN) /\ Sizes' = Sizes
  BY DEF Ingest, DriverInv
<1>2. Len(trace') = Window /\ trace' # << >>
  BY <1>1 DEF Window
<1> QED
  BY <1>2, ViewType DEF LayoutInv

\* A lemma: what the cold start and a refresh do to the layout.
LEMMA ColdStartIs ==
    ASSUME DriverInv, LayoutInv, ColdStart
    PROVE  /\ layout = << >> /\ MoreWindows
           /\ layout' \in Layouts(Size)
           /\ Changed(layout, layout') \in Nat /\ Changed(layout, layout') <= Budget(Size)
<1>1. layout = << >> /\ layout' \in PartitionIncremental(View, layout, 0, Size)
  BY DEF ColdStart, LayoutInv
<1>2. MoreWindows
  BY DEF ColdStart
<1>3. PICK old \in Nat : Grows(layout, old, Size)
  BY <1>2, PriorIs
<1>4. IsFiniteSet(DOMAIN View)
  BY <1>2, ViewType
<1>5. layout' \in Layouts(Size) /\ Changed(layout, layout') \in Nat
      /\ Changed(layout, layout') <= Budget(Size)
  BY <1>1, <1>3, <1>4, IncrementalIs
<1> QED
  BY <1>1, <1>2, <1>5

LEMMA RefreshIs ==
    ASSUME DriverInv, LayoutInv, NEW drift \in BOOLEAN, Refresh(drift)
    PROVE  /\ MoreWindows
           /\ layout' \in Layouts(Size)
           /\ Changed(layout, layout') <= Budget(Size)
<1>1. PICK cur \in PartitionIncremental(View, layout, NewEdgeLo, Size) :
          layout' = MigrationMatch(layout, cur)
  BY DEF Refresh, PlanIncremental
<1>2. MoreWindows
  BY DEF Refresh
<1>3. PICK old \in Nat : Grows(layout, old, Size)
  BY <1>2, PriorIs
<1>4. IsFiniteSet(DOMAIN View)
  BY <1>2, ViewType
<1>5. cur \in Layouts(Size) /\ Changed(layout, cur) <= Budget(Size)
      /\ Changed(layout, cur) \in Nat /\ Budget(Size) \in Nat
  BY <1>2, <1>3, <1>4, IncrementalIs, ViewType, BudgetIs
<1>6. layout' \in Layouts(Size) /\ Changed(layout, layout') <= Changed(layout, cur)
  BY <1>1, <1>3, <1>5, MatchIs
<1>7. Changed(layout, layout') \in Nat
  <2>1. {v \in DOMAIN layout : layout[v] # layout'[v]} \in SUBSET DOMAIN layout
    OBVIOUS
  <2>2. IsFiniteSet(DOMAIN layout)
    BY <1>3, VertexType DEF Grows, Layouts
  <2> QED
    BY <2>1, <2>2, FS_Subset, FS_CardinalityType DEF Changed
<1> QED
  BY <1>2, <1>5, <1>6, <1>7

LEMMA LayoutStart == Init => LayoutInv
<1> SUFFICES ASSUME Init PROVE LayoutInv
  OBVIOUS
<1>1. Vertex(0) = {} /\ << >> \in Layouts(0)
  BY DEF Vertex, Layouts
<1>2. layout \in Layouts(0) /\ trace = << >> /\ layout = << >>
  BY <1>1 DEF Init
<1>3. \A w \in DOMAIN Sizes : 0 <= Sizes[w]
  BY StreamAssumption DEF StreamAssumption
<1> QED
  BY <1>2, <1>3 DEF LayoutInv

LEMMA LayoutStep == DriverInv /\ LayoutInv /\ [Next]_vars => LayoutInv'
<1> SUFFICES ASSUME DriverInv, LayoutInv, [Next]_vars PROVE LayoutInv'
  OBVIOUS
<1>1. CASE ColdStart
  BY <1>1, ColdStartIs, LayoutServes DEF ColdStart
<1>2. ASSUME NEW drift \in BOOLEAN, Reuse(drift) PROVE LayoutInv'
  <2>1. PICK old \in Nat : /\ layout \in Layouts(old)
                           /\ \A w \in DOMAIN Sizes : Len(trace) <= w => old <= Sizes[w]
    BY DEF LayoutInv
  <2>2. layout' = layout /\ trace' = Append(trace, FALSE) /\ trace \in Seq(BOOLEAN)
    BY <1>2 DEF Reuse, Ingest, DriverInv
  <2>3. Len(trace') = Len(trace) + 1 /\ trace' # << >> /\ Len(trace) \in Nat
    <3>1. ASSUME NEW S, NEW s \in Seq(S), NEW b \in S
          PROVE  Len(Append(s, b)) = Len(s) + 1 /\ Append(s, b) # << >> /\ Len(s) \in Nat
      OBVIOUS
    <3>2. FALSE \in BOOLEAN
      OBVIOUS
    <3> QED
      BY <2>2, <3>1, <3>2
  <2>4. Sizes \in Seq(Nat \ {0})
    BY StreamAssumption DEF StreamAssumption
  <2>5. \A w \in DOMAIN Sizes : Len(trace') <= w => old <= Sizes[w]
    <3>1. \A w \in DOMAIN Sizes : w \in Nat
      BY <2>4
    <3> QED
      BY <2>1, <2>3, <3>1
  <2> QED
    BY <2>1, <2>2, <2>3, <2>5 DEF LayoutInv
<1>3. ASSUME NEW drift \in BOOLEAN, Refresh(drift) PROVE LayoutInv'
  BY <1>3, RefreshIs, LayoutServes DEF Refresh
<1>4. CASE UNCHANGED vars
  BY <1>4 DEF vars, LayoutInv
<1> QED
  BY <1>1, <1>2, <1>3, <1>4 DEF Next, Terminated

LEMMA LayoutInvariance == Spec => []LayoutInv
  BY DriverInvariance, LayoutStart, LayoutStep, PTL DEF Spec

\* For every stream, graph, number of devices and budget: no step, its
\* propagation, relief and renaming together, moves more old vertices than
\* the budget allows.
THEOREM BudgetIsRespected == Spec => BudgetRespected
<1> DEFINE Within == 100 * Changed(layout, layout')
                         <= BudgetPercent * Cardinality(DOMAIN layout')
<1>1. ASSUME DriverInv, LayoutInv, MoreWindows, layout' \in Layouts(Size),
             Changed(layout, layout') \in Nat, Changed(layout, layout') <= Budget(Size)
      PROVE  Within
  <2>1. Size \in Nat /\ Cardinality(DOMAIN layout') = Size
    <3>1. Size \in Nat /\ DOMAIN layout' = Vertex(Size)
      BY <1>1, ViewType DEF Layouts
    <3> QED
      BY <3>1, VertexType
  <2>2. Budget(Size) \in Nat /\ 100 * Budget(Size) <= BudgetPercent * Size
        /\ BudgetPercent * Size \in Nat
    BY <2>1, BudgetIs, PartitionAssumption DEF PartitionAssumption
  <2>3. 100 * Changed(layout, layout') <= 100 * Budget(Size)
    BY <1>1, <2>2
  <2> QED
    BY <1>1, <2>1, <2>2, <2>3
<1>2. ASSUME LayoutInv, NEW cur
      PROVE  Changed(layout, cur) \in Nat
  <2>1. {v \in DOMAIN layout : layout[v] # cur[v]} \in SUBSET DOMAIN layout
    OBVIOUS
  <2>2. IsFiniteSet(DOMAIN layout)
    BY <1>2, VertexType DEF LayoutInv, Layouts
  <2> QED
    BY <2>1, <2>2, FS_Subset, FS_CardinalityType DEF Changed
<1>3. DriverInv /\ LayoutInv /\ [Next]_vars => [Within]_vars
  <2> SUFFICES ASSUME DriverInv, LayoutInv, [Next]_vars PROVE [Within]_vars
    OBVIOUS
  <2>1. CASE ColdStart
    <3>1. Within
      BY <1>1, <2>1, ColdStartIs
    <3> QED
      BY <3>1
  <2>2. ASSUME NEW drift \in BOOLEAN, Reuse(drift) PROVE [Within]_vars
    <3>1. layout' = layout
      BY <2>2 DEF Reuse
    <3>2. {v \in DOMAIN layout : layout[v] # layout'[v]} = {}
      BY <3>1
    <3>3. Changed(layout, layout') = 0
      BY <3>2, FS_EmptySet DEF Changed
    <3>4. Cardinality(DOMAIN layout') \in Nat
      BY <3>1, VertexType, FS_CardinalityType DEF LayoutInv, Layouts
    <3>5. BudgetPercent * Cardinality(DOMAIN layout') \in Nat
      BY <3>4, PartitionAssumption DEF PartitionAssumption
    <3>6. Within
      BY <3>3, <3>5
    <3> QED
      BY <3>6
  <2>3. ASSUME NEW drift \in BOOLEAN, Refresh(drift) PROVE [Within]_vars
    <3>1. Within
      BY <1>1, <1>2, <2>3, RefreshIs
    <3> QED
      BY <3>1
  <2>4. CASE UNCHANGED vars
    BY <2>4
  <2> QED
    BY <2>1, <2>2, <2>3, <2>4 DEF Next, Terminated
<1> QED
  BY <1>3, DriverInvariance, LayoutInvariance, PTL DEF Spec, BudgetRespected

\* A lemma: BalancedLayout is the balance of the vertices the layout has.
LEMMA BalanceIs ==
    ASSUME NEW size \in Nat, layout \in Layouts(size)
    PROVE  BalancedLayout <=> Balanced(layout, size)
<1>1. Cardinality(DOMAIN layout) = size
  BY VertexType DEF Layouts
<1> QED
  BY <1>1 DEF BalancedLayout, Balanced

LEMMA BalanceIsNext ==
    ASSUME NEW size \in Nat, layout' \in Layouts(size), Balanced(layout', size)
    PROVE  BalancedLayout'
<1>1. Cardinality(DOMAIN layout') = size
  BY VertexType DEF Layouts
<1> QED
  BY <1>1 DEF BalancedLayout, Balanced

LEMMA BalanceStep ==
    D <= ExactMatchMax /\ DriverInv /\ LayoutInv /\ BalancedLayout /\ [Next]_vars
        => BalancedLayout'
<1> SUFFICES ASSUME D <= ExactMatchMax, DriverInv, LayoutInv, BalancedLayout, [Next]_vars
             PROVE  BalancedLayout'
  OBVIOUS
<1>1. ASSUME MoreWindows
      PROVE  /\ Size \in Nat /\ IsFiniteSet(DOMAIN View)
             /\ \E old \in Nat : Grows(layout, old, Size) /\ Balanced(layout, old)
  <2>1. PICK old \in Nat : Grows(layout, old, Size)
    BY <1>1, PriorIs
  <2>2. Balanced(layout, old)
    BY <2>1, BalanceIs DEF Grows
  <2> QED
    BY <1>1, <2>1, <2>2, ViewType
<1>2. CASE ColdStart
  <2>1. /\ layout' \in Layouts(Size) /\ MoreWindows
        /\ layout' \in PartitionIncremental(View, layout, 0, Size)
    BY <1>2, ColdStartIs DEF ColdStart
  <2>2. PICK old \in Nat : Grows(layout, old, Size) /\ Balanced(layout, old)
    BY <1>1, <2>1
  <2>3. Balanced(layout', Size)
    BY <1>1, <2>1, <2>2, IncrementalIsBalanced
  <2> QED
    BY <1>1, <2>1, <2>3, BalanceIsNext
<1>3. ASSUME NEW drift \in BOOLEAN, Reuse(drift) PROVE BalancedLayout'
  BY <1>3 DEF Reuse, BalancedLayout
<1>4. ASSUME NEW drift \in BOOLEAN, Refresh(drift) PROVE BalancedLayout'
  <2>1. PICK cur \in PartitionIncremental(View, layout, NewEdgeLo, Size) :
            layout' = MigrationMatch(layout, cur)
    BY <1>4 DEF Refresh, PlanIncremental
  <2>2. layout' \in Layouts(Size) /\ MoreWindows
    BY <1>4, RefreshIs
  <2>3. PICK old \in Nat : Grows(layout, old, Size) /\ Balanced(layout, old)
    BY <1>1, <2>2
  <2>4. cur \in Layouts(Size) /\ Balanced(cur, Size)
    BY <1>1, <2>2, <2>3, IncrementalIs, IncrementalIsBalanced
  <2>5. Balanced(layout', Size)
    BY <2>1, <2>3, <2>4, MatchIsBalanced
  <2> QED
    BY <1>1, <2>2, <2>5, BalanceIsNext
<1>5. CASE UNCHANGED vars
  BY <1>5 DEF vars, BalancedLayout
<1> QED
  BY <1>2, <1>3, <1>4, <1>5 DEF Next, Terminated

\* For every stream, growing graph and budget: through any refreshes and
\* reuses no device is overfull, as long as the labels are matched exactly.
\* (Above ExactMatchMax devices the greedy map may merge two of them.)
THEOREM LayoutStaysBalanced == D <= ExactMatchMax /\ Spec => []BalancedLayout
<1>1. Init => BalancedLayout
  <2> SUFFICES ASSUME Init, NEW d \in Devices PROVE LoadOn(layout, d) <= CapOf(0)
                                                    /\ Cardinality(DOMAIN layout) = 0
    BY DEF BalancedLayout
  <2>1. DOMAIN layout = {} /\ {v \in DOMAIN layout : layout[v] = d} = {}
    BY DEF Init
  <2>2. LoadOn(layout, d) = 0 /\ Cardinality(DOMAIN layout) = 0
    BY <2>1, FS_EmptySet DEF LoadOn
  <2>3. CapOf(0) \in Nat
    BY CapIs
  <2> QED
    BY <2>2, <2>3
<1>2. (D <= ExactMatchMax)' <=> D <= ExactMatchMax
  OBVIOUS
<1> QED
  BY <1>1, <1>2, BalanceStep, DriverInvariance, LayoutInvariance, PTL DEF Spec
=============================================================================
