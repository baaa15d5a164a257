--------------------------- MODULE PartitionProofs ---------------------------
(***************************************************************************)
(* Proofs about the partitioners, for every graph, weights, capacities and *)
(* number of parts.  First the polish mode: its counters are exact, its    *)
(* moves descend, the cut pass ends in a local optimum, and the straggler  *)
(* pass never makes the slowest part slower.  Then the streams: how full a *)
(* part gets, and that an edge within a part makes no new replica.  Last   *)
(* the multilevel mode: its levels stand for one another, its passes only  *)
(* lower the cut, and the balance pass restores the capacities it can.     *)
(***************************************************************************)
EXTENDS PolishPartition, MultilevelPartition, StreamingPartition, Counting

-----------------------------------------------------------------------------
(* What one move changes.                                                  *)

\* q is p after v has moved to b, on the graph g.
IsMove(g, p, v, b, q) ==
    /\ IsAdjacency(g)
    /\ p \in [Vertices -> Parts]
    /\ v \in Vertices /\ b \in Parts /\ b # p[v]
    /\ q = [p EXCEPT ![v] = b]

\* A lemma: the constants, as the proofs use them.
LEMMA Numbers ==
    /\ N \in Nat /\ D \in Nat /\ D > 0
    /\ Vertices \subseteq Nat /\ Parts \subseteq Nat /\ Parts # {} /\ 0 \in Parts
    /\ \A v \in Vertices : Vwgt[v] \in Nat
    /\ \A v, u \in Vertices : Ewgt[v][u] \in Nat /\ Ewgt[u][v] = Ewgt[v][u]
    /\ Vwgt = [v \in Vertices |-> Vwgt[v]]
  BY GraphAssumption, PartAssumption DEF GraphAssumption, PartAssumption, Vertices, Parts

\* A lemma: the sets the sums range over are finite.
LEMMA Finite ==
    /\ IsFiniteSet(Vertices) /\ IsFiniteSet(Parts)
    /\ \A S \in SUBSET Vertices : IsFiniteSet(S) /\ Cardinality(S) \in Nat
    /\ \A S \in SUBSET Parts : IsFiniteSet(S) /\ Cardinality(S) \in Nat
<1>1. IsFiniteSet(Vertices) /\ IsFiniteSet(Parts)
  BY Numbers, FS_Interval DEF Vertices, Parts
<1> QED
  BY <1>1, FS_Subset, FS_CardinalityType

\* A lemma: the vertex changes from one set of members to the other.
LEMMA MembersMove ==
    ASSUME NEW g, NEW p, NEW v, NEW b, NEW q, IsMove(g, p, v, b, q)
    PROVE  /\ q \in [Vertices -> Parts] /\ q[v] = b
           /\ p[v] \in Parts /\ b \in Parts /\ p[v] # b /\ v \in Vertices
           /\ v \in Members(p, p[v]) /\ v \notin Members(p, b)
           /\ Members(q, p[v]) = Members(p, p[v]) \ {v}
           /\ Members(q, b) = Members(p, b) \cup {v}
           /\ \A d \in Parts \ {p[v], b} : Members(q, d) = Members(p, d)
           /\ \A d \in Parts : Members(p, d) \subseteq Vertices
           /\ \A u \in Vertices \ {v} : q[u] = p[u]
  BY DEF IsMove, Members

\* A lemma: so does its term, in a sum over the members.
LEMMA MemberSumsMove ==
    ASSUME NEW g, NEW p, NEW v, NEW b, NEW q, IsMove(g, p, v, b, q),
           NEW f, \A u \in Vertices : f[u] \in Int
    PROVE  [d \in Parts |-> SumFunctionOnSet(f, Members(q, d))]
               = [[d \in Parts |-> SumFunctionOnSet(f, Members(p, d))]
                      EXCEPT ![p[v]] = @ - f[v], ![b] = @ + f[v]]
<1> DEFINE a == p[v]
           Sum(d) == SumFunctionOnSet(f, Members(p, d))
           New(d) == SumFunctionOnSet(f, Members(q, d))
<1>1. /\ a \in Parts /\ b \in Parts /\ a # b /\ v \in Vertices
      /\ v \in Members(p, a) /\ v \notin Members(p, b)
      /\ Members(q, a) = Members(p, a) \ {v}
      /\ Members(q, b) = Members(p, b) \cup {v}
      /\ \A d \in Parts \ {a, b} : Members(q, d) = Members(p, d)
  BY MembersMove
<1>2. \A d \in Parts : IsFiniteSet(Members(p, d)) /\ \A u \in Members(p, d) : f[u] \in Int
  <2>1. \A d \in Parts : Members(p, d) \in SUBSET Vertices
    BY MembersMove
  <2> QED
    BY <2>1, Finite
<1>3. IsFiniteSet(Members(q, b)) /\ \A u \in Members(q, b) : f[u] \in Int
  BY <1>1, <1>2, FS_AddElement
<1>4. Sum(a) = f[v] + New(a) /\ New(a) \in Int
  <2>1. Sum(a) = f[v] + SumFunctionOnSet(f, Members(p, a) \ {v})
    BY <1>1, <1>2, SumWithout
  <2>2. IsFiniteSet(Members(q, a)) /\ \A u \in Members(q, a) : f[u] \in Int
    BY <1>1, <1>2, FS_Subset
  <2>3. New(a) \in Int
    BY <2>2, SumType
  <2> QED
    BY <1>1, <2>1, <2>3
<1>5. New(b) = f[v] + Sum(b) /\ Sum(b) \in Int
  <2>1. New(b) = f[v] + SumFunctionOnSet(f, Members(q, b) \ {v})
    BY <1>1, <1>3, SumWithout
  <2>2. Members(q, b) \ {v} = Members(p, b)
    BY <1>1
  <2>3. Sum(b) \in Int
    BY <1>1, <1>2, SumType
  <2> QED
    BY <2>1, <2>2, <2>3
<1>6. \A d \in Parts \ {a, b} : New(d) = Sum(d)
  BY <1>1
<1>7. f[v] \in Int
  BY <1>1
<1>8. New(a) = Sum(a) - f[v] /\ New(b) = Sum(b) + f[v]
  BY <1>4, <1>5, <1>7
<1> HIDE DEF Sum, New
<1>9. [d \in Parts |-> New(d)]
          = [[d \in Parts |-> Sum(d)] EXCEPT ![a] = @ - f[v], ![b] = @ + f[v]]
  BY <1>1, <1>6, <1>8
<1> QED
  BY <1>9 DEF Sum, New

\* A lemma: the loads are natural numbers, and Relocate keeps them exact.
LEMMA LoadMoves ==
    ASSUME NEW g, NEW p, NEW v, NEW b, NEW q, IsMove(g, p, v, b, q)
    PROVE  LoadOf(q) = [LoadOf(p) EXCEPT ![p[v]] = @ - Vwgt[v], ![b] = @ + Vwgt[v]]
<1>1. \A u \in Vertices : Vwgt[u] \in Int
  BY Numbers
<1> QED
  BY <1>1, MemberSumsMove DEF LoadOf

\* A lemma: sums over vertices are numbers.
LEMMA SumsOverVertices ==
    ASSUME NEW f, \A u \in Vertices : f[u] \in Nat, NEW S \in SUBSET Vertices
    PROVE  SumFunctionOnSet(f, S) \in Nat
<1>1. IsFiniteSet(S) /\ \A u \in S : f[u] \in Int /\ f[u] \in Nat
  BY Finite
<1> QED
  BY <1>1, SumType

\* A lemma: degrees and connections are natural numbers.
LEMMA DegreesAreNumbers ==
    ASSUME NEW g, IsAdjacency(g), NEW v \in Vertices
    PROVE  /\ Degree(g, v) \in Nat /\ Degrees(g)[v] = Degree(g, v)
           /\ g[v] \subseteq Vertices /\ v \notin g[v]
           /\ \A p, d : Conn(g, p, v, d) \in Nat
<1>1. g[v] \subseteq Vertices /\ v \notin g[v]
  BY DEF IsAdjacency
<1>2. \A u \in Vertices : Ewgt[v][u] \in Nat
  BY Numbers
<1>3. Degree(g, v) \in Nat
  BY <1>1, <1>2, SumsOverVertices DEF Degree
<1>4. \A p, d : Conn(g, p, v, d) \in Nat
  <2> TAKE p, d
  <2>1. g[v] \cap Members(p, d) \in SUBSET Vertices
    BY <1>1
  <2> QED
    BY <1>2, <2>1, SumsOverVertices DEF Conn
<1> QED
  BY <1>1, <1>3, <1>4 DEF Degrees

\* A lemma: the incident traversals follow a move by the degree.
LEMMA IncidentMoves ==
    ASSUME NEW g, NEW p, NEW v, NEW b, NEW q, IsMove(g, p, v, b, q)
    PROVE  IncidentOf(g, q)
               = [IncidentOf(g, p) EXCEPT ![p[v]] = @ - Degree(g, v), ![b] = @ + Degree(g, v)]
<1>1. \A u \in Vertices : Degrees(g)[u] \in Int
  BY DegreesAreNumbers DEF IsMove
<1>2. Degrees(g)[v] = Degree(g, v)
  BY DegreesAreNumbers DEF IsMove
<1> QED
  BY <1>1, <1>2, MemberSumsMove DEF IncidentOf

\* A lemma: so do the counters of the neighbours, by one each.
LEMMA CountsMove ==
    ASSUME NEW g, NEW p, NEW v, NEW b, NEW q, IsMove(g, p, v, b, q),
           NEW c, c = CountsOf(g, p)
    PROVE  CountsOf(g, q)
               = [u \in Vertices |-> IF u \in g[v]
                                         THEN [c[u] EXCEPT ![p[v]] = @ - 1, ![b] = @ + 1]
                                         ELSE c[u]]
<1> DEFINE a == p[v]
           Old(u, d) == Cardinality(g[u] \cap Members(p, d))
           New(u, d) == Cardinality(g[u] \cap Members(q, d))
<1>1. /\ a \in Parts /\ b \in Parts /\ a # b /\ v \in Vertices
      /\ v \in Members(p, a) /\ v \notin Members(p, b)
      /\ Members(q, a) = Members(p, a) \ {v}
      /\ Members(q, b) = Members(p, b) \cup {v}
      /\ \A d \in Parts \ {a, b} : Members(q, d) = Members(p, d)
  BY MembersMove
<1>2. \A u \in Vertices : u \in g[v] <=> v \in g[u]
  BY DEF IsMove, IsAdjacency
<1>3. \A u \in Vertices : g[u] \in SUBSET Vertices
  BY DEF IsMove, IsAdjacency
<1>4. ASSUME NEW u \in Vertices, u \in g[v]
      PROVE  /\ New(u, a) = Old(u, a) - 1 /\ New(u, b) = Old(u, b) + 1
             /\ \A d \in Parts \ {a, b} : New(u, d) = Old(u, d)
  <2>1. v \in g[u] /\ IsFiniteSet(g[u])
    BY <1>2, <1>3, <1>4, Finite
  <2>2. New(u, a) = Old(u, a) - 1
    <3>1. g[u] \cap Members(q, a) = (g[u] \cap Members(p, a)) \ {v}
      BY <1>1
    <3> DEFINE X == g[u] \cap Members(p, a)
    <3>2. v \in X /\ IsFiniteSet(X)
      BY <1>1, <2>1, FS_Subset
    <3> HIDE DEF X
    <3>3. Cardinality(X \ {v}) = Cardinality(X) - 1
      BY <3>2, FS_RemoveElement
    <3> QED
      BY <3>1, <3>3 DEF X
  <2>3. New(u, b) = Old(u, b) + 1
    <3>1. g[u] \cap Members(q, b) = (g[u] \cap Members(p, b)) \cup {v}
      BY <1>1, <2>1
    <3>2. v \notin g[u] \cap Members(p, b) /\ IsFiniteSet(g[u] \cap Members(p, b))
      BY <1>1, <2>1, FS_Subset
    <3> QED
      BY <3>1, <3>2, FS_AddElement
  <2>4. \A d \in Parts \ {a, b} : New(u, d) = Old(u, d)
    BY <1>1
  <2> QED
    BY <2>2, <2>3, <2>4
<1>5. ASSUME NEW u \in Vertices, u \notin g[v], NEW d \in Parts
      PROVE  New(u, d) = Old(u, d)
  <2>1. v \notin g[u]
    BY <1>2, <1>5
  <2>2. g[u] \cap Members(q, d) = g[u] \cap Members(p, d)
    BY <1>1, <2>1
  <2> QED
    BY <2>2
<1>6. CountsOf(g, q) = [u \in Vertices |-> [d \in Parts |-> New(u, d)]]
  BY DEF CountsOf
<1>7. c = [u \in Vertices |-> [d \in Parts |-> Old(u, d)]]
  BY DEF CountsOf
<1> HIDE DEF Old, New
<1>8. ASSUME NEW u \in Vertices
      PROVE  [d \in Parts |-> New(u, d)]
                 = IF u \in g[v] THEN [c[u] EXCEPT ![a] = @ - 1, ![b] = @ + 1] ELSE c[u]
  <2>1. c[u] = [d \in Parts |-> Old(u, d)]
    BY <1>7
  <2>2. CASE u \in g[v]
    BY <1>1, <1>4, <2>1, <2>2
  <2>3. CASE u \notin g[v]
    BY <1>5, <2>1, <2>3
  <2> QED
    BY <2>2, <2>3
<1> QED
  BY <1>6, <1>8

\* The rows that d receives, of which ReceivedOf is the number.
Rows(g, p, d) == {u \in Vertices \ Members(p, d) : g[u] \cap Members(p, d) # {}}

\* A lemma: a row is received where a neighbour is counted.
LEMMA RowsAreCounted ==
    ASSUME NEW g, IsAdjacency(g), NEW p \in [Vertices -> Parts], NEW c, c = CountsOf(g, p),
           NEW d \in Parts
    PROVE  /\ Rows(g, p, d) = {u \in Vertices : p[u] # d /\ c[u][d] > 0}
           /\ \A u \in Vertices : c[u][d] \in Nat
           /\ ReceivedOf(g, p)[d] = Cardinality(Rows(g, p, d))
           /\ ReceivedOf(g, p)[d] \in Nat
<1>1. ASSUME NEW u \in Vertices
      PROVE  /\ c[u][d] \in Nat
             /\ c[u][d] > 0 <=> g[u] \cap Members(p, d) # {}
  <2>1. g[u] \cap Members(p, d) \in SUBSET Vertices
    BY DEF IsAdjacency
  <2>2. c[u][d] = Cardinality(g[u] \cap Members(p, d))
    BY DEF CountsOf
  <2>3. IsFiniteSet(g[u] \cap Members(p, d)) /\ c[u][d] \in Nat
    BY <2>1, <2>2, Finite
  <2>4. c[u][d] = 0 <=> g[u] \cap Members(p, d) = {}
    BY <2>2, <2>3, FS_EmptySet
  <2> QED
    BY <2>3, <2>4
<1>2. \A u \in Vertices : u \in Members(p, d) <=> p[u] = d
  BY DEF Members
<1>3. ReceivedOf(g, p)[d] = Cardinality(Rows(g, p, d))
  BY DEF ReceivedOf, Rows
<1>4. ReceivedOf(g, p)[d] \in Nat
  BY <1>3, Finite DEF Rows
<1> QED
  BY <1>1, <1>2, <1>3, <1>4 DEF Rows

\* A lemma: the received rows follow a move by the two differences.
LEMMA ReceivedMoves ==
    ASSUME NEW v, NEW b, NEW q, IsMove(adj, part, v, b, q), cnt = CountsOf(adj, part)
    PROVE  /\ ReceivedOf(adj, q)
                  = [ReceivedOf(adj, part) EXCEPT ![part[v]] = @ + LeavingDelta(v, part[v]),
                                                  ![b] = @ + EnteringDelta(v, b)]
           /\ LeavingDelta(v, part[v]) \in Int /\ EnteringDelta(v, b) \in Int
<1> DEFINE a == part[v]
           c2 == CountsOf(adj, q)
           Lost == {u \in adj[v] : cnt[u][a] = 1 /\ part[u] # a}
           Gained == {u \in adj[v] : cnt[u][b] = 0 /\ part[u] # b}
           Mine(d) == IF cnt[v][d] > 0 THEN {v} ELSE {}
           Old(d) == Rows(adj, part, d)
           New(d) == Rows(adj, q, d)
<1>1. /\ q \in [Vertices -> Parts] /\ q[v] = b /\ part \in [Vertices -> Parts]
      /\ a \in Parts /\ b \in Parts /\ a # b /\ v \in Vertices
      /\ \A u \in Vertices \ {v} : q[u] = part[u]
      /\ \A d \in Parts \ {a, b} : Members(q, d) = Members(part, d)
  <2>1. part \in [Vertices -> Parts]
    BY DEF IsMove
  <2> QED
    BY <2>1, MembersMove
<1>2. IsAdjacency(adj) /\ adj[v] \subseteq Vertices /\ v \notin adj[v]
  BY DEF IsMove, IsAdjacency
<1>3. c2 = [u \in Vertices |-> IF u \in adj[v]
                                   THEN [cnt[u] EXCEPT ![a] = @ - 1, ![b] = @ + 1]
                                   ELSE cnt[u]]
  BY CountsMove
<1>4. ASSUME NEW d \in Parts
      PROVE  /\ Old(d) = {u \in Vertices : part[u] # d /\ cnt[u][d] > 0}
             /\ New(d) = {u \in Vertices : q[u] # d /\ c2[u][d] > 0}
             /\ \A u \in Vertices : cnt[u][d] \in Nat
             /\ ReceivedOf(adj, part)[d] = Cardinality(Old(d))
             /\ ReceivedOf(adj, q)[d] = Cardinality(New(d))
             /\ IsFiniteSet(Old(d))
  <2> HIDE DEF a, c2
  <2>1. /\ Old(d) = {u \in Vertices : part[u] # d /\ cnt[u][d] > 0}
        /\ \A u \in Vertices : cnt[u][d] \in Nat
        /\ ReceivedOf(adj, part)[d] = Cardinality(Old(d))
    BY <1>1, <1>2, RowsAreCounted
  <2>2. /\ New(d) = {u \in Vertices : q[u] # d /\ c2[u][d] > 0}
        /\ ReceivedOf(adj, q)[d] = Cardinality(New(d))
    BY <1>1, <1>2, RowsAreCounted DEF c2
  <2>3. Old(d) \in SUBSET Vertices
    BY <2>1
  <2> QED
    BY <2>1, <2>2, <2>3, Finite
<1>5. \A u \in Vertices : cnt[u] = [d \in Parts |-> cnt[u][d]]
  BY DEF CountsOf
<1>6. /\ \A u \in adj[v] : c2[u][a] = cnt[u][a] - 1 /\ c2[u][b] = cnt[u][b] + 1
      /\ \A u \in Vertices \ adj[v] : c2[u] = cnt[u]
  <2> HIDE DEF a, c2
  <2> QED
    BY <1>1, <1>2, <1>3, <1>5
<1>7. IsFiniteSet(Lost) /\ IsFiniteSet(Gained)
  <2>1. Lost \in SUBSET Vertices /\ Gained \in SUBSET Vertices
    BY <1>2
  <2> HIDE DEF Lost, Gained
  <2> QED
    BY <2>1, Finite
<1>8. \A d \in Parts : /\ IsFiniteSet(Mine(d))
                       /\ Cardinality(Mine(d)) = IF cnt[v][d] > 0 THEN 1 ELSE 0
  BY FS_EmptySet, FS_Singleton
<1> HIDE DEF c2, Old, New
<1>9. ReceivedOf(adj, q)[a] = ReceivedOf(adj, part)[a] + LeavingDelta(v, a)
      /\ LeavingDelta(v, a) \in Int
  <2>1. New(a) = (Old(a) \ Lost) \cup Mine(a)
    <3>1. ASSUME NEW u \in Vertices PROVE u \in New(a) <=> u \in (Old(a) \ Lost) \cup Mine(a)
      <4>1. CASE u = v
        <5>1. u \in New(a) <=> cnt[v][a] > 0
          BY <1>1, <1>2, <1>4, <1>6, <4>1
        <5>2. u \notin Old(a)
          BY <1>1, <1>4, <4>1
        <5> QED
          BY <4>1, <5>1, <5>2
      <4>2. CASE u # v
        <5>1. u \in New(a) <=> part[u] # a /\ c2[u][a] > 0
          BY <1>1, <1>4, <4>2
        <5>2. u \in Old(a) <=> part[u] # a /\ cnt[u][a] > 0
          BY <1>1, <1>4
        <5>3. cnt[u][a] \in Nat
          BY <1>1, <1>4
        <5>4. u \in adj[v] => c2[u][a] = cnt[u][a] - 1
          BY <1>6
        <5>5. u \notin adj[v] => c2[u][a] = cnt[u][a]
          BY <1>6
        <5>6. u \in Lost <=> u \in adj[v] /\ cnt[u][a] = 1 /\ part[u] # a
          OBVIOUS
        <5> HIDE DEF Lost, a
        <5>7. u \in New(a) <=> u \in Old(a) /\ u \notin Lost
          BY <5>1, <5>2, <5>3, <5>4, <5>5, <5>6
        <5> QED
          BY <4>2, <5>7
      <4> QED
        BY <4>1, <4>2
    <3>2. New(a) \subseteq Vertices /\ (Old(a) \ Lost) \cup Mine(a) \subseteq Vertices
      BY <1>1, <1>4
    <3> HIDE DEF a, Lost, Mine
    <3> QED
      BY <3>1, <3>2
  <2>2. Lost \in SUBSET Old(a) /\ Mine(a) \cap Old(a) = {}
    BY <1>1, <1>2, <1>4
  <2>3. LeavingDelta(v, a) = Cardinality(Mine(a)) - Cardinality(Lost)
    BY <1>1, <1>8 DEF LeavingDelta
  <2>4. IsFiniteSet(Mine(a)) /\ IsFiniteSet(Old(a))
    BY <1>1, <1>4, <1>8
  <2> HIDE DEF Lost, Mine, a
  <2>5. /\ Cardinality((Old(a) \ Lost) \cup Mine(a))
               = Cardinality(Old(a)) - Cardinality(Lost) + Cardinality(Mine(a))
        /\ Cardinality(Lost) \in Nat /\ Cardinality(Mine(a)) \in Nat
        /\ Cardinality(Old(a)) \in Nat
    BY <2>2, <2>4, LoseAndGain
  <2>6. /\ ReceivedOf(adj, part)[a] = Cardinality(Old(a))
        /\ ReceivedOf(adj, q)[a] = Cardinality(New(a))
    BY <1>1, <1>4
  <2> QED
    BY <2>1, <2>3, <2>5, <2>6
<1>10. ReceivedOf(adj, q)[b] = ReceivedOf(adj, part)[b] + EnteringDelta(v, b)
       /\ EnteringDelta(v, b) \in Int
  <2>1. New(b) = (Old(b) \ Mine(b)) \cup Gained
    <3>1. ASSUME NEW u \in Vertices PROVE u \in New(b) <=> u \in (Old(b) \ Mine(b)) \cup Gained
      <4>1. CASE u = v
        <5>1. u \notin New(b) /\ u \notin Gained
          BY <1>1, <1>2, <1>4, <4>1
        <5>2. u \in Old(b) <=> cnt[v][b] > 0
          BY <1>1, <1>4, <4>1
        <5> QED
          BY <4>1, <5>1, <5>2
      <4>2. CASE u # v
        <5>1. u \in New(b) <=> part[u] # b /\ c2[u][b] > 0
          BY <1>1, <1>4, <4>2
        <5>2. u \in Old(b) <=> part[u] # b /\ cnt[u][b] > 0
          BY <1>1, <1>4
        <5>3. cnt[u][b] \in Nat
          BY <1>1, <1>4
        <5>4. u \in adj[v] => c2[u][b] = cnt[u][b] + 1
          BY <1>6
        <5>5. u \notin adj[v] => c2[u][b] = cnt[u][b]
          BY <1>6
        <5>6. u \in Gained <=> u \in adj[v] /\ cnt[u][b] = 0 /\ part[u] # b
          OBVIOUS
        <5> HIDE DEF Gained, a
        <5>7. u \in New(b) <=> u \in Old(b) \/ u \in Gained
          BY <5>1, <5>2, <5>3, <5>4, <5>5, <5>6
        <5> QED
          BY <4>2, <5>7
      <4> QED
        BY <4>1, <4>2
    <3>2. New(b) \subseteq Vertices /\ (Old(b) \ Mine(b)) \cup Gained \subseteq Vertices
      BY <1>1, <1>2, <1>4
    <3> HIDE DEF a, Gained, Mine
    <3> QED
      BY <3>1, <3>2
  <2>2. Mine(b) \in SUBSET Old(b) /\ Gained \cap Old(b) = {}
    <3>1. Mine(b) \in SUBSET Old(b)
      BY <1>1, <1>4
    <3>2. \A u \in Gained : cnt[u][b] = 0
      OBVIOUS
    <3>3. \A u \in Old(b) : cnt[u][b] > 0
      BY <1>1, <1>4
    <3> HIDE DEF Gained, Mine
    <3> QED
      BY <3>1, <3>2, <3>3
  <2>3. EnteringDelta(v, b) = Cardinality(Gained) - Cardinality(Mine(b))
    BY <1>1, <1>8 DEF EnteringDelta
  <2>4. IsFiniteSet(Gained) /\ IsFiniteSet(Old(b))
    BY <1>1, <1>4, <1>7
  <2> HIDE DEF Gained, Mine
  <2>5. /\ Cardinality((Old(b) \ Mine(b)) \cup Gained)
               = Cardinality(Old(b)) - Cardinality(Mine(b)) + Cardinality(Gained)
        /\ Cardinality(Gained) \in Nat /\ Cardinality(Mine(b)) \in Nat
        /\ Cardinality(Old(b)) \in Nat
    BY <2>2, <2>4, LoseAndGain
  <2>6. /\ ReceivedOf(adj, part)[b] = Cardinality(Old(b))
        /\ ReceivedOf(adj, q)[b] = Cardinality(New(b))
    BY <1>1, <1>4
  <2> QED
    BY <2>1, <2>3, <2>5, <2>6
<1>11. \A d \in Parts \ {a, b} : ReceivedOf(adj, q)[d] = ReceivedOf(adj, part)[d]
  BY <1>1 DEF ReceivedOf
<1>12. /\ ReceivedOf(adj, part) = [d \in Parts |-> ReceivedOf(adj, part)[d]]
       /\ ReceivedOf(adj, q) = [d \in Parts |-> ReceivedOf(adj, q)[d]]
  BY DEF ReceivedOf
<1> HIDE DEF a
<1>13. ReceivedOf(adj, q)
           = [ReceivedOf(adj, part) EXCEPT ![a] = @ + LeavingDelta(v, a),
                                           ![b] = @ + EnteringDelta(v, b)]
  BY <1>1, <1>9, <1>10, <1>11, <1>12
<1> QED
  BY <1>9, <1>10, <1>13 DEF a

\* A lemma: the volume is a natural number.
LEMMA VolumeIsNumber ==
    ASSUME NEW g, IsAdjacency(g), NEW p \in [Vertices -> Parts]
    PROVE  /\ Volume(g, p) = SumFunctionOnSet(ReceivedOf(g, p), Parts)
           /\ Volume(g, p) \in Nat
           /\ \A d \in Parts : ReceivedOf(g, p)[d] \in Nat
<1>1. \A d \in Parts : ReceivedOf(g, p)[d] \in Nat
  BY RowsAreCounted
<1>2. Volume(g, p) = SumFunctionOnSet(ReceivedOf(g, p), Parts)
  BY DEF Volume, SumFunction, ReceivedOf
<1>3. SumFunctionOnSet(ReceivedOf(g, p), Parts) \in Nat
  <2>1. \A d \in Parts : ReceivedOf(g, p)[d] \in Int /\ ReceivedOf(g, p)[d] \in Nat
    BY <1>1
  <2> QED
    BY <2>1, Finite, SumType
<1> QED
  BY <1>1, <1>2, <1>3

\* A lemma: it follows a move by the difference.
LEMMA VolumeMoves ==
    ASSUME NEW v, NEW b, NEW q, IsMove(adj, part, v, b, q), cnt = CountsOf(adj, part)
    PROVE  /\ Volume(adj, q) = Volume(adj, part) + VolumeDelta(v, b)
           /\ Volume(adj, q) \in Nat /\ Volume(adj, part) \in Nat
           /\ VolumeDelta(v, b) \in Int
<1> DEFINE a == part[v]
           old == ReceivedOf(adj, part)
           new == ReceivedOf(adj, q)
           la == LeavingDelta(v, a)
           eb == EnteringDelta(v, b)
<1>1. /\ q \in [Vertices -> Parts] /\ part \in [Vertices -> Parts]
      /\ a \in Parts /\ b \in Parts /\ a # b /\ IsAdjacency(adj)
  <2>1. part \in [Vertices -> Parts] /\ IsAdjacency(adj)
    BY DEF IsMove
  <2> QED
    BY <2>1, MembersMove
<1>2. /\ new = [old EXCEPT ![a] = @ + la, ![b] = @ + eb]
      /\ la \in Int /\ eb \in Int
  BY ReceivedMoves
<1>3. /\ Volume(adj, part) = SumFunctionOnSet(old, Parts) /\ Volume(adj, part) \in Nat
      /\ Volume(adj, q) = SumFunctionOnSet(new, Parts) /\ Volume(adj, q) \in Nat
      /\ \A d \in Parts : old[d] \in Int /\ new[d] \in Int
  <2>1. \A d \in Parts : old[d] \in Nat /\ new[d] \in Nat
    BY <1>1, VolumeIsNumber
  <2> QED
    BY <1>1, <2>1, VolumeIsNumber
<1>4. old = [d \in Parts |-> old[d]]
  BY DEF ReceivedOf
<1>5. VolumeDelta(v, b) = la + eb
  BY DEF VolumeDelta
<1> HIDE DEF a, old, new, la, eb
<1>6. /\ new[a] = old[a] + la /\ new[b] = old[b] + eb
      /\ \A d \in Parts \ {a, b} : new[d] = old[d]
  BY <1>1, <1>2, <1>4
<1>7. SumFunctionOnSet(new, Parts)
          = SumFunctionOnSet(old, Parts) + ((new[a] - old[a]) + (new[b] - old[b]))
  BY <1>1, <1>3, <1>6, Finite, SumOfTwoChanges
<1>8. new[a] - old[a] = la /\ new[b] - old[b] = eb
  BY <1>1, <1>2, <1>3, <1>6
<1> QED
  BY <1>2, <1>3, <1>5, <1>7, <1>8

\* A lemma: what a move changes in the contribution of each vertex to the cut.
LEMMA CutAtMoves ==
    ASSUME NEW g, NEW p, NEW v, NEW b, NEW q, IsMove(g, p, v, b, q), NEW u \in Vertices
    PROVE  CutAt(g, q)[u] - CutAt(g, p)[u]
               = IF u = v THEN Conn(g, p, v, p[v]) - Conn(g, p, v, b)
                 ELSE IF u \in g[v] /\ p[u] = p[v] THEN Ewgt[v][u]
                 ELSE IF u \in g[v] /\ p[u] = b THEN -Ewgt[v][u]
                 ELSE 0
<1> DEFINE a == p[v]
<1>1. /\ v \in Vertices /\ a \in Parts /\ b \in Parts /\ a # b
      /\ q \in [Vertices -> Parts] /\ q[v] = b
      /\ v \in Members(p, a) /\ v \notin Members(p, b)
      /\ Members(q, a) = Members(p, a) \ {v}
      /\ Members(q, b) = Members(p, b) \cup {v}
      /\ \A d \in Parts \ {a, b} : Members(q, d) = Members(p, d)
      /\ \A w \in Vertices \ {v} : q[w] = p[w]
  BY MembersMove
<1>2. /\ IsAdjacency(g) /\ v \notin g[v] /\ g[u] \subseteq Vertices /\ p \in [Vertices -> Parts]
      /\ u \in g[v] <=> v \in g[u]
  BY DEF IsMove, IsAdjacency
<1>3. /\ CutAt(g, q)[u] = Degree(g, u) - Conn(g, q, u, q[u])
      /\ CutAt(g, p)[u] = Degree(g, u) - Conn(g, p, u, p[u])
  BY DEF CutAt
<1>4. /\ Degree(g, u) \in Nat
      /\ \A d : Conn(g, p, u, d) \in Nat /\ Conn(g, q, u, d) \in Nat
  BY <1>2, DegreesAreNumbers
<1>5. CASE u = v
  <2>1. g[v] \cap Members(q, b) = g[v] \cap Members(p, b)
    BY <1>1, <1>2
  <2>2. Conn(g, q, v, b) = Conn(g, p, v, b)
    BY <2>1 DEF Conn
  <2> HIDE DEF a
  <2> QED
    BY <1>1, <1>3, <1>4, <1>5, <2>2 DEF a
<1>6. CASE u # v /\ u \notin g[v]
  <2>1. \A d \in Parts : g[u] \cap Members(q, d) = g[u] \cap Members(p, d)
    BY <1>1, <1>2, <1>6
  <2>2. q[u] = p[u] /\ p[u] \in Parts
    BY <1>1, <1>2, <1>6
  <2>3. Conn(g, q, u, q[u]) = Conn(g, p, u, p[u])
    BY <2>1, <2>2 DEF Conn
  <2> QED
    BY <1>3, <1>4, <1>6, <2>3
<1>7. CASE u # v /\ u \in g[v]
  <2> DEFINE d == p[u]
             X == g[u] \cap Members(p, d)
             Y == g[u] \cap Members(q, d)
  <2>1. q[u] = d /\ d \in Parts
    BY <1>1, <1>2, <1>7
  <2>2. Conn(g, p, u, d) = SumFunctionOnSet(Ewgt[u], X) /\ Conn(g, q, u, d) = SumFunctionOnSet(Ewgt[u], Y)
    BY DEF Conn
  <2>3. /\ IsFiniteSet(X) /\ IsFiniteSet(Y)
        /\ \A w \in X : Ewgt[u][w] \in Int
        /\ \A w \in Y : Ewgt[u][w] \in Int
    <3>1. X \in SUBSET Vertices /\ Y \in SUBSET Vertices
      BY <1>2
    <3> HIDE DEF X, Y
    <3> QED
      BY <3>1, Finite, Numbers
  <2>4. Ewgt[u][v] = Ewgt[v][u] /\ Ewgt[v][u] \in Nat
    BY <1>1, Numbers
  <2>5. CASE d = a
    <3>1. v \in X /\ Y = X \ {v}
      BY <1>1, <1>2, <1>7, <2>5
    <3> HIDE DEF X, Y
    <3>2. SumFunctionOnSet(Ewgt[u], X) = Ewgt[u][v] + SumFunctionOnSet(Ewgt[u], X \ {v})
      BY <2>3, <3>1, SumWithout
    <3>3. Conn(g, p, u, d) = Ewgt[v][u] + Conn(g, q, u, d)
      BY <2>2, <2>4, <3>1, <3>2
    <3> HIDE DEF d
    <3>4. CutAt(g, q)[u] - CutAt(g, p)[u] = Ewgt[v][u]
      BY <1>3, <1>4, <2>1, <2>4, <3>3 DEF d
    <3> QED
      BY <1>7, <2>5, <3>4 DEF d
  <2>6. CASE d = b
    <3>1. v \in Y /\ X = Y \ {v}
      BY <1>1, <1>2, <1>7, <2>6
    <3> HIDE DEF X, Y
    <3>2. SumFunctionOnSet(Ewgt[u], Y) = Ewgt[u][v] + SumFunctionOnSet(Ewgt[u], Y \ {v})
      BY <2>3, <3>1, SumWithout
    <3>3. Conn(g, q, u, d) = Ewgt[v][u] + Conn(g, p, u, d)
      BY <2>2, <2>4, <3>1, <3>2
    <3> HIDE DEF d
    <3>4. CutAt(g, q)[u] - CutAt(g, p)[u] = -Ewgt[v][u]
      BY <1>3, <1>4, <2>1, <2>4, <3>3 DEF d
    <3> QED
      BY <1>1, <1>7, <2>6, <3>4 DEF d
  <2>7. CASE d \notin {a, b}
    <3>1. Y = X
      BY <1>1, <2>1, <2>7
    <3>2. Conn(g, q, u, d) = Conn(g, p, u, d)
      BY <2>2, <3>1
    <3>3. CutAt(g, q)[u] - CutAt(g, p)[u] = 0
      BY <1>3, <1>4, <2>1, <3>2
    <3> HIDE DEF d
    <3> QED
      BY <1>7, <2>7, <3>3 DEF d
  <2> QED
    BY <2>5, <2>6, <2>7
<1> QED
  BY <1>5, <1>6, <1>7

\* A lemma: the cut, counted at both ends of an edge, falls by twice the gain.
LEMMA CutMoves ==
    ASSUME NEW g, NEW p, NEW v, NEW b, NEW q, IsMove(g, p, v, b, q)
    PROVE  /\ Cut(g, q) = Cut(g, p) - 2 * (Conn(g, p, v, b) - Conn(g, p, v, p[v]))
           /\ Cut(g, q) \in Int /\ Cut(g, p) \in Int
           /\ Conn(g, p, v, b) \in Nat /\ Conn(g, p, v, p[v]) \in Nat
<1> DEFINE a == p[v]
           old == CutAt(g, p)
           new == CutAt(g, q)
           e == [u \in Vertices |-> new[u] - old[u]]
           A == g[v] \cap Members(p, a)
           B == g[v] \cap Members(p, b)
           ca == Conn(g, p, v, a)
           cb == Conn(g, p, v, b)
           wt == Ewgt[v]
<1>1. v \in Vertices /\ a # b /\ a \in Parts /\ b \in Parts
  BY MembersMove
<1>2. IsAdjacency(g) /\ v \notin g[v] /\ g[v] \subseteq Vertices
  BY DEF IsMove, IsAdjacency
<1>3. ca \in Nat /\ cb \in Nat
  BY <1>1, <1>2, DegreesAreNumbers
<1>4. \A u \in Vertices : old[u] \in Int /\ new[u] \in Int /\ e[u] \in Int /\ new[u] = old[u] + e[u]
  <2>1. ASSUME NEW u \in Vertices PROVE old[u] \in Int /\ new[u] \in Int
    BY <1>2, DegreesAreNumbers DEF CutAt
  <2> HIDE DEF old, new
  <2> QED
    BY <2>1
<1>5. /\ Cut(g, p) = SumFunctionOnSet(old, Vertices)
      /\ Cut(g, q) = SumFunctionOnSet(new, Vertices)
  BY DEF Cut, SumFunction, CutAt
<1>6. /\ e[v] = ca - cb
      /\ \A u \in A : e[u] = wt[u]
      /\ \A u \in B : e[u] = -wt[u]
      /\ \A u \in Vertices \ (A \cup B \cup {v}) : e[u] = 0
  <2>1. \A u \in Vertices : e[u] = IF u = v THEN ca - cb
                                   ELSE IF u \in g[v] /\ p[u] = a THEN wt[u]
                                   ELSE IF u \in g[v] /\ p[u] = b THEN -wt[u]
                                   ELSE 0
    BY CutAtMoves
  <2>2. \A u \in g[v] : (u \in A <=> p[u] = a) /\ (u \in B <=> p[u] = b) /\ u # v
    BY <1>2 DEF Members
  <2> HIDE DEF e, a, ca, cb, wt
  <2> QED
    BY <1>1, <1>2, <2>1, <2>2
<1>7. /\ IsFiniteSet(A) /\ IsFiniteSet(B) /\ A \cap B = {} /\ A \subseteq Vertices \ {v}
      /\ B \subseteq Vertices \ {v}
  <2>1. A \in SUBSET Vertices /\ B \in SUBSET Vertices /\ A \cap B = {} /\ v \notin A /\ v \notin B
    BY <1>1, <1>2 DEF Members
  <2> HIDE DEF A, B
  <2> QED
    BY <2>1, Finite
<1>8. \A u \in Vertices : wt[u] \in Nat
  BY <1>1, Numbers
<1>9. ca = SumFunctionOnSet(wt, A) /\ cb = SumFunctionOnSet(wt, B)
  BY DEF Conn
<1> HIDE DEF a, old, new, e, A, B, ca, cb, wt
<1>10. SumFunctionOnSet(e, A) = ca
  BY <1>6, <1>7, <1>9, SumOfSame
<1>11. SumFunctionOnSet(e, B) = -cb
  <2> DEFINE zero == [u \in Vertices |-> 0]
  <2>1. \A u \in B : e[u] \in Int /\ wt[u] \in Int /\ zero[u] = e[u] + wt[u]
    BY <1>4, <1>6, <1>7, <1>8
  <2>2. SumFunctionOnSet(zero, B) = SumFunctionOnSet(e, B) + SumFunctionOnSet(wt, B)
    BY <1>7, <2>1, SumOfPlus
  <2>3. SumFunctionOnSet(zero, B) = 0
    <3>1. (\A u \in B : zero[u] \in Int) /\ \A u \in B \ {} : zero[u] = 0
      BY <1>7
    <3> HIDE DEF zero
    <3>2. SumFunctionOnSet(zero, B) = SumFunctionOnSet(zero, {})
      BY <1>7, <3>1, SumOfZeros
    <3>3. SumFunctionOnSet(zero, {}) = 0
      BY FS_EmptySet, SumUnfolds
    <3> QED
      BY <3>2, <3>3
  <2>4. SumFunctionOnSet(e, B) \in Int
    <3>1. \A u \in B : e[u] \in Int
      BY <1>4, <1>7
    <3> QED
      BY <1>7, <3>1, SumType
  <2> QED
    BY <1>3, <1>9, <2>2, <2>3, <2>4
<1>12. SumFunctionOnSet(e, Vertices) = (ca - cb) + (ca - cb)
  <2> DEFINE W == Vertices \ {v}
  <2>1. SumFunctionOnSet(e, Vertices) = e[v] + SumFunctionOnSet(e, W)
    BY <1>1, <1>4, Finite, SumWithout
  <2>2. SumFunctionOnSet(e, W) = SumFunctionOnSet(e, A \cup B)
    <3>1. A \cup B \in SUBSET W /\ \A u \in W \ (A \cup B) : e[u] = 0
      BY <1>6, <1>7
    <3>2. IsFiniteSet(W) /\ \A u \in W : e[u] \in Int
      BY <1>4, Finite
    <3> HIDE DEF W
    <3> QED
      BY <3>1, <3>2, SumOfZeros
  <2>3. SumFunctionOnSet(e, A \cup B) = SumFunctionOnSet(e, A) + SumFunctionOnSet(e, B)
    <3>1. \A u \in A \cup B : e[u] \in Int
      BY <1>4, <1>7
    <3> QED
      BY <1>7, <3>1, SumOfUnion
  <2> QED
    BY <1>3, <1>6, <1>10, <1>11, <2>1, <2>2, <2>3
<1>13. SumFunctionOnSet(new, Vertices) = SumFunctionOnSet(old, Vertices) + SumFunctionOnSet(e, Vertices)
  BY <1>4, Finite, SumOfPlus
<1>14. SumFunctionOnSet(old, Vertices) \in Int /\ SumFunctionOnSet(new, Vertices) \in Int
  BY <1>4, Finite, SumType
<1>15. Cut(g, q) = Cut(g, p) - 2 * (cb - ca)
  BY <1>3, <1>5, <1>12, <1>13, <1>14
<1> QED
  BY <1>3, <1>5, <1>14, <1>15 DEF ca, cb, a

-----------------------------------------------------------------------------
(* The invariant of the polish mode.                                       *)

PolishTypeOK ==
    /\ adj \in Graphs /\ alpha \in Alphas
    /\ part \in [Vertices -> Parts]
    /\ phase \in {"kway", "balance", "volume", "makespan", "written"}
    /\ pass \in Nat /\ moved \in BOOLEAN
    /\ todo \subseteq Vertices

\* A sweep moves vertices out of the costliest part, within the budget.
SweepInv ==
    phase = "makespan" =>
        /\ straggler \in Parts
        /\ \A v \in todo : part[v] = straggler
        /\ todo # {} => straggler = Straggler(recv, inc)
        /\ tot0 \in Nat /\ drift \in Int
        /\ drift <= (Slack * tot0) \div 100

CannotGain(v) == \A d \in Parts : Fits(v, d) /\ d # part[v] => KwayGain(v, d) <= 0

\* Until a pass of refine_kway moves a vertex, those it has seen cannot gain.
QuietInv == phase = "kway" /\ ~moved => \A v \in Vertices \ todo : CannotGain(v)

PolishInv == PolishTypeOK /\ CountersExact /\ SweepInv /\ QuietInv

\* A lemma: a run is given a simple undirected graph.
LEMMA GraphIsSimple ==
    ASSUME PolishTypeOK
    PROVE  IsAdjacency(adj) /\ alpha \in Nat /\ Slack \in Nat
  BY PolishAssumption DEF PolishAssumption, PolishTypeOK

\* A lemma: without a neighbour in a part, there is nothing to gain there.
LEMMA NoNeighbourNoGain ==
    ASSUME PolishTypeOK, NEW v \in Vertices, NEW d \in Parts, \A u \in adj[v] : part[u] # d
    PROVE  KwayGain(v, d) <= 0
<1>1. IsAdjacency(adj)
  BY GraphIsSimple
<1>2. Conn(adj, part, v, part[v]) \in Nat
  BY <1>1, DegreesAreNumbers
<1>3. adj[v] \cap Members(part, d) = {}
  BY DEF Members
<1>4. Conn(adj, part, v, d) = 0
  <2>1. SumFunctionOnSet(Ewgt[v], {}) = 0
    BY FS_EmptySet, SumUnfolds
  <2> QED
    BY <1>3, <2>1 DEF Conn
<1> QED
  BY <1>2, <1>4 DEF KwayGain

\* A lemma: interior vertices cannot gain.
LEMMA InteriorIsQuiet ==
    ASSUME PolishTypeOK
    PROVE  /\ \A v \in Vertices \ Boundary : CannotGain(v)
           /\ Boundary \subseteq Vertices
<1>1. ASSUME NEW v \in Vertices \ Boundary, NEW d \in Parts, d # part[v]
      PROVE  KwayGain(v, d) <= 0
  <2>1. \A u \in adj[v] : part[u] # d
    BY <1>1 DEF Boundary
  <2> QED
    BY <2>1, NoNeighbourNoGain
<1> QED
  BY <1>1 DEF CannotGain, Boundary

\* A lemma: relocating a vertex is a move that keeps the loads exact.
LEMMA RelocateIsMove ==
    ASSUME PolishTypeOK, load = LoadOf(part),
           NEW v \in Vertices, NEW d \in Parts \ {part[v]}, Relocate(v, d)
    PROVE  /\ IsMove(adj, part, v, d, part')
           /\ part' \in [Vertices -> Parts]
           /\ load' = LoadOf(part') /\ moved' = TRUE
<1>1. part' = [part EXCEPT ![v] = d] /\ moved' = TRUE
  BY DEF Relocate
<1>2. IsMove(adj, part, v, d, part')
  BY <1>1, GraphIsSimple DEF IsMove, PolishTypeOK
<1>3. LoadOf(part') = [LoadOf(part) EXCEPT ![part[v]] = @ - Vwgt[v], ![d] = @ + Vwgt[v]]
  BY <1>2, LoadMoves
<1>4. part' \in [Vertices -> Parts]
  BY <1>1 DEF PolishTypeOK
<1> QED
  BY <1>1, <1>2, <1>3, <1>4 DEF Relocate

\* A lemma: Recounted is the recount.
LEMMA RecountedIsExact ==
    ASSUME NEW v, NEW d, NEW q, IsMove(adj, part, v, d, q), cnt = CountsOf(adj, part)
    PROVE  CountsOf(adj, q) = Recounted(v, part[v], d)
  BY CountsMove DEF Recounted

\* A lemma: the costliest part has the highest cost.
LEMMA StragglerIsCostliest ==
    ASSUME alpha \in Nat, NEW r, NEW n, \A d \in Parts : r[d] \in Int /\ n[d] \in Int
    PROVE  /\ Straggler(r, n) \in Parts
           /\ \A d \in Parts : Cost(r, n, d) <= Cost(r, n, Straggler(r, n))
           /\ \A d \in Parts : Cost(r, n, d) \in Int
<1> DEFINE f == [d \in Parts |-> Cost(r, n, d)]
           IsFirst(a) == \A d \in Parts : \/ Cost(r, n, d) < Cost(r, n, a)
                                          \/ Cost(r, n, d) = Cost(r, n, a) /\ a <= d
<1>1. \A d \in Parts : Cost(r, n, d) \in Int
  BY DEF Cost
<1>2. \A d \in Parts : f[d] = Cost(r, n, d) /\ f[d] \in Int
  BY <1>1
<1>3. PICK m \in Parts : \A d \in Parts : f[m] > f[d] \/ (f[m] = f[d] /\ m <= d)
  <2> HIDE DEF f
  <2> QED
    BY <1>2, Numbers, Finite, FirstOfBest
<1>4. IsFirst(m)
  BY <1>1, <1>2, <1>3
<1>5. Straggler(r, n) = CHOOSE a \in Parts : IsFirst(a)
  BY DEF Straggler
<1> HIDE DEF IsFirst
<1>6. Straggler(r, n) \in Parts /\ IsFirst(Straggler(r, n))
  BY <1>4, <1>5
<1> QED
  BY <1>1, <1>6 DEF IsFirst

\* A lemma: the counters of the straggler pass are numbers.
LEMMA CostsAreNumbers ==
    ASSUME PolishTypeOK, NEW p \in [Vertices -> Parts], NEW d \in Parts
    PROVE  ReceivedOf(adj, p)[d] \in Nat /\ IncidentOf(adj, p)[d] \in Nat
<1>1. IsAdjacency(adj)
  BY GraphIsSimple
<1>2. ReceivedOf(adj, p)[d] \in Nat
  BY <1>1, VolumeIsNumber
<1>3. \A u \in Vertices : Degrees(adj)[u] \in Nat
  BY <1>1, DegreesAreNumbers
<1>4. IncidentOf(adj, p)[d] = SumFunctionOnSet(Degrees(adj), Members(p, d))
  BY DEF IncidentOf
<1>5. Members(p, d) \in SUBSET Vertices
  BY DEF Members
<1> QED
  BY <1>2, <1>3, <1>4, <1>5, SumsOverVertices

\* A lemma: the straggler of exact counters is a part, and none costs more.
LEMMA StragglerOfExact ==
    ASSUME PolishTypeOK,
           NEW p \in [Vertices -> Parts], NEW r, NEW n,
           r = ReceivedOf(adj, p), n = IncidentOf(adj, p)
    PROVE  /\ Straggler(r, n) \in Parts
           /\ \A d \in Parts : Cost(r, n, d) <= Cost(r, n, Straggler(r, n))
           /\ \A d \in Parts : Cost(r, n, d) \in Int /\ r[d] \in Nat /\ n[d] \in Nat
<1>1. \A d \in Parts : r[d] \in Nat /\ n[d] \in Nat
  BY CostsAreNumbers
<1>2. alpha \in Nat
  BY GraphIsSimple
<1>3. \A d \in Parts : r[d] \in Int /\ n[d] \in Int
  BY <1>1
<1> QED
  BY <1>1, <1>2, <1>3, StragglerIsCostliest

\* A lemma: a run starts with exact counters and nothing seen.
LEMMA InitPolishInv == Init => PolishInv
<1> SUFFICES ASSUME Init PROVE PolishInv
  OBVIOUS
<1>1. PolishTypeOK
  BY Numbers DEF Init, PolishTypeOK, Boundary
<1>2. CountersExact /\ SweepInv
  BY DEF Init, CountersExact, SweepInv
<1>3. QuietInv
  BY <1>1, InteriorIsQuiet DEF Init, QuietInv
<1> QED
  BY <1>1, <1>2, <1>3 DEF PolishInv

\* A lemma: what a step leaves alone stays as it was.
LEMMA SameCannotGain ==
    ASSUME UNCHANGED <<adj, part, load>>
    PROVE  \A v : CannotGain(v)' <=> CannotGain(v)
  BY DEF CannotGain, Fits, KwayGain, Conn

\* A lemma: a vertex that refine_kway leaves where it is cannot gain.
LEMMA VisitedIsQuiet ==
    ASSUME PolishTypeOK, NEW v \in Vertices, KwayTargets(v) = {}
    PROVE  CannotGain(v)
<1>1. ASSUME NEW d \in Parts, Fits(v, d), d # part[v] PROVE KwayGain(v, d) <= 0
  <2>1. CASE \E u \in adj[v] : part[u] = d
    <3>1. ~(KwayGain(v, d) > 0)
      BY <1>1, <2>1 DEF KwayTargets
    <3>2. KwayGain(v, d) \in Int
      <4>1. \A e : Conn(adj, part, v, e) \in Nat
        BY GraphIsSimple, DegreesAreNumbers
      <4>2. Conn(adj, part, v, d) \in Nat /\ Conn(adj, part, v, part[v]) \in Nat
        BY <4>1
      <4> QED
        BY <4>2 DEF KwayGain
    <3> QED
      BY <3>1, <3>2
  <2>2. CASE ~(\E u \in adj[v] : part[u] = d)
    BY <2>2, NoNeighbourNoGain
  <2> QED
    BY <2>1, <2>2
<1> QED
  BY <1>1 DEF CannotGain

\* A lemma: the steps of refine_kway keep the invariant.
LEMMA KwaySteps ==
    ASSUME PolishInv, (\E v \in todo : KwayVisit(v)) \/ NextKwayPass
    PROVE  PolishInv'
<1> USE DEF PolishInv
<1>1. ASSUME NEW v \in todo, KwayVisit(v) PROVE PolishInv'
  <2>1. /\ phase = "kway" /\ phase' = "kway" /\ pass' = pass /\ todo' = todo \ {v}
        /\ adj' = adj /\ alpha' = alpha /\ v \in Vertices
    BY <1>1 DEF KwayVisit, input, PolishTypeOK
  <2>2. CASE KwayTargets(v) = {} /\ Stay
    <3>1. PolishTypeOK'
      BY <2>1, <2>2 DEF PolishTypeOK, Stay
    <3>2. CountersExact' /\ SweepInv'
      BY <2>1, <2>2 DEF CountersExact, SweepInv, Stay, LoadOf, Members
    <3>3. CannotGain(v)
      BY <2>1, <2>2, VisitedIsQuiet
    <3>4. UNCHANGED <<adj, part, load>> /\ moved' = moved
      BY <2>1, <2>2 DEF Stay
    <3>5. \A u : CannotGain(u)' <=> CannotGain(u)
      BY <3>4, SameCannotGain
    <3>6. QuietInv'
      BY <2>1, <3>3, <3>4, <3>5 DEF QuietInv
    <3> QED
      BY <3>1, <3>2, <3>6
  <2>3. ASSUME NEW d \in KwayTargets(v), Relocate(v, d) PROVE PolishInv'
    <3>1. d \in Parts \ {part[v]} /\ load = LoadOf(part)
      BY DEF KwayTargets, CountersExact
    <3>2. part' \in [Vertices -> Parts] /\ load' = LoadOf(part') /\ moved' = TRUE
      BY <2>1, <2>3, <3>1, RelocateIsMove
    <3>3. PolishTypeOK'
      BY <2>1, <3>2 DEF PolishTypeOK
    <3>4. CountersExact' /\ SweepInv' /\ QuietInv'
      BY <2>1, <3>2 DEF CountersExact, SweepInv, QuietInv, LoadOf, Members
    <3> QED
      BY <3>3, <3>4
  <2> QED
    BY <1>1, <2>2, <2>3 DEF KwayVisit
<1>2. ASSUME NextKwayPass PROVE PolishInv'
  <2>1. /\ phase = "kway" /\ phase' = "kway" /\ pass' = pass + 1 /\ todo' = Boundary
        /\ UNCHANGED <<adj, part, load>> /\ alpha' = alpha /\ moved' = FALSE
    BY <1>2 DEF NextKwayPass, input
  <2>2. Boundary \subseteq Vertices /\ \A v \in Vertices \ Boundary : CannotGain(v)
    BY InteriorIsQuiet
  <2>3. PolishTypeOK'
    <3>1. todo' \subseteq Vertices /\ pass' \in Nat /\ moved' \in BOOLEAN
      <4>1. pass \in Nat
        BY DEF PolishTypeOK
      <4>2. pass' \in Nat
        BY <2>1, <4>1
      <4> QED
        BY <2>1, <2>2, <4>2
    <3> QED
      BY <2>1, <3>1 DEF PolishTypeOK
  <2>4. CountersExact' /\ SweepInv'
    BY <2>1 DEF CountersExact, SweepInv, LoadOf, Members
  <2>5. \A v : CannotGain(v)' <=> CannotGain(v)
    BY <2>1, SameCannotGain
  <2>6. QuietInv'
    BY <2>1, <2>2, <2>5 DEF QuietInv
  <2> QED
    BY <2>3, <2>4, <2>6
<1> QED
  BY <1>1, <1>2

\* A lemma: so do those of balance_kway, and the start of it.
LEMMA BalanceSteps ==
    ASSUME PolishInv, (\E v \in todo : BalanceVisit(v)) \/ NextBalancePass \/ EnterBalance
    PROVE  PolishInv'
<1> USE DEF PolishInv
<1>1. ASSUME NEW v \in todo, BalanceVisit(v) PROVE PolishInv'
  <2>1. /\ phase = "balance" /\ phase' = "balance" /\ pass' = pass /\ todo' = todo \ {v}
        /\ adj' = adj /\ alpha' = alpha /\ v \in Vertices
    BY <1>1 DEF BalanceVisit, input, PolishTypeOK
  <2>2. CASE Stay
    BY <2>1, <2>2 DEF PolishTypeOK, Stay, CountersExact, SweepInv, QuietInv, LoadOf, Members
  <2>3. ASSUME NEW d \in BalanceTargets(v), Relocate(v, d) PROVE PolishInv'
    <3>1. d \in Parts \ {part[v]} /\ load = LoadOf(part)
      BY DEF BalanceTargets, CountersExact
    <3>2. part' \in [Vertices -> Parts] /\ load' = LoadOf(part') /\ moved' = TRUE
      BY <2>1, <2>3, <3>1, RelocateIsMove
    <3>3. PolishTypeOK'
      BY <2>1, <3>2 DEF PolishTypeOK
    <3>4. CountersExact' /\ SweepInv' /\ QuietInv'
      BY <2>1, <3>2 DEF CountersExact, SweepInv, QuietInv, LoadOf, Members
    <3> QED
      BY <3>3, <3>4
  <2> QED
    BY <1>1, <2>2, <2>3 DEF BalanceVisit
<1>2. ASSUME NextBalancePass \/ EnterBalance PROVE PolishInv'
  <2>1. /\ phase' = "balance" /\ pass' \in Nat /\ todo' = Vertices /\ moved' = FALSE
        /\ adj' = adj /\ part' = part /\ alpha' = alpha /\ load' = LoadOf(part)
    BY <1>2 DEF NextBalancePass, EnterBalance, input, PolishTypeOK, CountersExact
  <2>2. PolishTypeOK'
    BY <2>1 DEF PolishTypeOK
  <2>3. CountersExact' /\ SweepInv' /\ QuietInv'
    BY <2>1 DEF CountersExact, SweepInv, QuietInv, LoadOf, Members
  <2> QED
    BY <2>2, <2>3
<1> QED
  BY <1>1, <1>2

\* A lemma: a vertex is listed once its counters say that it has a neighbour away.
LEMMA CountedBoundaryType ==
    /\ \A p, c : CountedBoundary(p, c) \subseteq Vertices
    /\ \A a, p, c : SweepOf(a, p, c) \subseteq Vertices /\ \A v \in SweepOf(a, p, c) : p[v] = a
  BY DEF CountedBoundary, SweepOf

\* A lemma: so do those of refine_volume, and the start of it.
LEMMA VolumeSteps ==
    ASSUME PolishInv, (\E v \in todo : VolumeVisit(v)) \/ NextVolumePass \/ EnterVolume
    PROVE  PolishInv'
<1> USE DEF PolishInv
<1>1. ASSUME NEW v \in todo, VolumeVisit(v) PROVE PolishInv'
  <2>1. /\ phase = "volume" /\ phase' = "volume" /\ pass' = pass /\ todo' = todo \ {v}
        /\ adj' = adj /\ alpha' = alpha /\ v \in Vertices
    BY <1>1 DEF VolumeVisit, input, PolishTypeOK
  <2>2. CASE Stay /\ UNCHANGED cnt
    BY <2>1, <2>2 DEF PolishTypeOK, Stay, CountersExact, SweepInv, QuietInv, LoadOf, CountsOf, Members
  <2>3. ASSUME NEW d \in VolumeTargets(v), Relocate(v, d), cnt' = Recounted(v, part[v], d)
        PROVE  PolishInv'
    <3>1. d \in Parts \ {part[v]} /\ load = LoadOf(part) /\ cnt = CountsOf(adj, part)
      BY <2>1 DEF VolumeTargets, CountersExact
    <3>2. /\ part' \in [Vertices -> Parts] /\ load' = LoadOf(part') /\ moved' = TRUE
          /\ IsMove(adj, part, v, d, part')
      BY <2>1, <2>3, <3>1, RelocateIsMove
    <3>3. cnt' = CountsOf(adj, part')
      BY <2>3, <3>1, <3>2, RecountedIsExact
    <3>4. PolishTypeOK'
      BY <2>1, <3>2 DEF PolishTypeOK
    <3>5. CountersExact' /\ SweepInv' /\ QuietInv'
      BY <2>1, <3>2, <3>3 DEF CountersExact, SweepInv, QuietInv, LoadOf, CountsOf, Members
    <3> QED
      BY <3>4, <3>5
  <2> QED
    BY <1>1, <2>2, <2>3 DEF VolumeVisit
<1>2. ASSUME NextVolumePass \/ EnterVolume PROVE PolishInv'
  <2>1. /\ phase' = "volume" /\ pass' \in Nat /\ moved' = FALSE
        /\ adj' = adj /\ part' = part /\ alpha' = alpha /\ load' = LoadOf(part)
        /\ cnt' = CountsOf(adj, part)
    BY <1>2 DEF NextVolumePass, EnterVolume, counters, input, PolishTypeOK, CountersExact
  <2>2. todo' \subseteq Vertices
    BY <1>2, CountedBoundaryType DEF NextVolumePass, EnterVolume
  <2>3. PolishTypeOK'
    BY <2>1, <2>2 DEF PolishTypeOK
  <2>4. CountersExact' /\ SweepInv' /\ QuietInv'
    BY <2>1 DEF CountersExact, SweepInv, QuietInv, LoadOf, CountsOf, Members
  <2> QED
    BY <2>3, <2>4
<1> QED
  BY <1>1, <1>2

\* A lemma: the first straggler is the costliest part of the whole partition.
LEMMA EnterMakespanStep ==
    ASSUME PolishInv, EnterMakespan
    PROVE  PolishInv'
<1>1. /\ phase' = "makespan" /\ pass' = 1 /\ moved' = FALSE /\ load' = LoadOf(part)
      /\ cnt' = CountsOf(adj, part) /\ recv' = ReceivedOf(adj, part)
      /\ inc' = IncidentOf(adj, part) /\ drift' = 0 /\ tot0' = Volume(adj, part)
      /\ straggler' = Straggler(recv', inc') /\ todo' = SweepOf(straggler', part, cnt')
      /\ adj' = adj /\ alpha' = alpha /\ part' = part
  BY DEF EnterMakespan, input
<1>2. PolishTypeOK /\ part \in [Vertices -> Parts]
  BY DEF PolishInv, PolishTypeOK
<1>3. todo' \subseteq Vertices /\ \A v \in todo' : part'[v] = straggler'
  BY <1>1, CountedBoundaryType
<1>4. Straggler(recv', inc') \in Parts
  BY <1>1, <1>2, StragglerOfExact
<1>5. Straggler(recv, inc)' = Straggler(recv', inc')
  BY <1>1 DEF Straggler, Cost
<1>6. Volume(adj, part) \in Nat
  BY <1>2, GraphIsSimple, VolumeIsNumber
<1>7. PolishTypeOK'
  BY <1>1, <1>2, <1>3 DEF PolishTypeOK
<1>8. CountersExact'
  <2>1. load' = LoadOf(part')
    BY <1>1
  <2>2. tot0' + drift' = Volume(adj', part')
    BY <1>1, <1>6
  <2> QED
    BY <1>1, <2>1, <2>2 DEF CountersExact
<1>9. SweepInv'
  <2>1. 0 <= (Slack * tot0') \div 100
    <3>1. Slack \in Nat /\ tot0' \in Nat
      BY <1>1, <1>2, <1>6, GraphIsSimple
    <3>2. \A x, y \in Nat : x * y \in Nat
      OBVIOUS
    <3>3. Slack * tot0' \in Nat
      BY <3>1, <3>2
    <3>4. \A x \in Nat : 0 <= x \div 100
      OBVIOUS
    <3> QED
      BY <3>3, <3>4
  <2>2. drift' <= (Slack * tot0') \div 100 /\ drift' \in Int /\ tot0' \in Nat
    BY <1>1, <1>6, <2>1
  <2>3. straggler' \in Parts /\ straggler' = Straggler(recv, inc)'
    BY <1>1, <1>4, <1>5
  <2> QED
    BY <1>3, <2>2, <2>3 DEF SweepInv
<1>10. QuietInv'
  BY <1>1 DEF QuietInv
<1> QED
  BY <1>7, <1>8, <1>9, <1>10 DEF PolishInv

\* A lemma: what a move of refine_makespan does to the counters.
LEMMA MakespanMoveIsExact ==
    ASSUME PolishInv, phase = "makespan", NEW v \in todo, NEW b \in MakespanTargets(v),
           Relocate(v, b), cnt' = Recounted(v, straggler, b)
    PROVE  /\ v \in Vertices /\ part[v] = straggler /\ straggler \in Parts
           /\ b \in Parts /\ b # straggler
           /\ IsMove(adj, part, v, b, part')
           /\ part' \in [Vertices -> Parts] /\ part' = [part EXCEPT ![v] = b]
           /\ load' = LoadOf(part') /\ moved' = TRUE
           /\ cnt' = CountsOf(adj, part')
           /\ ReceivedOf(adj, part')
                  = [recv EXCEPT ![straggler] = @ + LeavingDelta(v, straggler),
                                 ![b] = @ + EnteringDelta(v, b)]
           /\ IncidentOf(adj, part')
                  = [inc EXCEPT ![straggler] = @ - Degree(adj, v), ![b] = @ + Degree(adj, v)]
           /\ Volume(adj, part') = Volume(adj, part) + VolumeDelta(v, b)
           /\ VolumeDelta(v, b) \in Int /\ Volume(adj, part) \in Nat
           /\ LeavingDelta(v, straggler) \in Int /\ EnteringDelta(v, b) \in Int
<1>1. /\ v \in Vertices /\ part[v] = straggler /\ straggler \in Parts
      /\ b \in Parts \ {part[v]} /\ load = LoadOf(part) /\ cnt = CountsOf(adj, part)
      /\ recv = ReceivedOf(adj, part) /\ inc = IncidentOf(adj, part)
  BY DEF PolishInv, PolishTypeOK, SweepInv, CountersExact, MakespanTargets
<1>2. PolishTypeOK
  BY DEF PolishInv
<1>3. /\ IsMove(adj, part, v, b, part') /\ part' \in [Vertices -> Parts]
      /\ load' = LoadOf(part') /\ moved' = TRUE
  BY <1>1, <1>2, RelocateIsMove
<1>4. cnt' = CountsOf(adj, part')
  BY <1>1, <1>3, RecountedIsExact
<1>5. /\ ReceivedOf(adj, part')
             = [recv EXCEPT ![straggler] = @ + LeavingDelta(v, straggler),
                            ![b] = @ + EnteringDelta(v, b)]
      /\ LeavingDelta(v, straggler) \in Int /\ EnteringDelta(v, b) \in Int
  BY <1>1, <1>3, ReceivedMoves
<1>6. IncidentOf(adj, part')
          = [inc EXCEPT ![straggler] = @ - Degree(adj, v), ![b] = @ + Degree(adj, v)]
  BY <1>1, <1>3, IncidentMoves
<1>7. /\ Volume(adj, part') = Volume(adj, part) + VolumeDelta(v, b)
      /\ VolumeDelta(v, b) \in Int /\ Volume(adj, part) \in Nat
  BY <1>1, <1>3, VolumeMoves
<1>8. part' = [part EXCEPT ![v] = b]
  BY DEF Relocate
<1> QED
  BY <1>1, <1>3, <1>4, <1>5, <1>6, <1>7, <1>8

\* A lemma: the steps of refine_makespan keep the invariant.
LEMMA MakespanSteps ==
    ASSUME PolishInv, (\E v \in todo : MakespanStay(v) \/ MakespanMove(v)) \/ NextSweep
    PROVE  PolishInv'
<1>0. PolishTypeOK /\ part \in [Vertices -> Parts]
  BY DEF PolishInv, PolishTypeOK
<1>1. ASSUME NEW v \in todo, MakespanStay(v) PROVE PolishInv'
  <2>1. /\ phase = "makespan" /\ todo' = todo \ {v}
        /\ UNCHANGED <<adj, alpha, part, phase, pass, moved, load, cnt, recv, inc, drift, tot0, straggler>>
    BY <1>1 DEF MakespanStay, input, counters
  <2>2. PolishTypeOK'
    BY <1>0, <2>1 DEF PolishTypeOK
  <2>3. CountersExact' /\ QuietInv'
    BY <2>1 DEF PolishInv, CountersExact, QuietInv, LoadOf, CountsOf, ReceivedOf, IncidentOf, Degrees,
           Degree, Volume, Members
  <2>4. Straggler(recv, inc)' = Straggler(recv, inc)
    BY <2>1 DEF Straggler, Cost
  <2>5. SweepInv'
    BY <2>1, <2>4 DEF PolishInv, SweepInv
  <2> QED
    BY <2>2, <2>3, <2>5 DEF PolishInv
<1>2. ASSUME NEW v \in todo, MakespanMove(v) PROVE PolishInv'
  <2>1. /\ phase = "makespan" /\ phase' = "makespan" /\ pass' = pass
        /\ adj' = adj /\ alpha' = alpha /\ tot0' = tot0 /\ straggler' = straggler
    BY <1>2 DEF MakespanMove, input
  <2>2. PICK b \in MakespanTargets(v) :
            /\ Relocate(v, b) /\ cnt' = Recounted(v, straggler, b)
            /\ recv' = [recv EXCEPT ![straggler] = @ + LeavingDelta(v, straggler),
                                    ![b] = @ + EnteringDelta(v, b)]
            /\ inc' = [inc EXCEPT ![straggler] = @ - Degree(adj, v), ![b] = @ + Degree(adj, v)]
            /\ drift' = drift + VolumeDelta(v, b)
            /\ todo' = IF Straggler(recv', inc') = straggler THEN todo \ {v} ELSE {}
    BY <1>2 DEF MakespanMove
  <2>3. /\ v \in Vertices /\ part' \in [Vertices -> Parts] /\ part' = [part EXCEPT ![v] = b]
        /\ load' = LoadOf(part') /\ moved' = TRUE /\ cnt' = CountsOf(adj, part')
        /\ recv' = ReceivedOf(adj, part') /\ inc' = IncidentOf(adj, part')
        /\ Volume(adj, part') = Volume(adj, part) + VolumeDelta(v, b)
        /\ VolumeDelta(v, b) \in Int /\ Volume(adj, part) \in Nat
    BY <2>1, <2>2, MakespanMoveIsExact
  <2>4. todo' \subseteq todo \ {v} /\ todo \subseteq Vertices
    BY <1>0, <2>2 DEF PolishTypeOK
  <2>5. PolishTypeOK'
    BY <1>0, <2>1, <2>3, <2>4 DEF PolishTypeOK
  <2>6. /\ tot0 \in Nat /\ drift \in Int /\ straggler \in Parts
        /\ \A u \in todo : part[u] = straggler
        /\ tot0 + drift = Volume(adj, part)
    BY <2>1 DEF PolishInv, SweepInv, CountersExact
  <2>7. CountersExact'
    <3>1. tot0' + drift' = Volume(adj', part')
      BY <2>1, <2>2, <2>3, <2>6
    <3> QED
      BY <2>1, <2>3, <3>1 DEF CountersExact
  <2>8. SweepInv'
    <3>1. \A u \in todo' : part'[u] = straggler'
      BY <1>0, <2>1, <2>3, <2>4, <2>6
    <3>2. drift' <= (Slack * tot0') \div 100 /\ drift' \in Int
      BY <2>1, <2>2, <2>3, <2>6 DEF MakespanTargets, WithinBudget
    <3>3. Straggler(recv, inc)' = Straggler(recv', inc')
      BY <2>1 DEF Straggler, Cost
    <3>4. todo' # {} => straggler' = Straggler(recv, inc)'
      BY <2>1, <2>2, <3>3
    <3> QED
      BY <2>1, <2>6, <3>1, <3>2, <3>4 DEF SweepInv
  <2>9. QuietInv'
    BY <2>1 DEF QuietInv
  <2> QED
    BY <2>5, <2>7, <2>8, <2>9 DEF PolishInv
<1>3. ASSUME NextSweep PROVE PolishInv'
  <2>1. /\ phase = "makespan" /\ phase' = "makespan" /\ pass' = pass + 1 /\ moved' = FALSE
        /\ straggler' = Straggler(recv, inc) /\ todo' = SweepOf(straggler', part, cnt)
        /\ UNCHANGED <<adj, alpha, part, load, cnt, recv, inc, drift, tot0>>
    BY <1>3 DEF NextSweep, input
  <2>2. todo' \subseteq Vertices /\ \A v \in todo' : part'[v] = straggler'
    BY <2>1, CountedBoundaryType
  <2>3. PolishTypeOK'
    <3>1. pass \in Nat
      BY <1>0 DEF PolishTypeOK
    <3>2. pass' \in Nat
      BY <2>1, <3>1
    <3> QED
      BY <1>0, <2>1, <2>2, <3>2 DEF PolishTypeOK
  <2>4. CountersExact' /\ QuietInv'
    BY <2>1 DEF PolishInv, CountersExact, QuietInv, LoadOf, CountsOf, ReceivedOf, IncidentOf, Degrees,
           Degree, Volume, Members
  <2>5. recv = ReceivedOf(adj, part) /\ inc = IncidentOf(adj, part)
    BY <2>1 DEF PolishInv, CountersExact
  <2>6. straggler' \in Parts
    BY <1>0, <2>1, <2>5, StragglerOfExact
  <2>7. Straggler(recv, inc)' = Straggler(recv, inc)
    BY <2>1 DEF Straggler, Cost
  <2>8. SweepInv'
    BY <2>1, <2>2, <2>6, <2>7 DEF PolishInv, SweepInv
  <2> QED
    BY <2>3, <2>4, <2>8 DEF PolishInv
<1> QED
  BY <1>1, <1>2, <1>3

\* A lemma: writing the partition out, and a step of another module, change nothing.
LEMMA IdleSteps ==
    ASSUME PolishInv, Write \/ Terminated \/ UNCHANGED vars
    PROVE  PolishInv'
<1>1. UNCHANGED <<adj, alpha, part, pass, todo, moved, load, cnt, recv, inc, drift, tot0, straggler>>
  BY DEF Write, Terminated, vars, input, counters
<1>2. phase' = phase \/ phase' = "written"
  BY DEF Write, Terminated, vars
<1>3. PolishTypeOK'
  BY <1>1, <1>2 DEF PolishInv, PolishTypeOK
<1>4. CountersExact'
  BY <1>1, <1>2 DEF PolishInv, CountersExact, LoadOf, CountsOf, ReceivedOf, IncidentOf, Degrees,
         Degree, Volume, Members
<1>5. Straggler(recv, inc)' = Straggler(recv, inc)
  BY <1>1 DEF Straggler, Cost
<1>6. SweepInv'
  BY <1>1, <1>2, <1>5 DEF PolishInv, SweepInv
<1>7. \A v : CannotGain(v)' <=> CannotGain(v)
  BY <1>1, SameCannotGain
<1>8. QuietInv'
  BY <1>1, <1>2, <1>7 DEF PolishInv, QuietInv
<1> QED
  BY <1>3, <1>4, <1>6, <1>8 DEF PolishInv

\* A lemma: the invariant holds along every behaviour.
LEMMA PolishInvariance == Spec => []PolishInv
<1>1. PolishInv /\ [Next]_vars => PolishInv'
  <2> SUFFICES ASSUME PolishInv, [Next]_vars PROVE PolishInv'
    OBVIOUS
  <2>1. CASE (\E v \in todo : KwayVisit(v)) \/ NextKwayPass
    BY <2>1, KwaySteps
  <2>2. CASE (\E v \in todo : BalanceVisit(v)) \/ NextBalancePass \/ EnterBalance
    BY <2>2, BalanceSteps
  <2>3. CASE (\E v \in todo : VolumeVisit(v)) \/ NextVolumePass \/ EnterVolume
    BY <2>3, VolumeSteps
  <2>4. CASE EnterMakespan
    BY <2>4, EnterMakespanStep
  <2>5. CASE (\E v \in todo : MakespanStay(v) \/ MakespanMove(v)) \/ NextSweep
    BY <2>5, MakespanSteps
  <2>6. CASE Write \/ Terminated \/ UNCHANGED vars
    BY <2>6, IdleSteps
  <2> QED
    BY <2>1, <2>2, <2>3, <2>4, <2>5, <2>6 DEF Next, Visit
<1> QED
  BY <1>1, InitPolishInv, PTL DEF Spec

-----------------------------------------------------------------------------
(* What the polish mode promises.                                          *)

\* After any number of moves of any of the four functions, the counters are
\* what a recount of the partition gives.
THEOREM CountersNeverDrift == Spec => []CountersExact
<1>1. PolishInv => CountersExact
  BY DEF PolishInv
<1> QED
  BY <1>1, PolishInvariance, PTL

\* When refine_kway stops because a pass moved nothing, no vertex can lower
\* the cut by moving to a part it fits in: not even those never looked at.
THEOREM KwayEndsOptimal == Spec => []KwayLocalOptimum
<1>1. PolishInv => KwayLocalOptimum
  BY DEF PolishInv, QuietInv, CannotGain, KwayLocalOptimum
<1> QED
  BY <1>1, PolishInvariance, PTL

\* A lemma: a part is changed by a visit, which moves one vertex.
LEMMA MovesAreVisits ==
    ASSUME PolishInv, [Next]_vars, part' # part
    PROVE  \E v \in todo :
               \/ /\ phase = "kway"
                  /\ \E d \in KwayTargets(v) : Relocate(v, d)
               \/ /\ phase = "balance"
                  /\ \E d \in BalanceTargets(v) : Relocate(v, d)
               \/ /\ phase = "volume"
                  /\ \E d \in VolumeTargets(v) : Relocate(v, d)
               \/ /\ phase = "makespan"
                  /\ \E b \in MakespanTargets(v) :
                         Relocate(v, b) /\ cnt' = Recounted(v, straggler, b)
<1>1. PICK v \in todo : Visit(v)
  BY DEF Next, NextKwayPass, NextBalancePass, NextVolumePass, NextSweep, EnterBalance, EnterVolume,
         EnterMakespan, Write, Terminated, vars
<1>2. CASE KwayVisit(v)
  BY <1>2 DEF KwayVisit, Stay
<1>3. CASE BalanceVisit(v)
  BY <1>3 DEF BalanceVisit, Stay
<1>4. CASE VolumeVisit(v)
  BY <1>4 DEF VolumeVisit, Stay
<1>5. CASE MakespanStay(v)
  BY <1>5 DEF MakespanStay
<1>6. CASE MakespanMove(v)
  BY <1>6 DEF MakespanMove
<1> QED
  BY <1>1, <1>2, <1>3, <1>4, <1>5, <1>6 DEF Visit

\* A lemma: a move to where the vertex fits lets a part grow within its
\* capacity only.
LEMMA GrowsWithinCapacity ==
    ASSUME PolishInv, NEW v \in Vertices, NEW d \in Parts \ {part[v]}, Fits(v, d),
           Relocate(v, d), NEW e \in Parts, LoadOf(part')[e] > LoadOf(part)[e]
    PROVE  LoadOf(part')[e] <= Cap[e]
<1>1. /\ load = LoadOf(part) /\ part \in [Vertices -> Parts] /\ PolishTypeOK
      /\ Vwgt[v] \in Nat
  BY Numbers DEF PolishInv, CountersExact, PolishTypeOK
<1>2. load' = LoadOf(part') /\ \A x \in Parts : load[x] \in Nat
  <2>1. \A x \in Parts : Members(part, x) \in SUBSET Vertices
    BY DEF Members
  <2>2. \A x \in Parts : LoadOf(part)[x] \in Nat
    BY <2>1, Numbers, SumsOverVertices DEF LoadOf
  <2> QED
    BY <1>1, <2>2, RelocateIsMove
<1>3. load'[e] > load[e]
  BY <1>1, <1>2
<1>4. load' = [load EXCEPT ![part[v]] = @ - Vwgt[v], ![d] = @ + Vwgt[v]] /\ part[v] \in Parts
      /\ load = [x \in Parts |-> load[x]]
  BY <1>1 DEF Relocate, LoadOf
<1>5. e = d /\ load'[d] = load[d] + Vwgt[v]
  BY <1>1, <1>2, <1>3, <1>4
<1> QED
  BY <1>2, <1>5 DEF Fits

\* In all four passes a part grows within its capacity only.  Every move of
\* refine_kway lowers the weight of the cut, and every move of refine_volume
\* the communication volume, recomputed from the graph.
THEOREM MovesDescend == Spec => EveryMoveDescends
<1>1. ASSUME PolishInv, [Next]_vars, part' # part
      PROVE  /\ \A e \in Parts : LoadOf(part')[e] > LoadOf(part)[e]
                                    => LoadOf(part')[e] <= Cap[e]
             /\ phase = "kway" => Cut(adj, part') < Cut(adj, part)
             /\ phase = "volume" => Volume(adj, part') < Volume(adj, part)
  <2>1. PolishTypeOK /\ load = LoadOf(part) /\ todo \subseteq Vertices
    BY <1>1 DEF PolishInv, CountersExact, PolishTypeOK
  <2>2. ASSUME phase = "kway" PROVE Cut(adj, part') < Cut(adj, part)
    <3>1. PICK v \in todo : \E d \in KwayTargets(v) : Relocate(v, d)
      BY <1>1, <2>2, MovesAreVisits
    <3>2. PICK d \in KwayTargets(v) : Relocate(v, d)
      BY <3>1
    <3>3. d \in Parts \ {part[v]} /\ KwayGain(v, d) > 0 /\ v \in Vertices
      BY <2>1 DEF KwayTargets
    <3>4. IsMove(adj, part, v, d, part')
      BY <2>1, <3>2, <3>3, RelocateIsMove
    <3>5. /\ Cut(adj, part') = Cut(adj, part) - 2 * KwayGain(v, d)
          /\ Cut(adj, part') \in Int /\ Cut(adj, part) \in Int /\ KwayGain(v, d) \in Int
      BY <3>4, CutMoves DEF KwayGain
    <3> QED
      BY <3>3, <3>5
  <2>3. ASSUME phase = "volume" PROVE Volume(adj, part') < Volume(adj, part)
    <3>1. PICK v \in todo : \E d \in VolumeTargets(v) : Relocate(v, d)
      BY <1>1, <2>3, MovesAreVisits
    <3>2. PICK d \in VolumeTargets(v) : Relocate(v, d)
      BY <3>1
    <3>3. d \in Parts \ {part[v]} /\ VolumeDelta(v, d) < 0 /\ v \in Vertices
      BY <2>1 DEF VolumeTargets
    <3>4. IsMove(adj, part, v, d, part')
      BY <2>1, <3>2, <3>3, RelocateIsMove
    <3>5. cnt = CountsOf(adj, part)
      BY <1>1, <2>3 DEF PolishInv, CountersExact
    <3>6. /\ Volume(adj, part') = Volume(adj, part) + VolumeDelta(v, d)
          /\ Volume(adj, part') \in Nat /\ Volume(adj, part) \in Nat /\ VolumeDelta(v, d) \in Int
      BY <3>4, <3>5, VolumeMoves
    <3> QED
      BY <3>3, <3>6
  <2>4. ASSUME NEW e \in Parts, LoadOf(part')[e] > LoadOf(part)[e]
        PROVE  LoadOf(part')[e] <= Cap[e]
    <3>1. PICK v \in todo : \E d \in Parts \ {part[v]} : Fits(v, d) /\ Relocate(v, d)
      <4>1. PICK v \in todo :
                \/ \E d \in KwayTargets(v) : Relocate(v, d)
                \/ \E d \in BalanceTargets(v) : Relocate(v, d)
                \/ \E d \in VolumeTargets(v) : Relocate(v, d)
                \/ phase = "makespan" /\ \E b \in MakespanTargets(v) : Relocate(v, b)
        BY <1>1, MovesAreVisits
      <4>2. phase = "makespan" => straggler = part[v]
        BY <1>1 DEF PolishInv, SweepInv
      <4> QED
        BY <4>1, <4>2 DEF KwayTargets, BalanceTargets, VolumeTargets, MakespanTargets
    <3>2. v \in Vertices
      BY <2>1
    <3> QED
      BY <1>1, <2>4, <3>1, <3>2, GrowsWithinCapacity
  <2> QED
    BY <2>2, <2>3, <2>4
<1>2. PolishInv /\ [Next]_vars =>
        [part' # part =>
            /\ \A d \in Parts : LoadOf(part')[d] > LoadOf(part)[d]
                                   => LoadOf(part')[d] <= Cap[d]
            /\ phase = "kway" => Cut(adj, part') < Cut(adj, part)
            /\ phase = "volume" => Volume(adj, part') < Volume(adj, part)]_vars
  BY <1>1
<1> QED
  BY <1>2, PolishInvariance, PTL DEF Spec, EveryMoveDescends

\* A lemma: the makespan is the cost of the straggler.
LEMMA MakespanIsCost ==
    ASSUME PolishTypeOK,
           NEW p \in [Vertices -> Parts], NEW r, NEW n,
           r = ReceivedOf(adj, p), n = IncidentOf(adj, p)
    PROVE  /\ \E s \in Parts : Makespan(p) = Cost(r, n, s)
           /\ \A d \in Parts : Cost(r, n, d) <= Makespan(p)
           /\ Makespan(p) \in Int
<1> DEFINE S == {Cost(r, n, d) : d \in Parts}
<1>1. /\ Straggler(r, n) \in Parts
      /\ \A d \in Parts : Cost(r, n, d) <= Cost(r, n, Straggler(r, n))
      /\ \A d \in Parts : Cost(r, n, d) \in Int
  BY StragglerOfExact
<1>2. \E x \in S : \A y \in S : x >= y
  <2>1. Cost(r, n, Straggler(r, n)) \in S
    BY <1>1
  <2>2. \A y \in S : Cost(r, n, Straggler(r, n)) >= y
    BY <1>1
  <2> QED
    BY <2>1, <2>2
<1>3. Makespan(p) = Max(S)
  BY DEF Makespan
<1>4. Max(S) \in S /\ \A y \in S : Max(S) >= y
  <2> HIDE DEF S
  <2> QED
    BY <1>2 DEF Max
<1> QED
  BY <1>1, <1>3, <1>4

\* A lemma: the larger of two integers is neither less than the one nor than the other.
LEMMA LargerOfTwo ==
    ASSUME NEW x \in Int, NEW y \in Int
    PROVE  Max({x, y}) >= x /\ Max({x, y}) >= y /\ Max({x, y}) \in Int
<1>1. \E m \in {x, y} : \A i \in {x, y} : m >= i
  <2>1. CASE x >= y
    BY <2>1
  <2>2. CASE ~(x >= y)
    BY <2>2
  <2> QED
    BY <2>1, <2>2
<1> QED
  BY <1>1 DEF Max

\* The straggler pass never makes the slowest part slower, although it looks
\* at the two parts of a move only; and the volume stays in the budget of the
\* whole pass.
THEOREM StragglerPassShrinks == Spec => StragglerShrinks
<1>1. PolishInv => (phase = "makespan" =>
                        Volume(adj, part) <= tot0 + (Slack * tot0) \div 100)
  <2> SUFFICES ASSUME PolishInv, phase = "makespan"
               PROVE  Volume(adj, part) <= tot0 + (Slack * tot0) \div 100
    OBVIOUS
  <2> DEFINE slk == (Slack * tot0) \div 100
  <2>1. /\ tot0 + drift = Volume(adj, part) /\ tot0 \in Nat /\ drift \in Int /\ drift <= slk
        /\ Slack \in Nat
    BY GraphIsSimple DEF PolishInv, CountersExact, SweepInv
  <2>2. \A x, y \in Nat : x * y \in Nat
    OBVIOUS
  <2>3. slk \in Int
    <3>1. Slack * tot0 \in Nat
      BY <2>1, <2>2
    <3>2. \A x \in Nat : x \div 100 \in Int
      OBVIOUS
    <3> QED
      BY <3>1, <3>2
  <2> HIDE DEF slk
  <2>4. Volume(adj, part) <= tot0 + slk
    BY <2>1, <2>3
  <2> QED
    BY <2>4 DEF slk
<1>2. ASSUME PolishInv, [Next]_vars, phase = "makespan"
      PROVE  Makespan(part') <= Makespan(part)
  <2>1. /\ PolishTypeOK /\ part \in [Vertices -> Parts] /\ alpha \in Nat
        /\ recv = ReceivedOf(adj, part) /\ inc = IncidentOf(adj, part)
    BY <1>2, GraphIsSimple DEF PolishInv, CountersExact, PolishTypeOK
  <2>2. /\ \A d \in Parts : Cost(recv, inc, d) <= Makespan(part)
        /\ Makespan(part) \in Int
    BY <2>1, MakespanIsCost
  <2>3. CASE part' = part
    BY <2>2, <2>3
  <2>4. CASE part' # part
    <3>1. PICK v \in todo : \E b \in MakespanTargets(v) :
              Relocate(v, b) /\ cnt' = Recounted(v, straggler, b)
      BY <1>2, <2>4, MovesAreVisits
    <3>2. PICK b \in MakespanTargets(v) : Relocate(v, b) /\ cnt' = Recounted(v, straggler, b)
      BY <3>1
    <3> DEFINE r2 == ReceivedOf(adj, part')
               n2 == IncidentOf(adj, part')
               la == LeavingDelta(v, straggler)
               eb == EnteringDelta(v, b)
               dg == Degree(adj, v)
    <3>3. /\ v \in Vertices /\ straggler \in Parts /\ b \in Parts /\ b # straggler
          /\ part' \in [Vertices -> Parts]
          /\ r2 = [recv EXCEPT ![straggler] = @ + la, ![b] = @ + eb]
          /\ n2 = [inc EXCEPT ![straggler] = @ - dg, ![b] = @ + dg]
          /\ la \in Int /\ eb \in Int
      BY <1>2, <3>2, MakespanMoveIsExact
    <3>4. NewMax(v, b) < Cost(recv, inc, straggler)
      BY <3>2 DEF MakespanTargets
    <3>5. dg \in Nat
      BY <2>1, <3>3, GraphIsSimple, DegreesAreNumbers
    <3>6. \A d \in Parts : recv[d] \in Nat /\ inc[d] \in Nat /\ Cost(recv, inc, d) \in Int
      BY <2>1, StragglerOfExact
    <3>7. recv = [d \in Parts |-> recv[d]] /\ inc = [d \in Parts |-> inc[d]]
      BY <2>1 DEF ReceivedOf, IncidentOf
    <3>8. /\ NewCostHere(v) = alpha * (recv[straggler] + la) + inc[straggler] - dg
          /\ NewCostThere(v, b) = alpha * (recv[b] + eb) + inc[b] + dg
      BY DEF NewCostHere, NewCostThere
    <3>9. PICK s \in Parts : Makespan(part') = Cost(r2, n2, s)
      <4>1. r2 = ReceivedOf(adj, part') /\ n2 = IncidentOf(adj, part') /\ part' \in [Vertices -> Parts]
        BY <3>3
      <4> HIDE DEF r2, n2
      <4>2. \E s \in Parts : Makespan(part') = Cost(r2, n2, s)
        BY <2>1, <4>1, MakespanIsCost
      <4> QED
        BY <4>2
    <3>10. \A d \in Parts : Cost(r2, n2, d) = alpha * r2[d] + n2[d]
      BY DEF Cost
    <3> HIDE DEF r2, n2, la, eb, dg
    <3>11. /\ r2[straggler] = recv[straggler] + la /\ n2[straggler] = inc[straggler] - dg
           /\ r2[b] = recv[b] + eb /\ n2[b] = inc[b] + dg
           /\ \A d \in Parts \ {straggler, b} : r2[d] = recv[d] /\ n2[d] = inc[d]
      BY <3>3, <3>7
    <3>12. NewCostHere(v) \in Int /\ NewCostThere(v, b) \in Int
      <4>1. \A x, y \in Int : x * y \in Int
        OBVIOUS
      <4>2. recv[straggler] + la \in Int /\ recv[b] + eb \in Int
        BY <3>3, <3>6
      <4>3. alpha * (recv[straggler] + la) \in Int /\ alpha * (recv[b] + eb) \in Int
        BY <2>1, <4>1, <4>2
      <4> QED
        BY <3>3, <3>5, <3>6, <3>8, <4>3
    <3>13. NewMax(v, b) >= NewCostHere(v) /\ NewMax(v, b) >= NewCostThere(v, b) /\ NewMax(v, b) \in Int
      BY <3>12, LargerOfTwo DEF NewMax
    <3>14. Cost(recv, inc, straggler) <= Makespan(part) /\ Cost(recv, inc, straggler) \in Int
      BY <2>2, <3>3, <3>6
    <3>15. Cost(r2, n2, straggler) = NewCostHere(v)
      <4>1. Cost(r2, n2, straggler) = alpha * (recv[straggler] + la) + (inc[straggler] - dg)
        BY <3>3, <3>10, <3>11
      <4>2. \A x, y, z \in Int : x + (y - z) = x + y - z
        OBVIOUS
      <4>3. \A x, y \in Int : x * y \in Int
        OBVIOUS
      <4>4. alpha * (recv[straggler] + la) \in Int
        <5>1. recv[straggler] + la \in Int
          BY <3>3, <3>6
        <5> QED
          BY <2>1, <4>3, <5>1
      <4> QED
        BY <3>3, <3>5, <3>6, <3>8, <4>1, <4>2, <4>4
    <3>16. Cost(r2, n2, b) = NewCostThere(v, b)
      <4>1. Cost(r2, n2, b) = alpha * (recv[b] + eb) + (inc[b] + dg)
        BY <3>3, <3>10, <3>11
      <4>2. \A x, y, z \in Int : x + (y + z) = x + y + z
        OBVIOUS
      <4>3. \A x, y \in Int : x * y \in Int
        OBVIOUS
      <4>4. alpha * (recv[b] + eb) \in Int
        <5>1. recv[b] + eb \in Int
          BY <3>3, <3>6
        <5> QED
          BY <2>1, <4>3, <5>1
      <4> QED
        BY <3>3, <3>5, <3>6, <3>8, <4>1, <4>2, <4>4
    <3>17. CASE s = straggler
      BY <2>2, <3>4, <3>9, <3>12, <3>13, <3>14, <3>15, <3>17
    <3>18. CASE s = b
      BY <2>2, <3>4, <3>9, <3>12, <3>13, <3>14, <3>16, <3>18
    <3>19. CASE s \notin {straggler, b}
      <4>1. Cost(r2, n2, s) = Cost(recv, inc, s)
        BY <3>9, <3>11, <3>19 DEF Cost
      <4> QED
        BY <2>2, <3>9, <4>1
    <3> QED
      BY <3>17, <3>18, <3>19
  <2> QED
    BY <2>3, <2>4
<1> QED
  BY <1>1, <1>2, PolishInvariance, PTL DEF Spec, StragglerShrinks

-----------------------------------------------------------------------------
(* The streams: numbers.                                                   *)

\* A lemma: the constants of the streams, as the proofs use them.
LEMMA StreamNumbers ==
    /\ SN \in Nat \ {0} /\ SD \in Nat \ {0}
    /\ IsFiniteSet(StreamVertices) /\ Cardinality(StreamVertices) = SN
    /\ IsFiniteSet(StreamParts) /\ Cardinality(StreamParts) = SD
    /\ StreamVertices \subseteq Nat /\ StreamParts \subseteq Nat
    /\ StreamVertices # {} /\ 0 \in StreamParts
<1>1. SN \in Nat \ {0} /\ SD \in Nat \ {0}
  BY StreamAssumption DEF StreamAssumption
<1>2. Cardinality(StreamVertices) = SN /\ IsFiniteSet(StreamVertices)
  BY <1>1, FS_Interval DEF StreamVertices
<1>3. Cardinality(StreamParts) = SD /\ IsFiniteSet(StreamParts)
  BY <1>1, FS_Interval DEF StreamParts
<1>4. /\ StreamVertices \subseteq Nat /\ StreamParts \subseteq Nat
      /\ 0 \in StreamVertices /\ 0 \in StreamParts
  BY <1>1 DEF StreamVertices, StreamParts
<1> QED
  BY <1>1, <1>2, <1>3, <1>4

\* A lemma: a largest and a smallest value of a function with a finite domain.
LEMMA RangeBounds ==
    ASSUME NEW S \in SUBSET Nat, IsFiniteSet(S), S # {}, NEW f \in [S -> Int]
    PROVE  /\ Max(Range(f)) \in Range(f) /\ Min(Range(f)) \in Range(f)
           /\ Max(Range(f)) \in Int /\ Min(Range(f)) \in Int
           /\ \A x \in S : Min(Range(f)) <= f[x] /\ f[x] <= Max(Range(f))
<1>1. Range(f) = {f[x] : x \in S}
  BY DEF Range
<1>2. \E m \in Range(f) : \A y \in Range(f) : m >= y
  <2>1. \A x \in S : f[x] \in Int
    OBVIOUS
  <2>2. PICK m \in S : \A x \in S : f[m] > f[x] \/ (f[m] = f[x] /\ m <= x)
    BY <2>1, FirstOfBest
  <2>3. f[m] \in Range(f) /\ \A y \in Range(f) : f[m] >= y
    BY <1>1, <2>1, <2>2
  <2> QED
    BY <2>3
<1>3. \E m \in Range(f) : \A y \in Range(f) : m <= y
  <2> DEFINE g == [x \in S |-> -f[x]]
  <2>1. \A x \in S : g[x] \in Int /\ f[x] \in Int /\ g[x] = -f[x]
    OBVIOUS
  <2> HIDE DEF g
  <2>2. PICK m \in S : \A x \in S : g[m] > g[x] \/ (g[m] = g[x] /\ m <= x)
    BY <2>1, FirstOfBest
  <2>3. \A x \in S : f[m] <= f[x]
    BY <2>1, <2>2
  <2>4. f[m] \in Range(f) /\ \A y \in Range(f) : f[m] <= y
    BY <1>1, <2>3
  <2> QED
    BY <2>4
<1>4. Max(Range(f)) \in Range(f) /\ \A y \in Range(f) : Max(Range(f)) >= y
  BY <1>2 DEF Max
<1>5. Min(Range(f)) \in Range(f) /\ \A y \in Range(f) : Min(Range(f)) <= y
  BY <1>3 DEF Min
<1>6. \A y \in Range(f) : y \in Int
  BY <1>1
<1> QED
  BY <1>1, <1>4, <1>5, <1>6

\* What the steps of a stream read.
StreamTypeOK ==
    /\ mode \in {"fennel", "ldg", "hdrf"}
    /\ param \in Params
    /\ edges \in EdgeLists /\ vw \in WeightLists
    /\ order \in [1 .. SN -> StreamVertices]
    /\ \A i, j \in 1 .. SN : i # j => order[i] # order[j]
    /\ arrived \in Nat
    /\ size \in [StreamParts -> Nat]
    /\ pmask \in [StreamVertices -> SUBSET StreamParts]

\* A lemma: the sum of the weights is at most the total weight, and is it if any weight is positive.
LEMMA WeightsAreNumbers ==
    ASSUME StreamTypeOK
    PROVE  /\ vw \in [StreamVertices -> Nat] /\ vw \in [StreamVertices -> Int]
           /\ SumFunctionOnSet(vw, StreamVertices) \in Nat
           /\ TotalWeight \in Nat \ {0}
           /\ SumFunctionOnSet(vw, StreamVertices) > 0
                  => TotalWeight = SumFunctionOnSet(vw, StreamVertices)
<1>1. vw \in [StreamVertices -> Nat]
  BY StreamAssumption DEF StreamAssumption, StreamTypeOK
<1>2. \A v \in StreamVertices : vw[v] \in Int /\ vw[v] \in Nat
  BY <1>1
<1>3. SumFunctionOnSet(vw, StreamVertices) \in Nat
  BY <1>2, StreamNumbers, SumType
<1>4. SumFunction(vw) = SumFunctionOnSet(vw, StreamVertices)
  BY <1>1 DEF SumFunction
<1>5. TotalWeight = IF SumFunctionOnSet(vw, StreamVertices) > 0
                        THEN SumFunctionOnSet(vw, StreamVertices) ELSE SN
  BY <1>4 DEF TotalWeight
<1> QED
  BY <1>1, <1>2, <1>3, <1>5, StreamNumbers

\* A lemma: the slack or lambda is a positive fraction.
LEMMA SettingIsFraction ==
    ASSUME StreamTypeOK
    PROVE  /\ Setting[1] \in Nat /\ Setting[1] > 0
           /\ Setting[2] \in Nat /\ Setting[2] > 0
<1>1. param \in Int \X (Nat \ {0})
  BY StreamAssumption DEF StreamAssumption, StreamTypeOK
<1>2. param[1] \in Int /\ param[2] \in Nat \ {0}
  BY <1>1
<1> QED
  BY <1>2 DEF Setting

\* A lemma: less than what is below the capacity is below it.
LEMMA BelowCapacityFalls ==
    ASSUME StreamTypeOK, NEW x \in Int, NEW y \in Int, x <= y, BelowCapacity(y)
    PROVE  BelowCapacity(x)
<1> DEFINE n == Setting[1]
           d == Setting[2]
           total == TotalWeight
<1>1. SD \in Nat /\ n \in Nat /\ d \in Nat /\ total \in Nat
  BY StreamNumbers, SettingIsFraction, WeightsAreNumbers
<1> HIDE DEF n, d, total
<1>2. \A i, j \in Int, k \in Nat : i <= j => i * k <= j * k /\ i * k \in Int /\ j * k \in Int
  OBVIOUS
<1>3. x * SD <= y * SD /\ x * SD \in Int /\ y * SD \in Int
  BY <1>1, <1>2
<1>4. x * SD * d <= y * SD * d /\ x * SD * d \in Int /\ y * SD * d \in Int
  BY <1>1, <1>2, <1>3
<1>5. n * total \in Int
  BY <1>1
<1>6. y * SD < total \/ y * SD * d < n * total
  BY DEF BelowCapacity, n, d, total
<1>7. x * SD < total \/ x * SD * d < n * total
  BY <1>1, <1>3, <1>4, <1>5, <1>6
<1> QED
  BY <1>7 DEF BelowCapacity, n, d, total

\* A lemma: edges are counted in natural numbers.
LEMMA EdgeCounts ==
    ASSUME StreamTypeOK
    PROVE  /\ edges \in Seq(StreamVertices \X StreamVertices) /\ Len(edges) \in Nat
           /\ \A v, p : Count(v, p) \in Nat
           /\ \A v : Deg(v) \in Nat
<1>1. edges \in Seq(StreamVertices \X StreamVertices)
  BY StreamAssumption DEF StreamAssumption, StreamTypeOK
<1>2. DOMAIN edges = 1 .. Len(edges) /\ Len(edges) \in Nat
  BY <1>1
<1>3. IsFiniteSet(DOMAIN edges)
  BY <1>2, FS_Interval
<1>4. \A T \in SUBSET DOMAIN edges : Cardinality(T) \in Nat
  BY <1>3, FS_Subset, FS_CardinalityType
<1>5. \A v, p : Count(v, p) \in Nat
  <2> TAKE v, p
  <2> DEFINE T == {i \in DOMAIN edges : \E k \in {1, 2} :
                      edges[i][k] = v /\ edges[i][3 - k] # v /\ home[edges[i][3 - k]] = p}
  <2>1. T \in SUBSET DOMAIN edges
    OBVIOUS
  <2>2. Count(v, p) = Cardinality(T)
    BY DEF Count
  <2> HIDE DEF T
  <2> QED
    BY <1>4, <2>1, <2>2
<1>6. \A v : Deg(v) \in Nat
  <2> TAKE v
  <2> DEFINE T == {i \in DOMAIN edges : edges[i][1] # edges[i][2] /\ edges[i][1] = v}
             U == {i \in DOMAIN edges : edges[i][1] # edges[i][2] /\ edges[i][2] = v}
  <2>1. T \in SUBSET DOMAIN edges /\ U \in SUBSET DOMAIN edges
    OBVIOUS
  <2>2. Deg(v) = Cardinality(T) + Cardinality(U)
    BY DEF Deg
  <2> HIDE DEF T, U
  <2>3. Cardinality(T) \in Nat /\ Cardinality(U) \in Nat
    BY <1>4, <2>1
  <2> QED
    BY <2>2, <2>3
<1> QED
  BY <1>1, <1>2, <1>5, <1>6

-----------------------------------------------------------------------------
(* The streams of vertices: how full a part gets.                          *)

\* A lemma: the part of Fennel is below its soft cap, or the first.
LEMMA FennelPartFits ==
    ASSUME StreamTypeOK, NEW v
    PROVE  /\ FennelPart(v) \in StreamParts
           /\ FennelPart(v) # 0 => ~AtSoftCap(FennelPart(v))
<1> DEFINE f == [p \in StreamParts |-> FennelScore(v, p)]
           Best(p) == \A q \in FennelChoices :
                          \/ FennelScore(v, p) > FennelScore(v, q)
                          \/ FennelScore(v, p) = FennelScore(v, q) /\ p <= q
<1>1. FennelChoices \in SUBSET StreamParts /\ FennelChoices # {}
  BY StreamNumbers DEF FennelChoices
<1>2. IsFiniteSet(FennelChoices) /\ FennelChoices \in SUBSET Nat
  BY <1>1, StreamNumbers, FS_Subset
<1>3. \A p \in StreamParts : FennelScore(v, p) \in Int
  <2> TAKE p \in StreamParts
  <2>1. Count(v, p) \in Nat /\ Len(edges) \in Nat
    BY EdgeCounts
  <2>2. SN \in Nat /\ SD \in Nat /\ size[p] \in Nat
    BY StreamNumbers DEF StreamTypeOK
  <2>3. \A x, y \in Int : x * y \in Int
    OBVIOUS
  <2>4. Count(v, p) * SN \in Int /\ 2 * Len(edges) \in Int
    BY <2>1, <2>2, <2>3
  <2>5. Count(v, p) * SN * SN \in Int /\ 2 * Len(edges) * SD \in Int
    BY <2>2, <2>3, <2>4
  <2>6. 2 * Len(edges) * SD * size[p] \in Int
    BY <2>2, <2>3, <2>5
  <2> QED
    BY <2>5, <2>6 DEF FennelScore
<1>4. \A p \in FennelChoices : f[p] \in Int /\ f[p] = FennelScore(v, p)
  BY <1>1, <1>3
<1> HIDE DEF f
<1>5. PICK m \in FennelChoices : \A x \in FennelChoices : f[m] > f[x] \/ (f[m] = f[x] /\ m <= x)
  BY <1>1, <1>2, <1>4, FirstOfBest
<1>6. Best(m)
  BY <1>4, <1>5
<1>7. FennelPart(v) = CHOOSE p \in FennelChoices : Best(p)
  BY DEF FennelPart, FirstBest
<1> HIDE DEF Best
<1>8. FennelPart(v) \in FennelChoices
  BY <1>6, <1>7
<1> QED
  BY <1>1, <1>8 DEF FennelChoices

\* A lemma: the part of LDG scores as high as any.
LEMMA LdgPartIsBest ==
    ASSUME StreamTypeOK, NEW v
    PROVE  /\ LdgPart(v) \in StreamParts
           /\ \A p \in StreamParts :
                  /\ Room(p) \in Nat
                  /\ Room(p) = 0 <=> Setting[1] * TotalWeight <= Setting[2] * (SD * size[p])
                  /\ LdgScore(v, p) \in Int /\ LdgScore(v, p) >= -size[p]
                  /\ Room(p) = 0 => LdgScore(v, p) = -size[p]
                  /\ LdgScore(v, LdgPart(v)) >= LdgScore(v, p)
<1> DEFINE f == [p \in StreamParts |-> LdgScore(v, p)]
           Best(p) == \A q \in StreamParts :
                          \/ LdgScore(v, p) > LdgScore(v, q)
                          \/ LdgScore(v, p) = LdgScore(v, q) /\ p <= q
<1>1. ASSUME NEW p \in StreamParts
      PROVE  /\ Room(p) \in Nat
             /\ Room(p) = 0 <=> Setting[1] * TotalWeight <= Setting[2] * (SD * size[p])
             /\ LdgScore(v, p) \in Int /\ LdgScore(v, p) >= -size[p]
             /\ Room(p) = 0 => LdgScore(v, p) = -size[p]
  <2>1. TotalWeight \in Nat /\ SD \in Nat /\ size[p] \in Nat /\ Count(v, p) \in Nat
    BY WeightsAreNumbers, EdgeCounts, StreamNumbers DEF StreamTypeOK
  <2>2. \A x, y \in Nat : x * y \in Nat
    OBVIOUS
  <2>0. Setting[1] \in Nat /\ Setting[2] \in Nat
    BY SettingIsFraction
  <2>3. /\ SD * size[p] \in Nat /\ Setting[1] * TotalWeight \in Nat
        /\ Setting[2] * (SD * size[p]) \in Nat
        /\ Setting[2] * SD * size[p] = Setting[2] * (SD * size[p])
    <3>1. SD * size[p] \in Nat
      BY <2>1, <2>2
    <3>2. \A x, y, z \in Nat : x * y * z = x * (y * z)
      OBVIOUS
    <3> QED
      BY <2>0, <2>1, <2>2, <3>1, <3>2
  <2> DEFINE y == Setting[1] * TotalWeight - Setting[2] * (SD * size[p])
  <2>4. y \in Int /\ (y <= 0 <=> Setting[1] * TotalWeight <= Setting[2] * (SD * size[p]))
    BY <2>3
  <2>5. Room(p) = Max({0, y})
    BY <2>3 DEF Room
  <2> HIDE DEF y
  <2>6. Max({0, y}) = IF y <= 0 THEN 0 ELSE y
    <3>1. \E m \in {0, y} : \A i \in {0, y} : m >= i
      <4>1. CASE y <= 0
        BY <4>1
      <4>2. CASE ~(y <= 0)
        BY <2>4, <4>2
      <4> QED
        BY <4>1, <4>2
    <3>2. Max({0, y}) \in {0, y} /\ Max({0, y}) >= 0 /\ Max({0, y}) >= y
      BY <3>1 DEF Max
    <3> QED
      BY <2>4, <3>2
  <2>7. /\ Room(p) \in Nat
        /\ Room(p) = 0 <=> Setting[1] * TotalWeight <= Setting[2] * (SD * size[p])
    BY <2>4, <2>5, <2>6
  <2> DEFINE gain == Count(v, p) * Room(p) * (TotalWeight + 1)
  <2>8. gain \in Nat
    <3>1. Count(v, p) * Room(p) \in Nat /\ TotalWeight + 1 \in Nat
      BY <2>1, <2>2, <2>7
    <3> QED
      BY <2>2, <3>1
  <2>9. LdgScore(v, p) = gain - size[p]
    BY <2>1 DEF LdgScore, TieBreak
  <2>10. Room(p) = 0 => gain = 0
    BY <2>1
  <2> HIDE DEF gain
  <2> QED
    BY <2>1, <2>7, <2>8, <2>9, <2>10
<1>2. \A p \in StreamParts : f[p] \in Int /\ f[p] = LdgScore(v, p)
  BY <1>1
<1> HIDE DEF f
<1>3. PICK m \in StreamParts : \A x \in StreamParts : f[m] > f[x] \/ (f[m] = f[x] /\ m <= x)
  <2>1. StreamParts \in SUBSET Nat /\ IsFiniteSet(StreamParts) /\ StreamParts # {}
    BY StreamNumbers
  <2> QED
    BY <1>2, <2>1, FirstOfBest
<1>4. Best(m)
  BY <1>2, <1>3
<1>5. LdgPart(v) = CHOOSE p \in StreamParts : Best(p)
  BY DEF LdgPart, FirstBest
<1> HIDE DEF Best
<1>6. LdgPart(v) \in StreamParts /\ Best(LdgPart(v))
  BY <1>4, <1>5
<1>7. \A p \in StreamParts : LdgScore(v, LdgPart(v)) >= LdgScore(v, p)
  BY <1>1, <1>6 DEF Best
<1> QED
  BY <1>1, <1>6, <1>7

\* A lemma: while less than the total weight has been placed, LDG finds a part
\* with room, or one below the mean.
LEMMA LdgPartHasRoom ==
    ASSUME StreamTypeOK, NEW v, SumFunctionOnSet(size, StreamParts) < TotalWeight
    PROVE  BelowCapacity(size[LdgPart(v)])
<1> DEFINE best == LdgPart(v)
           neg == [p \in StreamParts |-> -size[p]]
           total == TotalWeight
<1>1. /\ SD \in Nat /\ SD > 0 /\ total \in Nat
      /\ \A p \in StreamParts : size[p] \in Nat /\ neg[p] = -size[p] /\ neg[p] \in Int
  BY StreamNumbers, WeightsAreNumbers DEF StreamTypeOK
<1> HIDE DEF neg
<1>2. PICK m \in StreamParts : \A x \in StreamParts : neg[m] > neg[x] \/ (neg[m] = neg[x] /\ m <= x)
  <2>1. StreamParts \in SUBSET Nat /\ IsFiniteSet(StreamParts) /\ StreamParts # {}
    BY StreamNumbers
  <2> QED
    BY <1>1, <2>1, FirstOfBest
<1>3. \A x \in StreamParts : size[x] >= size[m]
  BY <1>1, <1>2
<1>4. SumFunctionOnSet(size, StreamParts) >= SD * size[m]
  <2>1. \A x \in StreamParts : size[x] \in Int
    BY <1>1
  <2>2. size[m] \in Int
    BY <1>1
  <2>3. SumFunctionOnSet(size, StreamParts) >= Cardinality(StreamParts) * size[m]
    BY <1>3, <2>1, <2>2, StreamNumbers, SumBounds
  <2> QED
    BY <2>3, StreamNumbers
<1>5. SumFunctionOnSet(size, StreamParts) \in Int
  <2>1. \A x \in StreamParts : size[x] \in Int
    BY <1>1
  <2> QED
    BY <2>1, StreamNumbers, SumType
<1>6. SD * size[m] \in Int /\ SD * size[best] \in Int /\ best \in StreamParts
      /\ size[best] * SD = SD * size[best]
  <2>1. \A x, y \in Int : x * y \in Int /\ x * y = y * x
    OBVIOUS
  <2>2. best \in StreamParts
    BY LdgPartIsBest
  <2>3. size[m] \in Int /\ size[best] \in Int /\ SD \in Int
    BY <1>1, <2>2
  <2> QED
    BY <2>1, <2>2, <2>3
<1>7. SD * size[m] < total
  BY <1>1, <1>4, <1>5, <1>6
<1>8. SUFFICES ASSUME total <= SD * size[best],
                      Setting[1] * total <= Setting[2] * (SD * size[best])
               PROVE  FALSE
  <2> DEFINE n == Setting[1]
             d == Setting[2]
             b == SD * size[best]
  <2>1. n \in Nat /\ d \in Nat /\ b \in Int /\ total \in Nat /\ size[best] * SD = b
    BY <1>1, <1>6, SettingIsFraction
  <2> HIDE DEF n, d, b, best, total
  <2>2. \A x, y \in Int : x * y \in Int /\ x * y = y * x
    OBVIOUS
  <2>3. n * total \in Int /\ d * b \in Int /\ b * d = d * b
    BY <2>1, <2>2
  <2>4. b < total \/ b * d < n * total \/ (total <= b /\ n * total <= d * b)
    BY <2>1, <2>3
  <2> QED
    BY <1>8, <2>1, <2>4 DEF BelowCapacity, best, total, n, d, b
<1>9. size[m] < size[best]
  <2>1. SD * size[m] < SD * size[best]
    BY <1>1, <1>6, <1>7, <1>8
  <2>2. \A x, y, z \in Nat : z * x < z * y => x < y
    OBVIOUS
  <2>3. size[m] \in Nat /\ size[best] \in Nat
    BY <1>1, <1>6
  <2> QED
    BY <1>1, <2>1, <2>2, <2>3
<1>10. LdgScore(v, best) = -size[best]
  BY <1>6, <1>8, LdgPartIsBest
<1>11. LdgScore(v, m) >= -size[m] /\ LdgScore(v, best) >= LdgScore(v, m) /\ LdgScore(v, m) \in Int
  BY LdgPartIsBest
<1> HIDE DEF best
<1> QED
  BY <1>1, <1>6, <1>9, <1>10, <1>11

\* What has been placed so far.
Placed == {order[i] : i \in 1 .. arrived}
PlacedInv ==
    mode # "hdrf" =>
        /\ arrived <= SN
        /\ SumFunctionOnSet(size, StreamParts) = SumFunctionOnSet(vw, Placed)

StreamInv == StreamTypeOK /\ PlacedInv /\ StreamsStayInCapacity

\* A lemma: the heaviest vertex is none lighter than any.
LEMMA HeaviestBounds ==
    ASSUME StreamTypeOK
    PROVE  Max(Range(vw)) \in Nat /\ \A v \in StreamVertices : vw[v] <= Max(Range(vw))
<1>1. /\ StreamVertices \in SUBSET Nat /\ IsFiniteSet(StreamVertices) /\ StreamVertices # {}
      /\ vw \in [StreamVertices -> Int]
  BY StreamNumbers, WeightsAreNumbers
<1>2. /\ Max(Range(vw)) \in Range(vw) /\ Max(Range(vw)) \in Int
      /\ \A v \in StreamVertices : vw[v] <= Max(Range(vw))
  BY <1>1, RangeBounds
<1>3. \A v \in StreamVertices : vw[v] \in Nat
  BY WeightsAreNumbers
<1>4. PICK v \in StreamVertices : TRUE
  BY <1>1
<1> QED
  BY <1>2, <1>3, <1>4

\* A lemma: empty parts are within capacity.
LEMMA InitStreamInv == StreamInit => StreamInv
<1> SUFFICES ASSUME StreamInit PROVE StreamInv
  OBVIOUS
<1>1. StreamTypeOK
  <2>1. order \in [1 .. SN -> StreamVertices] /\ \A i, j \in 1 .. SN : i # j => order[i] # order[j]
    <3>1. order \in SetToSeqs(StreamVertices)
      BY DEF StreamInit
    <3> QED
      BY <3>1, StreamNumbers DEF SetToSeqs
  <2> QED
    BY <2>1 DEF StreamInit, StreamTypeOK
<1>2. \A p \in StreamParts : size[p] = 0
  BY DEF StreamInit
<1>3. PlacedInv
  <2>1. Placed = {}
    BY DEF Placed, StreamInit
  <2>2. \A f : SumFunctionOnSet(f, {}) = 0
    BY FS_EmptySet, SumUnfolds
  <2>3. SumFunctionOnSet(size, StreamParts) = SumFunctionOnSet(size, {})
    <3>1. (\A p \in StreamParts : size[p] \in Int) /\ \A p \in StreamParts \ {} : size[p] = 0
      BY <1>2
    <3>2. {} \in SUBSET StreamParts
      OBVIOUS
    <3> QED
      BY <3>1, <3>2, StreamNumbers, SumOfZeros
  <2>4. arrived <= SN
    BY StreamNumbers DEF StreamInit
  <2> QED
    BY <2>1, <2>2, <2>3, <2>4 DEF PlacedInv
<1>4. StreamsStayInCapacity
  <2> DEFINE heavy == Max(Range(vw))
  <2>1. heavy \in Nat /\ TotalWeight \in Nat /\ TotalWeight > 0 /\ SD \in Nat
    BY <1>1, HeaviestBounds, WeightsAreNumbers, StreamNumbers
  <2> HIDE DEF heavy
  <2>2. \A x, y \in Nat : (0 - x) * y <= 0 /\ (0 - x) * y \in Int
    OBVIOUS
  <2>3. (0 - heavy) * SD <= 0 /\ (0 - heavy) * SD \in Int
    BY <2>1, <2>2
  <2>4. (0 - heavy) * SD < TotalWeight /\ (0 - heavy) * SD * 10 < TotalWeight * 11
    BY <2>1, <2>3
  <2>5. BelowCapacity(0 - heavy)
    BY <2>4 DEF BelowCapacity
  <2>6. VertexPartsFit
    BY <1>2, <2>4, <2>5 DEF VertexPartsFit, heavy
  <2>7. EdgePartsLevel
    <3>1. Range(size) = {0}
      <4>1. Range(size) = {size[p] : p \in StreamParts}
        BY DEF StreamInit, Range
      <4> QED
        BY <1>2, <4>1, StreamNumbers
    <3>2. Max({0}) = 0 /\ Min({0}) = 0
      BY DEF Max, Min
    <3>3. Gap = 0
      BY <3>1, <3>2 DEF Gap
    <3>4. Setting[1] \in Nat /\ Setting[2] \in Nat
      BY <1>1, SettingIsFraction
    <3>5. Setting[1] * (0 - 1) <= 0 /\ 3 * Setting[2] * 0 = 0
      BY <3>4
    <3> QED
      BY <3>3, <3>5 DEF EdgePartsLevel
  <2> QED
    BY <2>6, <2>7 DEF StreamsStayInCapacity
<1> QED
  BY <1>1, <1>3, <1>4 DEF StreamInv

\* A lemma: what one arriving vertex changes.
LEMMA PlacementChanges ==
    ASSUME StreamInv, PlaceVertex,
           NEW v, v = order[arrived + 1],
           NEW p, p = IF mode = "fennel" THEN FennelPart(v) ELSE LdgPart(v)
    PROVE  /\ v \in StreamVertices /\ p \in StreamParts /\ vw[v] \in Nat
           /\ size' = [size EXCEPT ![p] = @ + vw[v]]
           /\ arrived + 1 <= SN /\ Placed' = Placed \cup {v}
           /\ SumFunctionOnSet(size', StreamParts) = SumFunctionOnSet(vw, Placed \cup {v})
           /\ vw[v] > 0 => SumFunctionOnSet(size, StreamParts) < TotalWeight
<1> DEFINE w == vw[v]
           all == SumFunctionOnSet(vw, StreamVertices)
<1>1. /\ StreamTypeOK /\ mode \in {"fennel", "ldg"} /\ arrived < SN /\ arrived \in Nat
      /\ order \in [1 .. SN -> StreamVertices]
      /\ \A i, j \in 1 .. SN : i # j => order[i] # order[j]
      /\ size \in [StreamParts -> Nat]
      /\ order' = order /\ arrived' = arrived + 1
      /\ SumFunctionOnSet(size, StreamParts) = SumFunctionOnSet(vw, Placed)
  BY DEF StreamInv, StreamTypeOK, PlacedInv, PlaceVertex
<1>2. SN \in Nat /\ arrived + 1 \in 1 .. SN
  BY <1>1, StreamNumbers
<1>3. v \in StreamVertices /\ w \in Nat
  <2>1. v \in StreamVertices
    BY <1>1, <1>2
  <2> QED
    BY <1>1, <2>1, WeightsAreNumbers
<1>4. p \in StreamParts
  BY <1>1, FennelPartFits, LdgPartIsBest
<1>5. size' = [size EXCEPT ![p] = @ + w]
  BY DEF PlaceVertex
<1>6. Placed \in SUBSET StreamVertices /\ v \notin Placed
  <2>1. \A i \in 1 .. arrived : i \in 1 .. SN /\ i # arrived + 1
    BY <1>1, <1>2
  <2> QED
    BY <1>1, <1>2, <2>1 DEF Placed
<1>7. Placed' = Placed \cup {v}
  <2>1. 1 .. (arrived + 1) = (1 .. arrived) \cup {arrived + 1}
    BY <1>1
  <2>2. Placed' = {order[i] : i \in 1 .. (arrived + 1)}
    BY <1>1 DEF Placed
  <2> QED
    BY <2>1, <2>2 DEF Placed
<1>8. \A u \in StreamVertices : vw[u] \in Nat /\ vw[u] \in Int
  BY <1>1, WeightsAreNumbers
<1> DEFINE S == Placed
           R == Placed \cup {v}
<1>9. /\ R \in SUBSET StreamVertices /\ S = R \ {v} /\ v \in R /\ IsFiniteSet(R)
  <2>1. R \in SUBSET StreamVertices /\ S = R \ {v} /\ v \in R
    BY <1>3, <1>6
  <2> HIDE DEF R, S
  <2> QED
    BY <2>1, StreamNumbers, FS_Subset
<1>10. size'[p] = size[p] + w /\ (\A q \in StreamParts \ {p} : size'[q] = size[q])
       /\ (\A q \in StreamParts : size[q] \in Nat /\ size'[q] \in Nat)
  BY <1>1, <1>3, <1>4, <1>5
<1> HIDE DEF R, S, w, all
<1>11. SumFunctionOnSet(vw, R) = w + SumFunctionOnSet(vw, S)
  <2>1. \A u \in R : vw[u] \in Int
    BY <1>8, <1>9
  <2>2. SumFunctionOnSet(vw, R) = vw[v] + SumFunctionOnSet(vw, R \ {v})
    BY <1>9, <2>1, SumWithout
  <2> QED
    BY <1>9, <2>2 DEF w
<1>12. SumFunctionOnSet(size', StreamParts) = SumFunctionOnSet(size, StreamParts) + w
  <2> DEFINE Q == StreamParts \ {p}
             new == size'
  <2>1. \A q \in StreamParts : size[q] \in Int /\ new[q] \in Int
    BY <1>10
  <2>0. IsFiniteSet(StreamParts)
    BY StreamNumbers
  <2> HIDE DEF new
  <2>2. SumFunctionOnSet(size, StreamParts) = size[p] + SumFunctionOnSet(size, Q)
    <3>1. \A q \in StreamParts : size[q] \in Int
      BY <2>1
    <3> QED
      BY <1>4, <2>0, <3>1, SumWithout
  <2>3. SumFunctionOnSet(new, StreamParts) = new[p] + SumFunctionOnSet(new, Q)
    <3>1. \A q \in StreamParts : new[q] \in Int
      BY <2>1
    <3> QED
      BY <1>4, <2>0, <3>1, SumWithout
  <2> USE DEF new
  <2>4. SumFunctionOnSet(new, Q) = SumFunctionOnSet(size, Q)
    <3>1. IsFiniteSet(Q) /\ \A q \in Q : new[q] = size[q]
      BY <1>10, StreamNumbers, FS_Subset
    <3> HIDE DEF new, Q
    <3> QED
      BY <3>1, SumOfSame
  <2>5. SumFunctionOnSet(size, Q) \in Int
    <3>1. IsFiniteSet(Q) /\ \A q \in Q : size[q] \in Int
      BY <2>1, StreamNumbers, FS_Subset
    <3> HIDE DEF Q
    <3> QED
      BY <3>1, SumType
  <2>6. new[p] = size[p] + w /\ size[p] \in Nat /\ w \in Nat
    BY <1>3, <1>4, <1>10
  <2> HIDE DEF new, Q
  <2>7. SumFunctionOnSet(new, StreamParts) = SumFunctionOnSet(size, StreamParts) + w
    BY <2>2, <2>3, <2>4, <2>5, <2>6
  <2> QED
    BY <2>7 DEF new
<1>13. SumFunctionOnSet(vw, R) <= all /\ SumFunctionOnSet(vw, R) \in Nat /\ all \in Nat
  <2>1. \A u \in StreamVertices : vw[u] \in Nat
    BY <1>8
  <2> QED
    BY <1>9, <2>1, StreamNumbers, SumOfPart DEF all
<1>14. SumFunctionOnSet(vw, S) \in Nat
  <2>1. S \in SUBSET StreamVertices /\ \A u \in StreamVertices : vw[u] \in Nat
    BY <1>8, <1>9
  <2> QED
    BY <2>1, StreamNumbers, SumOfPart
<1>15. all > 0 => TotalWeight = all
  BY <1>1, WeightsAreNumbers DEF all
<1>16. w > 0 => SumFunctionOnSet(size, StreamParts) < TotalWeight
  BY <1>1, <1>3, <1>11, <1>13, <1>14, <1>15 DEF S
<1>17. SumFunctionOnSet(size', StreamParts) = SumFunctionOnSet(vw, R)
  BY <1>1, <1>3, <1>11, <1>12, <1>14 DEF S
<1> QED
  BY <1>1, <1>2, <1>3, <1>4, <1>5, <1>7, <1>16, <1>17 DEF R, w

\* A lemma: one vertex takes a part over its capacity at most.
LEMMA PlacementStaysInCapacity ==
    ASSUME StreamInv, PlaceVertex
    PROVE  VertexPartsFit'
<1> DEFINE v == order[arrived + 1]
           p == IF mode = "fennel" THEN FennelPart(v) ELSE LdgPart(v)
           w == vw[v]
           heavy == Max(Range(vw))
           total == TotalWeight
<1>1. /\ v \in StreamVertices /\ p \in StreamParts /\ w \in Nat
      /\ size' = [size EXCEPT ![p] = @ + w]
      /\ w > 0 => SumFunctionOnSet(size, StreamParts) < total
  BY PlacementChanges
<1>2. /\ StreamTypeOK /\ VertexPartsFit /\ size \in [StreamParts -> Nat]
      /\ mode \in {"fennel", "ldg"} /\ mode' = mode /\ vw' = vw /\ param' = param
  BY DEF StreamInv, StreamsStayInCapacity, StreamTypeOK, PlaceVertex
<1>3. /\ heavy \in Nat /\ w <= heavy /\ total \in Nat /\ SD \in Nat
  BY <1>1, <1>2, HeaviestBounds, WeightsAreNumbers, StreamNumbers
<1>4. /\ total' = total /\ heavy' = heavy
      /\ Setting' = Setting
  BY <1>2 DEF TotalWeight, Setting
<1>5. mode = "ldg" /\ w > 0 => BelowCapacity(size[p])
  BY <1>1, <1>2, LdgPartHasRoom
<1>6. mode = "fennel" /\ p # 0 => size[p] * SD * 10 < total * 11
  <2>1. mode = "fennel" /\ p # 0 => ~AtSoftCap(p)
    BY <1>2, FennelPartFits
  <2>2. size[p] \in Nat
    BY <1>1, <1>2
  <2>3. \A x, y \in Nat : x * y \in Nat
    OBVIOUS
  <2>4. size[p] * SD \in Nat
    BY <1>3, <2>2, <2>3
  <2>5. AtSoftCap(p) <=> size[p] * SD * 10 >= total * 11
    BY DEF AtSoftCap
  <2> HIDE DEF p, total
  <2> QED
    BY <1>3, <2>1, <2>4, <2>5
<1>7. \A q \in StreamParts :
          /\ mode = "ldg" => BelowCapacity(size[q] - heavy)
          /\ mode = "fennel" /\ q # 0 => (size[q] - heavy) * SD * 10 < total * 11
  BY <1>2 DEF VertexPartsFit
<1> HIDE DEF v, p, w, heavy, total
<1>8. ASSUME NEW q \in StreamParts
      PROVE  /\ mode = "ldg" => BelowCapacity(size'[q] - heavy)
             /\ mode = "fennel" /\ q # 0 => (size'[q] - heavy) * SD * 10 < total * 11
  <2>1. CASE q # p \/ w = 0
    <3>1. size'[q] = size[q]
      <4>1. size[q] \in Nat
        BY <1>2
      <4>2. size'[q] = IF q = p THEN size[q] + w ELSE size[q]
        BY <1>1, <1>2
      <4> QED
        BY <2>1, <4>1, <4>2
    <3> QED
      BY <1>7, <3>1
  <2>2. CASE q = p /\ w # 0
    <3> DEFINE old == size[p]
               new == size'[p]
    <3>1. new = old + w /\ old \in Nat /\ w > 0
      BY <1>1, <1>2, <2>2
    <3> HIDE DEF old, new
    <3>2. new - heavy <= old /\ new - heavy \in Int
      BY <1>1, <1>3, <3>1
    <3>3. \A x \in Int, y, z \in Nat : x <= y => x * z <= y * z /\ x * z \in Int /\ y * z \in Nat
      OBVIOUS
    <3>4. (new - heavy) * SD <= old * SD /\ (new - heavy) * SD \in Int /\ old * SD \in Nat
      BY <1>3, <3>1, <3>2, <3>3
    <3>5. mode = "ldg" => BelowCapacity(new - heavy)
      BY <1>2, <1>5, <3>1, <3>2, BelowCapacityFalls DEF old
    <3>6. mode = "fennel" /\ p # 0 => (new - heavy) * SD * 10 < total * 11
      BY <1>3, <1>6, <3>4 DEF old
    <3> QED
      BY <2>2, <3>5, <3>6 DEF new
  <2> QED
    BY <2>1, <2>2
<1>9. VertexPartsFit' <=>
          \A q \in StreamParts :
              /\ mode' = "ldg" =>
                     \/ (size'[q] - heavy') * SD < total'
                     \/ (size'[q] - heavy') * SD * Setting'[2] < Setting'[1] * total'
              /\ mode' = "fennel" /\ q # 0 => (size'[q] - heavy') * SD * 10 < total' * 11
  BY DEF VertexPartsFit, BelowCapacity, heavy, total
<1>10. \A x : BelowCapacity(x) <=>
                  x * SD < total \/ x * SD * Setting[2] < Setting[1] * total
  BY DEF BelowCapacity, total
<1> QED
  BY <1>2, <1>4, <1>8, <1>9, <1>10

-----------------------------------------------------------------------------
(* The stream of edges: where HDRF puts one.                               *)

\* A lemma: the spread is positive, and no part is above the largest.
LEMMA SpreadBounds ==
    ASSUME StreamTypeOK
    PROVE  /\ Spread \in Nat /\ Spread > 0
           /\ \A p \in StreamParts : MaxSize - size[p] \in Nat
<1>1. /\ StreamParts \in SUBSET Nat /\ IsFiniteSet(StreamParts) /\ StreamParts # {}
      /\ size \in [StreamParts -> Int]
  BY StreamNumbers DEF StreamTypeOK
<1>2. /\ MaxSize \in Int /\ MinSize \in Int
      /\ \A p \in StreamParts : MinSize <= size[p] /\ size[p] <= MaxSize
  BY <1>1, RangeBounds DEF MaxSize, MinSize
<1>3. \A p \in StreamParts : size[p] \in Int
  BY <1>1
<1>4. PICK p \in StreamParts : TRUE
  BY <1>1
<1>5. MinSize <= MaxSize
  BY <1>2, <1>3, <1>4
<1> QED
  BY <1>2, <1>3, <1>5 DEF Spread

\* A lemma: what a part scores by the ends of the edge that it holds is a
\* share of three spreads, all of them if it holds both; the balance is added.
LEMMA HdrfBounds ==
    ASSUME StreamTypeOK, NEW u, NEW v
    PROVE  \E d \in Nat :
               /\ d > 0
               /\ \A p \in StreamParts :
                      LET k == Spread * Setting[2] IN
                      /\ HdrfScore(u, v, p) \in Int
                      /\ d * Cbal(p) <= HdrfScore(u, v, p)
                      /\ HdrfScore(u, v, p) <= d * (3 * k + Cbal(p))
                      /\ p \in pmask[u] /\ p \in pmask[v]
                             => HdrfScore(u, v, p) = d * (3 * k + Cbal(p))
                      /\ ~(p \in pmask[u] /\ p \in pmask[v])
                             => HdrfScore(u, v, p) <= d * (2 * k + Cbal(p))
<1>1. Deg(u) \in Nat /\ Deg(v) \in Nat
  BY EdgeCounts
<1>2. \E t, d \in Nat : d > 0 /\ t <= d /\ Theta(u, v) = <<t, d>>
  <2>1. CASE Deg(u) + Deg(v) > 0
    <3> DEFINE t == Deg(u)
               d == Deg(u) + Deg(v)
    <3>1. t \in Nat /\ d \in Nat /\ d > 0 /\ t <= d
      BY <1>1, <2>1
    <3>2. Theta(u, v) = <<t, d>>
      BY <2>1 DEF Theta
    <3> HIDE DEF t, d
    <3> QED
      BY <3>1, <3>2
  <2>2. CASE ~(Deg(u) + Deg(v) > 0)
    <3>1. Theta(u, v) = <<1, 2>>
      BY <2>2 DEF Theta
    <3> QED
      BY <3>1
  <2> QED
    BY <2>1, <2>2
<1>3. PICK t \in Nat, d \in Nat : d > 0 /\ t <= d /\ Theta(u, v) = <<t, d>>
  BY <1>2
<1> DEFINE k == Spread * Setting[2]
<1>4. k \in Nat /\ Spread \in Nat /\ Setting[2] \in Nat
  <2>1. Spread \in Nat /\ Setting[2] \in Nat
    BY SpreadBounds, SettingIsFraction
  <2>2. \A i, j \in Nat : i * j \in Nat
    OBVIOUS
  <2> QED
    BY <2>1, <2>2
<1>5. ASSUME NEW p \in StreamParts
      PROVE  /\ HdrfScore(u, v, p) \in Int
             /\ d * Cbal(p) <= HdrfScore(u, v, p)
             /\ HdrfScore(u, v, p) <= d * (3 * k + Cbal(p))
             /\ p \in pmask[u] /\ p \in pmask[v]
                    => HdrfScore(u, v, p) = d * (3 * k + Cbal(p))
             /\ ~(p \in pmask[u] /\ p \in pmask[v])
                    => HdrfScore(u, v, p) <= d * (2 * k + Cbal(p))
  <2> DEFINE ru == IF p \in pmask[u] THEN 2 * d - t ELSE 0
             rv == IF p \in pmask[v] THEN 2 * d - (d - t) ELSE 0
             r  == ru + rv
             x  == Cbal(p)
             n  == Spread
             m  == Setting[2]
  <2>1. HdrfScore(u, v, p) = r * n * m + x * d
    BY <1>3 DEF HdrfScore
  <2>2. x \in Nat
    <3>1. MaxSize - size[p] \in Nat /\ Setting[1] \in Nat
      BY SpreadBounds, SettingIsFraction
    <3>2. \A i, j \in Nat : i * j \in Nat
      OBVIOUS
    <3> QED
      BY <3>1, <3>2 DEF Cbal
  <2>3. r \in Nat
    BY <1>3
  <2>4. p \in pmask[u] /\ p \in pmask[v] => r = 3 * d
    BY <1>3
  <2>5. ~(p \in pmask[u] /\ p \in pmask[v]) => r <= 2 * d
    BY <1>3
  <2>6. r <= 3 * d
    BY <1>3, <2>4, <2>5
  <2>7. n \in Nat /\ m \in Nat /\ k = n * m
    BY <1>4
  <2> HIDE DEF r, x, n, m, k
  <2>8. r * n * m = r * k
    BY <2>3, <2>7
  <2>9. HdrfScore(u, v, p) = r * k + d * x
    BY <1>3, <2>1, <2>2, <2>8
  <2>10. \A i, j \in Nat : i * j \in Nat
    OBVIOUS
  <2>11. k \in Nat
    BY <1>4
  <2>12. r * k \in Nat /\ d * x \in Nat /\ d * k \in Nat
    BY <1>3, <2>2, <2>3, <2>10, <2>11
  <2>13. d * (3 * k + x) = 3 * (d * k) + d * x /\ d * (2 * k + x) = 2 * (d * k) + d * x
    BY <1>3, <2>2, <2>11
  <2>14. (3 * d) * k = 3 * (d * k) /\ (2 * d) * k = 2 * (d * k)
    BY <1>3, <2>11
  <2>15. \A i, j, l \in Nat : i <= j => i * l <= j * l
    OBVIOUS
  <2>16. r * k <= 3 * (d * k)
    BY <1>3, <2>3, <2>6, <2>11, <2>14, <2>15
  <2>17. r = 3 * d => r * k = 3 * (d * k)
    BY <2>14
  <2>18. r <= 2 * d => r * k <= 2 * (d * k)
    BY <1>3, <2>3, <2>11, <2>14, <2>15
  <2> DEFINE rk == r * k
             dx == d * x
             dk == d * k
             s  == HdrfScore(u, v, p)
  <2>19. s = rk + dx /\ rk \in Nat /\ dx \in Nat /\ dk \in Nat
    BY <2>9, <2>12
  <2>20. /\ rk <= 3 * dk
         /\ r = 3 * d => rk = 3 * dk
         /\ r <= 2 * d => rk <= 2 * dk
         /\ d * (3 * k + x) = 3 * dk + dx
         /\ d * (2 * k + x) = 2 * dk + dx
    BY <2>13, <2>16, <2>17, <2>18
  <2> HIDE DEF rk, dx, dk, s
  <2>21. /\ s \in Int /\ dx <= s /\ s <= d * (3 * k + x)
         /\ r = 3 * d => s = d * (3 * k + x)
         /\ r <= 2 * d => s <= d * (2 * k + x)
    BY <2>19, <2>20
  <2> QED
    BY <2>4, <2>5, <2>21 DEF s, dx, x
<1> QED
  BY <1>3, <1>5

\* A lemma: a common positive factor can be left out of a comparison.
LEMMA FactorsCancel ==
    ASSUME NEW d \in Nat, d > 0, NEW x \in Int, NEW y \in Int, d * x <= d * y
    PROVE  x <= y
<1> SUFFICES ASSUME y + 1 <= x PROVE FALSE
  OBVIOUS
<1>1. \A i, j \in Int : i <= j => d * i <= d * j
  OBVIOUS
<1>2. d * (y + 1) <= d * x /\ d * (y + 1) = d * y + d
  BY <1>1
<1>3. d * x \in Int /\ d * y \in Int
  OBVIOUS
<1> QED
  BY <1>2, <1>3

\* A lemma: HDRF finds a part; it passes over one that holds both ends only for
\* one that holds fewer edges by a spread over lambda; and it fills the fullest
\* only if lambda times the gap is within three spreads.
LEMMA HdrfPartIs ==
    ASSUME StreamTypeOK, NEW u, NEW v, NEW p, p = HdrfPart(u, v)
    PROVE  /\ p \in StreamParts
           /\ \A r \in StreamParts : r \in pmask[u] /\ r \in pmask[v]
                  => \/ p \in pmask[u] /\ p \in pmask[v]
                     \/ Setting[1] * (size[r] - size[p]) >= Setting[2] * (1 + Gap)
           /\ size[p] = MaxSize => Setting[1] * Gap <= 3 * Setting[2] * (1 + Gap)
<1> DEFINE f == [q \in StreamParts |-> HdrfScore(u, v, q)]
           Best(a) == \A q \in StreamParts :
                          \/ HdrfScore(u, v, a) > HdrfScore(u, v, q)
                          \/ HdrfScore(u, v, a) = HdrfScore(u, v, q) /\ a <= q
           k == Spread * Setting[2]
<1>1. PICK d \in Nat :
          /\ d > 0
          /\ \A q \in StreamParts :
                 /\ HdrfScore(u, v, q) \in Int
                 /\ d * Cbal(q) <= HdrfScore(u, v, q)
                 /\ HdrfScore(u, v, q) <= d * (3 * k + Cbal(q))
                 /\ q \in pmask[u] /\ q \in pmask[v]
                        => HdrfScore(u, v, q) = d * (3 * k + Cbal(q))
                 /\ ~(q \in pmask[u] /\ q \in pmask[v])
                        => HdrfScore(u, v, q) <= d * (2 * k + Cbal(q))
  BY HdrfBounds
<1>2. \A q \in StreamParts : f[q] \in Int /\ f[q] = HdrfScore(u, v, q)
  BY <1>1
<1> HIDE DEF f
<1>3. PICK m \in StreamParts : \A x \in StreamParts : f[m] > f[x] \/ (f[m] = f[x] /\ m <= x)
  <2>1. StreamParts \in SUBSET Nat /\ IsFiniteSet(StreamParts) /\ StreamParts # {}
    BY StreamNumbers
  <2> QED
    BY <1>2, <2>1, FirstOfBest
<1>4. Best(m)
  BY <1>2, <1>3
<1>5. p = CHOOSE a \in StreamParts : Best(a)
  BY DEF HdrfPart, FirstBest
<1> HIDE DEF Best
<1>6. p \in StreamParts /\ Best(p)
  BY <1>4, <1>5
<1>7. \A q \in StreamParts : HdrfScore(u, v, p) >= HdrfScore(u, v, q)
  <2>1. \A q \in StreamParts : HdrfScore(u, v, q) \in Int
    BY <1>1
  <2> QED
    BY <1>6, <2>1 DEF Best
<1> DEFINE n == Setting[1]
           e == Setting[2]
<1>8. /\ n \in Nat /\ e \in Nat /\ Spread \in Nat /\ k \in Nat
      /\ \A q \in StreamParts : /\ size[q] \in Nat /\ MaxSize - size[q] \in Nat
                                /\ Cbal(q) \in Nat /\ Cbal(q) = n * (MaxSize - size[q])
  <2>1. n \in Nat /\ e \in Nat /\ Spread \in Nat
    BY SpreadBounds, SettingIsFraction
  <2>2. \A i, j \in Nat : i * j \in Nat
    OBVIOUS
  <2>3. \A q \in StreamParts : size[q] \in Nat /\ MaxSize - size[q] \in Nat
    BY SpreadBounds DEF StreamTypeOK
  <2>4. \A q \in StreamParts : Cbal(q) = n * (MaxSize - size[q])
    BY DEF Cbal
  <2> HIDE DEF n
  <2> QED
    BY <2>1, <2>2, <2>3, <2>4
<1>9. /\ MaxSize \in Int /\ MinSize \in Int /\ MinSize \in Range(size)
      /\ Gap = MaxSize - MinSize /\ Spread = 1 + Gap /\ Gap \in Int
  <2>1. StreamParts \in SUBSET Nat /\ IsFiniteSet(StreamParts) /\ StreamParts # {}
        /\ size \in [StreamParts -> Int]
    BY StreamNumbers DEF StreamTypeOK
  <2>2. MaxSize \in Int /\ MinSize \in Int /\ MinSize \in Range(size)
    BY <2>1, RangeBounds DEF MaxSize, MinSize
  <2>3. Gap = MaxSize - MinSize
    BY DEF Gap, MaxSize, MinSize
  <2> QED
    BY <2>2, <2>3 DEF Spread
<1>10. k = e * (1 + Gap)
  BY <1>8, <1>9
<1> HIDE DEF k, n, e
<1>11. ASSUME NEW r \in StreamParts, r \in pmask[u], r \in pmask[v],
              ~(p \in pmask[u] /\ p \in pmask[v])
       PROVE  n * (size[r] - size[p]) >= k
  <2> DEFINE br == Cbal(r)
             bp == Cbal(p)
             sr == HdrfScore(u, v, r)
             sp == HdrfScore(u, v, p)
  <2>1. sr = d * (3 * k + br) /\ sp <= d * (2 * k + bp) /\ sp >= sr /\ sr \in Int /\ sp \in Int
    BY <1>1, <1>6, <1>7, <1>11
  <2>2. /\ br \in Nat /\ bp \in Nat
        /\ br = n * (MaxSize - size[r]) /\ bp = n * (MaxSize - size[p])
        /\ size[r] \in Int /\ size[p] \in Int
    BY <1>6, <1>8
  <2> HIDE DEF br, bp, sr, sp
  <2>3. 3 * k + br \in Int /\ 2 * k + bp \in Int
    BY <1>8, <2>2
  <2>4. d * (3 * k + br) <= d * (2 * k + bp)
    <3> DEFINE hi == d * (2 * k + bp)
    <3>1. hi \in Int
      BY <2>3
    <3> HIDE DEF hi
    <3>2. sr <= hi
      BY <2>1, <3>1 DEF hi
    <3> QED
      BY <2>1, <3>2 DEF hi
  <2>5. 3 * k + br <= 2 * k + bp
    BY <1>1, <2>3, <2>4, FactorsCancel
  <2>6. bp - br = n * (size[r] - size[p])
    BY <1>8, <1>9, <2>2
  <2> QED
    BY <1>8, <2>2, <2>5, <2>6
<1>12. ASSUME size[p] = MaxSize
       PROVE  n * Gap <= 3 * k
  <2>1. PICK q \in StreamParts : size[q] = MinSize
    BY <1>9 DEF Range, StreamTypeOK
  <2> DEFINE bq == Cbal(q)
             sq == HdrfScore(u, v, q)
             sp == HdrfScore(u, v, p)
  <2>2. Cbal(p) = 0
    BY <1>6, <1>8, <1>9, <1>12
  <2>3. bq = n * Gap /\ bq \in Nat
    BY <1>8, <1>9, <2>1
  <2>4. d * bq <= sq /\ sp <= d * (3 * k + 0) /\ sp >= sq /\ sq \in Int /\ sp \in Int
    BY <1>1, <1>6, <1>7, <2>2
  <2> HIDE DEF bq, sq, sp
  <2>5. d * bq \in Int /\ 3 * k + 0 = 3 * k /\ d * (3 * k) \in Int
    BY <1>8, <2>3
  <2>6. d * bq <= d * (3 * k)
    BY <2>4, <2>5
  <2>7. bq <= 3 * k
    BY <1>1, <1>8, <2>3, <2>6, FactorsCancel
  <2> QED
    BY <2>3, <2>7
<1>13. 3 * k = 3 * e * (1 + Gap)
  BY <1>8, <1>9, <1>10
<1> QED
  BY <1>6, <1>10, <1>11, <1>12, <1>13 DEF n, e

\* A lemma: an edge that arrives is put into a part.
LEMMA PlaceEdgeStep ==
    ASSUME StreamTypeOK, PlaceEdge
    PROVE  \E u, v \in StreamVertices, p \in StreamParts :
               /\ edges[arrived + 1] = <<u, v>>
               /\ \A r \in StreamParts : r \in pmask[u] /\ r \in pmask[v]
                      => \/ p \in pmask[u] /\ p \in pmask[v]
                         \/ Setting[1] * (size[r] - size[p]) >= Setting[2] * (1 + Gap)
               /\ size[p] = MaxSize => Setting[1] * Gap <= 3 * Setting[2] * (1 + Gap)
               /\ pmask' = [w \in StreamVertices |->
                                IF w \in {u, v} THEN pmask[w] \cup {p} ELSE pmask[w]]
               /\ size' = [size EXCEPT ![p] = @ + 1]
<1>1. edges \in Seq(StreamVertices \X StreamVertices) /\ arrived < Len(edges) /\ arrived \in Nat
      /\ Len(edges) \in Nat
  BY EdgeCounts DEF PlaceEdge, StreamTypeOK
<1>2. edges[arrived + 1] \in StreamVertices \X StreamVertices
  <2>1. arrived + 1 \in 1 .. Len(edges)
    BY <1>1
  <2> QED
    BY <1>1, <2>1
<1>3. PICK u \in StreamVertices, v \in StreamVertices : edges[arrived + 1] = <<u, v>>
  BY <1>2
<1> DEFINE p == HdrfPart(u, v)
<1>4. /\ pmask' = [w \in StreamVertices |-> IF w \in {u, v} THEN pmask[w] \cup {p} ELSE pmask[w]]
      /\ size' = [size EXCEPT ![p] = @ + 1]
  <2>1. edges[arrived + 1][1] = u /\ edges[arrived + 1][2] = v
    BY <1>3
  <2> QED
    BY <2>1 DEF PlaceEdge
<1>5. /\ p \in StreamParts
      /\ \A r \in StreamParts : r \in pmask[u] /\ r \in pmask[v]
             => \/ p \in pmask[u] /\ p \in pmask[v]
                \/ Setting[1] * (size[r] - size[p]) >= Setting[2] * (1 + Gap)
      /\ size[p] = MaxSize => Setting[1] * Gap <= 3 * Setting[2] * (1 + Gap)
  BY HdrfPartIs
<1> HIDE DEF p
<1> QED
  BY <1>3, <1>4, <1>5

\* A lemma: with a smaller gap the bound on the gap still holds.
LEMMA BoundFalls ==
    ASSUME NEW n \in Nat, NEW k \in Nat, NEW g \in Nat, NEW h \in Nat, h <= g,
           n * (g - 1) <= k * g
    PROVE  n * (h - 1) <= k * h
<1>1. /\ n * (g - 1) = n * g - n /\ n * (h - 1) = n * h - n
      /\ n * g \in Int /\ n * h \in Int /\ k * g \in Int /\ k * h \in Int
  OBVIOUS
<1>2. CASE n <= k
  <2>1. \A i, j, l \in Nat : i <= j => i * l <= j * l
    OBVIOUS
  <2>2. n * h <= k * h
    BY <1>2, <2>1
  <2> QED
    BY <1>1, <2>2
<1>3. CASE ~(n <= k)
  <2> DEFINE m == n - k
  <2>1. m \in Nat
    BY <1>3
  <2>2. m * g = n * g - k * g /\ m * h = n * h - k * h
    OBVIOUS
  <2> HIDE DEF m
  <2>3. \A i, j, l \in Nat : i <= j => l * i <= l * j
    OBVIOUS
  <2>4. m * h <= m * g /\ m * h \in Int /\ m * g \in Int
    BY <2>1, <2>3
  <2> QED
    BY <1>1, <2>2, <2>4
<1> QED
  BY <1>2, <1>3

\* A lemma: an edge widens the gap only as far as lambda permits.
LEMMA GapStaysBounded ==
    ASSUME StreamTypeOK, EdgePartsLevel, PlaceEdge
    PROVE  EdgePartsLevel'
<1>1. PICK p \in StreamParts :
          /\ size' = [size EXCEPT ![p] = @ + 1]
          /\ size[p] = MaxSize => Setting[1] * Gap <= 3 * Setting[2] * (1 + Gap)
  BY PlaceEdgeStep
<1> DEFINE n == Setting[1]
           k == 3 * Setting[2]
           g == Gap
           new == size'
           h == Max(Range(new)) - Min(Range(new))
<1>2. mode = "hdrf" /\ param' = param
  BY DEF PlaceEdge
<1>3. n' = n /\ k' = k /\ g' = h
  BY <1>2 DEF Setting, Gap
<1>4. /\ StreamParts \in SUBSET Nat /\ IsFiniteSet(StreamParts) /\ StreamParts # {}
      /\ size \in [StreamParts -> Int] /\ new \in [StreamParts -> Int]
      /\ \A q \in StreamParts : new[q] = IF q = p THEN size[q] + 1 ELSE size[q]
      /\ \A q \in StreamParts : size[q] \in Int /\ new[q] \in Int
  <2>1. \A q \in StreamParts : size[q] \in Int
    BY DEF StreamTypeOK
  <2> QED
    BY <1>1, <2>1, StreamNumbers DEF StreamTypeOK
<1>5. /\ MaxSize \in Int /\ MinSize \in Int /\ g = MaxSize - MinSize
      /\ \A q \in StreamParts : MinSize <= size[q] /\ size[q] <= MaxSize
  BY <1>4, RangeBounds DEF MaxSize, MinSize, Gap
<1> DEFINE hi == Max(Range(new))
           lo == Min(Range(new))
<1> HIDE DEF new
<1>6. /\ hi \in Int /\ lo \in Int /\ hi \in Range(new) /\ lo \in Range(new)
      /\ \A q \in StreamParts : lo <= new[q] /\ new[q] <= hi
  BY <1>4, RangeBounds
<1>7. PICK a \in StreamParts, b \in StreamParts : new[a] = hi /\ new[b] = lo
  BY <1>4, <1>6 DEF Range
<1>8. /\ MinSize <= lo /\ lo <= hi /\ MinSize <= MaxSize
      /\ hi <= MaxSize \/ (hi = MaxSize + 1 /\ size[p] = MaxSize)
  BY <1>4, <1>5, <1>6, <1>7
<1>9. n \in Nat /\ k \in Nat /\ g \in Nat /\ h \in Nat /\ (h <= g \/ (h = g + 1 /\ size[p] = MaxSize))
  <2>1. Setting[1] \in Nat /\ Setting[2] \in Nat
    BY SettingIsFraction
  <2> HIDE DEF hi, lo, g
  <2> QED
    BY <1>5, <1>6, <1>8, <2>1 DEF hi, lo
<1>10. n * (g - 1) <= k * g
  BY <1>2 DEF EdgePartsLevel
<1>11. n * (h - 1) <= k * h
  <2>1. size[p] = MaxSize => n * g <= k * (1 + g)
    BY <1>1
  <2> HIDE DEF n, k, g, h
  <2>2. CASE h <= g
    BY <1>9, <1>10, <2>2, BoundFalls
  <2>3. CASE h = g + 1 /\ size[p] = MaxSize
    <3>1. h - 1 = g /\ h = 1 + g
      BY <1>9, <2>3
    <3> QED
      BY <2>1, <2>3, <3>1
  <2> QED
    BY <1>9, <2>2, <2>3
<1>12. n' * (g' - 1) <= k' * g'
  BY <1>3, <1>11
<1> QED
  BY <1>12 DEF EdgePartsLevel

\* A lemma: the types, and what has been placed, along every behaviour.
LEMMA StreamInvariance == StreamSpec => []StreamInv
<1>1. StreamInv /\ [StreamNext]_streamVars => StreamInv'
  <2> SUFFICES ASSUME StreamInv, [StreamNext]_streamVars PROVE StreamInv'
    OBVIOUS
  <2>1. StreamTypeOK /\ PlacedInv /\ StreamsStayInCapacity
    BY DEF StreamInv
  <2>2. CASE PlaceVertex
    <3> DEFINE v == order[arrived + 1]
               p == IF mode = "fennel" THEN FennelPart(v) ELSE LdgPart(v)
    <3>1. /\ v \in StreamVertices /\ p \in StreamParts /\ vw[v] \in Nat
          /\ size' = [size EXCEPT ![p] = @ + vw[v]]
          /\ arrived + 1 <= SN /\ Placed' = Placed \cup {v}
          /\ SumFunctionOnSet(size', StreamParts) = SumFunctionOnSet(vw, Placed \cup {v})
      BY <2>2, PlacementChanges
    <3>2. /\ mode' = mode /\ edges' = edges /\ vw' = vw /\ order' = order /\ pmask' = pmask
          /\ arrived' = arrived + 1 /\ param' = param /\ mode # "hdrf"
      BY <2>2 DEF PlaceVertex
    <3>3. StreamsStayInCapacity'
      <4>1. VertexPartsFit'
        BY <2>2, PlacementStaysInCapacity
      <4>2. EdgePartsLevel'
        BY <3>2 DEF EdgePartsLevel
      <4> QED
        BY <4>1, <4>2 DEF StreamsStayInCapacity
    <3> HIDE DEF v, p
    <3>4. size' \in [StreamParts -> Nat]
      <4> DEFINE w == vw[v]
      <4>1. w \in Nat /\ size' = [size EXCEPT ![p] = @ + w] /\ size \in [StreamParts -> Nat]
        BY <2>1, <3>1 DEF StreamTypeOK
      <4> HIDE DEF w
      <4> QED
        BY <3>1, <4>1
    <3>5. arrived' \in Nat
      BY <2>1, <3>2 DEF StreamTypeOK
    <3>6. StreamTypeOK'
      BY <2>1, <3>2, <3>4, <3>5 DEF StreamTypeOK
    <3>7. PlacedInv'
      BY <3>1, <3>2 DEF PlacedInv
    <3> QED
      BY <3>3, <3>6, <3>7 DEF StreamInv
  <2>3. CASE PlaceEdge
    <3>1. /\ mode' = mode /\ edges' = edges /\ vw' = vw /\ order' = order
          /\ arrived' = arrived + 1 /\ mode = "hdrf" /\ param' = param
      BY <2>3 DEF PlaceEdge
    <3>2. PICK u \in StreamVertices, v \in StreamVertices, p \in StreamParts :
              /\ edges[arrived + 1] = <<u, v>>
              /\ pmask' = [w \in StreamVertices |->
                               IF w \in {u, v} THEN pmask[w] \cup {p} ELSE pmask[w]]
              /\ size' = [size EXCEPT ![p] = @ + 1]
      BY <2>1, <2>3, PlaceEdgeStep
    <3>3. size' \in [StreamParts -> Nat] /\ pmask' \in [StreamVertices -> SUBSET StreamParts]
      BY <2>1, <3>2 DEF StreamTypeOK
    <3>4. arrived' \in Nat
      BY <2>1, <3>1 DEF StreamTypeOK
    <3>5. StreamTypeOK'
      BY <2>1, <3>1, <3>3, <3>4 DEF StreamTypeOK
    <3>6. PlacedInv' /\ StreamsStayInCapacity'
      <4>1. EdgePartsLevel'
        BY <2>1, <2>3, GapStaysBounded DEF StreamsStayInCapacity
      <4> QED
        BY <3>1, <4>1 DEF PlacedInv, StreamsStayInCapacity, VertexPartsFit
    <3> QED
      BY <3>5, <3>6 DEF StreamInv
  <2>4. CASE UNCHANGED streamVars
    BY <2>1, <2>4 DEF StreamInv, StreamTypeOK, PlacedInv, Placed, StreamsStayInCapacity,
                      VertexPartsFit, EdgePartsLevel, BelowCapacity, Gap, Setting, TotalWeight,
                      streamVars
  <2> QED
    BY <2>2, <2>3, <2>4 DEF StreamNext
<1> QED
  BY <1>1, InitStreamInv, PTL DEF StreamSpec

-----------------------------------------------------------------------------
(* What the streams promise.                                               *)

\* One vertex takes a part over its capacity at most: for LDG the mean size, or
\* the mean times the slack, for Fennel (with gamma 2) 1.10 of the mean, in
\* whatever order the vertices arrive; and two parts of HDRF are apart by no
\* more than lambda permits.
THEOREM CapacityIsKept == StreamSpec => []StreamsStayInCapacity
<1>1. StreamInv => StreamsStayInCapacity
  BY DEF StreamInv
<1> QED
  BY <1>1, StreamInvariance, PTL

\* A lemma: a step of HDRF that adds a replica though a part is shared puts the
\* edge where there are fewer by a spread over lambda.
LEMMA ReplicaIsOutweighed ==
    ASSUME StreamInv, [StreamNext]_streamVars, mode = "hdrf", arrived' > arrived,
           NEW r \in pmask[edges[arrived'][1]] \cap pmask[edges[arrived'][2]],
           pmask' # pmask
    PROVE  /\ r \in StreamParts
           /\ \E p \in StreamParts :
                 /\ size'[p] > size[p]
                 /\ Setting[1] * (size[r] - size[p]) >= Setting[2] * (1 + Gap)
<1>1. StreamTypeOK /\ arrived \in Nat
  BY DEF StreamInv, StreamTypeOK
<1>2. PlaceEdge /\ arrived' = arrived + 1
  <2>1. ~PlaceVertex
    BY DEF PlaceVertex
  <2>2. ~UNCHANGED streamVars
    BY <1>1 DEF streamVars
  <2>3. PlaceEdge
    BY <2>1, <2>2 DEF StreamNext
  <2> QED
    BY <2>3 DEF PlaceEdge
<1>3. PICK u \in StreamVertices, v \in StreamVertices, p \in StreamParts :
          /\ edges[arrived + 1] = <<u, v>>
          /\ \A q \in StreamParts : q \in pmask[u] /\ q \in pmask[v]
                 => \/ p \in pmask[u] /\ p \in pmask[v]
                    \/ Setting[1] * (size[q] - size[p]) >= Setting[2] * (1 + Gap)
          /\ pmask' = [w \in StreamVertices |->
                           IF w \in {u, v} THEN pmask[w] \cup {p} ELSE pmask[w]]
          /\ size' = [size EXCEPT ![p] = @ + 1]
  BY <1>1, <1>2, PlaceEdgeStep
<1>4. pmask \in [StreamVertices -> SUBSET StreamParts] /\ size \in [StreamParts -> Nat]
  BY <1>1 DEF StreamTypeOK
<1>5. r \in StreamParts /\ r \in pmask[u] /\ r \in pmask[v]
  <2>1. edges[arrived'][1] = u /\ edges[arrived'][2] = v
    BY <1>2, <1>3
  <2> QED
    BY <1>4, <2>1
<1>6. ~(p \in pmask[u] /\ p \in pmask[v])
  <2> SUFFICES ASSUME p \in pmask[u] /\ p \in pmask[v] PROVE FALSE
    OBVIOUS
  <2>1. \A w \in StreamVertices : pmask'[w] = pmask[w]
    BY <1>3
  <2>2. pmask' \in [StreamVertices -> SUBSET StreamParts]
    BY <1>3, <1>4
  <2> QED
    BY <1>4, <2>1, <2>2
<1>7. size'[p] > size[p]
  BY <1>3, <1>4
<1> QED
  BY <1>3, <1>5, <1>6, <1>7

\* HDRF makes a new replica for an edge whose ends share a part only where
\* lambda times the edges that the chosen part is behind reaches the spread,
\* for every lambda.
THEOREM SharedPartsAreReused == StreamSpec => SharedPartIsReused
<1>1. ASSUME StreamInv, [StreamNext]_streamVars
      PROVE  mode = "hdrf" /\ arrived' > arrived =>
                 LET e == edges[arrived'] IN
                 \A r \in pmask[e[1]] \cap pmask[e[2]] :
                     \/ pmask' = pmask
                     \/ \E p \in StreamParts :
                            /\ size'[p] > size[p]
                            /\ Setting[1] * (size[r] - size[p]) >= Setting[2] * (1 + Gap)
  BY <1>1, ReplicaIsOutweighed
<1> QED
  BY <1>1, StreamInvariance, PTL DEF StreamSpec, SharedPartIsReused

\* At a lambda of at most 1, the default among them, an edge whose ends share a
\* part makes no new replica, however unbalanced the parts have become.
NoReplicaIsCost ==
    [][mode = "hdrf" /\ arrived' > arrived /\ Setting[1] <= Setting[2] =>
          LET e == edges[arrived'] IN
          pmask[e[1]] \cap pmask[e[2]] # {} => pmask' = pmask]_streamVars

\* No part is behind by a spread, so a modest lambda never outweighs what the
\* ends of an edge share.
THEOREM ModestLambdaCostsNoReplica == StreamSpec => NoReplicaIsCost
<1>1. ASSUME StreamTypeOK, Setting[1] <= Setting[2], NEW r \in StreamParts, NEW p \in StreamParts
      PROVE  ~(Setting[1] * (size[r] - size[p]) >= Setting[2] * (1 + Gap))
  <2> DEFINE n == Setting[1]
             d == Setting[2]
             x == size[r] - size[p]
             g == Gap
  <2>1. n \in Nat /\ d \in Nat /\ d > 0 /\ n <= d
    BY <1>1, SettingIsFraction
  <2>2. x \in Int /\ g \in Nat /\ x <= g
    <3>1. /\ StreamParts \in SUBSET Nat /\ IsFiniteSet(StreamParts) /\ StreamParts # {}
          /\ size \in [StreamParts -> Int] /\ \A q \in StreamParts : size[q] \in Int
      BY <1>1, StreamNumbers DEF StreamTypeOK
    <3> DEFINE hi == Max(Range(size))
               lo == Min(Range(size))
    <3>2. hi \in Int /\ lo \in Int /\ \A q \in StreamParts : lo <= size[q] /\ size[q] <= hi
      BY <3>1, RangeBounds
    <3>3. g = hi - lo
      BY DEF Gap
    <3> HIDE DEF hi, lo, g
    <3> QED
      BY <3>1, <3>2, <3>3
  <2> HIDE DEF n, d, x, g
  <2>3. \A i, j \in Int, k \in Nat : i <= j => k * i <= k * j /\ k * i \in Int /\ k * j \in Int
    OBVIOUS
  <2>4. n * x <= n * g /\ n * x \in Int /\ n * g \in Int
    BY <2>1, <2>2, <2>3
  <2>5. n * g <= d * g /\ d * g \in Int
    <3>1. g * n <= g * d /\ g * n = n * g /\ g * d = d * g
      BY <2>1, <2>2, <2>3
    <3> QED
      BY <2>1, <2>2, <3>1
  <2>6. d * (1 + g) = d + d * g
    BY <2>1, <2>2
  <2>7. ~(n * x >= d * (1 + g))
    BY <2>1, <2>4, <2>5, <2>6
  <2> QED
    BY <2>7 DEF n, d, x, g
<1>2. ASSUME StreamInv, [StreamNext]_streamVars, mode = "hdrf", arrived' > arrived,
             Setting[1] <= Setting[2],
             NEW r \in pmask[edges[arrived'][1]] \cap pmask[edges[arrived'][2]],
             pmask' # pmask
      PROVE  FALSE
  <2>1. StreamTypeOK
    BY <1>2 DEF StreamInv
  <2>2. PICK p \in StreamParts : Setting[1] * (size[r] - size[p]) >= Setting[2] * (1 + Gap)
    BY <1>2, ReplicaIsOutweighed
  <2>3. r \in StreamParts
    BY <1>2, ReplicaIsOutweighed
  <2> QED
    BY <1>1, <1>2, <2>1, <2>2, <2>3
<1>3. ASSUME StreamInv, [StreamNext]_streamVars
      PROVE  mode = "hdrf" /\ arrived' > arrived /\ Setting[1] <= Setting[2] =>
                 LET e == edges[arrived'] IN
                 pmask[e[1]] \cap pmask[e[2]] # {} => pmask' = pmask
  BY <1>2, <1>3
<1> QED
  BY <1>3, StreamInvariance, PTL DEF StreamSpec, NoReplicaIsCost

-----------------------------------------------------------------------------
(* Sequences, numbers and sums of the multilevel mode.                     *)

\* before puts the elements of S in a line.
IsOrder(before, S) ==
    /\ \A u \in S : <<u, u>> \notin before
    /\ \A u, v, w \in S : <<u, v>> \in before /\ <<v, w>> \in before => <<u, w>> \in before
    /\ \A u, v \in S : u = v \/ <<u, v>> \in before \/ <<v, u>> \in before

\* s lists every element of S, once.
ListsAll(s, S) ==
    /\ Len(s) = Cardinality(S) /\ Len(s) \in Nat /\ DOMAIN s = 1 .. Len(s)
    /\ \A i \in 1 .. Len(s) : s[i] \in S
    /\ \A i, j \in 1 .. Len(s) : s[i] = s[j] => i = j
    /\ \A v \in S : \E i \in 1 .. Len(s) : s[i] = v

\* The elements of S that before puts in front of v.
Preceding(S, before, v) == {u \in S : <<u, v>> \in before}

\* A lemma: an order tells the elements of a set apart by how many precede them.
LEMMA Ranks ==
    ASSUME NEW S, IsFiniteSet(S), NEW before, IsOrder(before, S)
    PROVE  /\ \A v \in S : /\ IsFiniteSet(Preceding(S, before, v))
                           /\ Cardinality(Preceding(S, before, v)) \in 0 .. Cardinality(S) - 1
           /\ \A v, w \in S :
                 Cardinality(Preceding(S, before, v)) = Cardinality(Preceding(S, before, w))
                     => v = w
<1> DEFINE n == Cardinality(S)
           Below(v) == {u \in S : <<u, v>> \in before}
           rank == [v \in S |-> Cardinality(Below(v))]
<1>1. n \in Nat
  BY FS_CardinalityType
<1>2. ASSUME NEW v \in S
      PROVE  IsFiniteSet(Below(v)) /\ rank[v] = Cardinality(Below(v)) /\ rank[v] \in 0 .. n - 1
  <2>1. Below(v) \in SUBSET (S \ {v})
    BY DEF IsOrder
  <2>2. IsFiniteSet(S \ {v}) /\ Cardinality(S \ {v}) = n - 1
    BY FS_RemoveElement
  <2>3. IsFiniteSet(Below(v)) /\ Cardinality(Below(v)) <= n - 1
    <3> HIDE DEF Below, n
    <3> QED
      BY <2>1, <2>2, FS_Subset
  <2>4. Cardinality(Below(v)) \in Nat
    BY <2>3, FS_CardinalityType
  <2> QED
    BY <1>1, <2>3, <2>4
<1>3. ASSUME NEW u \in S, NEW v \in S, <<u, v>> \in before PROVE rank[u] < rank[v]
  <2>1. Below(u) \cup {u} \in SUBSET Below(v) /\ u \notin Below(u)
    BY <1>3 DEF IsOrder
  <2>2. Cardinality(Below(u) \cup {u}) = rank[u] + 1
    <3> HIDE DEF Below, rank
    <3> QED
      BY <1>2, <2>1, FS_AddElement
  <2>3. Cardinality(Below(u) \cup {u}) <= rank[v]
    <3> HIDE DEF Below, rank
    <3> QED
      BY <1>2, <2>1, FS_Subset
  <2>4. rank[u] \in Int /\ rank[v] \in Int
    <3> HIDE DEF rank, n, Below
    <3> QED
      BY <1>1, <1>2
  <2> HIDE DEF rank
  <2> QED
    BY <2>2, <2>3, <2>4
<1>4. ASSUME NEW u \in S, NEW v \in S, rank[u] = rank[v] PROVE u = v
  <2>1. rank[u] \in Int /\ rank[v] \in Int
    <3> HIDE DEF rank, n, Below
    <3> QED
      BY <1>1, <1>2
  <2>2. ~(rank[u] < rank[v]) /\ ~(rank[v] < rank[u])
    <3> HIDE DEF rank
    <3> QED
      BY <1>4, <2>1
  <2>3. <<u, v>> \notin before /\ <<v, u>> \notin before
    <3> HIDE DEF rank
    <3> QED
      BY <1>3, <2>2
  <2> QED
    BY <2>3 DEF IsOrder
<1>5. \A v \in S : IsFiniteSet(Below(v)) /\ Cardinality(Below(v)) \in 0 .. n - 1
  <2> HIDE DEF rank, n, Below
  <2> QED
    BY <1>2
<1>6. \A v, w \in S : Cardinality(Below(v)) = Cardinality(Below(w)) => v = w
  <2>1. \A v \in S : rank[v] = Cardinality(Below(v))
    OBVIOUS
  <2> HIDE DEF rank, Below
  <2> QED
    BY <1>4, <2>1
<1>7. \A v : Below(v) = Preceding(S, before, v)
  BY DEF Preceding
<1> HIDE DEF Below
<1> QED
  BY <1>5, <1>6, <1>7

\* A lemma: InOrder lists a set.
LEMMA InOrderLists ==
    ASSUME NEW S, IsFiniteSet(S), NEW before, IsOrder(before, S)
    PROVE  ListsAll(InOrder(S, before), S)
<1> DEFINE n == Cardinality(S)
           Below(v) == {u \in S : <<u, v>> \in before}
           rank == [v \in S |-> Cardinality(Below(v))]
           s == InOrder(S, before)
<1>1. n \in Nat
  BY FS_CardinalityType
<1>2. \A v : Below(v) = Preceding(S, before, v)
  BY DEF Preceding
<1>3. ASSUME NEW v \in S PROVE rank[v] = Cardinality(Below(v)) /\ rank[v] \in 0 .. n - 1
  <2> HIDE DEF Below
  <2> QED
    BY <1>2, Ranks
<1>4. ASSUME NEW u \in S, NEW v \in S, rank[u] = rank[v] PROVE u = v
  <2> HIDE DEF Below
  <2> QED
    BY <1>2, <1>4, Ranks
<1>5. rank \in Surjection(S, 0 .. n - 1)
  <2>1. rank \in [S -> 0 .. n - 1]
    BY <1>3
  <2> HIDE DEF rank
  <2>2. rank \in Injection(S, 0 .. n - 1)
    BY <1>4, <2>1 DEF Injection, IsInjective
  <2>3. IsFiniteSet(0 .. n - 1) /\ Cardinality(0 .. n - 1) = n
    BY <1>1, FS_Interval
  <2> QED
    BY <2>2, <2>3, FS_Injection
<1>6. s = [k \in 1 .. n |-> CHOOSE v \in S : Cardinality(Below(v)) = k - 1]
  BY DEF InOrder
<1>7. ASSUME NEW k \in 1 .. n PROVE s[k] \in S /\ rank[s[k]] = k - 1
  <2>1. k - 1 \in 0 .. n - 1
    BY <1>1
  <2>2. \E v \in S : rank[v] = k - 1
    <3> HIDE DEF rank
    <3> QED
      BY <1>5, <2>1 DEF Surjection
  <2>3. s[k] = CHOOSE v \in S : Cardinality(Below(v)) = k - 1
    BY <1>6
  <2> HIDE DEF s, Below
  <2> QED
    BY <2>2, <2>3
<1>8. Len(s) = n /\ DOMAIN s = 1 .. n
  <2>1. s \in [1 .. n -> S]
    <3> HIDE DEF s
    <3> QED
      BY <1>6, <1>7
  <2>2. s \in Seq(S)
    BY <1>1, <2>1
  <2> HIDE DEF s
  <2> QED
    BY <1>1, <2>1, <2>2
<1>9. ASSUME NEW v \in S PROVE \E k \in 1 .. n : s[k] = v
  <2>1. rank[v] + 1 \in 1 .. n /\ (rank[v] + 1) - 1 = rank[v]
    <3> HIDE DEF rank, n, Below
    <3> QED
      BY <1>1, <1>3
  <2> HIDE DEF s, rank
  <2> QED
    BY <1>4, <1>7, <2>1
<1>10. \A i, j \in 1 .. n : s[i] = s[j] => i = j
  <2> SUFFICES ASSUME NEW i \in 1 .. n, NEW j \in 1 .. n, s[i] = s[j] PROVE i = j
    OBVIOUS
  <2>1. i - 1 = j - 1
    <3> HIDE DEF s, rank
    <3> QED
      BY <1>7
  <2> QED
    BY <1>1, <2>1
<1> HIDE DEF s, rank, n
<1> QED
  BY <1>1, <1>7, <1>8, <1>9, <1>10 DEF ListsAll, n, s

\* A lemma: so does Ascending.
LEMMA AscendingListsAll ==
    ASSUME NEW S \in SUBSET Nat, IsFiniteSet(S)
    PROVE  ListsAll(Ascending(S), S)
<1> DEFINE less == {e \in S \X S : e[1] < e[2]}
<1>1. \A u, v \in S : <<u, v>> \in less <=> u < v
  OBVIOUS
<1> HIDE DEF less
<1>2. IsOrder(less, S)
  <2>1. \A u, v \in S : u = v \/ <<u, v>> \in less \/ <<v, u>> \in less
    <3> SUFFICES ASSUME NEW u \in S, NEW v \in S
                 PROVE  u = v \/ u < v \/ v < u
      BY <1>1
    <3> QED
      OBVIOUS
  <2>2. \A u \in S : <<u, u>> \notin less
    BY <1>1
  <2>3. ASSUME NEW u \in S, NEW v \in S, NEW w \in S, <<u, v>> \in less, <<v, w>> \in less
        PROVE  <<u, w>> \in less
    <3>1. u < v /\ v < w /\ u \in Nat /\ v \in Nat /\ w \in Nat
      BY <1>1, <2>3
    <3> QED
      BY <1>1, <3>1
  <2> QED
    BY <2>1, <2>2, <2>3 DEF IsOrder
<1>3. Ascending(S) = InOrder(S, less)
  BY DEF Ascending, less
<1> QED
  BY <1>2, <1>3, InOrderLists

\* A lemma: a graph is finite, and every sum over it a natural number.
LEMMA GraphSums ==
    ASSUME NEW g, IsGraph(g)
    PROVE  /\ IsFiniteSet(Ids(g)) /\ IsFiniteSet(DOMAIN g.ew)
           /\ \A S \in SUBSET Ids(g) : IsFiniteSet(S) /\ Weight(g, S) \in Nat
           /\ \A E \in SUBSET DOMAIN g.ew :
                  IsFiniteSet(E) /\ SumFunctionOnSet(g.ew, E) \in Nat
           /\ \A p, d : LoadIn(g, p, d) \in Nat
           /\ \A p, v, d : ConnTo(g, p, v, d) \in Nat
           /\ \A p : EdgeCut(g, p) \in Nat
           /\ \A p, v, d : Gain(g, p, v, d) \in Int
           /\ \A v \in Ids(g) : Nbrs(g, v) \in SUBSET Ids(g) /\ v \notin Nbrs(g, v)
<1>1. IsFiniteSet(Ids(g)) /\ IsFiniteSet(DOMAIN g.ew)
  <2>1. IsFiniteSet(Ids(g)) /\ DOMAIN g.ew \in SUBSET (Ids(g) \X Ids(g))
    BY DEF IsGraph
  <2>2. IsFiniteSet(Ids(g) \X Ids(g))
    BY <2>1, FS_Product
  <2> QED
    BY <2>1, <2>2, FS_Subset
<1>2. ASSUME NEW S \in SUBSET Ids(g) PROVE IsFiniteSet(S) /\ Weight(g, S) \in Nat
  <2>1. IsFiniteSet(S)
    BY <1>1, FS_Subset
  <2>2. \A v \in S : g.vw[v] \in Nat
    BY DEF IsGraph
  <2>3. SumFunctionOnSet(g.vw, S) \in Nat
    BY <2>1, <2>2, SumType
  <2> QED
    BY <2>1, <2>3 DEF Weight
<1>3. ASSUME NEW E \in SUBSET DOMAIN g.ew
      PROVE  IsFiniteSet(E) /\ SumFunctionOnSet(g.ew, E) \in Nat
  <2>1. IsFiniteSet(E)
    BY <1>1, FS_Subset
  <2>2. \A e \in E : g.ew[e] \in Nat
    BY DEF IsGraph
  <2> QED
    BY <2>1, <2>2, SumType
<1>4. \A p, d : LoadIn(g, p, d) \in Nat
  BY <1>2 DEF LoadIn
<1>5. \A p, v, d : ConnTo(g, p, v, d) \in Nat
  BY <1>3 DEF ConnTo
<1>6. \A p : EdgeCut(g, p) \in Nat
  BY <1>3 DEF EdgeCut
<1>7. \A p, v, d : Gain(g, p, v, d) \in Int
  BY <1>5 DEF Gain
<1>8. \A v \in Ids(g) : Nbrs(g, v) \in SUBSET Ids(g) /\ v \notin Nbrs(g, v)
  BY DEF Nbrs, IsGraph
<1> QED
  BY <1>1, <1>2, <1>3, <1>4, <1>5, <1>6, <1>7, <1>8

\* q is the partition p into the labels Q with v moved to d.
Relabels(g, Q, p, v, d, q) ==
    /\ p \in [Ids(g) -> Q] /\ v \in Ids(g) /\ d \in Q /\ d # p[v]
    /\ q = [p EXCEPT ![v] = d]

\* A lemma: how a move changes the load of a part.
LEMMA LoadInMoves ==
    ASSUME NEW g, IsGraph(g), NEW Q, NEW p, NEW v, NEW d, NEW q, Relabels(g, Q, p, v, d, q)
    PROVE  /\ LoadIn(g, q, d) = LoadIn(g, p, d) + g.vw[v]
           /\ LoadIn(g, q, p[v]) = LoadIn(g, p, p[v]) - g.vw[v]
           /\ \A e : e # d /\ e # p[v] => LoadIn(g, q, e) = LoadIn(g, p, e)
<1> DEFINE In(r, e) == {u \in Ids(g) : r[u] = e}
<1>1. /\ In(q, d) = In(p, d) \cup {v} /\ v \notin In(p, d)
      /\ In(q, p[v]) = In(p, p[v]) \ {v} /\ v \in In(p, p[v])
      /\ \A e : e # d /\ e # p[v] => In(q, e) = In(p, e)
      /\ v \in Ids(g)
  BY DEF Relabels
<1>2. \A r, e : In(r, e) \in SUBSET Ids(g) /\ IsFiniteSet(In(r, e))
  BY GraphSums
<1>3. \A u \in Ids(g) : g.vw[u] \in Int
  BY DEF IsGraph
<1>4. \A r, e : LoadIn(g, r, e) = SumFunctionOnSet(g.vw, In(r, e))
  BY DEF LoadIn, Weight
<1>5. \A r, e : LoadIn(g, r, e) \in Int
  BY GraphSums
<1> HIDE DEF In
<1>6. LoadIn(g, q, d) = LoadIn(g, p, d) + g.vw[v]
  <2>1. v \in In(q, d) /\ In(q, d) \ {v} = In(p, d) /\ \A u \in In(q, d) : g.vw[u] \in Int
    BY <1>1, <1>2, <1>3
  <2>2. SumFunctionOnSet(g.vw, In(q, d)) = g.vw[v] + SumFunctionOnSet(g.vw, In(q, d) \ {v})
    BY <1>2, <2>1, SumWithout
  <2>3. /\ LoadIn(g, q, d) = SumFunctionOnSet(g.vw, In(q, d)) /\ LoadIn(g, q, d) \in Int
        /\ LoadIn(g, p, d) = SumFunctionOnSet(g.vw, In(p, d)) /\ LoadIn(g, p, d) \in Int
        /\ g.vw[v] \in Int
    BY <1>1, <1>3, <1>4, <1>5
  <2>4. SumFunctionOnSet(g.vw, In(q, d)) = g.vw[v] + SumFunctionOnSet(g.vw, In(p, d))
    BY <2>1, <2>2
  <2>5. LoadIn(g, q, d) = g.vw[v] + LoadIn(g, p, d)
    BY <2>3, <2>4
  <2> QED
    BY ONLY <2>3, <2>5
<1>7. LoadIn(g, q, p[v]) = LoadIn(g, p, p[v]) - g.vw[v]
  <2>1. v \in In(p, p[v]) /\ \A u \in In(p, p[v]) : g.vw[u] \in Int
    BY <1>1, <1>2, <1>3
  <2>2. SumFunctionOnSet(g.vw, In(p, p[v]))
            = g.vw[v] + SumFunctionOnSet(g.vw, In(p, p[v]) \ {v})
    BY <1>2, <2>1, SumWithout
  <2>3. /\ LoadIn(g, q, p[v]) = SumFunctionOnSet(g.vw, In(q, p[v]))
        /\ LoadIn(g, p, p[v]) = SumFunctionOnSet(g.vw, In(p, p[v]))
        /\ LoadIn(g, q, p[v]) \in Int /\ LoadIn(g, p, p[v]) \in Int /\ g.vw[v] \in Int
        /\ In(q, p[v]) = In(p, p[v]) \ {v}
    BY <1>1, <1>3, <1>4, <1>5
  <2> QED
    BY <2>2, <2>3
<1>8. \A e : e # d /\ e # p[v] => LoadIn(g, q, e) = LoadIn(g, p, e)
  BY <1>1, <1>4
<1> QED
  BY <1>6, <1>7, <1>8

\* A lemma: what an edge is.
LEMMA EdgesArePairs ==
    ASSUME NEW g, IsGraph(g), NEW e \in DOMAIN g.ew
    PROVE  /\ e = <<e[1], e[2]>> /\ e[1] \in Ids(g) /\ e[2] \in Ids(g)
           /\ e[1] \in Nat /\ e[2] \in Nat /\ e[1] # e[2] /\ (e[1] < e[2] \/ e[2] < e[1])
           /\ <<e[2], e[1]>> \in DOMAIN g.ew /\ g.ew[<<e[2], e[1]>>] = g.ew[e]
           /\ g.ew[e] \in Nat
<1>1. e \in Ids(g) \X Ids(g)
  BY DEF IsGraph
<1>2. e = <<e[1], e[2]>> /\ e[1] \in Ids(g) /\ e[2] \in Ids(g)
  BY <1>1
<1>3. e[1] \in Nat /\ e[2] \in Nat /\ e[1] # e[2]
  BY <1>2 DEF IsGraph
<1>4. e[1] < e[2] \/ e[2] < e[1]
  BY <1>3
<1>5. <<e[2], e[1]>> \in DOMAIN g.ew /\ g.ew[<<e[2], e[1]>>] = g.ew[e] /\ g.ew[e] \in Nat
  BY DEF IsGraph
<1> QED
  BY <1>2, <1>3, <1>4, <1>5

\* A lemma: a move lowers the cut by its gain.
LEMMA EdgeCutMoves ==
    ASSUME NEW g, IsGraph(g), NEW Q, NEW p, NEW v, NEW d, NEW q, Relabels(g, Q, p, v, d, q)
    PROVE  EdgeCut(g, q) = EdgeCut(g, p) - Gain(g, p, v, d)
<1> DEFINE E == DOMAIN g.ew
           CutOf(r) == {e \in E : e[1] < e[2] /\ r[e[1]] # r[e[2]]}
           Out(c) == {e \in E : e[1] = v /\ p[e[2]] = c}
           up == [e \in E |-> IF e[1] < e[2] THEN e ELSE <<e[2], e[1]>>]
           Up(c) == {up[e] : e \in Out(c)}
           Sum(S) == SumFunctionOnSet(g.ew, S)
<1>1. \A e \in E : /\ e = <<e[1], e[2]>> /\ e[1] \in Ids(g) /\ e[2] \in Ids(g)
                   /\ e[1] # e[2] /\ (e[1] < e[2] \/ e[2] < e[1])
                   /\ ~(e[1] < e[2] /\ e[2] < e[1])
                   /\ <<e[2], e[1]>> \in E /\ g.ew[<<e[2], e[1]>>] = g.ew[e]
                   /\ g.ew[e] \in Int
  <2> SUFFICES ASSUME NEW e \in E
               PROVE  /\ e = <<e[1], e[2]>> /\ e[1] \in Ids(g) /\ e[2] \in Ids(g)
                      /\ e[1] # e[2] /\ (e[1] < e[2] \/ e[2] < e[1])
                      /\ ~(e[1] < e[2] /\ e[2] < e[1])
                      /\ <<e[2], e[1]>> \in E /\ g.ew[<<e[2], e[1]>>] = g.ew[e]
                      /\ g.ew[e] \in Int
    OBVIOUS
  <2>1. /\ e[1] \in Nat /\ e[2] \in Nat
        /\ e = <<e[1], e[2]>> /\ e[1] \in Ids(g) /\ e[2] \in Ids(g)
        /\ e[1] # e[2] /\ (e[1] < e[2] \/ e[2] < e[1])
        /\ <<e[2], e[1]>> \in E /\ g.ew[<<e[2], e[1]>>] = g.ew[e]
        /\ g.ew[e] \in Nat
    BY EdgesArePairs
  <2>2. ~(e[1] < e[2] /\ e[2] < e[1])
    BY <2>1
  <2> QED
    BY <2>1, <2>2
<1>2. \A e \in E : /\ up[e] = (IF e[1] < e[2] THEN e ELSE <<e[2], e[1]>>)
                   /\ up[e] \in E /\ g.ew[up[e]] = g.ew[e]
  BY <1>1
<1>3. \A c : Up(c) \in SUBSET E /\ Out(c) \in SUBSET E
  BY <1>2
<1>4. ASSUME NEW c PROVE Sum(Up(c)) = ConnTo(g, p, v, c)
  <2>1. IsFiniteSet(Out(c))
    BY GraphSums
  <2>2. \A e \in Out(c) : g.ew[e] \in Int /\ g.ew[up[e]] = g.ew[e]
    BY <1>1, <1>2
  <2>3. \A e, f \in Out(c) : up[e] = up[f] => e = f
    <3> SUFFICES ASSUME NEW e \in Out(c), NEW f \in Out(c), up[e] = up[f] PROVE e = f
      OBVIOUS
    <3>1. /\ e = <<v, e[2]>> /\ f = <<v, f[2]>> /\ e[2] # v /\ f[2] # v
          /\ up[e] = e \/ up[e] = <<e[2], v>>
          /\ up[f] = f \/ up[f] = <<f[2], v>>
      BY <1>1, <1>2
    <3> HIDE DEF up
    <3> QED
      BY <3>1
  <2>4. SumFunctionOnSet(g.ew, Out(c)) = SumFunctionOnSet(g.ew, Up(c))
    <3> HIDE DEF up, Out
    <3> QED
      BY <2>1, <2>2, <2>3, SumReindexed
  <2> QED
    BY <2>4 DEF ConnTo
<1>5. ASSUME NEW c
      PROVE  \A e \in E : e \in Up(c) <=> /\ e[1] < e[2]
                                          /\ \/ e[1] = v /\ p[e[2]] = c
                                             \/ e[2] = v /\ p[e[1]] = c
  <2> SUFFICES ASSUME NEW e \in E
               PROVE  e \in Up(c) <=> /\ e[1] < e[2]
                                      /\ \/ e[1] = v /\ p[e[2]] = c
                                         \/ e[2] = v /\ p[e[1]] = c
    OBVIOUS
  <2>1. ASSUME e \in Up(c)
        PROVE  /\ e[1] < e[2]
               /\ \/ e[1] = v /\ p[e[2]] = c
                  \/ e[2] = v /\ p[e[1]] = c
    <3>1. PICK f \in Out(c) : e = up[f]
      BY <2>1
    <3>2. f \in E /\ f[1] = v /\ p[f[2]] = c
      BY <3>1
    <3>3. e = IF f[1] < f[2] THEN f ELSE <<f[2], f[1]>>
      BY <1>2, <3>1, <3>2
    <3>4. f[1] < f[2] \/ f[2] < f[1]
      BY <1>1, <3>2
    <3> QED
      BY <3>2, <3>3, <3>4
  <2>2. ASSUME e[1] < e[2], e[1] = v, p[e[2]] = c PROVE e \in Up(c)
    <3>1. e \in Out(c) /\ up[e] = e
      BY <1>2, <2>2
    <3> QED
      BY <3>1
  <2>3. ASSUME e[1] < e[2], e[2] = v, p[e[1]] = c PROVE e \in Up(c)
    <3> DEFINE f == <<e[2], e[1]>>
    <3>1. f \in E /\ f[1] = e[2] /\ f[2] = e[1] /\ ~(f[1] < f[2])
      BY <1>1, <2>3
    <3>2. f \in Out(c)
      BY <2>3, <3>1
    <3>3. up[f] = e
      BY <1>1, <1>2, <3>1
    <3> HIDE DEF f, up
    <3> QED
      BY <3>2, <3>3
  <2> QED
    BY <2>1, <2>2, <2>3
<1> HIDE DEF Up, up
<1>6. /\ Up(d) \in SUBSET CutOf(p)
      /\ CutOf(q) = (CutOf(p) \ Up(d)) \cup Up(p[v])
      /\ (CutOf(p) \ Up(d)) \cap Up(p[v]) = {}
  <2>1. \A e \in E : e \in CutOf(p) <=> e[1] < e[2] /\ p[e[1]] # p[e[2]]
    OBVIOUS
  <2>2. \A e \in E : e \in CutOf(q) <=> e[1] < e[2] /\ q[e[1]] # q[e[2]]
    OBVIOUS
  <2>3. d # p[v] /\ \A u \in Ids(g) : q[u] = IF u = v THEN d ELSE p[u]
    BY DEF Relabels
  <2>4. ASSUME NEW e \in E
        PROVE  /\ e \in Up(d) => e \in CutOf(p)
               /\ e \in CutOf(q) <=> (e \in CutOf(p) /\ e \notin Up(d)) \/ e \in Up(p[v])
               /\ ~(e \in CutOf(p) /\ e \in Up(p[v]))
    <3> HIDE DEF CutOf
    <3>1. e[1] \in Ids(g) /\ e[2] \in Ids(g) /\ e[1] # e[2]
      BY <1>1
    <3>2. CASE e[1] = v
      BY <1>5, <2>1, <2>2, <2>3, <3>1, <3>2
    <3>3. CASE e[2] = v
      BY <1>5, <2>1, <2>2, <2>3, <3>1, <3>3
    <3>4. CASE e[1] # v /\ e[2] # v
      BY <1>5, <2>1, <2>2, <2>3, <3>1, <3>4
    <3> QED
      BY <3>2, <3>3, <3>4
  <2>5. CutOf(p) \in SUBSET E /\ CutOf(q) \in SUBSET E
    OBVIOUS
  <2> HIDE DEF CutOf
  <2> QED
    BY <1>3, <2>4, <2>5
<1>7. /\ IsFiniteSet(CutOf(p)) /\ IsFiniteSet(CutOf(p) \ Up(d)) /\ IsFiniteSet(Up(p[v]))
      /\ CutOf(p) \in SUBSET E
  BY <1>3, GraphSums
<1>8. EdgeCut(g, p) = Sum(CutOf(p)) /\ EdgeCut(g, q) = Sum(CutOf(q))
  BY DEF EdgeCut
<1>9. \A e \in E : g.ew[e] \in Nat
  BY DEF IsGraph
<1> HIDE DEF CutOf
<1>10. /\ Sum(CutOf(p)) = Sum(Up(d)) + Sum(CutOf(p) \ Up(d))
       /\ Sum(Up(d)) \in Nat
  <2>1. \A e \in CutOf(p) : g.ew[e] \in Nat
    BY <1>7, <1>9
  <2>2. Up(d) \in SUBSET CutOf(p) /\ IsFiniteSet(CutOf(p))
    BY <1>6, <1>7
  <2>3. /\ SumFunctionOnSet(g.ew, Up(d)) \in Nat
        /\ SumFunctionOnSet(g.ew, CutOf(p))
               = SumFunctionOnSet(g.ew, Up(d)) + SumFunctionOnSet(g.ew, CutOf(p) \ Up(d))
    BY ONLY <2>1, <2>2, SumOfPart
  <2> QED
    BY <2>3
<1>11. /\ Sum(CutOf(q)) = Sum(CutOf(p) \ Up(d)) + Sum(Up(p[v]))
       /\ Sum(CutOf(p) \ Up(d)) \in Int
  <2>1. \A e \in (CutOf(p) \ Up(d)) \cup Up(p[v]) : g.ew[e] \in Int
    BY <1>3, <1>7, <1>9
  <2>2. /\ Sum((CutOf(p) \ Up(d)) \cup Up(p[v])) = Sum(CutOf(p) \ Up(d)) + Sum(Up(p[v]))
        /\ Sum(CutOf(p) \ Up(d)) \in Int
    BY <1>6, <1>7, <2>1, SumOfUnion
  <2> QED
    BY <1>6, <2>2
<1>12. Sum(Up(d)) = ConnTo(g, p, v, d) /\ Sum(Up(p[v])) = ConnTo(g, p, v, p[v])
  BY <1>4
<1>13. ConnTo(g, p, v, d) \in Int /\ ConnTo(g, p, v, p[v]) \in Int
  BY GraphSums
<1> HIDE DEF Sum
<1>14. EdgeCut(g, q) = EdgeCut(g, p) - Gain(g, p, v, d)
  BY <1>8, <1>10, <1>11, <1>12, <1>13 DEF Gain
<1> QED
  BY <1>14

\* A lemma: the parts are finitely many numbers, one at least.
LEMMA PartsAreNumbers ==
    /\ D \in Nat /\ D >= 1 /\ Parts \in SUBSET Nat /\ Parts # {} /\ 0 \in Parts
    /\ IsFiniteSet(Parts)
<1>1. D \in Nat /\ D >= 1
  BY PartAssumption DEF PartAssumption
<1>2. IsFiniteSet(Parts)
  BY <1>1, FS_Interval DEF Parts
<1>3. Parts \in SUBSET Nat /\ 0 \in Parts
  BY <1>1 DEF Parts
<1> QED
  BY <1>1, <1>2, <1>3

-----------------------------------------------------------------------------
(* Refinement and balance.                                                 *)

\* A lemma: what a move of the refinement is.
LEMMA RefineMoveIs ==
    ASSUME NEW g, IsGraph(g), NEW Q, NEW p \in [Ids(g) -> Q], NEW v \in Ids(g), NEW cap
    PROVE  \/ RefineMove(g, cap, p, v) = p
           \/ \E d : /\ Relabels(g, Q, p, v, d, RefineMove(g, cap, p, v))
                     /\ Gain(g, p, v, d) > 0
                     /\ FitsUnder(cap, d, LoadIn(g, p, d) + g.vw[v])
<1> DEFINE gain == [d \in {p[u] : u \in Nbrs(g, v)} |-> Gain(g, p, v, d)]
           met  == [d \in DOMAIN gain |-> Min({u \in Nbrs(g, v) : p[u] = d})]
           to   == {d \in DOMAIN gain : /\ d # p[v] /\ gain[d] > 0
                                        /\ FitsUnder(cap, d, LoadIn(g, p, d) + g.vw[v])}
           Best(d) == \A e \in to : gain[d] > gain[e] \/ (gain[d] = gain[e] /\ met[d] <= met[e])
           best == CHOOSE d \in to : Best(d)
<1>1. RefineMove(g, cap, p, v) = IF to = {} THEN p ELSE [p EXCEPT ![v] = best]
  BY DEF RefineMove
<1>2. DOMAIN gain = {p[u] : u \in Nbrs(g, v)} /\ DOMAIN gain \in SUBSET Q
  BY GraphSums
<1>3. \A d \in DOMAIN gain : gain[d] = Gain(g, p, v, d) /\ gain[d] \in Int
  BY GraphSums
<1>4. ASSUME NEW d \in DOMAIN gain PROVE met[d] \in Int
  <2> DEFINE us == {u \in Nbrs(g, v) : p[u] = d}
  <2>1. us # {} /\ us \in SUBSET Nat
    <3>1. Nbrs(g, v) \in SUBSET Nat
      BY GraphSums DEF IsGraph
    <3> QED
      BY <1>2, <1>4, <3>1
  <2>2. \E m \in us : \A n \in us : m <= n
    <3> HIDE DEF us
    <3> QED
      BY <2>1, Least
  <2>3. Min(us) \in us
    <3> HIDE DEF us
    <3> QED
      BY <2>2 DEF Min
  <2>4. met[d] = Min(us)
    BY <1>4
  <2> HIDE DEF us, met, gain
  <2>5. Min(us) \in Nat
    BY <2>1, <2>3
  <2> QED
    BY <2>4, <2>5
<1>5. to \in SUBSET DOMAIN gain /\ IsFiniteSet(to)
  <2>1. IsFiniteSet(Nbrs(g, v))
    BY GraphSums
  <2>2. IsFiniteSet({p[u] : u \in Nbrs(g, v)})
    BY <2>1, ImageIsFinite
  <2>3. to \in SUBSET DOMAIN gain
    OBVIOUS
  <2> HIDE DEF to, gain
  <2> QED
    BY <1>2, <2>2, <2>3, FS_Subset
<1>6. CASE to = {}
  BY <1>1, <1>6
<1>7. CASE to # {}
  <2>1. \A x \in to : gain[x] \in Int /\ met[x] \in Int
    <3> HIDE DEF to, gain, met
    <3> QED
      BY <1>3, <1>4, <1>5
  <2>2. \E m \in to : Best(m)
    <3> HIDE DEF to, gain, met
    <3> QED
      BY <1>5, <1>7, <2>1, BestOf
  <2>3. best \in to
    <3> HIDE DEF to, Best
    <3> QED
      BY <2>2
  <2>4. /\ best \in Q /\ best # p[v] /\ gain[best] > 0 /\ gain[best] = Gain(g, p, v, best)
        /\ FitsUnder(cap, best, LoadIn(g, p, best) + g.vw[v])
    <3> HIDE DEF best, gain
    <3> QED
      BY <1>2, <1>3, <2>3
  <2> HIDE DEF best, gain, to
  <2> QED
    BY <1>1, <1>7, <2>4 DEF Relabels
<1> QED
  BY <1>6, <1>7

\* A lemma: a move of the refinement lowers the cut or changes nothing, and
\* leaves no part overfull that was not.
LEMMA RefineMoveKeeps ==
    ASSUME NEW g, IsGraph(g), NEW Q, NEW p \in [Ids(g) -> Q], NEW v \in Ids(g),
           NEW cap, \A d \in Q : cap[d][1] \in Int /\ cap[d][2] \in Nat
    PROVE  LET q == RefineMove(g, cap, p, v)
           IN  /\ q \in [Ids(g) -> Q]
               /\ EdgeCut(g, q) <= EdgeCut(g, p)
               /\ \A d \in Q : FitsUnder(cap, d, LoadIn(g, p, d))
                                   => FitsUnder(cap, d, LoadIn(g, q, d))
<1> DEFINE q == RefineMove(g, cap, p, v)
<1>1. ASSUME q = p
      PROVE  /\ q \in [Ids(g) -> Q]
             /\ EdgeCut(g, q) <= EdgeCut(g, p)
             /\ \A e \in Q : FitsUnder(cap, e, LoadIn(g, p, e))
                                 => FitsUnder(cap, e, LoadIn(g, q, e))
  <2>1. EdgeCut(g, p) \in Int
    BY GraphSums
  <2> HIDE DEF q
  <2> QED
    BY <1>1, <2>1
<1>2. ASSUME NEW d, Relabels(g, Q, p, v, d, q), Gain(g, p, v, d) > 0,
             FitsUnder(cap, d, LoadIn(g, p, d) + g.vw[v])
      PROVE  /\ q \in [Ids(g) -> Q]
             /\ EdgeCut(g, q) <= EdgeCut(g, p)
             /\ \A e \in Q : FitsUnder(cap, e, LoadIn(g, p, e))
                                 => FitsUnder(cap, e, LoadIn(g, q, e))
  <2>1. q \in [Ids(g) -> Q] /\ d \in Q
    BY <1>2 DEF Relabels
  <2>2. EdgeCut(g, q) <= EdgeCut(g, p)
    <3>1. EdgeCut(g, q) = EdgeCut(g, p) - Gain(g, p, v, d)
      <4> HIDE DEF q
      <4> QED
        BY <1>2, EdgeCutMoves
    <3>2. EdgeCut(g, p) \in Int /\ Gain(g, p, v, d) \in Int
      BY GraphSums
    <3> HIDE DEF q
    <3> QED
      BY <1>2, <3>1, <3>2
  <2>3. ASSUME NEW e \in Q, FitsUnder(cap, e, LoadIn(g, p, e))
        PROVE  FitsUnder(cap, e, LoadIn(g, q, e))
    <3>1. /\ LoadIn(g, q, d) = LoadIn(g, p, d) + g.vw[v]
          /\ LoadIn(g, q, p[v]) = LoadIn(g, p, p[v]) - g.vw[v]
          /\ \A f : f # d /\ f # p[v] => LoadIn(g, q, f) = LoadIn(g, p, f)
      <4> HIDE DEF q
      <4> QED
        BY <1>2, LoadInMoves
    <3>2. /\ g.vw[v] \in Nat /\ LoadIn(g, p, e) \in Nat
          /\ cap[e][1] \in Int /\ cap[e][2] \in Nat
      BY GraphSums DEF IsGraph
    <3> HIDE DEF q
    <3>3. CASE e = d
      BY <1>2, <3>1, <3>3
    <3>4. CASE e = p[v]
      <4>1. LoadIn(g, q, e) = LoadIn(g, p, e) - g.vw[v]
        BY <3>1, <3>4
      <4>2. LoadIn(g, p, e) * cap[e][2] <= cap[e][1]
        BY <2>3 DEF FitsUnder
      <4>3. (LoadIn(g, p, e) - g.vw[v]) * cap[e][2]
                = LoadIn(g, p, e) * cap[e][2] - g.vw[v] * cap[e][2]
        BY <3>2
      <4>4. g.vw[v] * cap[e][2] \in Nat /\ LoadIn(g, p, e) * cap[e][2] \in Nat
        BY <3>2
      <4>5. (LoadIn(g, p, e) - g.vw[v]) * cap[e][2] <= cap[e][1]
        BY <3>2, <4>2, <4>3, <4>4
      <4> QED
        BY <4>1, <4>5 DEF FitsUnder
    <3>5. CASE e # d /\ e # p[v]
      BY <2>3, <3>1, <3>5
    <3> QED
      BY <3>3, <3>4, <3>5
  <2> HIDE DEF q
  <2> QED
    BY <2>1, <2>2, <2>3
<1> HIDE DEF q
<1>3. q = p \/ \E d : /\ Relabels(g, Q, p, v, d, q) /\ Gain(g, p, v, d) > 0
                      /\ FitsUnder(cap, d, LoadIn(g, p, d) + g.vw[v])
  BY RefineMoveIs DEF q
<1>4. /\ q \in [Ids(g) -> Q]
      /\ EdgeCut(g, q) <= EdgeCut(g, p)
      /\ \A d \in Q : FitsUnder(cap, d, LoadIn(g, p, d)) => FitsUnder(cap, d, LoadIn(g, q, d))
  BY <1>1, <1>2, <1>3
<1> QED
  BY <1>4 DEF q

\* q is a partition into the labels Q that cuts no more than p, and leaves no
\* part overfull that was not so in p.
Eases(g, Q, cap, p, q) ==
    /\ q \in [Ids(g) -> Q]
    /\ EdgeCut(g, q) <= EdgeCut(g, p)
    /\ \A d \in Q : FitsUnder(cap, d, LoadIn(g, p, d)) => FitsUnder(cap, d, LoadIn(g, q, d))

\* A lemma: easing is transitive.
LEMMA EasesOn ==
    ASSUME NEW g, IsGraph(g), NEW Q, NEW cap, NEW p, NEW q, NEW r,
           Eases(g, Q, cap, p, q), Eases(g, Q, cap, q, r)
    PROVE  Eases(g, Q, cap, p, r)
<1>1. EdgeCut(g, p) \in Int /\ EdgeCut(g, q) \in Int /\ EdgeCut(g, r) \in Int
  BY GraphSums
<1>2. EdgeCut(g, r) <= EdgeCut(g, p)
  BY <1>1 DEF Eases
<1> QED
  BY <1>2 DEF Eases

\* A lemma: a pass of the refinement eases.
LEMMA RefinePassEases ==
    ASSUME NEW g, IsGraph(g), NEW Q, NEW p \in [Ids(g) -> Q],
           NEW cap, \A d \in Q : cap[d][1] \in Int /\ cap[d][2] \in Nat
    PROVE  Eases(g, Q, cap, p, RefinePass(g, cap, p))
<1> DEFINE S == {v \in Ids(g) : \E u \in Nbrs(g, v) : p[u] # p[v]}
           vs == Ascending(S)
           n == Len(vs)
           A == [Ids(g) -> Q]
           Rec(f) == [i \in 0 .. n |-> IF i = 0 THEN p ELSE RefineMove(g, cap, f[i - 1], vs[i])]
           c == CHOOSE f : f = Rec(f)
           turn == [i \in 1 .. n |-> [x \in A |-> RefineMove(g, cap, x, vs[i])]]
           B == [i \in 0 .. n |-> {q \in A : Eases(g, Q, cap, p, q)}]
<1>1. RefinePass(g, cap, p) = c[n]
  BY DEF RefinePass
<1>2. ListsAll(vs, S) /\ S \subseteq Ids(g)
  <2>1. S \in SUBSET Nat /\ IsFiniteSet(S) /\ S \subseteq Ids(g)
    BY GraphSums DEF IsGraph
  <2> HIDE DEF S
  <2> QED
    BY <2>1, AscendingListsAll
<1> HIDE DEF vs, S
<1>3. n \in Nat /\ \A i \in 1 .. n : vs[i] \in Ids(g)
  BY <1>2 DEF ListsAll
<1> HIDE DEF n
<1>4. ASSUME NEW x \in A, NEW v \in Ids(g)
      PROVE  Eases(g, Q, cap, x, RefineMove(g, cap, x, v))
  BY <1>4, RefineMoveKeeps DEF Eases
<1>5. \E f : f = Rec(f)
  <2>1. turn \in [1 .. n -> [A -> A]] /\ p \in A
    BY <1>3, <1>4 DEF Eases
  <2>2. PICK f : Takes(f, A, p, turn, n)
    <3> HIDE DEF turn, A
    <3> QED
      BY <1>3, <2>1, Recursion
  <2>3. \A i \in 0 .. n : (IF i = 0 THEN p ELSE turn[i][f[i - 1]])
                        = (IF i = 0 THEN p ELSE RefineMove(g, cap, f[i - 1], vs[i]))
    <3>1. \A i \in 1 .. n : i - 1 \in 0 .. n /\ f[i - 1] \in A
      <4>1. f \in [0 .. n -> A]
        BY <2>2 DEF Takes
      <4>2. \A i \in 1 .. n : i - 1 \in 0 .. n
        BY <1>3
      <4> HIDE DEF A
      <4> QED
        BY <4>1, <4>2
    <3>2. \A i \in 0 .. n : i # 0 => i \in 1 .. n
      BY <1>3
    <3> QED
      BY <3>1, <3>2
  <2>4. f = Rec(f)
    BY <2>2, <2>3 DEF Takes
  <2> QED
    BY <2>4
<1>6. c = Rec(c)
  BY <1>5
<1> HIDE DEF c
<1>7. c[0] = p /\ \A i \in 1 .. n : c[i] = RefineMove(g, cap, c[i - 1], vs[i])
  BY <1>3, <1>6
<1>8. c[0] \in B[0] /\ \A i \in 1 .. n : c[i - 1] \in B[i - 1] => c[i] \in B[i]
  <2>1. c[0] \in B[0]
    <3>1. EdgeCut(g, p) \in Int
      BY GraphSums
    <3> QED
      BY <1>3, <1>7, <3>1 DEF Eases
  <2>2. ASSUME NEW i \in 1 .. n, c[i - 1] \in B[i - 1] PROVE c[i] \in B[i]
    <3>1. i \in 0 .. n /\ i - 1 \in 0 .. n
      BY <1>3
    <3>2. c[i - 1] \in A /\ Eases(g, Q, cap, p, c[i - 1])
      BY <2>2, <3>1
    <3>3. Eases(g, Q, cap, c[i - 1], c[i])
      BY <1>3, <1>4, <1>7, <3>2
    <3>4. Eases(g, Q, cap, p, c[i])
      BY <3>2, <3>3, EasesOn
    <3> QED
      BY <3>1, <3>4 DEF Eases
  <2> QED
    BY <2>1, <2>2
<1>9. \A i \in 0 .. n : c[i] \in B[i]
  <2> HIDE DEF B
  <2> QED
    BY <1>3, <1>8, Along
<1> QED
  BY <1>1, <1>3, <1>9

\* A lemma: so do the passes.
LEMMA RefineKwayEases ==
    ASSUME NEW g, IsGraph(g), NEW Q, NEW p \in [Ids(g) -> Q], NEW n \in Nat,
           NEW cap, \A d \in Q : cap[d][1] \in Int /\ cap[d][2] \in Nat
    PROVE  Eases(g, Q, cap, p, RefineKway(g, p, cap, n))
<1> DEFINE A == [part : [Ids(g) -> Q], moved : BOOLEAN]
           a == [part |-> p, moved |-> TRUE]
           Turn(s) == IF s.moved THEN AfterPass(s.part, RefinePass(g, cap, s.part)) ELSE s
           Rec(f) == [i \in 0 .. n |-> IF i = 0 THEN a ELSE Turn(f[i - 1])]
           c == CHOOSE f : f = Rec(f)
           turn == [i \in 1 .. n |-> [x \in A |-> Turn(x)]]
           B == [i \in 0 .. n |-> {s \in A : Eases(g, Q, cap, p, s.part)}]
<1>1. RefineKway(g, p, cap, n) = c[n].part
  BY DEF RefineKway
<1>2. ASSUME NEW s \in A PROVE Turn(s) \in A /\ Eases(g, Q, cap, s.part, Turn(s).part)
  <2>1. s.part \in [Ids(g) -> Q] /\ s.moved \in BOOLEAN
    OBVIOUS
  <2>2. Eases(g, Q, cap, s.part, RefinePass(g, cap, s.part))
    BY <2>1, RefinePassEases
  <2>3. EdgeCut(g, s.part) <= EdgeCut(g, s.part)
    BY GraphSums
  <2>4. Eases(g, Q, cap, s.part, s.part) /\ RefinePass(g, cap, s.part) \in [Ids(g) -> Q]
    BY <2>1, <2>2, <2>3 DEF Eases
  <2> QED
    BY <2>1, <2>2, <2>4 DEF AfterPass
<1> HIDE DEF Turn
<1>3. a \in A
  OBVIOUS
<1>4. \E f : f = Rec(f)
  <2>1. turn \in [1 .. n -> [A -> A]]
    <3> HIDE DEF A
    <3> QED
      BY <1>2
  <2>2. PICK f : Takes(f, A, a, turn, n)
    <3> HIDE DEF turn, A, a
    <3> QED
      BY <1>3, <2>1, Recursion
  <2>3. \A i \in 1 .. n : i - 1 \in 0 .. n /\ f[i - 1] \in A
    <3>1. f \in [0 .. n -> A]
      BY <2>2 DEF Takes
    <3>2. \A i \in 1 .. n : i - 1 \in 0 .. n
      OBVIOUS
    <3> HIDE DEF A
    <3> QED
      BY <3>1, <3>2
  <2>4. \A i \in 0 .. n : i # 0 => i \in 1 .. n
    OBVIOUS
  <2>5. \A i \in 0 .. n : (IF i = 0 THEN a ELSE turn[i][f[i - 1]])
                        = (IF i = 0 THEN a ELSE Turn(f[i - 1]))
    <3> HIDE DEF a, A
    <3> QED
      BY <2>3, <2>4
  <2>6. f = Rec(f)
    <3> HIDE DEF a, turn
    <3> QED
      BY <2>2, <2>5 DEF Takes
  <2> QED
    BY <2>6
<1>5. c = Rec(c)
  BY <1>4
<1> HIDE DEF c
<1>6. c[0] = a /\ \A i \in 1 .. n : c[i] = Turn(c[i - 1])
  <2> HIDE DEF a
  <2> QED
    BY <1>5
<1>7. c[0] \in B[0] /\ \A i \in 1 .. n : c[i - 1] \in B[i - 1] => c[i] \in B[i]
  <2>1. c[0] \in B[0]
    <3>1. EdgeCut(g, p) \in Int
      BY GraphSums
    <3>2. Eases(g, Q, cap, p, p)
      BY <3>1 DEF Eases
    <3> QED
      BY <1>3, <1>6, <3>2
  <2>2. ASSUME NEW i \in 1 .. n, c[i - 1] \in B[i - 1] PROVE c[i] \in B[i]
    <3>1. i \in 0 .. n /\ i - 1 \in 0 .. n
      OBVIOUS
    <3> HIDE DEF A
    <3>2. c[i - 1] \in A /\ Eases(g, Q, cap, p, c[i - 1].part)
      BY <2>2, <3>1
    <3>3. c[i] \in A /\ Eases(g, Q, cap, c[i - 1].part, c[i].part)
      BY <1>2, <1>6, <3>2
    <3>4. Eases(g, Q, cap, p, c[i].part)
      BY <3>2, <3>3, EasesOn
    <3> QED
      BY <3>1, <3>3, <3>4
  <2> QED
    BY <2>1, <2>2
<1>8. \A i \in 0 .. n : c[i] \in B[i]
  <2> HIDE DEF B
  <2> QED
    BY <1>7, Along
<1>9. Eases(g, Q, cap, p, c[n].part)
  BY <1>8
<1> QED
  BY <1>1, <1>9

\* A lemma: a scan keeps an element of the set.
LEMMA ScannedIsMember ==
    ASSUME NEW S \in SUBSET Nat, IsFiniteSet(S), S # {}, NEW better
    PROVE  Scanned(S, better) \in S
<1> DEFINE s == Ascending(S)
           n == Len(s)
           Turn(i, x) == IF i = 1 THEN s[1] ELSE IF <<s[i], x>> \in better THEN s[i] ELSE x
           Rec(f) == [i \in 1 .. n |-> IF i = 1 THEN s[1]
                                       ELSE IF <<s[i], f[i - 1]>> \in better THEN s[i]
                                       ELSE f[i - 1]]
           kept == CHOOSE f : f = Rec(f)
           turn == [i \in 1 .. n |-> [x \in S |-> Turn(i, x)]]
           c == [i \in 0 .. n |-> IF i = 0 THEN s[1] ELSE kept[i]]
           B == [i \in 0 .. n |-> S]
<1>1. Scanned(S, better) = kept[n]
  BY DEF Scanned
<1>2. ListsAll(s, S)
  BY AscendingListsAll
<1> HIDE DEF s
<1>3. n \in Nat /\ n >= 1 /\ \A i \in 1 .. n : s[i] \in S
  <2>1. n \in Nat /\ n = Cardinality(S) /\ \A i \in 1 .. n : s[i] \in S
    BY <1>2 DEF ListsAll
  <2>2. Cardinality(S) # 0
    BY FS_EmptySet
  <2> HIDE DEF n
  <2> QED
    BY <2>1, <2>2
<1> HIDE DEF n
<1>4. ASSUME NEW i \in 1 .. n, NEW x \in S PROVE Turn(i, x) \in S
  BY <1>3
<1>5. s[1] \in S
  BY <1>3
<1>6. \E f : f = Rec(f)
  <2>1. turn \in [1 .. n -> [S -> S]]
    <3> HIDE DEF Turn
    <3> QED
      BY <1>4
  <2> DEFINE a == s[1]
  <2>2. PICK f : Takes(f, S, a, turn, n)
    <3> HIDE DEF turn, a
    <3>1. a \in S
      BY <1>5 DEF a
    <3> QED
      BY <1>3, <2>1, <3>1, Recursion
  <2>3. \A i \in 1 .. n : i \in 0 .. n /\ i # 0 /\ i - 1 \in 0 .. n /\ f[i - 1] \in S
    <3>1. f \in [0 .. n -> S]
      BY <2>2 DEF Takes
    <3>2. \A i \in 1 .. n : i \in 0 .. n /\ i # 0 /\ i - 1 \in 0 .. n
      BY <1>3
    <3> QED
      BY <3>1, <3>2
  <2>4. \A i \in 1 .. n : f[i] = Turn(i, f[i - 1])
    <3> HIDE DEF Turn, a
    <3>1. \A i \in 1 .. n : f[i] = turn[i][f[i - 1]]
      <4> HIDE DEF turn
      <4> QED
        BY <2>2, <2>3 DEF Takes
    <3> QED
      BY <2>3, <3>1
  <2> DEFINE h == [i \in 1 .. n |-> f[i]]
  <2>5. h = [i \in 1 .. n |-> Turn(i, f[i - 1])]
    <3> HIDE DEF Turn
    <3> QED
      BY <2>4
  <2>6. \A i \in 1 .. n : i # 1 => i - 1 \in 1 .. n /\ h[i - 1] = f[i - 1]
    BY <1>3
  <2>7. h = Rec(h)
    <3> HIDE DEF h
    <3> QED
      BY <2>5, <2>6
  <2> HIDE DEF h
  <2> QED
    BY <2>7
<1>7. kept = Rec(kept)
  BY <1>6
<1> HIDE DEF kept
<1>8. \A i \in 1 .. n : kept[i] = Turn(i, kept[i - 1])
  BY <1>7
<1>9. c[0] \in B[0] /\ \A i \in 1 .. n : c[i - 1] \in B[i - 1] => c[i] \in B[i]
  <2>1. c[0] \in B[0]
    BY <1>3, <1>5
  <2>2. ASSUME NEW i \in 1 .. n, c[i - 1] \in B[i - 1] PROVE c[i] \in B[i]
    <3>1. i \in 0 .. n /\ i - 1 \in 0 .. n /\ i # 0 /\ (i # 1 => i - 1 # 0)
      BY <1>3
    <3>2. c[i] = Turn(i, kept[i - 1])
      BY <1>8, <3>1
    <3>3. CASE i = 1
      BY <1>5, <3>1, <3>2, <3>3
    <3>4. CASE i # 1
      <4>1. kept[i - 1] \in S
        BY <2>2, <3>1, <3>4
      <4> HIDE DEF c
      <4> QED
        BY <1>4, <3>1, <3>2, <4>1
    <3> QED
      BY <3>3, <3>4
  <2> QED
    BY <2>1, <2>2
<1>10. \A i \in 0 .. n : c[i] \in B[i]
  <2> HIDE DEF B, c
  <2> QED
    BY <1>3, <1>9, Along
<1>11. n \in 0 .. n /\ n # 0
  BY <1>3
<1>12. kept[n] \in S
  BY <1>10, <1>11
<1> QED
  BY <1>1, <1>12

\* A vertex of weight w fits in no part.
Crowded(g, cap, p, w) == \A d \in Parts : ~FitsUnder(cap, d, LoadIn(g, p, d) + w)

\* v is in a part that is not overfull, or there is room for it nowhere.
Settled(g, cap, p, v) ==
    FitsUnder(cap, p[v], LoadIn(g, p, p[v])) \/ Crowded(g, cap, p, g.vw[v])

\* q is a partition in which what was within capacity and settled in p still is.
Restores(g, cap, p, q) ==
    /\ q \in [Ids(g) -> Parts]
    /\ \A d \in Parts : FitsUnder(cap, d, LoadIn(g, p, d)) => FitsUnder(cap, d, LoadIn(g, q, d))
    /\ \A v \in Ids(g) : Settled(g, cap, p, v) => Settled(g, cap, q, v)

\* A lemma: what a move of the balance pass is.
LEMMA BalanceMoveIs ==
    ASSUME NEW g, NEW p \in [Ids(g) -> Parts], NEW v \in Ids(g), NEW cap
    PROVE  \/ /\ BalanceMove(g, cap, p, v) = p
              /\ \/ FitsUnder(cap, p[v], LoadIn(g, p, p[v]))
                 \/ \A d \in Parts \ {p[v]} : ~FitsUnder(cap, d, LoadIn(g, p, d) + g.vw[v])
           \/ \E d : /\ Relabels(g, Parts, p, v, d, BalanceMove(g, cap, p, v))
                     /\ ~FitsUnder(cap, p[v], LoadIn(g, p, p[v]))
                     /\ FitsUnder(cap, d, LoadIn(g, p, d) + g.vw[v])
<1> DEFINE held == [d \in Parts |-> LoadIn(g, p, d)]
           conn == [d \in Parts |-> ConnTo(g, p, v, d)]
           to   == {d \in Parts \ {p[v]} : FitsUnder(cap, d, held[d] + g.vw[v])}
           better == {x \in to \X to : \/ conn[x[1]] > conn[x[2]]
                                       \/ /\ conn[x[1]] = conn[x[2]]
                                          /\ x \in RelativelyLess(cap, held)}
           best == Scanned(to, better)
<1>1. BalanceMove(g, cap, p, v)
          = IF FitsUnder(cap, p[v], held[p[v]]) \/ to = {} THEN p ELSE [p EXCEPT ![v] = best]
  BY DEF BalanceMove
<1>2. p[v] \in Parts /\ \A d \in Parts : held[d] = LoadIn(g, p, d)
  OBVIOUS
<1>3. to \in SUBSET (Parts \ {p[v]}) /\ to \in SUBSET Nat /\ IsFiniteSet(to)
  <2>1. Parts \in SUBSET Nat /\ IsFiniteSet(Parts)
    BY PartsAreNumbers
  <2>2. to \in SUBSET (Parts \ {p[v]})
    OBVIOUS
  <2> HIDE DEF to
  <2> QED
    BY <2>1, <2>2, FS_Subset
<1>4. to # {} => best \in to
  <2> HIDE DEF to, better
  <2> QED
    BY <1>3, ScannedIsMember
<1> HIDE DEF held, best
<1>5. CASE FitsUnder(cap, p[v], held[p[v]]) \/ to = {}
  BY <1>1, <1>2, <1>5
<1>6. CASE ~(FitsUnder(cap, p[v], held[p[v]]) \/ to = {})
  <2>1. /\ best \in Parts /\ best # p[v]
        /\ FitsUnder(cap, best, LoadIn(g, p, best) + g.vw[v])
        /\ ~FitsUnder(cap, p[v], LoadIn(g, p, p[v]))
    BY <1>2, <1>4, <1>6
  <2>2. BalanceMove(g, cap, p, v) = [p EXCEPT ![v] = best]
    BY <1>1, <1>6
  <2>3. Relabels(g, Parts, p, v, best, BalanceMove(g, cap, p, v))
    <3> HIDE DEF to
    <3> QED
      BY <2>1, <2>2 DEF Relabels
  <2> QED
    BY <2>1, <2>3
<1> QED
  BY <1>5, <1>6

\* A lemma: what a move of the balance pass does.
LEMMA BalanceMoveRestores ==
    ASSUME NEW g, IsGraph(g), NEW p \in [Ids(g) -> Parts], NEW v \in Ids(g),
           NEW cap, \A d \in Parts : cap[d][1] \in Int /\ cap[d][2] \in Nat
    PROVE  /\ Restores(g, cap, p, BalanceMove(g, cap, p, v))
           /\ Settled(g, cap, BalanceMove(g, cap, p, v), v)
<1> DEFINE q == BalanceMove(g, cap, p, v)
           x == g.vw[v]
<1>1. /\ \A u \in Ids(g) : p[u] \in Parts /\ g.vw[u] \in Nat
      /\ \A r, d : LoadIn(g, r, d) \in Nat
      /\ x \in Nat
  BY GraphSums DEF IsGraph
<1>2. ASSUME NEW d \in Parts, NEW y \in Nat, NEW z \in Nat, y <= z, FitsUnder(cap, d, z)
      PROVE  FitsUnder(cap, d, y)
  <2>1. cap[d][1] \in Int /\ cap[d][2] \in Nat /\ z * cap[d][2] <= cap[d][1]
    BY <1>2 DEF FitsUnder
  <2>2. y * cap[d][2] <= z * cap[d][2] /\ y * cap[d][2] \in Int /\ z * cap[d][2] \in Int
    BY <1>2, <2>1
  <2> QED
    BY <2>1, <2>2 DEF FitsUnder
<1>3. CASE q = p /\ \/ FitsUnder(cap, p[v], LoadIn(g, p, p[v]))
                    \/ \A d \in Parts \ {p[v]} : ~FitsUnder(cap, d, LoadIn(g, p, d) + x)
  <2> HIDE DEF q, x
  <2>1. Restores(g, cap, p, q)
    BY <1>3 DEF Restores
  <2>2. ASSUME ~FitsUnder(cap, p[v], LoadIn(g, p, p[v])) PROVE Crowded(g, cap, p, x)
    <3>1. ~FitsUnder(cap, p[v], LoadIn(g, p, p[v]) + x)
      <4>1. /\ LoadIn(g, p, p[v]) <= LoadIn(g, p, p[v]) + x
            /\ LoadIn(g, p, p[v]) \in Nat /\ LoadIn(g, p, p[v]) + x \in Nat
        BY <1>1
      <4> QED
        BY <1>1, <1>2, <2>2, <4>1
    <3> QED
      BY <1>3, <2>2, <3>1 DEF Crowded
  <2>3. Settled(g, cap, q, v)
    BY <1>3, <2>2 DEF Settled, x
  <2> QED
    BY <2>1, <2>3 DEF q
<1>4. ASSUME NEW d, Relabels(g, Parts, p, v, d, q),
             ~FitsUnder(cap, p[v], LoadIn(g, p, p[v])),
             FitsUnder(cap, d, LoadIn(g, p, d) + x)
      PROVE  Restores(g, cap, p, q) /\ Settled(g, cap, q, v)
  <2> HIDE DEF q, x
  <2>1. /\ d \in Parts /\ d # p[v] /\ q \in [Ids(g) -> Parts] /\ q[v] = d
        /\ \A u \in Ids(g) \ {v} : q[u] = p[u]
    BY <1>4 DEF Relabels
  <2>2. /\ LoadIn(g, q, d) = LoadIn(g, p, d) + x
        /\ LoadIn(g, q, p[v]) = LoadIn(g, p, p[v]) - x
        /\ \A e : e # d /\ e # p[v] => LoadIn(g, q, e) = LoadIn(g, p, e)
    BY <1>4, LoadInMoves DEF x
  <2>3. ASSUME NEW e \in Parts, FitsUnder(cap, e, LoadIn(g, p, e))
        PROVE  FitsUnder(cap, e, LoadIn(g, q, e))
    BY <1>4, <2>2, <2>3
  <2>4. ASSUME NEW w \in Nat, Crowded(g, cap, p, w) PROVE Crowded(g, cap, q, w)
    <3>1. x < w
      <4>1. ~FitsUnder(cap, d, LoadIn(g, p, d) + w)
        BY <2>1, <2>4 DEF Crowded
      <4>2. ~(LoadIn(g, p, d) + w <= LoadIn(g, p, d) + x)
        <5>1. LoadIn(g, p, d) + w \in Nat /\ LoadIn(g, p, d) + x \in Nat
          BY <1>1
        <5> QED
          BY <1>2, <1>4, <2>1, <4>1, <5>1
      <4>3. LoadIn(g, p, d) \in Nat /\ x \in Nat /\ w \in Nat
        BY <1>1
      <4> QED
        BY <4>2, <4>3
    <3>2. ASSUME NEW e \in Parts PROVE ~FitsUnder(cap, e, LoadIn(g, q, e) + w)
      <4>1. /\ LoadIn(g, p, e) \in Nat /\ LoadIn(g, q, e) \in Nat
            /\ ~FitsUnder(cap, e, LoadIn(g, p, e) + w)
        BY <1>1, <2>4 DEF Crowded
      <4>2. CASE e = d
        <5>1. /\ LoadIn(g, p, e) + w <= LoadIn(g, q, e) + w
              /\ LoadIn(g, p, e) + w \in Nat /\ LoadIn(g, q, e) + w \in Nat
          BY <1>1, <2>2, <4>1, <4>2
        <5> QED
          BY <1>2, <4>1, <5>1
      <4>3. CASE e = p[v]
        <5>1. /\ LoadIn(g, p, e) <= LoadIn(g, q, e) + w /\ LoadIn(g, q, e) + w \in Nat
          BY <1>1, <2>2, <3>1, <4>1, <4>3
        <5> QED
          BY <1>2, <1>4, <4>1, <4>3, <5>1
      <4>4. CASE e # d /\ e # p[v]
        BY <2>2, <4>1, <4>4
      <4> QED
        BY <4>2, <4>3, <4>4
    <3> QED
      BY <3>2 DEF Crowded
  <2>5. Settled(g, cap, q, v)
    BY <1>4, <2>1, <2>2 DEF Settled
  <2>6. ASSUME NEW u \in Ids(g), Settled(g, cap, p, u) PROVE Settled(g, cap, q, u)
    <3>1. CASE u = v
      BY <2>5, <3>1
    <3>2. CASE u # v /\ Crowded(g, cap, p, g.vw[u])
      BY <1>1, <2>4, <3>2 DEF Settled
    <3>3. CASE u # v /\ FitsUnder(cap, p[u], LoadIn(g, p, p[u]))
      BY <1>1, <2>1, <2>3, <3>3 DEF Settled
    <3> QED
      BY <2>6, <3>1, <3>2, <3>3 DEF Settled
  <2> QED
    BY <2>1, <2>3, <2>5, <2>6 DEF Restores
<1>5. \/ /\ q = p
         /\ \/ FitsUnder(cap, p[v], LoadIn(g, p, p[v]))
            \/ \A d \in Parts \ {p[v]} : ~FitsUnder(cap, d, LoadIn(g, p, d) + x)
      \/ \E d : /\ Relabels(g, Parts, p, v, d, q)
                /\ ~FitsUnder(cap, p[v], LoadIn(g, p, p[v]))
                /\ FitsUnder(cap, d, LoadIn(g, p, d) + x)
  BY BalanceMoveIs
<1> HIDE DEF q, x
<1>6. Restores(g, cap, p, q) /\ Settled(g, cap, q, v)
  <2>1. CASE q = p /\ \/ FitsUnder(cap, p[v], LoadIn(g, p, p[v]))
                      \/ \A d \in Parts \ {p[v]} : ~FitsUnder(cap, d, LoadIn(g, p, d) + x)
    BY <1>3, <2>1 DEF q
  <2>2. CASE \E d : /\ Relabels(g, Parts, p, v, d, q)
                    /\ ~FitsUnder(cap, p[v], LoadIn(g, p, p[v]))
                    /\ FitsUnder(cap, d, LoadIn(g, p, d) + x)
    BY <1>4, <2>2
  <2> QED
    BY <1>5, <2>1, <2>2
<1> QED
  BY <1>6 DEF q

\* A lemma: restoring is reflexive and transitive.
LEMMA RestoresOn ==
    ASSUME NEW g, NEW cap, NEW p \in [Ids(g) -> Parts]
    PROVE  /\ Restores(g, cap, p, p)
           /\ \A q, r : Restores(g, cap, p, q) /\ Restores(g, cap, q, r)
                            => Restores(g, cap, p, r)
  BY DEF Restores

\* A lemma: a pass of the balance restores, and settles every vertex.
LEMMA BalancePassRestores ==
    ASSUME NEW g, IsGraph(g), NEW p \in [Ids(g) -> Parts],
           NEW cap, \A d \in Parts : cap[d][1] \in Int /\ cap[d][2] \in Nat
    PROVE  /\ Restores(g, cap, p, BalancePass(g, cap, p))
           /\ \A v \in Ids(g) : Settled(g, cap, BalancePass(g, cap, p), v)
<1> DEFINE vs == Ascending(Ids(g))
           n == Len(vs)
           A == [Ids(g) -> Parts]
           Rec(f) == [i \in 0 .. n |-> IF i = 0 THEN p ELSE BalanceMove(g, cap, f[i - 1], vs[i])]
           c == CHOOSE f : f = Rec(f)
           turn == [i \in 1 .. n |-> [x \in A |-> BalanceMove(g, cap, x, vs[i])]]
           Done(q, i) == \A j \in 1 .. i : Settled(g, cap, q, vs[j])
           B == [i \in 0 .. n |-> {q \in A : Restores(g, cap, p, q) /\ Done(q, i)}]
<1>1. BalancePass(g, cap, p) = c[n]
  BY DEF BalancePass
<1>2. ListsAll(vs, Ids(g))
  <2>1. Ids(g) \in SUBSET Nat /\ IsFiniteSet(Ids(g))
    BY DEF IsGraph
  <2> QED
    BY <2>1, AscendingListsAll
<1> HIDE DEF vs
<1>3. /\ n \in Nat /\ \A i \in 1 .. n : vs[i] \in Ids(g)
      /\ \A v \in Ids(g) : \E i \in 1 .. n : vs[i] = v
  BY <1>2 DEF ListsAll
<1> HIDE DEF n
<1>4. ASSUME NEW x \in A, NEW v \in Ids(g)
      PROVE  /\ BalanceMove(g, cap, x, v) \in A
             /\ Restores(g, cap, x, BalanceMove(g, cap, x, v))
             /\ Settled(g, cap, BalanceMove(g, cap, x, v), v)
  <2>1. /\ Restores(g, cap, x, BalanceMove(g, cap, x, v))
        /\ Settled(g, cap, BalanceMove(g, cap, x, v), v)
    BY <1>4, BalanceMoveRestores
  <2> QED
    BY <2>1 DEF Restores
<1>5. \E f : f = Rec(f)
  <2>1. turn \in [1 .. n -> [A -> A]] /\ p \in A
    <3>1. p \in A
      OBVIOUS
    <3> HIDE DEF A
    <3> QED
      BY <1>3, <1>4, <3>1
  <2>2. PICK f : Takes(f, A, p, turn, n)
    <3> HIDE DEF turn, A
    <3> QED
      BY <1>3, <2>1, Recursion
  <2>3. \A i \in 1 .. n : i - 1 \in 0 .. n /\ f[i - 1] \in A
    <3>1. f \in [0 .. n -> A]
      BY <2>2 DEF Takes
    <3>2. \A i \in 1 .. n : i - 1 \in 0 .. n
      BY <1>3
    <3> HIDE DEF A
    <3> QED
      BY <3>1, <3>2
  <2>4. \A i \in 0 .. n : i # 0 => i \in 1 .. n
    BY <1>3
  <2>5. \A i \in 0 .. n : (IF i = 0 THEN p ELSE turn[i][f[i - 1]])
                        = (IF i = 0 THEN p ELSE BalanceMove(g, cap, f[i - 1], vs[i]))
    <3> HIDE DEF A
    <3> QED
      BY <2>3, <2>4
  <2>6. f = Rec(f)
    <3> HIDE DEF turn
    <3> QED
      BY <2>2, <2>5 DEF Takes
  <2> QED
    BY <2>6
<1>6. c = Rec(c)
  BY <1>5
<1> HIDE DEF c
<1>7. c[0] = p /\ \A i \in 1 .. n : c[i] = BalanceMove(g, cap, c[i - 1], vs[i])
  BY <1>3, <1>6
<1>8. c[0] \in B[0] /\ \A i \in 1 .. n : c[i - 1] \in B[i - 1] => c[i] \in B[i]
  <2>1. c[0] \in B[0]
    <3>1. Restores(g, cap, p, p) /\ p \in A /\ 0 \in 0 .. n /\ 1 .. 0 = {}
      BY <1>3, RestoresOn
    <3> QED
      BY <1>7, <3>1
  <2>2. ASSUME NEW i \in 1 .. n, c[i - 1] \in B[i - 1] PROVE c[i] \in B[i]
    <3>1. /\ i \in 0 .. n /\ i - 1 \in 0 .. n
          /\ \A j \in 1 .. i : j = i \/ j \in 1 .. (i - 1)
          /\ \A j \in 1 .. i : j \in 1 .. n
      BY <1>3
    <3> HIDE DEF A
    <3>2. c[i - 1] \in A /\ Restores(g, cap, p, c[i - 1]) /\ Done(c[i - 1], i - 1)
      BY <2>2, <3>1
    <3>3. /\ c[i] \in A /\ Restores(g, cap, c[i - 1], c[i])
          /\ Settled(g, cap, c[i], vs[i])
      BY <1>3, <1>4, <1>7, <3>2
    <3>4. Restores(g, cap, p, c[i])
      BY <3>2, <3>3, RestoresOn
    <3>5. Done(c[i], i)
      <4>1. ASSUME NEW j \in 1 .. i PROVE Settled(g, cap, c[i], vs[j])
        <5>1. CASE j = i
          BY <3>3, <5>1
        <5>2. CASE j \in 1 .. (i - 1)
          BY <1>3, <3>1, <3>2, <3>3, <5>2 DEF Restores
        <5> QED
          BY <3>1, <5>1, <5>2
      <4> QED
        BY <4>1
    <3> HIDE DEF Done
    <3> QED
      BY <3>1, <3>3, <3>4, <3>5
  <2> QED
    BY <2>1, <2>2
<1>9. \A i \in 0 .. n : c[i] \in B[i]
  <2> HIDE DEF B
  <2> QED
    BY <1>3, <1>8, Along
<1>10. Restores(g, cap, p, c[n]) /\ Done(c[n], n)
  BY <1>3, <1>9
<1> QED
  BY <1>1, <1>3, <1>10

\* A lemma: so do the passes.
LEMMA BalanceKwayRestores ==
    ASSUME NEW g, IsGraph(g), NEW p \in [Ids(g) -> Parts],
           NEW cap, \A d \in Parts : cap[d][1] \in Int /\ cap[d][2] \in Nat
    PROVE  /\ Restores(g, cap, p, BalanceKway(g, p, cap))
           /\ \A v \in Ids(g) : Settled(g, cap, BalanceKway(g, p, cap), v)
<1> DEFINE A == [part : [Ids(g) -> Parts], moved : BOOLEAN]
           a == [part |-> p, moved |-> TRUE]
           Turn(s) == IF s.moved THEN AfterPass(s.part, BalancePass(g, cap, s.part)) ELSE s
           Rec(f) == [i \in 0 .. 4 |-> IF i = 0 THEN a ELSE Turn(f[i - 1])]
           c == CHOOSE f : f = Rec(f)
           turn == [i \in 1 .. 4 |-> [x \in A |-> Turn(x)]]
           All(q) == \A v \in Ids(g) : Settled(g, cap, q, v)
<1>1. BalanceKway(g, p, cap) = c[4].part
  BY DEF BalanceKway
<1>2. ASSUME NEW s \in A
      PROVE  /\ Turn(s) \in A /\ Restores(g, cap, s.part, Turn(s).part)
             /\ s.moved \/ All(s.part) => All(Turn(s).part)
  <2>1. s.part \in [Ids(g) -> Parts] /\ s.moved \in BOOLEAN
    OBVIOUS
  <2>2. /\ Restores(g, cap, s.part, BalancePass(g, cap, s.part))
        /\ All(BalancePass(g, cap, s.part))
    BY <2>1, BalancePassRestores
  <2>3. Restores(g, cap, s.part, s.part) /\ BalancePass(g, cap, s.part) \in [Ids(g) -> Parts]
    BY <2>1, <2>2, RestoresOn DEF Restores
  <2> HIDE DEF All
  <2> QED
    BY <2>1, <2>2, <2>3 DEF AfterPass
<1> HIDE DEF Turn
<1>3. a \in A
  OBVIOUS
<1>4. \E f : f = Rec(f)
  <2>1. turn \in [1 .. 4 -> [A -> A]]
    <3> HIDE DEF A
    <3> QED
      BY <1>2
  <2>2. PICK f : Takes(f, A, a, turn, 4)
    <3> HIDE DEF turn, A, a
    <3>1. 4 \in Nat
      OBVIOUS
    <3> QED
      BY <1>3, <2>1, <3>1, Recursion
  <2>3. \A i \in 1 .. 4 : i - 1 \in 0 .. 4 /\ f[i - 1] \in A
    <3>1. f \in [0 .. 4 -> A]
      BY <2>2 DEF Takes
    <3>2. \A i \in 1 .. 4 : i - 1 \in 0 .. 4
      OBVIOUS
    <3> HIDE DEF A
    <3> QED
      BY <3>1, <3>2
  <2>4. \A i \in 0 .. 4 : i # 0 => i \in 1 .. 4
    OBVIOUS
  <2>5. \A i \in 0 .. 4 : (IF i = 0 THEN a ELSE turn[i][f[i - 1]])
                        = (IF i = 0 THEN a ELSE Turn(f[i - 1]))
    <3> HIDE DEF a, A
    <3> QED
      BY <2>3, <2>4
  <2>6. f = Rec(f)
    <3> HIDE DEF a, turn
    <3> QED
      BY <2>2, <2>5 DEF Takes
  <2> QED
    BY <2>6
<1>5. c = Rec(c)
  BY <1>4
<1> HIDE DEF c
<1>6. c[0] = a /\ c[1] = Turn(c[0]) /\ c[2] = Turn(c[1]) /\ c[3] = Turn(c[2]) /\ c[4] = Turn(c[3])
  <2> HIDE DEF a
  <2> QED
    BY <1>5
<1> DEFINE Good(s) == s \in A /\ Restores(g, cap, p, s.part) /\ All(s.part)
<1>7. ASSUME NEW s, Good(s) PROVE Good(Turn(s))
  <2> HIDE DEF A, All
  <2>1. s \in A /\ Restores(g, cap, p, s.part) /\ All(s.part)
    BY <1>7
  <2>2. Turn(s) \in A /\ Restores(g, cap, s.part, Turn(s).part) /\ All(Turn(s).part)
    BY <1>2, <2>1
  <2>3. Restores(g, cap, p, Turn(s).part)
    BY <2>1, <2>2, RestoresOn
  <2> QED
    BY <2>2, <2>3
<1>8. Good(c[1])
  <2>1. a.part = p /\ a.moved
    OBVIOUS
  <2> HIDE DEF A, All, a
  <2>2. Turn(a) \in A /\ Restores(g, cap, a.part, Turn(a).part) /\ All(Turn(a).part)
    BY <1>2, <1>3, <2>1
  <2> QED
    BY <1>6, <2>1, <2>2
<1> HIDE DEF Good
<1>9. Good(c[4])
  BY <1>6, <1>7, <1>8
<1> QED
  BY <1>1, <1>9 DEF Good

\* A lemma: the shares of the parts are numbers, and not all zero.
LEMMA SharesAreNumbers ==
    ASSUME IsGraph(graphs[1]), ratio \in [Parts -> Int]
    PROVE  /\ GrandTotal \in Nat /\ Shares \in [Parts -> Nat]
           /\ SumFunctionOnSet(Shares, Parts) \in Nat \ {0}
<1>1. GrandTotal \in Nat
  <2>1. /\ Weight(graphs[1], Ids(graphs[1])) \in Nat
        /\ Cardinality(Ids(graphs[1])) \in Nat
    BY GraphSums, FS_CardinalityType
  <2> QED
    BY <2>1 DEF GrandTotal, Size
<1>2. Shares \in [Parts -> Nat] /\ \E d \in Parts : Shares[d] >= 1
  <2>1. CASE \A d \in Parts : ratio[d] <= 0
    BY <2>1, PartsAreNumbers DEF Shares
  <2>2. CASE \E d \in Parts : ~(ratio[d] <= 0)
    <3>1. PICK d \in Parts : ~(ratio[d] <= 0)
      BY <2>2
    <3>2. ratio[d] > 0 /\ ratio[d] >= 1
      BY <3>1
    <3>3. \A e \in Parts : ratio[e] > 0 => ratio[e] \in Nat
      OBVIOUS
    <3>4. Shares = [e \in Parts |-> IF ratio[e] > 0 THEN ratio[e] ELSE 0]
      BY <3>1 DEF Shares
    <3> QED
      BY <3>2, <3>3, <3>4
  <2> QED
    BY <2>1, <2>2
<1>3. SumFunctionOnSet(Shares, Parts) \in Nat \ {0}
  <2>1. PICK d \in Parts : Shares[d] >= 1
    BY <1>2
  <2>2. \A e \in Parts : Shares[e] \in Int /\ Shares[e] \in Nat
    BY <1>2
  <2>3. IsFiniteSet(Parts) /\ IsFiniteSet(Parts \ {d})
    BY PartsAreNumbers, FS_Subset
  <2>4. SumFunctionOnSet(Shares, Parts) = Shares[d] + SumFunctionOnSet(Shares, Parts \ {d})
    BY <2>2, <2>3, SumWithout
  <2>5. SumFunctionOnSet(Shares, Parts \ {d}) \in Nat
    BY <2>2, <2>3, SumType
  <2> QED
    BY <2>1, <2>2, <2>4, <2>5
<1> QED
  BY <1>1, <1>2, <1>3

\* A lemma: the capacities are numbers.
LEMMA CapsAreNumbers ==
    ASSUME IsGraph(graphs[1]), ratio \in [Parts -> Int]
    PROVE  /\ GrandTotal \in Nat
           /\ \A d \in Parts : TightCap[d][1] \in Int /\ TightCap[d][2] \in Nat
           /\ \A d \in Parts : LooseCap[d][1] \in Int /\ LooseCap[d][2] \in Nat
<1>1. GrandTotal \in Nat
  BY SharesAreNumbers
<1>2. Shares \in [Parts -> Nat]
  BY SharesAreNumbers
<1>3. SumFunctionOnSet(Shares, Parts) \in Nat \ {0}
  BY SharesAreNumbers
<1>4. \A d \in Parts : Target(d) \in Int
  <2> SUFFICES ASSUME NEW d \in Parts PROVE Target(d) \in Int
    OBVIOUS
  <2>1. Shares[d] \in Nat
    BY <1>2
  <2>2. GrandTotal * Shares[d] \in Int
    BY <1>1, <2>1
  <2>3. \A x \in Int, y \in Nat \ {0} : -((-x) \div y) \in Int
    OBVIOUS
  <2> QED
    BY <1>3, <2>2, <2>3 DEF Target
<1>5. UbPercent \in Nat
  BY MultilevelAssumption DEF MultilevelAssumption
<1>6. ASSUME NEW d \in Parts
      PROVE  /\ TightCap[d][1] \in Int /\ TightCap[d][2] \in Nat
             /\ LooseCap[d][1] \in Int /\ LooseCap[d][2] \in Nat
  <2>1. Target(d) * UbPercent \in Int /\ Target(d) * UbPercent * 108 \in Int
    BY <1>4, <1>5
  <2>2. TightCap[d] = <<Target(d) * UbPercent, 100>>
    BY DEF TightCap
  <2>3. LooseCap[d] = <<Target(d) * UbPercent * 108, 10000>>
    BY DEF LooseCap
  <2> QED
    BY <2>1, <2>2, <2>3
<1> QED
  BY <1>1, <1>6

\* A lemma: a vertex grows into a part.
LEMMA GrowPlaces ==
    ASSUME NEW g, NEW p, NEW v
    PROVE  \E d \in Parts : Grow(g, p, v) = [p EXCEPT ![v] = d]
<1> DEFINE held == [d \in Parts |-> LoadIn(g, p, d)]
           gain == [d \in Parts |-> ConnTo(g, p, v, d)]
           room == {d \in Parts : FitsUnder(TightCap, d, held[d] + g.vw[v])}
           better == {x \in room \X room :
                         \/ gain[x[1]] > gain[x[2]]
                         \/ gain[x[1]] = gain[x[2]] /\ held[x[1]] < held[x[2]]}
           d == IF room # {} THEN Scanned(room, better)
                ELSE Scanned(Parts, RelativelyLess(TightCap, held))
<1>1. Grow(g, p, v) = [p EXCEPT ![v] = d]
  BY DEF Grow
<1>2. room \in SUBSET Parts
  OBVIOUS
<1>3. d \in Parts
  <2> HIDE DEF room, better, held
  <2>1. /\ Parts \in SUBSET Nat /\ IsFiniteSet(Parts) /\ Parts # {}
        /\ room \in SUBSET Nat /\ IsFiniteSet(room)
    BY <1>2, PartsAreNumbers, FS_Subset
  <2>2. Scanned(Parts, RelativelyLess(TightCap, held)) \in Parts
    BY <2>1, ScannedIsMember
  <2>3. room # {} => Scanned(room, better) \in room
    BY <2>1, ScannedIsMember
  <2> QED
    BY <1>2, <2>2, <2>3
<1> HIDE DEF d
<1> QED
  BY <1>1, <1>3

\* A lemma: growth places every vertex.
LEMMA GrownIsPartition ==
    ASSUME NEW g, IsGraph(g), NEW vs \in GrowthOrders(g)
    PROVE  Grown(g, vs) \in [Ids(g) -> Parts]
<1> DEFINE n == Len(vs)
           A == [Ids(g) -> Parts \cup {-1}]
           a == [v \in Ids(g) |-> -1]
           Rec(f) == [i \in 0 .. n |-> IF i = 0 THEN a ELSE Grow(g, f[i - 1], vs[i])]
           c == CHOOSE f : f = Rec(f)
           turn == [i \in 1 .. n |-> [x \in A |-> Grow(g, x, vs[i])]]
           Done(q, i) == \A j \in 1 .. i : q[vs[j]] \in Parts
           B == [i \in 0 .. n |-> {q \in A : Done(q, i)}]
<1>1. Grown(g, vs) = c[n]
  BY DEF Grown
<1>2. /\ n \in Nat /\ \A i \in 1 .. n : vs[i] \in Ids(g)
      /\ \A v \in Ids(g) : \E i \in 1 .. n : vs[i] = v
  <2> DEFINE k == Cardinality(Ids(g))
  <2>1. IsFiniteSet(Ids(g)) /\ k \in Nat
    BY FS_CardinalityType DEF IsGraph
  <2>2. vs \in [1 .. k -> Ids(g)] /\ \A i, j \in 1 .. k : i # j => vs[i] # vs[j]
    BY DEF GrowthOrders, SetToSeqs
  <2> HIDE DEF k
  <2>3. n = k
    BY <2>1, <2>2
  <2>4. vs \in Injection(1 .. k, Ids(g))
    BY <2>2 DEF Injection, IsInjective
  <2>5. IsFiniteSet(1 .. k) /\ Cardinality(1 .. k) = k
    BY <2>1, FS_Interval
  <2>6. vs \in Surjection(1 .. k, Ids(g))
    BY <2>1, <2>4, <2>5, FS_Injection DEF k
  <2> HIDE DEF n
  <2> QED
    BY <2>1, <2>2, <2>3, <2>6 DEF Surjection
<1> HIDE DEF n
<1>3. ASSUME NEW x \in A, NEW v \in Ids(g)
      PROVE  \E d \in Parts : Grow(g, x, v) = [x EXCEPT ![v] = d]
  BY GrowPlaces
<1>4. ASSUME NEW x \in A, NEW v \in Ids(g)
      PROVE  /\ Grow(g, x, v) \in A /\ Grow(g, x, v)[v] \in Parts
             /\ \A u \in Ids(g) : x[u] \in Parts => Grow(g, x, v)[u] \in Parts
  <2>1. PICK d \in Parts : Grow(g, x, v) = [x EXCEPT ![v] = d]
    BY <1>3
  <2> QED
    BY <2>1
<1>5. a \in A
  OBVIOUS
<1>6. \E f : f = Rec(f)
  <2>1. turn \in [1 .. n -> [A -> A]]
    <3> HIDE DEF A
    <3> QED
      BY <1>2, <1>4
  <2>2. PICK f : Takes(f, A, a, turn, n)
    <3> HIDE DEF turn, A, a
    <3> QED
      BY <1>2, <1>5, <2>1, Recursion
  <2>3. \A i \in 1 .. n : i - 1 \in 0 .. n /\ f[i - 1] \in A
    <3>1. f \in [0 .. n -> A]
      BY <2>2 DEF Takes
    <3>2. \A i \in 1 .. n : i - 1 \in 0 .. n
      BY <1>2
    <3> HIDE DEF A
    <3> QED
      BY <3>1, <3>2
  <2>4. \A i \in 0 .. n : i # 0 => i \in 1 .. n
    BY <1>2
  <2>5. \A i \in 0 .. n : (IF i = 0 THEN a ELSE turn[i][f[i - 1]])
                        = (IF i = 0 THEN a ELSE Grow(g, f[i - 1], vs[i]))
    <3> HIDE DEF A, a
    <3> QED
      BY <2>3, <2>4
  <2>6. f = Rec(f)
    <3> HIDE DEF turn, a
    <3> QED
      BY <2>2, <2>5 DEF Takes
  <2> QED
    BY <2>6
<1>7. c = Rec(c)
  BY <1>6
<1> HIDE DEF c
<1>8. c[0] = a /\ \A i \in 1 .. n : c[i] = Grow(g, c[i - 1], vs[i])
  <2> HIDE DEF a
  <2> QED
    BY <1>2, <1>7
<1>9. c[0] \in B[0] /\ \A i \in 1 .. n : c[i - 1] \in B[i - 1] => c[i] \in B[i]
  <2>1. c[0] \in B[0]
    <3>1. 0 \in 0 .. n /\ 1 .. 0 = {}
      BY <1>2
    <3> HIDE DEF A, a
    <3> QED
      BY <1>5, <1>8, <3>1
  <2>2. ASSUME NEW i \in 1 .. n, c[i - 1] \in B[i - 1] PROVE c[i] \in B[i]
    <3>1. /\ i \in 0 .. n /\ i - 1 \in 0 .. n
          /\ \A j \in 1 .. i : j = i \/ j \in 1 .. (i - 1)
          /\ \A j \in 1 .. i : j \in 1 .. n
      BY <1>2
    <3> HIDE DEF A
    <3>2. c[i - 1] \in A /\ Done(c[i - 1], i - 1)
      BY <2>2, <3>1
    <3>3. /\ c[i] \in A /\ c[i][vs[i]] \in Parts
          /\ \A u \in Ids(g) : c[i - 1][u] \in Parts => c[i][u] \in Parts
      BY <1>2, <1>4, <1>8, <3>2
    <3>4. Done(c[i], i)
      <4>1. ASSUME NEW j \in 1 .. i PROVE c[i][vs[j]] \in Parts
        BY <1>2, <3>1, <3>2, <3>3
      <4> QED
        BY <4>1
    <3> HIDE DEF Done
    <3> QED
      BY <3>1, <3>3, <3>4
  <2> QED
    BY <2>1, <2>2
<1>10. \A i \in 0 .. n : c[i] \in B[i]
  <2> HIDE DEF B
  <2> QED
    BY <1>2, <1>9, Along
<1>11. c[n] \in A /\ Done(c[n], n)
  <2> HIDE DEF A, Done
  <2> QED
    BY <1>2, <1>10
<1>12. \A v \in Ids(g) : c[n][v] \in Parts
  BY <1>2, <1>11
<1>13. c[n] \in [Ids(g) -> Parts]
  BY <1>11, <1>12
<1> QED
  BY <1>1, <1>13

\* A lemma: halving keeps a range of parts within the parts.
LEMMA Halves ==
    ASSUME NEW a \in Nat, NEW k \in Nat, a + k <= D, k > 1
    PROVE  /\ k \div 2 \in Nat /\ k \div 2 >= 1 /\ k - (k \div 2) \in Nat
           /\ k - (k \div 2) >= 1 /\ a + (k \div 2) \in Parts
           /\ a + (k \div 2) <= D /\ (a + (k \div 2)) + (k - (k \div 2)) <= D
<1>1. k \div 2 \in Nat /\ k \div 2 >= 1 /\ k \div 2 < k
  OBVIOUS
<1>2. D \in Nat
  BY PartsAreNumbers
<1> DEFINE h == k \div 2
<1>3. h \in Nat /\ h >= 1 /\ h < k
  BY <1>1
<1> HIDE DEF h
<1>4. /\ k - h \in Nat /\ k - h >= 1 /\ a + h \in Nat /\ a + h < D
      /\ a + h <= D /\ (a + h) + (k - h) <= D
  BY <1>2, <1>3
<1>5. a + h \in Parts
  BY <1>2, <1>4 DEF Parts
<1> QED
  BY <1>3, <1>4, <1>5 DEF h

\* A lemma: bisection labels every vertex with a part.
LEMMA BisectedIsPartition ==
    ASSUME NEW g
    PROVE  Bisected(g) \in [Ids(g) -> Parts]
<1> DEFINE R == {r \in Nat \X Nat : r[2] >= 1 /\ r[1] + r[2] <= D}
           A == [part : [Ids(g) -> Parts], ranges : SUBSET R]
           a == [part |-> [v \in Ids(g) |-> 0], ranges |-> {<<0, D>>}]
           Rec(f) == [i \in 0 .. D |-> IF i = 0 THEN a ELSE Split(g, f[i - 1])]
           c == CHOOSE f : f = Rec(f)
           turn == [i \in 1 .. D |-> [x \in A |-> Split(g, x)]]
           B == [i \in 0 .. D |-> A]
<1>1. Bisected(g) = c[D].part
  <2>1. Bisected(g) = (CHOOSE f : f = [i \in 0 .. D |->
                           IF i = 0 THEN a ELSE Split(g, f[i - 1])])[D].part
    BY DEF Bisected
  <2> QED
    BY <2>1
<1>2. D \in Nat /\ D >= 1 /\ 0 \in Parts
  BY PartsAreNumbers
<1>3. ASSUME NEW s \in A PROVE Split(g, s) \in A
  <2> DEFINE wide == {r \in s.ranges : r[2] > 1}
             second == [r \in wide |->
                           SecondHalf(g, {v \in Ids(g) : s.part[v] = r[1]}, r[1], r[2])]
             In(v) == CHOOSE r \in wide : v \in second[r]
             new == [v \in Ids(g) |-> IF \E r \in wide : v \in second[r]
                                      THEN In(v)[1] + In(v)[2] \div 2 ELSE s.part[v]]
             rs == (s.ranges \ wide) \cup {<<r[1], r[2] \div 2>> : r \in wide}
                       \cup {<<r[1] + r[2] \div 2, r[2] - r[2] \div 2>> : r \in wide}
  <2>1. Split(g, s) = [part |-> new, ranges |-> rs]
    <3>1. DOMAIN second = wide
      OBVIOUS
    <3>2. Split(g, s) = SplitInto(g, s, second)
      BY DEF Split
    <3> HIDE DEF second, wide
    <3> QED
      BY <3>1, <3>2 DEF SplitInto
  <2>2. s.part \in [Ids(g) -> Parts] /\ s.ranges \in SUBSET R
    OBVIOUS
  <2>3. ASSUME NEW r \in wide
        PROVE  /\ r[1] + r[2] \div 2 \in Parts
               /\ <<r[1], r[2] \div 2>> \in R
               /\ <<r[1] + r[2] \div 2, r[2] - r[2] \div 2>> \in R
    <3>1. r[1] \in Nat /\ r[2] \in Nat /\ r[2] > 1 /\ r[1] + r[2] <= D
      BY <2>2
    <3> DEFINE h == r[2] \div 2
    <3>2. /\ h \in Nat /\ h >= 1 /\ r[2] - h \in Nat /\ r[2] - h >= 1
          /\ r[1] + h \in Parts /\ r[1] + h <= D /\ (r[1] + h) + (r[2] - h) <= D
      BY <3>1, Halves
    <3> HIDE DEF h
    <3>3. r[1] + h \in Nat
      BY <3>1, <3>2
    <3>4. r[1] + h \in Parts /\ <<r[1], h>> \in R /\ <<r[1] + h, r[2] - h>> \in R
      BY <3>1, <3>2, <3>3
    <3> QED
      BY <3>4 DEF h
  <2>4. new \in [Ids(g) -> Parts]
    <3> SUFFICES ASSUME NEW v \in Ids(g)
                 PROVE  (IF \E r \in wide : v \in second[r]
                         THEN In(v)[1] + In(v)[2] \div 2 ELSE s.part[v]) \in Parts
      OBVIOUS
    <3>1. CASE \E r \in wide : v \in second[r]
      <4>1. In(v) \in wide
        <5> HIDE DEF wide, second
        <5> QED
          BY <3>1
      <4> HIDE DEF In, wide, second
      <4> QED
        BY <2>3, <3>1, <4>1
    <3>2. CASE ~ \E r \in wide : v \in second[r]
      <4> HIDE DEF In, wide, second
      <4> QED
        BY <2>2, <3>2
    <3> QED
      BY <3>1, <3>2
  <2>5. rs \in SUBSET R
    <3>1. s.ranges \ wide \in SUBSET R
      BY <2>2
    <3> HIDE DEF R, wide
    <3> QED
      BY <2>3, <3>1
  <2> HIDE DEF new, rs, R
  <2> QED
    BY <2>1, <2>4, <2>5
<1>4. a \in A
  <2>1. <<0, D>> \in R
    BY <1>2
  <2> HIDE DEF R
  <2> QED
    BY <1>2, <2>1
<1>5. \E f : f = Rec(f)
  <2>1. turn \in [1 .. D -> [A -> A]]
    <3> HIDE DEF A
    <3> QED
      BY <1>3
  <2>2. PICK f : Takes(f, A, a, turn, D)
    <3> HIDE DEF turn, A, a
    <3> QED
      BY <1>2, <1>4, <2>1, Recursion
  <2>3. \A i \in 1 .. D : i - 1 \in 0 .. D /\ f[i - 1] \in A
    <3>1. f \in [0 .. D -> A]
      BY <2>2 DEF Takes
    <3>2. \A i \in 1 .. D : i - 1 \in 0 .. D
      BY <1>2
    <3> HIDE DEF A
    <3> QED
      BY <3>1, <3>2
  <2>4. \A i \in 0 .. D : i # 0 => i \in 1 .. D
    BY <1>2
  <2>5. \A i \in 0 .. D : (IF i = 0 THEN a ELSE turn[i][f[i - 1]])
                        = (IF i = 0 THEN a ELSE Split(g, f[i - 1]))
    <3> HIDE DEF A, a
    <3> QED
      BY <2>3, <2>4
  <2>6. f = Rec(f)
    <3> HIDE DEF turn, a
    <3> QED
      BY <2>2, <2>5 DEF Takes
  <2> QED
    BY <2>6
<1>6. c = Rec(c)
  BY <1>5
<1> HIDE DEF c
<1>7. c[0] = a /\ \A i \in 1 .. D : c[i] = Split(g, c[i - 1])
  <2>1. 0 \in 0 .. D /\ \A i \in 1 .. D : i \in 0 .. D /\ i # 0
    BY <1>2
  <2>2. \A i \in 0 .. D : c[i] = IF i = 0 THEN a ELSE Split(g, c[i - 1])
    <3> HIDE DEF a
    <3> QED
      BY ONLY <1>6
  <2> HIDE DEF a
  <2> QED
    BY <2>1, <2>2
<1>8. c[0] \in B[0] /\ \A i \in 1 .. D : c[i - 1] \in B[i - 1] => c[i] \in B[i]
  <2>1. /\ 0 \in 0 .. D
        /\ \A i \in 1 .. D : i \in 0 .. D /\ i - 1 \in 0 .. D
    BY <1>2
  <2> HIDE DEF A, a
  <2> QED
    BY <1>3, <1>4, <1>7, <2>1
<1>9. \A i \in 0 .. D : c[i] \in B[i]
  <2> HIDE DEF B
  <2> QED
    BY <1>2, <1>8, Along
<1>10. c[D] \in A
  <2> HIDE DEF A
  <2> QED
    BY <1>2, <1>9
<1> QED
  BY <1>1, <1>10

\* A lemma: the edges that a set of edges reversed consists of.
LEMMA SumOfReversed ==
    ASSUME NEW g, IsGraph(g), NEW S \in SUBSET DOMAIN g.ew,
           NEW T, T = {<<e[2], e[1]>> : e \in S}
    PROVE  SumFunctionOnSet(g.ew, S) = SumFunctionOnSet(g.ew, T)
<1> DEFINE back == [e \in S |-> <<e[2], e[1]>>]
<1>1. IsFiniteSet(S)
  BY GraphSums
<1>2. T = {back[e] : e \in S}
  OBVIOUS
<1>3. \A e \in S : /\ e = <<e[1], e[2]>> /\ back[e] = <<e[2], e[1]>>
                   /\ g.ew[e] \in Int /\ g.ew[back[e]] = g.ew[e]
  <2> SUFFICES ASSUME NEW e \in S
               PROVE  /\ e = <<e[1], e[2]>> /\ back[e] = <<e[2], e[1]>>
                      /\ g.ew[e] \in Int /\ g.ew[back[e]] = g.ew[e]
    OBVIOUS
  <2>1. e \in DOMAIN g.ew
    OBVIOUS
  <2>2. e = <<e[1], e[2]>> /\ g.ew[<<e[2], e[1]>>] = g.ew[e] /\ g.ew[e] \in Nat
    BY <2>1, EdgesArePairs
  <2> QED
    BY <2>2
<1>4. \A e, f \in S : back[e] = back[f] => e = f
  <2> SUFFICES ASSUME NEW e \in S, NEW f \in S, back[e] = back[f] PROVE e = f
    OBVIOUS
  <2>1. e[2] = f[2] /\ e[1] = f[1]
    BY <1>3
  <2> QED
    BY <1>3, <2>1
<1> HIDE DEF back
<1> QED
  BY <1>1, <1>2, <1>3, <1>4, SumReindexed

\* The edges between parts, in both directions.
CutEdges(g, p) == {e \in DOMAIN g.ew : p[e[1]] # p[e[2]]}

\* A lemma: in both directions they weigh twice the cut.
LEMMA CutCountsTwice ==
    ASSUME NEW g, IsGraph(g), NEW p
    PROVE  SumFunctionOnSet(g.ew, CutEdges(g, p)) = EdgeCut(g, p) + EdgeCut(g, p)
<1> DEFINE E == DOMAIN g.ew
           Up == {e \in E : e[1] < e[2] /\ p[e[1]] # p[e[2]]}
           Down == {<<e[2], e[1]>> : e \in Up}
<1>1. \A e \in E : /\ e = <<e[1], e[2]>> /\ <<e[2], e[1]>> \in E
                   /\ e[1] < e[2] \/ e[2] < e[1]
                   /\ ~(e[1] < e[2] /\ e[2] < e[1])
  <2> SUFFICES ASSUME NEW e \in E
               PROVE  /\ e = <<e[1], e[2]>> /\ <<e[2], e[1]>> \in E
                      /\ e[1] < e[2] \/ e[2] < e[1]
                      /\ ~(e[1] < e[2] /\ e[2] < e[1])
    OBVIOUS
  <2>1. /\ e = <<e[1], e[2]>> /\ <<e[2], e[1]>> \in E
        /\ e[1] < e[2] \/ e[2] < e[1]
        /\ e[1] \in Nat /\ e[2] \in Nat
    BY EdgesArePairs
  <2>2. ~(e[1] < e[2] /\ e[2] < e[1])
    BY <2>1
  <2> QED
    BY <2>1, <2>2
<1>2. Up \in SUBSET E /\ Down \in SUBSET E
  BY <1>1
<1>3. CutEdges(g, p) = Up \cup Down /\ Up \cap Down = {}
  <2>1. ASSUME NEW e \in CutEdges(g, p) PROVE e \in Up \cup Down
    <3>1. /\ e \in E /\ p[e[1]] # p[e[2]] /\ e = <<e[1], e[2]>> /\ <<e[2], e[1]>> \in E
          /\ e[1] < e[2] \/ e[2] < e[1]
      BY <1>1 DEF CutEdges
    <3>2. CASE e[1] < e[2]
      BY <3>1, <3>2
    <3>3. CASE e[2] < e[1]
      <4> DEFINE f == <<e[2], e[1]>>
      <4>1. f \in Up /\ f[1] = e[2] /\ f[2] = e[1]
        BY <3>1, <3>3
      <4>2. e = <<f[2], f[1]>>
        BY <3>1, <4>1
      <4> HIDE DEF f, Up
      <4> QED
        BY <4>1, <4>2
    <3> QED
      BY <3>1, <3>2, <3>3
  <2>2. ASSUME NEW e \in Up PROVE e \in CutEdges(g, p)
    BY DEF CutEdges
  <2>3. ASSUME NEW e \in Up PROVE <<e[2], e[1]>> \in CutEdges(g, p) /\ <<e[2], e[1]>> \notin Up
    BY <1>1 DEF CutEdges
  <2> HIDE DEF Up
  <2> QED
    BY <2>1, <2>2, <2>3
<1>4. SumFunctionOnSet(g.ew, Up) = SumFunctionOnSet(g.ew, Down)
  <2> HIDE DEF Up
  <2> QED
    BY <1>2, SumOfReversed
<1>5. SumFunctionOnSet(g.ew, Up) = EdgeCut(g, p)
  BY DEF EdgeCut
<1>6. /\ IsFiniteSet(Up) /\ IsFiniteSet(Down)
      /\ \A e \in Up \cup Down : g.ew[e] \in Int
  <2> HIDE DEF Up, Down
  <2> QED
    BY <1>2, GraphSums DEF IsGraph
<1> HIDE DEF Up, Down
<1>7. SumFunctionOnSet(g.ew, Up \cup Down)
          = SumFunctionOnSet(g.ew, Up) + SumFunctionOnSet(g.ew, Down)
  BY <1>3, <1>6, SumOfUnion
<1> QED
  BY <1>3, <1>4, <1>5, <1>7

\* The edges that the numbering m makes of x.
EdgesOnto(g, m, x) == {e \in DOMAIN g.ew : <<m[e[1]], m[e[2]]>> = x}

\* A lemma: the graph that a numbering of the vertices contracts to.
LEMMA ContractedIsGraph ==
    ASSUME NEW g, IsGraph(g), NEW m \in [Ids(g) -> Nat]
    PROVE  LET h == Contracted(g, m)
           IN  /\ IsGraph(h) /\ m \in [Ids(g) -> Ids(h)] /\ Ids(h) = {m[v] : v \in Ids(g)}
               /\ \A c \in Ids(h) : h.vw[c] = Weight(g, {v \in Ids(g) : m[v] = c})
               /\ \A e \in DOMAIN g.ew : m[e[1]] # m[e[2]] => <<m[e[1]], m[e[2]]>> \in DOMAIN h.ew
               /\ \A x \in DOMAIN h.ew :
                     /\ x[1] # x[2]
                     /\ h.ew[x] = SumFunctionOnSet(g.ew, EdgesOnto(g, m, x))
<1> DEFINE h == Contracted(g, m)
           E == DOMAIN g.ew
           End(e) == <<m[e[1]], m[e[2]]>>
           F == {y \in {End(e) : e \in E} : y[1] # y[2]}
           Of(x) == {e \in E : End(e) = x}
           C == {m[v] : v \in Ids(g)}
           In(c) == {v \in Ids(g) : m[v] = c}
<1>1. h = [vw |-> [c \in C |-> Weight(g, In(c))], ew |-> [x \in F |-> SumFunctionOnSet(g.ew, Of(x))]]
  BY DEF Contracted, MergedWeight, Range
<1> HIDE DEF h
<1>2. /\ Ids(h) = C /\ h.vw = [c \in C |-> Weight(g, In(c))]
      /\ DOMAIN h.ew = F /\ h.ew = [x \in F |-> SumFunctionOnSet(g.ew, Of(x))]
  <2> HIDE DEF C, F, In, Of
  <2> QED
    BY <1>1 DEF Ids
<1>3. C \subseteq Nat /\ IsFiniteSet(C)
  BY GraphSums, ImageIsFinite
<1>4. \A c : Weight(g, In(c)) \in Nat
  BY GraphSums
<1>5. \A x : SumFunctionOnSet(g.ew, Of(x)) \in Nat
  BY GraphSums
<1>6. \A e \in E : e[1] \in Ids(g) /\ e[2] \in Ids(g) /\ <<e[2], e[1]>> \in E /\ e = <<e[1], e[2]>>
  BY EdgesArePairs
<1>7. F \subseteq C \X C
  <2>1. \A e \in E : End(e) \in C \X C
    BY <1>6
  <2> HIDE DEF C, End
  <2> QED
    BY <2>1
<1>8. ASSUME NEW x \in F
      PROVE  /\ x[1] # x[2] /\ <<x[2], x[1]>> \in F
             /\ SumFunctionOnSet(g.ew, Of(<<x[2], x[1]>>)) = SumFunctionOnSet(g.ew, Of(x))
  <2>1. PICK e \in E : x = End(e)
    OBVIOUS
  <2>2. x[1] # x[2] /\ x = <<x[1], x[2]>> /\ <<x[2], x[1]>> = End(<<e[2], e[1]>>)
    BY <2>1
  <2>3. <<x[2], x[1]>> \in F
    BY <1>6, <2>2
  <2>4. Of(<<x[2], x[1]>>) = {<<f[2], f[1]>> : f \in Of(x)}
    <3>1. ASSUME NEW f \in Of(<<x[2], x[1]>>) PROVE f \in {<<f2[2], f2[1]>> : f2 \in Of(x)}
      <4> DEFINE b == <<f[2], f[1]>>
      <4>1. f \in E /\ m[f[1]] = x[2] /\ m[f[2]] = x[1] /\ f = <<f[1], f[2]>> /\ b \in E
        BY <1>6
      <4>2. b[1] = f[2] /\ b[2] = f[1]
        OBVIOUS
      <4>3. b \in Of(x) /\ f = <<b[2], b[1]>>
        BY <2>2, <4>1, <4>2
      <4> HIDE DEF b, Of
      <4> QED
        BY <4>3
    <3>2. ASSUME NEW f \in Of(x) PROVE <<f[2], f[1]>> \in Of(<<x[2], x[1]>>)
      BY <1>6, <2>2
    <3> HIDE DEF Of
    <3> QED
      BY <3>1, <3>2
  <2>5. Of(x) \in SUBSET E
    OBVIOUS
  <2>6. SumFunctionOnSet(g.ew, Of(x)) = SumFunctionOnSet(g.ew, Of(<<x[2], x[1]>>))
    <3> HIDE DEF Of
    <3> QED
      BY <2>4, <2>5, SumOfReversed
  <2> HIDE DEF F, Of
  <2> QED
    BY <2>2, <2>3, <2>6
<1>9. IsGraph(h)
  <2> HIDE DEF C, F, In, Of
  <2>1. Ids(h) \subseteq Nat /\ IsFiniteSet(Ids(h))
    BY <1>2, <1>3
  <2>2. h.vw \in [Ids(h) -> Nat]
    BY <1>2, <1>4
  <2>3. DOMAIN h.ew \subseteq Ids(h) \X Ids(h) /\ h.ew \in [DOMAIN h.ew -> Nat]
    BY <1>2, <1>5, <1>7
  <2>4. \A x \in DOMAIN h.ew : /\ x[1] # x[2] /\ <<x[2], x[1]>> \in DOMAIN h.ew
                               /\ h.ew[<<x[2], x[1]>>] = h.ew[x]
    <3> SUFFICES ASSUME NEW x \in F
                 PROVE  /\ x[1] # x[2] /\ <<x[2], x[1]>> \in F
                        /\ h.ew[<<x[2], x[1]>>] = h.ew[x]
      BY <1>2
    <3>1. /\ x[1] # x[2] /\ <<x[2], x[1]>> \in F
          /\ SumFunctionOnSet(g.ew, Of(<<x[2], x[1]>>)) = SumFunctionOnSet(g.ew, Of(x))
      BY <1>8
    <3>2. \A y \in F : h.ew[y] = SumFunctionOnSet(g.ew, Of(y))
      BY <1>2
    <3> QED
      BY <3>1, <3>2
  <2> QED
    BY <2>1, <2>2, <2>3, <2>4 DEF IsGraph
<1>10. m \in [Ids(g) -> Ids(h)] /\ Ids(h) = {m[v] : v \in Ids(g)}
  BY <1>2
<1>11. \A c \in Ids(h) : h.vw[c] = Weight(g, {v \in Ids(g) : m[v] = c})
  <2> HIDE DEF C
  <2> QED
    BY <1>2
<1>12. \A e \in DOMAIN g.ew : m[e[1]] # m[e[2]] => <<m[e[1]], m[e[2]]>> \in DOMAIN h.ew
  BY <1>2
<1>13. \A x \in DOMAIN h.ew :
          x[1] # x[2] /\ h.ew[x] = SumFunctionOnSet(g.ew, EdgesOnto(g, m, x))
  <2>1. \A x : Of(x) = EdgesOnto(g, m, x)
    BY DEF EdgesOnto
  <2> HIDE DEF F, Of
  <2> QED
    BY <1>2, <1>8, <2>1
<1> QED
  BY <1>9, <1>10, <1>11, <1>12, <1>13 DEF h

\* A lemma: a partition of the contraction has the loads and the cut that it
\* has when it is carried to the graph.
LEMMA ContractionKeeps ==
    ASSUME NEW g, IsGraph(g), NEW m \in [Ids(g) -> Nat], NEW h, h = Contracted(g, m),
           NEW p, NEW q, q = [v \in Ids(g) |-> p[m[v]]]
    PROVE  /\ EdgeCut(g, q) = EdgeCut(h, p)
           /\ \A d : LoadIn(g, q, d) = LoadIn(h, p, d)
<1> DEFINE E == DOMAIN g.ew
           F == DOMAIN h.ew
<1>1. IsGraph(h) /\ m \in [Ids(g) -> Ids(h)]
  BY ContractedIsGraph
<1>2. \A c \in Ids(h) : h.vw[c] = Weight(g, {v \in Ids(g) : m[v] = c})
  BY ContractedIsGraph
<1>3. \A e \in E : m[e[1]] # m[e[2]] => <<m[e[1]], m[e[2]]>> \in F
  BY ContractedIsGraph
<1>4. \A x \in F : h.ew[x] = SumFunctionOnSet(g.ew, EdgesOnto(g, m, x))
  BY ContractedIsGraph
<1>5. \A v \in Ids(g) : q[v] = p[m[v]]
  OBVIOUS
<1>6. ASSUME NEW d PROVE LoadIn(g, q, d) = LoadIn(h, p, d)
  <2> DEFINE S == {v \in Ids(g) : q[v] = d}
             T == {c \in Ids(h) : p[c] = d}
  <2>1. IsFiniteSet(S) /\ IsFiniteSet(T)
    BY <1>1, GraphSums
  <2>2. /\ \A v \in S : g.vw[v] \in Int
        /\ \A v \in S : m[v] \in T
    BY <1>1, <1>5 DEF IsGraph
  <2>3. ASSUME NEW c \in T
        PROVE  h.vw[c] = SumFunctionOnSet(g.vw, {v \in S : m[v] = c})
    <3>1. {v \in Ids(g) : m[v] = c} = {v \in S : m[v] = c}
      BY <1>5
    <3>2. h.vw[c] = SumFunctionOnSet(g.vw, {v \in Ids(g) : m[v] = c})
      BY <1>2 DEF Weight
    <3> HIDE DEF S, T
    <3> QED
      BY <3>1, <3>2
  <2>4. LoadIn(g, q, d) = SumFunctionOnSet(g.vw, S) /\ LoadIn(h, p, d) = SumFunctionOnSet(h.vw, T)
    BY DEF LoadIn, Weight
  <2> HIDE DEF S, T
  <2>5. SumFunctionOnSet(g.vw, S) = SumFunctionOnSet(h.vw, T)
    BY ONLY <2>1, <2>2, <2>3, SumOfFibres
  <2> QED
    BY <2>4, <2>5
<1>7. EdgeCut(g, q) = EdgeCut(h, p)
  <2> DEFINE S == CutEdges(g, q)
             T == CutEdges(h, p)
             M == [e \in E |-> <<m[e[1]], m[e[2]]>>]
  <2>1. IsFiniteSet(S) /\ IsFiniteSet(T) /\ S \in SUBSET E /\ T \in SUBSET F
    BY <1>1, GraphSums DEF CutEdges
  <2>2. \A e \in S : g.ew[e] \in Int
    BY <2>1 DEF IsGraph
  <2>3. \A e \in E : e[1] \in Ids(g) /\ e[2] \in Ids(g)
    BY EdgesArePairs
  <2>4. \A e \in E : e \in S <=> p[m[e[1]]] # p[m[e[2]]]
    BY <1>5, <2>3 DEF CutEdges
  <2>5. \A x \in F : x \in T <=> p[x[1]] # p[x[2]]
    BY DEF CutEdges
  <2> HIDE DEF S, T
  <2>6. \A e \in E : M[e] = <<m[e[1]], m[e[2]]>> /\ M[e][1] = m[e[1]] /\ M[e][2] = m[e[2]]
    OBVIOUS
  <2>7. \A e \in S : M[e] \in T
    BY <1>3, <2>1, <2>4, <2>5, <2>6
  <2>8. ASSUME NEW x \in T
        PROVE  h.ew[x] = SumFunctionOnSet(g.ew, {e \in S : M[e] = x})
    <3>1. EdgesOnto(g, m, x) = {e \in S : M[e] = x}
      <4> HIDE DEF M
      <4>1. \A e \in E : M[e] = x => e \in S
        BY <2>1, <2>4, <2>5, <2>6
      <4> QED
        BY <2>1, <2>6, <4>1 DEF EdgesOnto
    <3>2. h.ew[x] = SumFunctionOnSet(g.ew, EdgesOnto(g, m, x))
      BY <1>4, <2>1
    <3> HIDE DEF M
    <3> QED
      BY <3>1, <3>2
  <2> HIDE DEF M
  <2>9. SumFunctionOnSet(g.ew, S) = SumFunctionOnSet(h.ew, T)
    BY ONLY <2>1, <2>2, <2>7, <2>8, SumOfFibres
  <2>10. EdgeCut(g, q) + EdgeCut(g, q) = EdgeCut(h, p) + EdgeCut(h, p)
    BY <1>1, <2>9, CutCountsTwice DEF S, T
  <2>11. EdgeCut(g, q) \in Nat /\ EdgeCut(h, p) \in Nat
    BY <1>1, GraphSums
  <2> QED
    BY <2>10, <2>11
<1> QED
  BY <1>6, <1>7

\* match pairs vertices that are light enough together; -1 is no match.
IsMatching(g, match) ==
    /\ match \in [Ids(g) -> Ids(g) \cup {-1}]
    /\ \A v \in Ids(g) : match[v] >= 0 =>
          /\ match[v] # v /\ match[match[v]] = v
          /\ g.vw[v] + g.vw[match[v]] <= MaxWeight

\* A lemma: a free vertex is matched with no vertex.
LEMMA MatchOrFree ==
    ASSUME NEW g, IsGraph(g), NEW match, IsMatching(g, match), NEW v \in Ids(g)
    PROVE  /\ match[v] \in Int /\ v \in Nat
           /\ match[v] >= 0 => match[v] \in Ids(g)
           /\ ~(match[v] >= 0) => match[v] = -1 /\ match[v] < 0
           /\ match[v] < 0 => match[v] = -1 /\ ~(match[v] >= 0)
<1>1. match[v] \in Ids(g) \cup {-1} /\ Ids(g) \subseteq Nat
  BY DEF IsMatching, IsGraph
<1>2. CASE match[v] = -1
  BY <1>1, <1>2
<1>3. CASE match[v] \in Ids(g)
  <2>1. match[v] \in Nat
    BY <1>1, <1>3
  <2>2. match[v] >= 0 /\ ~(match[v] < 0)
    BY <2>1
  <2> QED
    BY <1>1, <1>3, <2>1, <2>2
<1> QED
  BY <1>1, <1>2, <1>3

\* A lemma: two free vertices may be paired.
LEMMA PairIsMatching ==
    ASSUME NEW g, IsGraph(g), NEW match, IsMatching(g, match),
           NEW v \in Ids(g), NEW u \in Ids(g), u # v, match[v] < 0, match[u] < 0,
           g.vw[v] + g.vw[u] <= MaxWeight,
           NEW new, new = [match EXCEPT ![v] = u, ![u] = v]
    PROVE  IsMatching(g, new)
<1>1. match \in [Ids(g) -> Ids(g) \cup {-1}]
  BY DEF IsMatching
<1>2. /\ new \in [Ids(g) -> Ids(g) \cup {-1}] /\ new[v] = u /\ new[u] = v
      /\ \A w \in Ids(g) : w # u /\ w # v => new[w] = match[w]
  BY <1>1
<1>3. g.vw[u] + g.vw[v] <= MaxWeight
  <2>1. g.vw[u] \in Nat /\ g.vw[v] \in Nat
    BY DEF IsGraph
  <2>2. g.vw[u] + g.vw[v] = g.vw[v] + g.vw[u]
    BY <2>1
  <2> QED
    BY <2>2
<1>4. ASSUME NEW w \in Ids(g), new[w] >= 0
      PROVE  /\ new[w] # w /\ new[new[w]] = w
             /\ g.vw[w] + g.vw[new[w]] <= MaxWeight
  <2>1. CASE w = u
    BY <1>2, <1>3, <2>1
  <2>2. CASE w = v
    BY <1>2, <2>2
  <2>3. CASE w # u /\ w # v
    <3>1. new[w] = match[w] /\ match[w] >= 0 /\ match[w] \in Ids(g)
      BY <1>2, <1>4, <2>3, MatchOrFree
    <3>2. /\ match[w] # w /\ match[match[w]] = w
          /\ g.vw[w] + g.vw[match[w]] <= MaxWeight
      BY <3>1 DEF IsMatching
    <3>3. match[w] # v /\ match[w] # u
      <4>1. w \in Ids(g) /\ ~(match[v] >= 0) /\ ~(match[u] >= 0) /\ w \in Nat /\ w >= 0
        BY MatchOrFree
      <4>2. match[v] # w /\ match[u] # w
        BY <4>1
      <4> QED
        BY <3>2, <4>2
    <3> QED
      BY <1>2, <3>1, <3>2, <3>3
  <2> QED
    BY <2>1, <2>2, <2>3
<1> QED
  BY <1>2, <1>4 DEF IsMatching

\* A lemma: a vertex takes a neighbour that is free.
LEMMA HeavyMatchedIsMatching ==
    ASSUME NEW g, IsGraph(g), NEW match, IsMatching(g, match), NEW v \in Ids(g)
    PROVE  IsMatching(g, HeavyMatched(g, match, v))
<1> DEFINE free == {u \in Nbrs(g, v) : match[u] < 0 /\ g.vw[v] + g.vw[u] <= MaxWeight}
           Best(u) == \A w \in free :
                          \/ g.ew[<<v, u>>] > g.ew[<<v, w>>]
                          \/ g.ew[<<v, u>>] = g.ew[<<v, w>>] /\ u <= w
           best == CHOOSE u \in free : Best(u)
           f == [u \in Nbrs(g, v) |-> g.ew[<<v, u>>]]
           new == HeavyMatched(g, match, v)
<1>1. new = IF match[v] >= 0 \/ free = {} THEN match
            ELSE [match EXCEPT ![v] = best, ![best] = v]
  BY DEF HeavyMatched
<1>2. CASE match[v] >= 0 \/ free = {}
  BY <1>1, <1>2
<1>3. CASE ~(match[v] >= 0 \/ free = {})
  <2>1. Nbrs(g, v) \in SUBSET Ids(g) /\ v \notin Nbrs(g, v) /\ Ids(g) \in SUBSET Nat
    BY GraphSums DEF IsGraph
  <2>2. free \in SUBSET Nbrs(g, v) /\ free \in SUBSET Ids(g) /\ free \in SUBSET Nat
    BY <2>1
  <2>3. IsFiniteSet(free)
    <3> HIDE DEF free
    <3> QED
      BY <2>2, GraphSums
  <2>4. \A u \in Nbrs(g, v) : g.ew[<<v, u>>] \in Int /\ f[u] = g.ew[<<v, u>>]
    BY DEF Nbrs, IsGraph
  <2>5. \E u \in free : \A w \in free : f[u] > f[w] \/ (f[u] = f[w] /\ u <= w)
    <3> HIDE DEF free, f
    <3>1. free # {}
      BY <1>3
    <3>2. \A u \in free : f[u] \in Int
      BY <2>2, <2>4
    <3> QED
      BY <2>2, <2>3, <3>1, <3>2, FirstOfBest
  <2>6. \E u \in free : Best(u)
    <3> HIDE DEF free, f
    <3> QED
      BY <2>2, <2>4, <2>5
  <2>7. best \in free
    <3> HIDE DEF free, Best
    <3> QED
      BY <2>6
  <2>8. /\ best \in Ids(g) /\ best # v /\ match[best] < 0
        /\ g.vw[v] + g.vw[best] <= MaxWeight
    <3> HIDE DEF best
    <3> QED
      BY <2>1, <2>7
  <2>9. match[v] < 0
    BY <1>3, MatchOrFree
  <2> HIDE DEF best, free
  <2>10. new = [match EXCEPT ![v] = best, ![best] = v]
    BY <1>1, <1>3
  <2> HIDE DEF new
  <2>11. IsMatching(g, new)
    BY <2>8, <2>9, <2>10, PairIsMatching
  <2> QED
    BY <2>11 DEF new
<1> QED
  BY <1>2, <1>3

\* A lemma: the order by degree lists every vertex.
LEMMA ByDegreeListsAll ==
    ASSUME NEW g, IsGraph(g)
    PROVE  ListsAll(ByDegree(g), Ids(g))
<1> DEFINE degree == [v \in Ids(g) |-> Cardinality(Nbrs(g, v))]
           before == {e \in Ids(g) \X Ids(g) :
                         \/ degree[e[1]] < degree[e[2]]
                         \/ degree[e[1]] = degree[e[2]] /\ e[1] < e[2]}
<1>1. ByDegree(g) = InOrder(Ids(g), before)
  BY DEF ByDegree
<1>2. \A v \in Ids(g) : degree[v] \in Nat /\ v \in Nat
  <2>1. \A v \in Ids(g) : IsFiniteSet(Nbrs(g, v))
    BY GraphSums
  <2>2. \A v \in Ids(g) : Cardinality(Nbrs(g, v)) \in Nat
    BY <2>1, FS_CardinalityType
  <2> QED
    BY <2>2 DEF IsGraph
<1> HIDE DEF degree
<1>3. \A u, v \in Ids(g) : <<u, v>> \in before <=>
          (degree[u] < degree[v] \/ (degree[u] = degree[v] /\ u < v))
  OBVIOUS
<1> HIDE DEF before
<1>4. \A u \in Ids(g) : <<u, u>> \notin before
  BY <1>2, <1>3
<1>5. ASSUME NEW u \in Ids(g), NEW v \in Ids(g), NEW w \in Ids(g),
             <<u, v>> \in before, <<v, w>> \in before
      PROVE  <<u, w>> \in before
  <2>1. /\ degree[u] < degree[v] \/ (degree[u] = degree[v] /\ u < v)
        /\ degree[v] < degree[w] \/ (degree[v] = degree[w] /\ v < w)
    BY ONLY <1>3, <1>5, u \in Ids(g), v \in Ids(g), w \in Ids(g)
  <2>2. /\ degree[u] \in Nat /\ degree[v] \in Nat /\ degree[w] \in Nat
        /\ u \in Nat /\ v \in Nat /\ w \in Nat
    BY <1>2
  <2>3. degree[u] < degree[w] \/ (degree[u] = degree[w] /\ u < w)
    BY <2>1, <2>2
  <2> QED
    BY <1>3, <2>3
<1>6. ASSUME NEW u \in Ids(g), NEW v \in Ids(g)
      PROVE  u = v \/ <<u, v>> \in before \/ <<v, u>> \in before
  <2>1. degree[u] \in Nat /\ degree[v] \in Nat /\ u \in Nat /\ v \in Nat
    BY <1>2
  <2>2. \/ u = v
        \/ degree[u] < degree[v] \/ (degree[u] = degree[v] /\ u < v)
        \/ degree[v] < degree[u] \/ (degree[v] = degree[u] /\ v < u)
    BY <2>1
  <2> QED
    BY <1>3, <2>2
<1>7. IsOrder(before, Ids(g))
  BY <1>4, <1>5, <1>6 DEF IsOrder
<1>8. IsFiniteSet(Ids(g))
  BY DEF IsGraph
<1> QED
  BY <1>1, <1>7, <1>8, InOrderLists

\* A lemma: what heavy edges match is a matching.
LEMMA HeavyEdgesMatch ==
    ASSUME NEW g, IsGraph(g)
    PROVE  IsMatching(g, HeavyEdges(g))
<1> DEFINE vs == ByDegree(g)
           n == Len(vs)
           A == {x \in [Ids(g) -> Ids(g) \cup {-1}] : IsMatching(g, x)}
           a == [v \in Ids(g) |-> -1]
           Rec(f) == [i \in 0 .. n |-> IF i = 0 THEN a ELSE HeavyMatched(g, f[i - 1], vs[i])]
           c == CHOOSE f : f = Rec(f)
           turn == [i \in 1 .. n |-> [x \in A |-> HeavyMatched(g, x, vs[i])]]
<1>1. HeavyEdges(g) = c[n]
  BY DEF HeavyEdges
<1>2. n \in Nat /\ \A i \in 1 .. n : vs[i] \in Ids(g)
  BY ByDegreeListsAll DEF ListsAll
<1> HIDE DEF vs, n
<1>3. ASSUME NEW x \in A, NEW v \in Ids(g) PROVE HeavyMatched(g, x, v) \in A
  <2>1. IsMatching(g, HeavyMatched(g, x, v))
    BY HeavyMatchedIsMatching
  <2> QED
    BY <2>1 DEF IsMatching
<1>4. a \in A
  <2>1. a \in [Ids(g) -> Ids(g) \cup {-1}] /\ \A v \in Ids(g) : ~(a[v] >= 0)
    OBVIOUS
  <2> HIDE DEF a
  <2> QED
    BY <2>1 DEF IsMatching
<1>5. \E f : f = Rec(f)
  <2>1. turn \in [1 .. n -> [A -> A]]
    <3> HIDE DEF A
    <3> QED
      BY <1>2, <1>3
  <2>2. PICK f : Takes(f, A, a, turn, n)
    <3> HIDE DEF turn, A, a
    <3> QED
      BY <1>2, <1>4, <2>1, Recursion
  <2>3. \A i \in 1 .. n : i - 1 \in 0 .. n /\ f[i - 1] \in A
    <3>1. f \in [0 .. n -> A]
      BY <2>2 DEF Takes
    <3>2. \A i \in 1 .. n : i - 1 \in 0 .. n
      BY <1>2
    <3> HIDE DEF A
    <3> QED
      BY <3>1, <3>2
  <2>4. \A i \in 0 .. n : i # 0 => i \in 1 .. n
    BY <1>2
  <2>5. \A i \in 0 .. n : (IF i = 0 THEN a ELSE turn[i][f[i - 1]])
                        = (IF i = 0 THEN a ELSE HeavyMatched(g, f[i - 1], vs[i]))
    <3> HIDE DEF A, a
    <3> QED
      BY <2>3, <2>4
  <2>6. f = Rec(f)
    <3> HIDE DEF turn, a
    <3> QED
      BY <2>2, <2>5 DEF Takes
  <2> QED
    BY <2>6
<1>6. c = Rec(c)
  BY <1>5
<1> HIDE DEF c
<1>7. c[0] = a /\ \A i \in 1 .. n : c[i] = HeavyMatched(g, c[i - 1], vs[i])
  <2> HIDE DEF a
  <2> QED
    BY <1>2, <1>6
<1> DEFINE B == [i \in 0 .. n |-> A]
<1>8. c[0] \in B[0] /\ \A i \in 1 .. n : c[i - 1] \in B[i - 1] => c[i] \in B[i]
  <2>1. 0 \in 0 .. n /\ \A i \in 1 .. n : i \in 0 .. n /\ i - 1 \in 0 .. n
    BY <1>2
  <2> HIDE DEF A, a
  <2> QED
    BY <1>2, <1>3, <1>4, <1>7, <2>1
<1>9. \A i \in 0 .. n : c[i] \in B[i]
  <2> HIDE DEF B
  <2> QED
    BY <1>2, <1>8, Along
<1>10. c[n] \in A
  <2> HIDE DEF A
  <2> QED
    BY <1>2, <1>9
<1> QED
  BY <1>1, <1>10

\* What is carried along a fan: a matching, and a free vertex met before or none.
FanStates(g) == [match : [Ids(g) -> Ids(g) \cup {-1}], prev : Ids(g) \cup {-1}]

\* The matching is one, and the vertex that waits is free.
FanSound(g, s) == IsMatching(g, s.match) /\ (s.prev # -1 => s.match[s.prev] < 0)

\* A lemma: one turn along a fan.
LEMMA FanMatchedIsMatching ==
    ASSUME NEW g, IsGraph(g), NEW s \in FanStates(g), NEW w \in Ids(g)
    PROVE  LET t == FanMatched(g, s, w)
           IN  /\ t \in FanStates(g)
               /\ t.prev = s.prev \/ t.prev = w \/ t.prev = -1
               /\ FanSound(g, s) /\ s.prev # w => FanSound(g, t)
<1> DEFINE t == FanMatched(g, s, w)
           paired == [s.match EXCEPT ![s.prev] = w, ![w] = s.prev]
<1>1. /\ s.match \in [Ids(g) -> Ids(g) \cup {-1}] /\ s.prev \in Ids(g) \cup {-1}
      /\ s = [match |-> s.match, prev |-> s.prev] /\ Ids(g) \subseteq Nat
  BY DEF FanStates, IsGraph
<1>2. CASE s.match[w] >= 0
  <2>1. t = s
    BY <1>2 DEF FanMatched
  <2> HIDE DEF t
  <2> QED
    BY <2>1 DEF t
<1>3. CASE ~(s.match[w] >= 0) /\ s.prev >= 0 /\ g.vw[s.prev] + g.vw[w] <= MaxWeight
  <2>1. t = [match |-> paired, prev |-> -1]
    BY <1>3 DEF FanMatched
  <2>2. s.prev \in Ids(g)
    BY <1>1, <1>3
  <2>3. paired \in [Ids(g) -> Ids(g) \cup {-1}]
    BY <1>1, <2>2
  <2>4. ASSUME FanSound(g, s), s.prev # w
        PROVE  IsMatching(g, paired)
    <3>1. IsMatching(g, s.match) /\ s.match[w] < 0 /\ s.match[s.prev] < 0
      <4>1. s.prev # -1
        BY <1>1, <2>2
      <4> QED
        BY <1>3, <2>4, <4>1, MatchOrFree DEF FanSound
    <3> HIDE DEF paired
    <3>2. paired = [s.match EXCEPT ![s.prev] = w, ![w] = s.prev]
      BY DEF paired
    <3> QED
      BY <1>3, <2>2, <2>4, <3>1, <3>2, PairIsMatching
  <2> HIDE DEF paired, t
  <2>5. t \in FanStates(g) /\ t.match = paired /\ t.prev = -1
    BY <2>1, <2>3 DEF FanStates
  <2> QED
    BY <2>4, <2>5 DEF t, FanSound
<1>4. CASE ~(s.match[w] >= 0) /\ ~(s.prev >= 0 /\ g.vw[s.prev] + g.vw[w] <= MaxWeight)
  <2>1. t = [match |-> s.match, prev |-> w]
    BY <1>4 DEF FanMatched
  <2> HIDE DEF t
  <2>2. t \in FanStates(g) /\ t.match = s.match /\ t.prev = w
    BY <1>1, <2>1 DEF FanStates
  <2>3. IsMatching(g, s.match) => s.match[w] < 0
    BY <1>4, MatchOrFree
  <2> QED
    BY <2>2, <2>3 DEF t, FanSound
<1> QED
  BY <1>2, <1>3, <1>4

\* A lemma: a fan keeps a matching one.
LEMMA FanIsMatching ==
    ASSUME NEW g, IsGraph(g), NEW match, IsMatching(g, match), NEW u \in Ids(g)
    PROVE  IsMatching(g, Fan(g, match, u))
<1> DEFINE ws == Ascending(Nbrs(g, u))
           n == Len(ws)
           A == FanStates(g)
           a == [match |-> match, prev |-> -1]
           Rec(f) == [i \in 0 .. n |-> IF i = 0 THEN a ELSE FanMatched(g, f[i - 1], ws[i])]
           c == CHOOSE f : f = Rec(f)
           turn == [i \in 1 .. n |-> [x \in A |-> FanMatched(g, x, ws[i])]]
           Met(s, i) == s.prev = -1 \/ \E j \in 1 .. i : s.prev = ws[j]
           B == [i \in 0 .. n |-> {s \in A : FanSound(g, s) /\ Met(s, i)}]
<1>1. Fan(g, match, u) = c[n].match
  BY DEF Fan
<1>2. ListsAll(ws, Nbrs(g, u)) /\ Nbrs(g, u) \in SUBSET Ids(g) /\ Ids(g) \subseteq Nat
  <2>1. Nbrs(g, u) \in SUBSET Ids(g) /\ IsFiniteSet(Nbrs(g, u)) /\ Ids(g) \subseteq Nat
    BY GraphSums DEF IsGraph
  <2>2. Nbrs(g, u) \in SUBSET Nat
    BY <2>1
  <2> QED
    BY <2>1, <2>2, AscendingListsAll
<1> HIDE DEF ws
<1>3. /\ n \in Nat /\ \A i \in 1 .. n : ws[i] \in Ids(g) /\ ws[i] # -1
      /\ \A i, j \in 1 .. n : ws[i] = ws[j] => i = j
  <2>1. /\ n \in Nat /\ \A i \in 1 .. n : ws[i] \in Ids(g)
        /\ \A i, j \in 1 .. n : ws[i] = ws[j] => i = j
    BY <1>2 DEF ListsAll
  <2>2. \A v \in Ids(g) : v # -1
    BY <1>2
  <2> QED
    BY <2>1, <2>2
<1> HIDE DEF n
<1>4. ASSUME NEW s \in A, NEW w \in Ids(g)
      PROVE  /\ FanMatched(g, s, w) \in A
             /\ \/ FanMatched(g, s, w).prev = s.prev \/ FanMatched(g, s, w).prev = w
                \/ FanMatched(g, s, w).prev = -1
             /\ FanSound(g, s) /\ s.prev # w => FanSound(g, FanMatched(g, s, w))
  BY FanMatchedIsMatching
<1>5. a \in A /\ FanSound(g, a) /\ a.prev = -1
  BY DEF FanStates, FanSound, IsMatching
<1> HIDE DEF A, a
<1>6. \E f : f = Rec(f)
  <2>1. turn \in [1 .. n -> [A -> A]]
    BY <1>3, <1>4
  <2>2. PICK f : Takes(f, A, a, turn, n)
    <3> HIDE DEF turn
    <3> QED
      BY <1>3, <1>5, <2>1, Recursion
  <2>3. \A i \in 1 .. n : i - 1 \in 0 .. n /\ f[i - 1] \in A
    <3>1. f \in [0 .. n -> A]
      BY <2>2 DEF Takes
    <3>2. \A i \in 1 .. n : i - 1 \in 0 .. n
      BY <1>3
    <3> QED
      BY <3>1, <3>2
  <2>4. \A i \in 0 .. n : i # 0 => i \in 1 .. n
    BY <1>3
  <2>5. \A i \in 0 .. n : (IF i = 0 THEN a ELSE turn[i][f[i - 1]])
                        = (IF i = 0 THEN a ELSE FanMatched(g, f[i - 1], ws[i]))
    BY <2>3, <2>4
  <2>6. f = Rec(f)
    <3> HIDE DEF turn
    <3> QED
      BY <2>2, <2>5 DEF Takes
  <2> QED
    BY <2>6
<1>7. c = Rec(c)
  BY <1>6
<1> HIDE DEF c
<1>8. c[0] = a /\ \A i \in 1 .. n : c[i] = FanMatched(g, c[i - 1], ws[i])
  BY <1>3, <1>7
<1>9. c[0] \in B[0] /\ \A i \in 1 .. n : c[i - 1] \in B[i - 1] => c[i] \in B[i]
  <2>1. c[0] \in B[0]
    BY <1>3, <1>5, <1>8
  <2>2. ASSUME NEW i \in 1 .. n, c[i - 1] \in B[i - 1] PROVE c[i] \in B[i]
    <3>1. /\ i \in 0 .. n /\ i - 1 \in 0 .. n
          /\ \A j \in 1 .. (i - 1) : j \in 1 .. i /\ j \in 1 .. n /\ j # i
          /\ i \in 1 .. i
      BY <1>3
    <3>2. c[i - 1] \in A /\ FanSound(g, c[i - 1]) /\ Met(c[i - 1], i - 1)
      BY <2>2, <3>1
    <3>3. c[i - 1].prev # ws[i]
      BY <1>3, <3>1, <3>2
    <3>4. /\ c[i] \in A /\ FanSound(g, c[i])
          /\ c[i].prev = c[i - 1].prev \/ c[i].prev = ws[i] \/ c[i].prev = -1
      <4>1. c[i] = FanMatched(g, c[i - 1], ws[i]) /\ ws[i] \in Ids(g)
        BY <1>3, <1>8
      <4> QED
        BY <1>4, <3>2, <3>3, <4>1
    <3>5. Met(c[i], i)
      BY <3>1, <3>2, <3>4
    <3> HIDE DEF Met
    <3> QED
      BY <3>1, <3>4, <3>5
  <2> QED
    BY <2>1, <2>2
<1>10. \A i \in 0 .. n : c[i] \in B[i]
  <2> HIDE DEF B
  <2> QED
    BY <1>3, <1>9, Along
<1>11. FanSound(g, c[n])
  BY <1>3, <1>10
<1> QED
  BY <1>1, <1>11 DEF FanSound

\* A lemma: so do the two passes.
LEMMA MatchingIsMatching ==
    ASSUME NEW g, IsGraph(g)
    PROVE  IsMatching(g, Matching(g))
<1> DEFINE us == Ascending(Ids(g))
           n == Len(us)
           A == {x \in [Ids(g) -> Ids(g) \cup {-1}] : IsMatching(g, x)}
           a == HeavyEdges(g)
           Rec(f) == [i \in 0 .. n |-> IF i = 0 THEN a ELSE Fan(g, f[i - 1], us[i])]
           c == CHOOSE f : f = Rec(f)
           turn == [i \in 1 .. n |-> [x \in A |-> Fan(g, x, us[i])]]
           B == [i \in 0 .. n |-> A]
<1>1. TwoHops(g, a) = c[n]
  BY DEF TwoHops
<1>2. n \in Nat /\ \A i \in 1 .. n : us[i] \in Ids(g)
  <2>1. Ids(g) \in SUBSET Nat /\ IsFiniteSet(Ids(g))
    BY DEF IsGraph
  <2>2. ListsAll(us, Ids(g))
    BY <2>1, AscendingListsAll
  <2> HIDE DEF us
  <2> QED
    BY <2>2 DEF ListsAll
<1> HIDE DEF us, n
<1>3. ASSUME NEW x \in A, NEW v \in Ids(g) PROVE Fan(g, x, v) \in A
  <2>1. IsMatching(g, Fan(g, x, v))
    BY FanIsMatching
  <2> QED
    BY <2>1 DEF IsMatching
<1>4. a \in A
  <2>1. IsMatching(g, a)
    BY HeavyEdgesMatch
  <2> HIDE DEF a
  <2> QED
    BY <2>1 DEF IsMatching
<1> HIDE DEF a
<1>5. \E f : f = Rec(f)
  <2>1. turn \in [1 .. n -> [A -> A]]
    <3> HIDE DEF A
    <3> QED
      BY <1>2, <1>3
  <2>2. PICK f : Takes(f, A, a, turn, n)
    <3> HIDE DEF turn, A
    <3> QED
      BY <1>2, <1>4, <2>1, Recursion
  <2>3. \A i \in 1 .. n : i - 1 \in 0 .. n /\ f[i - 1] \in A
    <3>1. f \in [0 .. n -> A]
      BY <2>2 DEF Takes
    <3>2. \A i \in 1 .. n : i - 1 \in 0 .. n
      BY <1>2
    <3> HIDE DEF A
    <3> QED
      BY <3>1, <3>2
  <2>4. \A i \in 0 .. n : i # 0 => i \in 1 .. n
    BY <1>2
  <2>5. \A i \in 0 .. n : (IF i = 0 THEN a ELSE turn[i][f[i - 1]])
                        = (IF i = 0 THEN a ELSE Fan(g, f[i - 1], us[i]))
    <3> HIDE DEF A
    <3> QED
      BY <2>3, <2>4
  <2>6. f = Rec(f)
    <3> HIDE DEF turn
    <3> QED
      BY <2>2, <2>5 DEF Takes
  <2> QED
    BY <2>6
<1>6. c = Rec(c)
  BY <1>5
<1> HIDE DEF c
<1>7. c[0] = a /\ \A i \in 1 .. n : c[i] = Fan(g, c[i - 1], us[i])
  BY <1>2, <1>6
<1>8. c[0] \in B[0] /\ \A i \in 1 .. n : c[i - 1] \in B[i - 1] => c[i] \in B[i]
  <2>1. 0 \in 0 .. n /\ \A i \in 1 .. n : i \in 0 .. n /\ i - 1 \in 0 .. n
    BY <1>2
  <2> HIDE DEF A
  <2> QED
    BY <1>2, <1>3, <1>4, <1>7, <2>1
<1>9. \A i \in 0 .. n : c[i] \in B[i]
  <2> HIDE DEF B
  <2> QED
    BY <1>2, <1>8, Along
<1>10. c[n] \in A
  <2> HIDE DEF A
  <2> QED
    BY <1>2, <1>9
<1>11. IsMatching(g, TwoHops(g, HeavyEdges(g)))
  BY <1>1, <1>10 DEF a
<1> QED
  BY <1>11, HeavyEdgesMatch DEF Matching

\* A lemma: two vertices have one number if they are matched, and only then.
LEMMA NumberingIs ==
    ASSUME NEW g, IsGraph(g), NEW match, match = Matching(g)
    PROVE  /\ Numbering(g) \in [Ids(g) -> Nat]
           /\ \A v, w \in Ids(g) : Numbering(g)[v] = Numbering(g)[w] <=> v = w \/ match[v] = w
<1> DEFINE first == [v \in Ids(g) |-> IF match[v] >= 0 /\ match[v] < v THEN match[v] ELSE v]
           firsts == {first[v] : v \in Ids(g)}
           less == {e \in firsts \X firsts : e[1] < e[2]}
           num == [v \in Ids(g) |-> Cardinality({u \in firsts : u < first[v]})]
<1>1. Numbering(g) = num
  BY DEF Numbering, Numbered
<1>2. IsMatching(g, match)
  BY MatchingIsMatching
<1>3. \A v \in Ids(g) : /\ v \in Nat /\ match[v] \in Int
                        /\ first[v] = IF match[v] >= 0 /\ match[v] < v THEN match[v] ELSE v
                        /\ match[v] >= 0 => match[v] \in Ids(g) /\ match[v] # v
                                            /\ match[match[v]] = v
  BY <1>2, MatchOrFree DEF IsMatching
<1> HIDE DEF first
<1>4. \A v \in Ids(g) : first[v] \in Ids(g) /\ first[v] \in Nat
  BY <1>3
<1>5. firsts \in SUBSET Nat /\ IsFiniteSet(firsts) /\ \A v \in Ids(g) : first[v] \in firsts
  <2>1. IsFiniteSet(Ids(g))
    BY DEF IsGraph
  <2> QED
    BY <1>4, <2>1, ImageIsFinite
<1> HIDE DEF firsts
<1>6. /\ \A u, v \in firsts : <<u, v>> \in less <=> u < v
  OBVIOUS
<1>7. IsOrder(less, firsts)
  <2> HIDE DEF less
  <2>1. \A u \in firsts : <<u, u>> \notin less
    BY <1>5, <1>6
  <2>2. ASSUME NEW u \in firsts, NEW v \in firsts, NEW w \in firsts,
               <<u, v>> \in less, <<v, w>> \in less
        PROVE  <<u, w>> \in less
    <3>1. u < v /\ v < w /\ u \in Nat /\ v \in Nat /\ w \in Nat
      BY <1>5, <1>6, <2>2
    <3> QED
      BY <1>6, <3>1
  <2>3. ASSUME NEW u \in firsts, NEW v \in firsts
        PROVE  u = v \/ <<u, v>> \in less \/ <<v, u>> \in less
    <3>1. u \in Nat /\ v \in Nat
      BY <1>5
    <3>2. u = v \/ u < v \/ v < u
      BY <3>1
    <3> QED
      BY <1>6, <3>2
  <2> QED
    BY <2>1, <2>2, <2>3 DEF IsOrder
<1>8. ASSUME NEW v \in Ids(g)
      PROVE  num[v] = Cardinality({u \in firsts : <<u, first[v]>> \in less})
  <2>1. {u \in firsts : u < first[v]} = {u \in firsts : <<u, first[v]>> \in less}
    <3> HIDE DEF less
    <3> QED
      BY <1>5, <1>6
  <2> QED
    BY <2>1
<1>9. \A v \in Ids(g) : num[v] \in Nat
  <2> SUFFICES ASSUME NEW v \in Ids(g) PROVE num[v] \in Nat
    OBVIOUS
  <2>1. IsFiniteSet({u \in firsts : u < first[v]})
    BY <1>5, FS_Subset
  <2> QED
    BY <2>1, FS_CardinalityType
<1>10. num = [v \in Ids(g) |-> num[v]]
  OBVIOUS
<1> HIDE DEF num, less
<1>11. ASSUME NEW v \in Ids(g), NEW w \in Ids(g)
       PROVE  num[v] = num[w] <=> first[v] = first[w]
  <2>1. num[v] = Cardinality(Preceding(firsts, less, first[v]))
    BY <1>8 DEF Preceding
  <2>2. num[w] = Cardinality(Preceding(firsts, less, first[w]))
    BY <1>8 DEF Preceding
  <2> QED
    BY <1>5, <1>7, <2>1, <2>2, Ranks
<1>12. ASSUME NEW v \in Ids(g), NEW w \in Ids(g)
       PROVE  first[v] = first[w] <=> v = w \/ match[v] = w
  <2>1. /\ v \in Nat /\ w \in Nat /\ match[v] \in Int /\ match[w] \in Int
        /\ first[v] = IF match[v] >= 0 /\ match[v] < v THEN match[v] ELSE v
        /\ first[w] = IF match[w] >= 0 /\ match[w] < w THEN match[w] ELSE w
    BY <1>3
  <2>2. ASSUME first[v] = first[w] PROVE v = w \/ match[v] = w
    <3>1. match[v] >= 0 /\ match[w] >= 0 /\ match[v] = match[w] => v = w
      BY <1>3
    <3>2. match[w] >= 0 /\ match[w] = v => match[v] = w
      BY <1>3
    <3> QED
      BY <2>1, <2>2, <3>1, <3>2
  <2>3. ASSUME match[v] = w PROVE first[v] = first[w]
    <3>1. match[v] >= 0
      BY <2>1, <2>3
    <3>2. match[w] = v /\ v # w
      BY <1>3, <2>3, <3>1
    <3> QED
      BY <2>1, <2>3, <3>1, <3>2
  <2> QED
    BY <2>2, <2>3
<1>13. num \in [Ids(g) -> Nat]
  BY <1>9, <1>10
<1> QED
  BY <1>1, <1>11, <1>12, <1>13

\* A lemma: maxvw, as a bound on a weight.
LEMMA WithinMaxWeight ==
    ASSUME GrandTotal \in Nat, NEW w \in Nat, w <= MaxWeight
    PROVE  w <= 1 \/ 2 * w * Coarsest <= 3 * GrandTotal
<1> DEFINE k == (3 * GrandTotal) \div (2 * Coarsest)
           total == 3 * GrandTotal
           twice == 2 * Coarsest
<1>1. Coarsest \in Nat \ {0}
  BY MultilevelAssumption DEF MultilevelAssumption
<1>2. total \in Nat /\ twice \in Nat \ {0}
  BY <1>1
<1>3. k \in Nat /\ twice * k <= total
  <2>1. k = total \div twice
    OBVIOUS
  <2> HIDE DEF total, twice, k
  <2> QED
    BY <1>2, <2>1
<1>4. MaxWeight = Max({1, k})
  BY DEF MaxWeight
<1> HIDE DEF k
<1>5. MaxWeight \in {1, k}
  <2>1. \E x \in {1, k} : \A y \in {1, k} : x >= y
    BY <1>3
  <2> QED
    BY <1>4, <2>1 DEF Max
<1>6. CASE MaxWeight = 1
  BY <1>6
<1>7. CASE MaxWeight = k
  <2> HIDE DEF twice, total
  <2>1. w <= k
    BY <1>7
  <2>2. twice * w <= twice * k /\ twice * w \in Nat /\ twice * k \in Nat
    BY <1>2, <1>3, <2>1
  <2>3. twice * w <= total
    BY <1>2, <1>3, <2>2
  <2>4. twice * w = 2 * w * Coarsest
    BY <1>1 DEF twice
  <2> QED
    BY <2>3, <2>4 DEF total
<1> QED
  BY <1>5, <1>6, <1>7

\* A lemma: a supernode is a vertex, or two that are light together.
LEMMA SupernodesAreLight ==
    ASSUME NEW g, IsGraph(g), GrandTotal \in Nat,
           NEW h, h = Contracted(g, Numbering(g)), NEW c \in Ids(h),
           NEW vs, vs = {v \in Ids(g) : Numbering(g)[v] = c}
    PROVE  \/ Cardinality(vs) = 1
           \/ /\ Cardinality(vs) = 2
              /\ h.vw[c] <= 1 \/ 2 * h.vw[c] * Coarsest <= 3 * GrandTotal
<1> DEFINE num == Numbering(g)
           match == Matching(g)
<1>1. num \in [Ids(g) -> Nat] /\ IsMatching(g, match)
  BY NumberingIs, MatchingIsMatching
<1>2. \A v, w \in Ids(g) : num[v] = num[w] <=> v = w \/ match[v] = w
  BY NumberingIs
<1>3. Ids(h) = {num[v] : v \in Ids(g)} /\ h.vw[c] = Weight(g, vs)
  <2>1. h.vw[c] = Weight(g, {v \in Ids(g) : num[v] = c}) /\ Ids(h) = {num[v] : v \in Ids(g)}
    BY <1>1, ContractedIsGraph
  <2> HIDE DEF num
  <2> QED
    BY <2>1 DEF num
<1> HIDE DEF num, match
<1>4. PICK v \in Ids(g) : num[v] = c
  BY <1>3
<1>5. \A w : w \in vs <=> w \in Ids(g) /\ num[w] = c
  BY DEF num
<1>6. \A w : w \in vs <=> w \in Ids(g) /\ (v = w \/ match[v] = w)
  BY <1>2, <1>4, <1>5
<1>7. CASE match[v] < 0
  <2>1. \A w \in Ids(g) : match[v] # w
    <3>1. \A w \in Ids(g) : w \in Nat
      BY DEF IsGraph
    <3> QED
      BY <1>7, <3>1
  <2>2. vs = {v}
    BY <1>6, <2>1
  <2> QED
    BY <2>2, FS_Singleton
<1>8. CASE ~(match[v] < 0)
  <2> DEFINE u == match[v]
  <2>1. u \in Ids(g) /\ u # v /\ g.vw[v] + g.vw[u] <= MaxWeight
    BY <1>1, <1>8, MatchOrFree DEF IsMatching
  <2> HIDE DEF u
  <2>2. vs = {v, u}
    BY <1>6, <2>1 DEF u
  <2>3. Cardinality(vs) = 2
    <3>1. IsFiniteSet({v}) /\ Cardinality({v}) = 1 /\ u \notin {v}
      BY <2>1, FS_Singleton
    <3>2. Cardinality({v} \cup {u}) = Cardinality({v}) + 1
      BY <3>1, FS_AddElement
    <3>3. vs = {v} \cup {u}
      BY <2>2
    <3> QED
      BY <3>1, <3>2, <3>3
  <2>4. Weight(g, vs) = g.vw[v] + g.vw[u] /\ g.vw[v] \in Nat /\ g.vw[u] \in Nat
    <3>1. g.vw[v] \in Nat /\ g.vw[u] \in Nat
      BY <2>1 DEF IsGraph
    <3>2. IsFiniteSet({v, u}) /\ \A w \in {v, u} : g.vw[w] \in Int
      <4>1. {v, u} \in SUBSET Ids(g)
        BY <2>1
      <4> QED
        BY <3>1, <4>1, GraphSums
    <3>3. SumFunctionOnSet(g.vw, {v, u}) = g.vw[v] + SumFunctionOnSet(g.vw, {v, u} \ {v})
      BY <3>2, SumWithout
    <3>4. {v, u} \ {v} = {u} /\ IsFiniteSet({u}) /\ IsFiniteSet({}) /\ {u} \ {u} = {}
      BY <2>1, FS_Singleton, FS_EmptySet
    <3>5. SumFunctionOnSet(g.vw, {u}) = g.vw[u] + SumFunctionOnSet(g.vw, {u} \ {u})
      BY <3>1, <3>4, SumWithout
    <3>6. SumFunctionOnSet(g.vw, {}) = 0
      BY <3>4, SumUnfolds
    <3>7. SumFunctionOnSet(g.vw, {u}) = g.vw[u]
      BY <3>1, <3>4, <3>5, <3>6
    <3>8. SumFunctionOnSet(g.vw, {v, u}) = g.vw[v] + g.vw[u]
      BY <3>3, <3>4, <3>7
    <3> QED
      BY <2>2, <3>1, <3>8 DEF Weight
  <2>5. h.vw[c] \in Nat /\ h.vw[c] <= MaxWeight
    BY <1>3, <2>1, <2>4
  <2>6. h.vw[c] <= 1 \/ 2 * h.vw[c] * Coarsest <= 3 * GrandTotal
    BY <2>5, WithinMaxWeight
  <2> QED
    BY <2>3, <2>6
<1> QED
  BY <1>7, <1>8

-----------------------------------------------------------------------------
(* The multilevel run.                                                     *)

\* The partition p of the coarse graph carried to the fine one.
Carried(fine, m, p) == [v \in Ids(fine) |-> p[m[v]]]

\* What CoarseningIsFaithful says of a level, and that m maps it to the next.
Faithful(fine, m, coarse, total) ==
    /\ m \in [Ids(fine) -> Ids(coarse)]
    /\ \A p \in [Ids(coarse) -> Parts] :
          /\ EdgeCut(fine, Carried(fine, m, p)) = EdgeCut(coarse, p)
          /\ \A d \in Parts : LoadIn(fine, Carried(fine, m, p), d) = LoadIn(coarse, p, d)
    /\ \A c \in Ids(coarse) :
          \/ Cardinality({v \in Ids(fine) : m[v] = c}) = 1
          \/ /\ Cardinality({v \in Ids(fine) : m[v] = c}) = 2
             /\ coarse.vw[c] <= 1 \/ 2 * coarse.vw[c] * Coarsest <= 3 * total

\* The levels built so far: each is a graph, and each but the last is carried
\* faithfully to the next.
LevelsInv ==
    /\ (\E S : graphs \in Seq(S)) /\ (\E S : cmaps \in Seq(S))
    /\ Len(graphs) = Len(cmaps) + 1
    /\ \A k \in 1 .. Len(graphs) : IsGraph(graphs[k])
    /\ \A k \in 1 .. Len(cmaps) : Faithful(graphs[k], cmaps[k], graphs[k + 1], GrandTotal)

\* The partition at hand is one of the level at hand, and bestCut is its cut
\* while starts are tried.
PlaceInv ==
    /\ step = "coarsen" => bestCut = -1
    /\ step = "start" => \/ bestCut = -1
                         \/ /\ mlPart \in [Ids(Coarser) -> Parts]
                            /\ bestCut = EdgeCut(Coarser, mlPart)
    /\ step = "uncoarsen" => /\ level \in 2 .. Len(graphs)
                             /\ mlPart \in [Ids(graphs[level]) -> Parts]
    /\ step \in {"balance", "again", "finished"} => mlPart \in [Ids(graphs[1]) -> Parts]

\* The inductive invariant of the multilevel mode.
MlInv ==
    /\ step \in {"coarsen", "start", "uncoarsen", "balance", "again", "finished"}
    /\ ratio \in [Parts -> Int]
    /\ LevelsInv /\ PlaceInv

\* A lemma: one level of coarsening is faithful.
LEMMA ContractionIsFaithful ==
    ASSUME NEW g, IsGraph(g), GrandTotal \in Nat,
           NEW m, m = Numbering(g), NEW h, h = Contracted(g, m)
    PROVE  IsGraph(h) /\ Faithful(g, m, h, GrandTotal)
<1>1. m \in [Ids(g) -> Nat]
  BY NumberingIs
<1>2. IsGraph(h) /\ m \in [Ids(g) -> Ids(h)]
  BY <1>1, ContractedIsGraph
<1>3. ASSUME NEW p \in [Ids(h) -> Parts]
      PROVE  /\ EdgeCut(g, Carried(g, m, p)) = EdgeCut(h, p)
             /\ \A d \in Parts : LoadIn(g, Carried(g, m, p), d) = LoadIn(h, p, d)
  <2>1. Carried(g, m, p) = [v \in Ids(g) |-> p[m[v]]]
    BY DEF Carried
  <2> QED
    BY <1>1, <2>1, ContractionKeeps
<1>4. ASSUME NEW c \in Ids(h)
      PROVE  \/ Cardinality({v \in Ids(g) : m[v] = c}) = 1
             \/ /\ Cardinality({v \in Ids(g) : m[v] = c}) = 2
                /\ h.vw[c] <= 1 \/ 2 * h.vw[c] * Coarsest <= 3 * GrandTotal
  <2> DEFINE vs == {v \in Ids(g) : m[v] = c}
  <2>1. vs = {v \in Ids(g) : Numbering(g)[v] = c} /\ h = Contracted(g, Numbering(g))
    OBVIOUS
  <2> HIDE DEF vs
  <2>2. \/ Cardinality(vs) = 1
        \/ /\ Cardinality(vs) = 2
           /\ h.vw[c] <= 1 \/ 2 * h.vw[c] * Coarsest <= 3 * GrandTotal
    BY <2>1, SupernodesAreLight
  <2> QED
    BY <2>2 DEF vs
<1> QED
  BY <1>2, <1>3, <1>4 DEF Faithful

\* A lemma: what the invariant says of the levels.
LEMMA LevelsAre ==
    ASSUME MlInv
    PROVE  /\ Len(cmaps) \in Nat /\ Len(graphs) \in Nat /\ Len(graphs) >= 1
           /\ Len(graphs) = Len(cmaps) + 1
           /\ DOMAIN cmaps = 1 .. Len(cmaps) /\ DOMAIN graphs = 1 .. Len(graphs)
           /\ \A k \in 1 .. Len(graphs) : IsGraph(graphs[k])
           /\ \A k \in 1 .. Len(cmaps) :
                 Faithful(graphs[k], cmaps[k], graphs[k + 1], GrandTotal)
           /\ IsGraph(graphs[1]) /\ IsGraph(Coarser) /\ Coarser = graphs[Len(graphs)]
           /\ GrandTotal \in Nat
           /\ \A d \in Parts : TightCap[d][1] \in Int /\ TightCap[d][2] \in Nat
           /\ \A d \in Parts : LooseCap[d][1] \in Int /\ LooseCap[d][2] \in Nat
<1>1. LevelsInv /\ ratio \in [Parts -> Int]
  BY DEF MlInv
<1>2. /\ Len(cmaps) \in Nat /\ DOMAIN cmaps = 1 .. Len(cmaps)
      /\ Len(graphs) \in Nat /\ DOMAIN graphs = 1 .. Len(graphs)
  <2>1. PICK S : graphs \in Seq(S)
    BY <1>1 DEF LevelsInv
  <2>2. PICK T : cmaps \in Seq(T)
    BY <1>1 DEF LevelsInv
  <2> QED
    BY <2>1, <2>2
<1>3. /\ Len(graphs) = Len(cmaps) + 1 /\ Len(graphs) >= 1
      /\ \A k \in 1 .. Len(graphs) : IsGraph(graphs[k])
      /\ \A k \in 1 .. Len(cmaps) : Faithful(graphs[k], cmaps[k], graphs[k + 1], GrandTotal)
  BY <1>1, <1>2 DEF LevelsInv
<1>4. IsGraph(graphs[1]) /\ IsGraph(Coarser) /\ Coarser = graphs[Len(graphs)]
  BY <1>2, <1>3 DEF Coarser
<1> QED
  BY <1>1, <1>2, <1>3, <1>4, CapsAreNumbers

\* A lemma: the run starts with one graph.
LEMMA MlInitHolds == MlInit => MlInv
<1> SUFFICES ASSUME MlInit PROVE MlInv
  OBVIOUS
<1>1. PICK i \in InputGraphs : graphs = <<i.graph>> /\ ratio = i.ratio
  BY DEF MlInit
<1>2. IsGraph(i.graph) /\ ratio \in [Parts -> Int]
  BY <1>1, MultilevelAssumption DEF MultilevelAssumption
<1>3. step = "coarsen" /\ cmaps = << >> /\ bestCut = -1
  BY DEF MlInit
<1>4. graphs \in Seq({i.graph}) /\ cmaps \in Seq({}) /\ Len(graphs) = 1 /\ Len(cmaps) = 0
      /\ graphs[1] = i.graph
  BY <1>1, <1>3
<1>5. \A k \in 1 .. Len(graphs) : IsGraph(graphs[k])
  BY <1>2, <1>4
<1>6. LevelsInv
  <2>1. 1 .. Len(cmaps) = {} /\ Len(graphs) = Len(cmaps) + 1
    BY <1>4
  <2> QED
    BY <1>4, <1>5, <2>1 DEF LevelsInv
<1>7. PlaceInv
  BY <1>3 DEF PlaceInv
<1> QED
  BY <1>2, <1>3, <1>6, <1>7 DEF MlInv

\* A lemma: coarsening adds a level.
LEMMA CoarsenKeeps == ASSUME MlInv, Coarsen PROVE MlInv'
<1> DEFINE g == Coarser
           m == Numbering(g)
           h == Contracted(g, m)
           n == Len(graphs)
<1>1. /\ step = "coarsen" /\ step' \in {"coarsen", "start"}
      /\ cmaps' = Append(cmaps, m) /\ graphs' = Append(graphs, h)
      /\ ratio' = ratio /\ bestCut' = bestCut
  BY DEF Coarsen
<1>2. IsGraph(g) /\ g = graphs[n] /\ n \in Nat /\ n >= 1 /\ Len(cmaps) = n - 1
  BY LevelsAre
<1>3. IsGraph(h) /\ Faithful(g, m, h, GrandTotal)
  BY <1>2, LevelsAre, ContractionIsFaithful
<1> HIDE DEF g, m, h
<1>4. /\ \E S : graphs' \in Seq(S)
      /\ Len(graphs') = n + 1 /\ graphs'[n + 1] = h
      /\ \A k \in 1 .. n : graphs'[k] = graphs[k]
  <2>1. PICK S : graphs \in Seq(S)
    BY DEF MlInv, LevelsInv
  <2>2. graphs \in Seq(S \cup {h}) /\ h \in S \cup {h}
    BY <2>1
  <2>3. graphs' \in Seq(S \cup {h})
    BY <1>1, <2>2
  <2> QED
    BY <1>1, <2>2, <2>3
<1>5. /\ \E S : cmaps' \in Seq(S)
      /\ Len(cmaps') = n /\ cmaps'[n] = m
      /\ \A k \in 1 .. n - 1 : cmaps'[k] = cmaps[k]
  <2>1. PICK S : cmaps \in Seq(S)
    BY DEF MlInv, LevelsInv
  <2>2. cmaps \in Seq(S \cup {m}) /\ m \in S \cup {m}
    BY <2>1
  <2>3. cmaps' \in Seq(S \cup {m})
    BY <1>1, <2>2
  <2>4. Len(cmaps') = Len(cmaps) + 1 /\ cmaps'[Len(cmaps) + 1] = m
        /\ \A k \in 1 .. Len(cmaps) : cmaps'[k] = cmaps[k]
    BY <1>1, <2>2
  <2>5. Len(cmaps) + 1 = n
    BY <1>2
  <2> QED
    BY <1>2, <2>3, <2>4, <2>5
<1> HIDE DEF n
<1>6. GrandTotal' = GrandTotal
  BY <1>2, <1>4 DEF GrandTotal, Size
<1>7. \A k \in 1 .. n + 1 : IsGraph(graphs'[k])
  <2>1. \A k \in 1 .. n + 1 : k = n + 1 \/ k \in 1 .. n
    BY <1>2
  <2>2. \A k \in 1 .. n : IsGraph(graphs[k])
    BY LevelsAre DEF n
  <2> QED
    BY <1>3, <1>4, <2>1, <2>2
<1>8. \A k \in 1 .. n : Faithful(graphs'[k], cmaps'[k], graphs'[k + 1], GrandTotal)
  <2> SUFFICES ASSUME NEW k \in 1 .. n
               PROVE  Faithful(graphs'[k], cmaps'[k], graphs'[k + 1], GrandTotal)
    OBVIOUS
  <2>1. CASE k = n
    BY <1>2, <1>3, <1>4, <1>5, <2>1
  <2>2. CASE k # n
    <3>1. k \in 1 .. n - 1 /\ k + 1 \in 1 .. n
      BY <1>2, <2>2
    <3>2. Faithful(graphs[k], cmaps[k], graphs[k + 1], GrandTotal)
      BY <1>2, <3>1, LevelsAre
    <3> QED
      BY <1>4, <1>5, <3>1, <3>2
  <2> QED
    BY <2>1, <2>2
<1>9. LevelsInv'
  BY <1>4, <1>5, <1>6, <1>7, <1>8 DEF LevelsInv
<1>10. PlaceInv'
  BY <1>1 DEF PlaceInv, MlInv
<1> QED
  BY <1>1, <1>9, <1>10 DEF MlInv

\* A lemma: the levels are left alone after coarsening.
LEMMA LevelsStay ==
    ASSUME MlInv, graphs' = graphs, cmaps' = cmaps PROVE LevelsInv'
<1>1. GrandTotal' = GrandTotal
  BY DEF GrandTotal, Size
<1> QED
  BY <1>1 DEF MlInv, LevelsInv

\* A lemma: a start that is tried is a partition, and the better of two.
LEMMA TryStartKeeps ==
    ASSUME MlInv, step = "start", NEW p0 \in [Ids(Coarser) -> Parts], TryStart(p0)
    PROVE  /\ mlPart' \in [Ids(Coarser) -> Parts]
           /\ bestCut' = EdgeCut(Coarser, mlPart')
           /\ bestCut < 0 \/ bestCut' <= bestCut
           /\ ratio' = ratio /\ graphs' = graphs /\ cmaps' = cmaps
<1> DEFINE p == RefineKway(Coarser, p0, TightCap, 8)
           cut == EdgeCut(Coarser, p)
<1>1. /\ bestCut' = IF BetterCut(cut) THEN cut ELSE bestCut
      /\ mlPart' = IF BetterCut(cut) THEN p ELSE mlPart
      /\ ratio' = ratio /\ graphs' = graphs /\ cmaps' = cmaps
  BY DEF TryStart, KeepBetter
<1>2. p \in [Ids(Coarser) -> Parts]
  BY LevelsAre, RefineKwayEases DEF Eases
<1>3. cut \in Nat /\ EdgeCut(Coarser, mlPart) \in Nat
  BY LevelsAre, GraphSums
<1>4. \/ bestCut = -1
      \/ mlPart \in [Ids(Coarser) -> Parts] /\ bestCut = EdgeCut(Coarser, mlPart)
  BY DEF MlInv, PlaceInv
<1>5. cut = EdgeCut(Coarser, p)
  OBVIOUS
<1> HIDE DEF p, cut
<1>6. CASE BetterCut(cut)
  <2>1. bestCut' = cut /\ mlPart' = p
    BY <1>1, <1>6
  <2>2. bestCut < 0 \/ cut < bestCut
    BY <1>6 DEF BetterCut
  <2>3. bestCut \in Int
    BY <1>3, <1>4
  <2>4. bestCut < 0 \/ cut <= bestCut
    BY <1>3, <2>2, <2>3
  <2> QED
    BY <1>1, <1>2, <1>5, <2>1, <2>4
<1>7. CASE ~BetterCut(cut)
  <2>1. ~(bestCut < 0)
    BY <1>7 DEF BetterCut
  <2>2. bestCut # -1
    BY <2>1
  <2>3. mlPart \in [Ids(Coarser) -> Parts] /\ bestCut = EdgeCut(Coarser, mlPart)
    BY <1>4, <2>2
  <2>4. bestCut' = bestCut /\ mlPart' = mlPart
    BY <1>1, <1>7
  <2>5. bestCut <= bestCut
    BY <1>3, <2>3
  <2> QED
    BY <1>1, <2>3, <2>4, <2>5
<1> QED
  BY <1>6, <1>7

\* A lemma: both kinds of starts are tried on a partition.
LEMMA StartKeeps ==
    ASSUME MlInv, GrowStart \/ BisectStart
    PROVE  /\ MlInv'
           /\ step = "start" /\ bestCut' = EdgeCut(Coarser, mlPart')
           /\ bestCut < 0 \/ bestCut' <= bestCut
<1>1. step = "start" /\ IsGraph(Coarser)
  BY LevelsAre DEF GrowStart, BisectStart
<1>2. \E p0 \in [Ids(Coarser) -> Parts] : TryStart(p0)
  <2>1. CASE GrowStart
    <3>1. PICK vs \in GrowthOrders(Coarser) : TryStart(Grown(Coarser, vs))
      BY <2>1 DEF GrowStart
    <3> QED
      BY <1>1, <3>1, GrownIsPartition
  <2>2. CASE BisectStart
    BY <2>2, BisectedIsPartition DEF BisectStart
  <2> QED
    BY <2>1, <2>2
<1>3. /\ mlPart' \in [Ids(Coarser) -> Parts]
      /\ bestCut' = EdgeCut(Coarser, mlPart')
      /\ bestCut < 0 \/ bestCut' <= bestCut
      /\ ratio' = ratio /\ graphs' = graphs /\ cmaps' = cmaps
  BY <1>1, <1>2, TryStartKeeps
<1>4. Coarser' = Coarser
  BY <1>3 DEF Coarser
<1>5. LevelsInv'
  BY <1>3, LevelsStay
<1>6. CASE GrowStart
  <2>1. step' = "start"
    BY <1>1, <1>6 DEF GrowStart
  <2>2. PlaceInv'
    BY <1>3, <1>4, <2>1 DEF PlaceInv
  <2> QED
    BY <1>1, <1>3, <1>5, <2>1, <2>2 DEF MlInv
<1>7. CASE BisectStart
  <2>1. /\ level' = Len(graphs)
        /\ step' = IF level' = 1 THEN "finished" ELSE "uncoarsen"
    BY <1>7 DEF BisectStart
  <2>2. Len(graphs) \in Nat /\ Len(graphs) >= 1 /\ Coarser = graphs[Len(graphs)]
    BY LevelsAre
  <2>3. PlaceInv'
    <3>1. CASE level' = 1
      <4>1. step' = "finished" /\ graphs'[1] = Coarser
        BY <1>3, <2>1, <2>2, <3>1
      <4> QED
        BY <1>3, <4>1 DEF PlaceInv
    <3>2. CASE level' # 1
      <4>1. step' = "uncoarsen" /\ level' \in 2 .. Len(graphs') /\ graphs'[level'] = Coarser
        BY <1>3, <2>1, <2>2, <3>2
      <4> QED
        BY <1>3, <4>1 DEF PlaceInv
    <3> QED
      BY <3>1, <3>2
  <2> QED
    BY <1>1, <1>3, <1>5, <2>1, <2>3 DEF MlInv
<1> QED
  BY <1>1, <1>3, <1>6, <1>7

\* A lemma: on the way back the partition is carried down a level and refined.
LEMMA UncoarsenKeeps ==
    ASSUME MlInv, Uncoarsen
    PROVE  MlInv' /\ EdgeCut(graphs[level'], mlPart') <= EdgeCut(graphs[level], mlPart)
<1> DEFINE k == level - 1
           cap == IF level' > 1 THEN LooseCap ELSE TightCap
<1>1. /\ step = "uncoarsen" /\ level' = k
      /\ mlPart' = RefineKway(graphs[level'], Projected, cap, Passes(graphs[level']))
      /\ step' = IF level' = 1 THEN "balance" ELSE "uncoarsen"
      /\ ratio' = ratio /\ graphs' = graphs /\ cmaps' = cmaps
  BY DEF Uncoarsen
<1>2. level \in 2 .. Len(graphs) /\ mlPart \in [Ids(graphs[level]) -> Parts]
  BY <1>1 DEF MlInv, PlaceInv
<1>3. /\ k \in 1 .. Len(cmaps) /\ k \in 1 .. Len(graphs) /\ k + 1 = level /\ k \in Nat
      /\ k # 1 => k \in 2 .. Len(graphs)
  BY <1>2, LevelsAre
<1> HIDE DEF k
<1>4. IsGraph(graphs[k]) /\ Faithful(graphs[k], cmaps[k], graphs[level], GrandTotal)
  BY <1>3, LevelsAre
<1>5. Projected = Carried(graphs[k], cmaps[k], mlPart)
  BY DEF Projected, Carried, k
<1>6. /\ Projected \in [Ids(graphs[k]) -> Parts]
      /\ EdgeCut(graphs[k], Projected) = EdgeCut(graphs[level], mlPart)
  <2>1. cmaps[k] \in [Ids(graphs[k]) -> Ids(graphs[level])]
    BY <1>4 DEF Faithful
  <2>2. Carried(graphs[k], cmaps[k], mlPart) \in [Ids(graphs[k]) -> Parts]
    BY <1>2, <2>1 DEF Carried
  <2>3. EdgeCut(graphs[k], Carried(graphs[k], cmaps[k], mlPart)) = EdgeCut(graphs[level], mlPart)
    BY <1>2, <1>4 DEF Faithful
  <2> QED
    BY <1>5, <2>2, <2>3
<1>7. \A d \in Parts : cap[d][1] \in Int /\ cap[d][2] \in Nat
  BY LevelsAre
<1> HIDE DEF cap
<1>8. Eases(graphs[k], Parts, cap, Projected, mlPart')
  <2>1. Passes(graphs[k]) \in Nat
    BY DEF Passes
  <2> QED
    BY <1>1, <1>4, <1>6, <1>7, <2>1, RefineKwayEases
<1>9. EdgeCut(graphs[level'], mlPart') <= EdgeCut(graphs[level], mlPart)
  BY <1>1, <1>6, <1>8 DEF Eases
<1>10. PlaceInv'
  <2>1. mlPart' \in [Ids(graphs'[k]) -> Parts]
    BY <1>1, <1>8 DEF Eases
  <2>2. CASE k = 1
    BY <1>1, <2>1, <2>2 DEF PlaceInv
  <2>3. CASE k # 1
    <3>1. step' = "uncoarsen" /\ level' \in 2 .. Len(graphs')
      BY <1>1, <1>3, <2>3
    <3> QED
      BY <1>1, <2>1, <3>1 DEF PlaceInv
  <2> QED
    BY <2>2, <2>3
<1>11. LevelsInv'
  BY <1>1, LevelsStay
<1>12. MlInv'
  BY <1>1, <1>10, <1>11 DEF MlInv
<1> QED
  BY <1>9, <1>12

\* A lemma: the balance pass at the finest level.
LEMMA BalanceKeeps ==
    ASSUME MlInv, Balance
    PROVE  /\ MlInv' /\ step = "balance"
           /\ \A d \in Parts : Within(graphs[1], mlPart, d) => Within(graphs[1], mlPart', d)
           /\ \A d \in Parts : Within(graphs[1], mlPart', d)
                  \/ \A v \in Ids(graphs[1]) :
                        mlPart'[v] = d => NoRoom(graphs[1], mlPart', graphs[1].vw[v])
<1> DEFINE g == graphs[1]
           q == BalanceKway(g, mlPart, TightCap)
<1>1. /\ step = "balance" /\ step' = "again" /\ mlPart' = q
      /\ ratio' = ratio /\ graphs' = graphs /\ cmaps' = cmaps
  BY DEF Balance
<1>2. IsGraph(g) /\ mlPart \in [Ids(g) -> Parts]
  BY <1>1, LevelsAre DEF MlInv, PlaceInv
<1>3. Restores(g, TightCap, mlPart, q) /\ \A v \in Ids(g) : Settled(g, TightCap, q, v)
  BY <1>2, LevelsAre, BalanceKwayRestores
<1> HIDE DEF q
<1>4. PlaceInv'
  <2>1. mlPart' \in [Ids(graphs'[1]) -> Parts]
    BY <1>1, <1>3 DEF Restores
  <2> QED
    BY <1>1, <2>1 DEF PlaceInv
<1>5. LevelsInv'
  BY <1>1, LevelsStay
<1>6. MlInv'
  BY <1>1, <1>4, <1>5 DEF MlInv
<1>7. \A d \in Parts : Within(graphs[1], mlPart, d) => Within(graphs[1], mlPart', d)
  BY <1>1, <1>3 DEF Restores, Within
<1>8. ASSUME NEW d \in Parts, NEW v \in Ids(g), mlPart'[v] = d
      PROVE  Within(g, mlPart', d) \/ NoRoom(g, mlPart', g.vw[v])
  <2>1. Settled(g, TightCap, q, v) /\ q[v] = d
    BY <1>1, <1>3, <1>8
  <2> QED
    BY <1>1, <2>1 DEF Settled, Crowded, Within, NoRoom
<1> QED
  BY <1>1, <1>6, <1>7, <1>8

\* A lemma: the refinement after it.
LEMMA RefineAgainKeeps ==
    ASSUME MlInv, RefineAgain
    PROVE  /\ MlInv' /\ step = "again"
           /\ EdgeCut(graphs[1], mlPart') <= EdgeCut(graphs[1], mlPart)
           /\ \A d \in Parts : Within(graphs[1], mlPart, d) => Within(graphs[1], mlPart', d)
<1> DEFINE g == graphs[1]
<1>1. /\ step = "again" /\ step' = "finished" /\ mlPart' = RefineKway(g, mlPart, TightCap, 2)
      /\ ratio' = ratio /\ graphs' = graphs /\ cmaps' = cmaps
  BY DEF RefineAgain
<1>2. IsGraph(g) /\ mlPart \in [Ids(g) -> Parts]
  BY <1>1, LevelsAre DEF MlInv, PlaceInv
<1>3. Eases(g, Parts, TightCap, mlPart, mlPart')
  <2>1. 2 \in Nat
    OBVIOUS
  <2> QED
    BY <1>1, <1>2, <2>1, LevelsAre, RefineKwayEases
<1>4. PlaceInv'
  <2>1. mlPart' \in [Ids(graphs'[1]) -> Parts]
    BY <1>1, <1>3 DEF Eases
  <2> QED
    BY <1>1, <2>1 DEF PlaceInv
<1>5. LevelsInv'
  BY <1>1, LevelsStay
<1>6. MlInv'
  BY <1>1, <1>4, <1>5 DEF MlInv
<1> QED
  BY <1>1, <1>3, <1>6 DEF Eases, Within

\* A lemma: a step keeps the invariant, or changes nothing.
LEMMA MlInvStep == ASSUME MlInv, [MlNext]_mlVars PROVE MlInv'
<1>1. CASE Coarsen
  BY <1>1, CoarsenKeeps
<1>2. CASE StopCoarsening
  <2>1. /\ step = "coarsen" /\ step' = "start" /\ bestCut' = bestCut
        /\ ratio' = ratio /\ graphs' = graphs /\ cmaps' = cmaps
    BY <1>2 DEF StopCoarsening
  <2>2. PlaceInv'
    BY <2>1 DEF PlaceInv, MlInv
  <2> QED
    BY <2>1, <2>2, LevelsStay DEF MlInv
<1>3. CASE GrowStart \/ BisectStart
  BY <1>3, StartKeeps
<1>4. CASE Uncoarsen
  BY <1>4, UncoarsenKeeps
<1>5. CASE Balance
  BY <1>5, BalanceKeeps
<1>6. CASE RefineAgain
  BY <1>6, RefineAgainKeeps
<1>7. CASE UNCHANGED mlVars
  <2>1. /\ step' = step /\ ratio' = ratio /\ graphs' = graphs /\ cmaps' = cmaps
        /\ bestCut' = bestCut /\ mlPart' = mlPart /\ level' = level
    BY <1>7 DEF mlVars
  <2>2. PlaceInv'
    BY <2>1 DEF PlaceInv, MlInv, Coarser
  <2> QED
    BY <2>1, <2>2, LevelsStay DEF MlInv
<1> QED
  BY <1>1, <1>2, <1>3, <1>4, <1>5, <1>6, <1>7 DEF MlNext

\* The invariant of the multilevel run: every level is a graph that is carried
\* faithfully to the next, and the partition is one of the level at hand
\* (coarsen, the starts and the way back in main).
THEOREM MultilevelInvariant == MlSpec => []MlInv
<1>1. MlInit => MlInv
  BY MlInitHolds
<1>2. MlInv /\ [MlNext]_mlVars => MlInv'
  BY MlInvStep
<1> QED
  BY <1>1, <1>2, PTL DEF MlSpec

\* Whatever is decided on a coarse level costs on the fine one what it costs
\* there, for every graph, however the vertices are matched, and supernodes stay
\* light (build_csr and the two passes of coarsen).
THEOREM CoarseningStaysFaithful == MlSpec => []CoarseningIsFaithful
<1>1. MlInv => CoarseningIsFaithful
  <2> SUFFICES ASSUME MlInv PROVE CoarseningIsFaithful
    OBVIOUS
  <2>1. ASSUME NEW k \in DOMAIN cmaps
        PROVE  LET fine == graphs[k] coarse == graphs[k + 1] IN
               /\ \A p \in [Ids(coarse) -> Parts] :
                     LET q == [v \in Ids(fine) |-> p[cmaps[k][v]]] IN
                     /\ EdgeCut(fine, q) = EdgeCut(coarse, p)
                     /\ \A d \in Parts : LoadIn(fine, q, d) = LoadIn(coarse, p, d)
               /\ \A c \in Ids(coarse) :
                     LET vs == {v \in Ids(fine) : cmaps[k][v] = c} IN
                     \/ Cardinality(vs) = 1
                     \/ /\ Cardinality(vs) = 2
                        /\ coarse.vw[c] <= 1 \/ 2 * coarse.vw[c] * Coarsest <= 3 * GrandTotal
    <3>1. Faithful(graphs[k], cmaps[k], graphs[k + 1], GrandTotal)
      BY LevelsAre
    <3> QED
      BY <3>1 DEF Faithful, Carried
  <2> QED
    BY <2>1 DEF CoarseningIsFaithful
<1> QED
  BY <1>1, MultilevelInvariant, PTL

\* The best cut of the starts is the best, and the way back never raises the
\* cut: neither the change of level nor a pass of refine_kway does (main).
THEOREM CutNeverRises == MlSpec => CutOnlyFalls
<1>1. MlInv /\ [MlNext]_mlVars
      => [/\ step = "start" => /\ bestCut' = EdgeCut(Coarser, mlPart')
                               /\ bestCut < 0 \/ bestCut' <= bestCut
          /\ step = "uncoarsen" =>
                 EdgeCut(graphs[level'], mlPart') <= EdgeCut(graphs[level], mlPart)
          /\ step = "again" => EdgeCut(graphs[1], mlPart') <= EdgeCut(graphs[1], mlPart)]_mlVars
  <2> SUFFICES ASSUME MlInv, MlNext
               PROVE  /\ step = "start" => /\ bestCut' = EdgeCut(Coarser, mlPart')
                                           /\ bestCut < 0 \/ bestCut' <= bestCut
                      /\ step = "uncoarsen" =>
                             EdgeCut(graphs[level'], mlPart') <= EdgeCut(graphs[level], mlPart)
                      /\ step = "again" =>
                             EdgeCut(graphs[1], mlPart') <= EdgeCut(graphs[1], mlPart)
    OBVIOUS
  <2>1. CASE Coarsen \/ StopCoarsening
    BY <2>1 DEF Coarsen, StopCoarsening
  <2>2. CASE GrowStart \/ BisectStart
    BY <2>2, StartKeeps
  <2>3. CASE Uncoarsen
    BY <2>3, UncoarsenKeeps DEF Uncoarsen
  <2>4. CASE Balance
    BY <2>4 DEF Balance
  <2>5. CASE RefineAgain
    BY <2>5, RefineAgainKeeps
  <2> QED
    BY <2>1, <2>2, <2>3, <2>4, <2>5 DEF MlNext
<1> QED
  BY <1>1, MultilevelInvariant, PTL DEF MlSpec, CutOnlyFalls

\* After the balance pass no part is overfull that has a vertex with room
\* elsewhere, and from then on no part becomes overfull (balance_kway, main).
THEOREM BalanceRestores == MlSpec => CapacitiesAreRestored
<1>1. MlInv /\ [MlNext]_mlVars
      => [/\ step = "balance" =>
                 \A d \in Parts : Within(graphs[1], mlPart', d)
                     \/ \A v \in Ids(graphs[1]) :
                           mlPart'[v] = d => NoRoom(graphs[1], mlPart', graphs[1].vw[v])
          /\ step \in {"balance", "again"} =>
                 \A d \in Parts :
                     Within(graphs[1], mlPart, d) => Within(graphs[1], mlPart', d)]_mlVars
  <2> SUFFICES ASSUME MlInv, MlNext
               PROVE  /\ step = "balance" =>
                             \A d \in Parts : Within(graphs[1], mlPart', d)
                                 \/ \A v \in Ids(graphs[1]) : mlPart'[v] = d =>
                                        NoRoom(graphs[1], mlPart', graphs[1].vw[v])
                      /\ step \in {"balance", "again"} =>
                             \A d \in Parts :
                                 Within(graphs[1], mlPart, d) => Within(graphs[1], mlPart', d)
    OBVIOUS
  <2>1. CASE Coarsen \/ StopCoarsening \/ GrowStart \/ BisectStart \/ Uncoarsen
    BY <2>1 DEF Coarsen, StopCoarsening, GrowStart, BisectStart, Uncoarsen
  <2>2. CASE Balance
    BY <2>2, BalanceKeeps
  <2>3. CASE RefineAgain
    BY <2>3, RefineAgainKeeps
  <2> QED
    BY <2>1, <2>2, <2>3 DEF MlNext
<1> QED
  BY <1>1, MultilevelInvariant, PTL DEF MlSpec, CapacitiesAreRestored

-----------------------------------------------------------------------------
(* Vertices that weigh 1 leave no part overfull.                           *)

\* A lemma: the shares, and the targets that are the shares rounded up.
LEMMA TargetsCover ==
    ASSUME IsGraph(graphs[1]), ratio \in [Parts -> Int]
    PROVE  LET sum == SumFunctionOnSet(Shares, Parts) IN
           /\ sum \in Nat \ {0} /\ GrandTotal \in Nat
           /\ \A d \in Parts : /\ Shares[d] \in Nat /\ Target(d) \in Nat
                               /\ sum * Target(d) >= GrandTotal * Shares[d]
<1> DEFINE sum == SumFunctionOnSet(Shares, Parts)
<1>1. /\ GrandTotal \in Nat /\ sum \in Nat \ {0} /\ Shares \in [Parts -> Nat]
  BY SharesAreNumbers
<1> HIDE DEF sum
<1>2. ASSUME NEW x \in Nat, NEW y \in Nat \ {0}
      PROVE  /\ -((-x) \div y) \in Int
             /\ y * (-((-x) \div y)) >= x
  <2>1. (-x) \div y \in Int /\ y * ((-x) \div y) <= -x
    BY <1>2
  <2> QED
    BY <2>1
<1>3. ASSUME NEW x \in Nat, NEW y \in Nat \ {0}, NEW t \in Int, y * t >= x
      PROVE  t \in Nat
  <2> SUFFICES ASSUME t <= -1 PROVE FALSE
    BY <1>3
  <2>1. y * t <= -y
    OBVIOUS
  <2> QED
    BY <1>3, <2>1
<1>4. ASSUME NEW d \in Parts
      PROVE  /\ Shares[d] \in Nat /\ Target(d) \in Nat
             /\ sum * Target(d) >= GrandTotal * Shares[d]
  <2>1. Shares[d] \in Nat
    BY <1>1
  <2>2. GrandTotal * Shares[d] \in Nat
    BY <1>1, <2>1
  <2>3. Target(d) = -((-(GrandTotal * Shares[d])) \div sum)
    BY DEF Target, sum
  <2>4. Target(d) \in Int /\ sum * Target(d) >= GrandTotal * Shares[d]
    BY <1>1, <1>2, <2>2, <2>3
  <2>5. Target(d) \in Nat
    BY <1>1, <1>3, <2>2, <2>4
  <2> QED
    BY <2>1, <2>4, <2>5
<1> QED
  BY <1>1, <1>4 DEF sum

\* A lemma: the loads of the parts add up to the weight of the graph.
LEMMA LoadsAddUp ==
    ASSUME NEW g, IsGraph(g), NEW p \in [Ids(g) -> Parts],
           NEW held, held = [d \in Parts |-> LoadIn(g, p, d)]
    PROVE  SumFunctionOnSet(held, Parts) = Weight(g, Ids(g))
<1> DEFINE S == Ids(g)
<1>1. IsFiniteSet(S) /\ IsFiniteSet(Parts)
  BY GraphSums, PartsAreNumbers
<1>2. /\ \A v \in S : g.vw[v] \in Int
      /\ \A v \in S : p[v] \in Parts
  BY DEF IsGraph
<1>3. ASSUME NEW d \in Parts
      PROVE  held[d] = SumFunctionOnSet(g.vw, {v \in S : p[v] = d})
  BY DEF LoadIn, Weight
<1>4. Weight(g, S) = SumFunctionOnSet(g.vw, S)
  BY DEF Weight
<1> HIDE DEF S
<1>5. SumFunctionOnSet(g.vw, S) = SumFunctionOnSet(held, Parts)
  BY ONLY <1>1, <1>2, <1>3, SumOfFibres
<1> QED
  BY <1>4, <1>5 DEF S

\* The graph has no attributes, and the permitted imbalance is none or more.
Structural == UbPercent >= 100 /\ \A v \in Ids(graphs[1]) : graphs[1].vw[v] = 1

\* A lemma: if no vertex of weight 1 fits anywhere, every part has its share,
\* so that none has more.
LEMMA UnitsFindRoom ==
    ASSUME MlInv, Structural, NEW p \in [Ids(graphs[1]) -> Parts],
           \A d \in Parts : Within(graphs[1], p, d)
               \/ \A v \in Ids(graphs[1]) : p[v] = d => NoRoom(graphs[1], p, graphs[1].vw[v])
    PROVE  \A d \in Parts : Within(graphs[1], p, d)
<1> DEFINE g == graphs[1]
           held == [d \in Parts |-> LoadIn(g, p, d)]
           sum == SumFunctionOnSet(Shares, Parts)
           W == Weight(g, Ids(g))
<1> SUFFICES ASSUME NEW a \in Parts, ~Within(g, p, a)
             PROVE  FALSE
  OBVIOUS
<1>1. /\ IsGraph(g) /\ sum \in Nat \ {0} /\ GrandTotal \in Nat /\ W \in Nat
      /\ \A d \in Parts : /\ Shares[d] \in Nat /\ Target(d) \in Nat /\ held[d] \in Nat
                          /\ sum * Target(d) >= GrandTotal * Shares[d]
  <2>1. IsGraph(g) /\ ratio \in [Parts -> Int]
    BY LevelsAre DEF MlInv
  <2>2. \A d \in Parts : held[d] \in Nat
    BY <2>1, GraphSums
  <2>3. W \in Nat
    BY <2>1, GraphSums
  <2> QED
    BY <2>1, <2>2, <2>3, TargetsCover
<1>2. SumFunctionOnSet(held, Parts) = W
  BY <1>1, LoadsAddUp
<1>3. \A d \in Parts : held[d] = LoadIn(g, p, d)
  OBVIOUS
<1>4. UbPercent \in Nat /\ UbPercent >= 100
  BY MultilevelAssumption DEF MultilevelAssumption, Structural
<1> HIDE DEF g, held, sum, W
<1>5. \A d \in Parts, x \in Nat :
          ~FitsUnder(TightCap, d, x) => x > Target(d)
  <2> SUFFICES ASSUME NEW d \in Parts, NEW x \in Nat, ~FitsUnder(TightCap, d, x)
               PROVE  x > Target(d)
    OBVIOUS
  <2>1. x * 100 > Target(d) * UbPercent
    <3>1. TightCap[d] = <<Target(d) * UbPercent, 100>>
      BY DEF TightCap
    <3>2. Target(d) * UbPercent \in Int
      BY <1>1, <1>4
    <3> QED
      BY <3>1, <3>2 DEF FitsUnder
  <2>2. Target(d) * UbPercent >= Target(d) * 100
    BY <1>1, <1>4
  <2> QED
    BY <1>1, <1>4, <2>1, <2>2
<1>6. held[a] > Target(a) /\ held[a] \in Nat
  BY <1>1, <1>3, <1>5 DEF Within
<1>7. PICK v \in Ids(g) : p[v] = a
  <2> SUFFICES ASSUME {v \in Ids(g) : p[v] = a} = {}
               PROVE  FALSE
    OBVIOUS
  <2>1. SumFunctionOnSet(g.vw, {}) = 0
    BY FS_EmptySet, SumUnfolds
  <2>2. LoadIn(g, p, a) = SumFunctionOnSet(g.vw, {})
    BY DEF LoadIn, Weight
  <2>3. held[a] = 0
    BY <1>3, <2>1, <2>2
  <2> QED
    BY <1>1, <1>6, <2>3
<1>8. \A d \in Parts : held[d] >= Target(d)
  <2>1. NoRoom(g, p, 1)
    BY <1>7 DEF g, Structural
  <2>2. \A d \in Parts : ~FitsUnder(TightCap, d, held[d] + 1) /\ held[d] + 1 \in Nat
    BY <1>1, <1>3, <2>1 DEF NoRoom
  <2>3. \A d \in Parts : held[d] + 1 > Target(d)
    BY <1>5, <2>2
  <2> QED
    BY <1>1, <2>3
<1>9. GrandTotal = W
  <2>1. W > 0
    <3>1. \A d \in Parts : held[d] \in Int /\ held[d] \in Nat
      BY <1>1
    <3>2. SumFunctionOnSet(held, Parts) = held[a] + SumFunctionOnSet(held, Parts \ {a})
      <4>1. IsFiniteSet(Parts) /\ \A d \in Parts : held[d] \in Int
        BY <3>1, PartsAreNumbers
      <4> QED
        BY <4>1, SumWithout
    <3>3. SumFunctionOnSet(held, Parts \ {a}) \in Nat
      BY <3>1, PartsAreNumbers, FS_Subset, SumType
    <3> QED
      BY <1>1, <1>2, <1>6, <3>2, <3>3
  <2> QED
    BY <2>1 DEF GrandTotal, W, g
<1> DEFINE owed == [d \in Parts |-> W * Shares[d]]
           given == [d \in Parts |-> sum * held[d]]
<1>10. SumFunctionOnSet(owed, Parts) = W * sum
  <2>1. \A d \in Parts : Shares[d] \in Int /\ owed[d] = W * Shares[d]
    BY <1>1
  <2> HIDE DEF owed
  <2> QED
    <3>1. IsFiniteSet(Parts) /\ W \in Int
      BY <1>1, PartsAreNumbers
    <3>2. SumFunctionOnSet(owed, Parts) = W * SumFunctionOnSet(Shares, Parts)
      BY ONLY <2>1, <3>1, SumScaled
    <3> QED
      BY <3>2 DEF sum
<1>11. SumFunctionOnSet(given, Parts) = sum * W
  <2>1. \A d \in Parts : held[d] \in Int /\ given[d] = sum * held[d]
    BY <1>1
  <2> HIDE DEF given
  <2> QED
    <3>1. IsFiniteSet(Parts) /\ sum \in Int
      BY <1>1, PartsAreNumbers
    <3>2. SumFunctionOnSet(given, Parts) = sum * SumFunctionOnSet(held, Parts)
      BY ONLY <2>1, <3>1, SumScaled
    <3> QED
      BY <1>2, <3>2
<1>12. SumFunctionOnSet(owed, Parts) < SumFunctionOnSet(given, Parts)
  <2>1. ASSUME NEW d \in Parts
        PROVE  /\ owed[d] \in Int /\ given[d] \in Int /\ owed[d] <= given[d]
               /\ held[d] > Target(d) => owed[d] < given[d]
    <3>1. /\ Shares[d] \in Nat /\ Target(d) \in Nat /\ held[d] \in Nat
          /\ held[d] >= Target(d) /\ sum * Target(d) >= W * Shares[d]
      BY <1>1, <1>8, <1>9
    <3>2. sum * held[d] \in Int /\ sum * Target(d) \in Int /\ W * Shares[d] \in Int
      BY <1>1, <3>1
    <3>3. sum * held[d] >= sum * Target(d)
      BY <1>1, <3>1
    <3>4. held[d] > Target(d) => sum * held[d] > sum * Target(d)
      BY <1>1, <3>1
    <3> QED
      BY <3>1, <3>2, <3>3, <3>4
  <2>2. owed[a] < given[a]
    BY <1>6, <2>1
  <2> HIDE DEF owed, given
  <2> QED
    BY <2>1, <2>2, PartsAreNumbers, SumIncreases
<1>13. W * sum = sum * W /\ W * sum \in Int
  BY <1>1
<1> QED
  BY <1>10, <1>11, <1>12, <1>13

\* Once a structural graph has been through the balance pass no part is over
\* its capacity.
UnitsAreBalanced ==
    step = "again" \/ (step = "finished" /\ Len(graphs) > 1)
        => (Structural => \A d \in Parts : Within(graphs[1], mlPart, d))

\* A lemma: the balance pass achieves it and the refinement keeps it.
LEMMA UnitsStayBalanced ==
    ASSUME MlInv, UnitsAreBalanced, [MlNext]_mlVars
    PROVE  UnitsAreBalanced'
<1>1. CASE Coarsen \/ StopCoarsening \/ GrowStart \/ Uncoarsen
  <2>1. step' \notin {"again", "finished"}
    BY <1>1 DEF Coarsen, StopCoarsening, GrowStart, Uncoarsen
  <2> QED
    BY <2>1 DEF UnitsAreBalanced
<1>2. CASE BisectStart
  <2>1. /\ graphs' = graphs /\ level' = Len(graphs) /\ step' # "again"
        /\ step' = "finished" => level' = 1
    BY <1>2 DEF BisectStart, TryStart
  <2>2. Len(graphs) \in Nat
    BY LevelsAre
  <2> QED
    BY <2>1, <2>2 DEF UnitsAreBalanced
<1>3. ASSUME graphs' = graphs, ratio' = ratio, NEW d \in Parts
      PROVE  Within(graphs[1], mlPart, d)' <=> Within(graphs[1], mlPart', d)
  BY <1>3 DEF Within, FitsUnder, LoadIn, Weight, TightCap, Target, Shares, GrandTotal, Size, Ids
<1>4. CASE Balance
  <2>1. graphs' = graphs /\ ratio' = ratio /\ step' = "again"
    BY <1>4 DEF Balance
  <2>2. mlPart' \in [Ids(graphs[1]) -> Parts]
    BY <1>4, <2>1, BalanceKeeps DEF MlInv, PlaceInv
  <2>3. Structural => \A d \in Parts : Within(graphs[1], mlPart', d)
    BY <1>4, <2>2, BalanceKeeps, UnitsFindRoom
  <2>4. Structural' => Structural
    BY <2>1 DEF Structural
  <2> QED
    BY <1>3, <2>1, <2>3, <2>4 DEF UnitsAreBalanced
<1>5. CASE RefineAgain
  <2>1. graphs' = graphs /\ ratio' = ratio /\ step = "again"
    BY <1>5 DEF RefineAgain
  <2>2. \A d \in Parts : Within(graphs[1], mlPart, d) => Within(graphs[1], mlPart', d)
    BY <1>5, RefineAgainKeeps
  <2>3. Structural' => Structural
    BY <2>1 DEF Structural
  <2> QED
    BY <1>3, <2>1, <2>2, <2>3 DEF UnitsAreBalanced
<1>6. CASE UNCHANGED mlVars
  <2>1. graphs' = graphs /\ ratio' = ratio /\ step' = step /\ mlPart' = mlPart
    BY <1>6 DEF mlVars
  <2>2. Structural' => Structural
    BY <2>1 DEF Structural
  <2> QED
    BY <1>3, <2>1, <2>2 DEF UnitsAreBalanced
<1> QED
  BY <1>1, <1>2, <1>4, <1>5, <1>6 DEF MlNext

\* Without attributes, the partition that is written has no part over its
\* capacity, for every graph that was coarsened, all ratios and every permitted
\* imbalance: the balance pass finds room for every vertex it has to move, and the
\* last refinement keeps the capacities (balance_kway, main).
THEOREM StructuralRunsAreBalanced == MlSpec => []UnitsAreBalanced
<1>1. MlInit => MlInv /\ UnitsAreBalanced
  BY MlInitHolds DEF MlInit, UnitsAreBalanced
<1>2. MlInv /\ UnitsAreBalanced /\ [MlNext]_mlVars => MlInv' /\ UnitsAreBalanced'
  BY MlInvStep, UnitsStayBalanced
<1> QED
  BY <1>1, <1>2, PTL DEF MlSpec
=============================================================================
