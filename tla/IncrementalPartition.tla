------------------------ MODULE IncrementalPartition ------------------------
(***************************************************************************)
(* The incremental re-partitioning of schedule/dynamic.py as functions of  *)
(* the prior layout: new vertices and the endpoints of new events are      *)
(* placed again, under a migration budget, by label propagation from the   *)
(* vertices that stay; overfull devices are then relieved, and the device  *)
(* labels are matched to the prior ones.  A layout is a function from the  *)
(* vertices 0 .. size - 1 to devices; an event is a pair of vertices.      *)
(***************************************************************************)
EXTENDS Integers, Sequences, FiniteSets, SequencesExt

CONSTANTS D,             \* the number of devices
          BudgetPercent, \* migration_budget, in percent
          ExactMatchMax  \* exact_match_max_dev

PartitionAssumption ==
    D \in Nat \ {0} /\ BudgetPercent \in 0 .. 100 /\ ExactMatchMax \in Nat
ASSUME PartitionAssumption

Devices  == 0 .. D - 1
Unplaced == -1

Vertex(size) == 0 .. size - 1
LoadOn(a, d) == Cardinality({v \in DOMAIN a : a[v] = d})

CapOf(size) == size \div D + 1

\* Seeded fault: the fraction is rounded up, and one more vertex may move.
BudgetFault(size) == (BudgetPercent * size) \div 100 + 1
\* B: how many old vertices may move.
Budget(size) == (BudgetPercent * size) \div 100

\* The vertices of a set in increasing order.
Ascending(S) == [k \in 1 .. Cardinality(S) |->
    CHOOSE v \in S : Cardinality({u \in S : u < v}) = k - 1]

Endpoints(view, lo) ==
    UNION {{view[e][1], view[e][2]} : e \in lo + 1 .. Len(view)}

\* How many edges of v the prior layout cuts; a new vertex is on no device.
CrossDegree(view, prior, v) ==
    LET At(u) == IF u \in DOMAIN prior THEN prior[u] ELSE Unplaced
    IN  Cardinality({e \in DOMAIN view :
            /\ v \in {view[e][1], view[e][2]}
            /\ At(view[e][1]) # At(view[e][2])})

\* The old vertices that may move, in the order they are placed: all that
\* new events touch, or the Budget most cut ones in whatever order
\* argpartition leaves them.
OldMoves(view, prior, lo, size) ==
    LET touched == Endpoints(view, lo) \cap DOMAIN prior
        B == Budget(size)
        cut == [v \in touched |-> CrossDegree(view, prior, v)]
    IN  IF B <= 0 THEN {<< >>}
        ELSE IF Cardinality(touched) <= B
            THEN {Ascending(touched)}
            ELSE UNION {SetToSeqs(S) : S \in {T \in SUBSET touched :
                     /\ Cardinality(T) = B
                     /\ \A v \in T, u \in touched \ T : cut[v] >= cut[u]}}

ToPlace(view, prior, lo, size) ==
    {Ascending(Vertex(size) \ DOMAIN prior) \o m :
         m \in OldMoves(view, prior, lo, size)}

\* The edges of v whose other end is in S.
Votes(view, v, S) ==
    Cardinality({e \in DOMAIN view : view[e][1] = v /\ view[e][2] \in S})
    + Cardinality({e \in DOMAIN view : view[e][2] = v /\ view[e][1] \in S})

\* argmax: x at d is preferred to y at c, the first of equals.
Ahead(x, d, y, c) == x > y \/ (x = y /\ d <= c)

\* One synchronous round: a neighbour that stays weighs ANCHOR_W = 4, one
\* that is being placed weighs 1; the first device of most votes wins.
Round(view, prior, placing, tent) ==
    [v \in placing |->
        LET vote == [d \in Devices |->
                4 * Votes(view, v, {u \in DOMAIN prior \ placing : prior[u] = d})
                + Votes(view, v, {u \in placing : tent[u] = d})]
        IN  IF \A d \in Devices : vote[d] = 0 THEN tent[v]
            ELSE CHOOSE d \in Devices :
                     \A c \in Devices : Ahead(vote[d], d, vote[c], c)]

\* Six rounds, or fewer when one changes nothing.
Propagated(view, prior, placing) ==
    LET tent[n \in 0 .. 6] ==
            IF n = 0 THEN [v \in placing |-> v % D]
            ELSE LET old == tent[n - 1]
                     new == Round(view, prior, placing, old)
                 IN  IF new = old THEN old ELSE new
    IN  tent[6]

Fullest(a) == CHOOSE d \in Devices : \A c \in Devices :
                  Ahead(LoadOn(a, d), d, LoadOn(a, c), c)
Emptiest(a) == CHOOSE d \in Devices : \A c \in Devices :
                  Ahead(-LoadOn(a, d), d, -LoadOn(a, c), c)

\* Seeded fault: a device one over its capacity is left alone.
OverflowFault(a, size) == LoadOn(a, Fullest(a)) - CapOf(size) - 1
Overflow(a, size) == LoadOn(a, Fullest(a)) - CapOf(size)

\* The vertices one iteration of the relief loop takes off the fullest
\* device: only ones that are being placed, the first ones in that order.
Taken(a, order, size) ==
    LET room == CapOf(size) - LoadOn(a, Emptiest(a))
        n == IF Overflow(a, size) < room THEN Overflow(a, size) ELSE room
        movers == {j \in DOMAIN order : a[order[j]] = Fullest(a)}
    IN  {order[j] : j \in {k \in movers :
                            Cardinality({l \in movers : l < k}) < n}}

\* One iteration; without an overflow it changes nothing.
Relief(a, order, size) ==
    LET taken == IF Overflow(a, size) > 0 THEN Taken(a, order, size) ELSE {}
    IN  [v \in DOMAIN a |-> IF v \in taken THEN Emptiest(a) ELSE a[v]]

\* The relief loop; every iteration but the last takes a vertex.
Relieved(a, order, size) ==
    LET relief[n \in 0 .. size] ==
            IF n = 0 THEN a
            ELSE LET old == relief[n - 1]
                     new == Relief(old, order, size)
                 IN  IF new = old THEN old ELSE new
    IN  relief[size]

\* The layout before the relief: propagated, prior, or none.
Placed(view, prior, order, size) ==
    LET placing == ToSet(order)
        tent == Propagated(view, prior, placing)
    IN  [v \in Vertex(size) |-> IF v \in placing THEN tent[v]
                                ELSE IF v \in DOMAIN prior THEN prior[v]
                                ELSE Unplaced]

\* partition_incremental: the layouts it may return.
PartitionIncremental(view, prior, lo, size) ==
    {Relieved(Placed(view, prior, order, size), order, size) :
         order \in ToPlace(view, prior, lo, size)}

Permutation == {p \in [Devices -> Devices] :
                    \A c \in Devices, d \in Devices : p[c] = p[d] => c = d}

Changed(prior, cur) == Cardinality({v \in DOMAIN prior : prior[v] # cur[v]})

Through(p, cur) == [v \in DOMAIN cur |-> p[cur[v]]]

\* Lexicographic order, in which itertools.permutations lists them.
ListedBefore(p, q) ==
    \E d \in Devices : p[d] < q[d] /\ \A c \in 0 .. d - 1 : p[c] = q[c]

\* Few devices: the first permutation of the labels that moves the fewest.
ExactRemap(prior, cur) ==
    LET cost == [p \in Permutation |-> Changed(prior, Through(p, cur))]
    IN  CHOOSE p \in Permutation : \A q \in Permutation \ {p} :
            cost[p] < cost[q] \/ (cost[p] = cost[q] /\ ListedBefore(p, q))

\* Many devices: each new label goes to the prior label it overlaps most,
\* independently of the others.
GreedyRemap(prior, cur) ==
    LET overlap == [d \in Devices |-> [c \in Devices |->
            Cardinality({v \in DOMAIN prior : cur[v] = d /\ prior[v] = c})]]
    IN  [d \in Devices |-> CHOOSE c \in Devices : \A e \in Devices :
            Ahead(overlap[d][c], c, overlap[d][e], e)]

\* _migration_match: the labels of the new layout renamed after the old.
MigrationMatch(prior, cur) ==
    IF DOMAIN prior = {} THEN cur
    ELSE Through(IF D <= ExactMatchMax THEN ExactRemap(prior, cur)
                                       ELSE GreedyRemap(prior, cur), cur)

\* plan_incremental: the matched layouts it may return.
PlanIncremental(view, prior, lo, size) ==
    {MigrationMatch(prior, cur) : cur \in PartitionIncremental(view, prior, lo, size)}
=============================================================================
