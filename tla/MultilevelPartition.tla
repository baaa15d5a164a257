------------------------- MODULE MultilevelPartition -------------------------
(***************************************************************************)
(* The multilevel mode of cpp/multilevel.cpp: the graph is coarsened by    *)
(* matching neighbours until it is small, the small graph is partitioned   *)
(* from five starts of which the best cut wins, and the partition is       *)
(* carried back level by level, refined at each under loose capacities and *)
(* at the finest under exact ones, with a pass that restores the balance.  *)
(*                                                                         *)
(* A graph is a record of the weights vw of its vertices, which are        *)
(* numbers, and the weights ew of its edges, a function on ordered pairs.  *)
(* Capacities are fractions.                                               *)
(***************************************************************************)
EXTENDS PartNumbers, FiniteSets, Functions, FiniteSetsExt, SequencesExt

CONSTANTS InputGraphs,   \* the graphs a run may be given, with ratios per part
          Coarsest,      \* COARSEST, max(30*D, 200) in the program
          ManyVertices,  \* 5'000'000 in the program: larger levels get fewer passes
          UbPercent      \* ub, the permitted imbalance, in percent

Ids(g) == DOMAIN g.vw

\* What build_csr makes of a list of edges: a simple undirected graph.
IsGraph(g) ==
    /\ Ids(g) \subseteq Nat /\ IsFiniteSet(Ids(g))
    /\ g.vw \in [Ids(g) -> Nat]
    /\ DOMAIN g.ew \subseteq Ids(g) \X Ids(g) /\ g.ew \in [DOMAIN g.ew -> Nat]
    /\ \A e \in DOMAIN g.ew : /\ e[1] # e[2] /\ <<e[2], e[1]>> \in DOMAIN g.ew
                              /\ g.ew[<<e[2], e[1]>>] = g.ew[e]

MultilevelAssumption ==
    /\ Coarsest \in Nat \ {0} /\ UbPercent \in Nat \ {0} /\ ManyVertices \in Nat
    /\ \A i \in InputGraphs : IsGraph(i.graph) /\ i.ratio \in [Parts -> Int]
ASSUME MultilevelAssumption

VARIABLES step,          \* what main does next
          ratio,         \* ratio[d], the share of a part
          twoHop,        \* whether the weights are those of attributes
          graphs,        \* levels, the finest first
          cmaps,         \* cmaps: the vertices of a level to those of the next
          starts,        \* the starts tried
          bestCut,       \* bestcut, -1 before the first start
          mlPart,        \* part, the partition of the level at hand
          level          \* the level at hand

mlVars == <<step, ratio, twoHop, graphs, cmaps, starts, bestCut, mlPart, level>>

Size(g) == Cardinality(Ids(g))
Nbrs(g, v) == {u \in Ids(g) : <<v, u>> \in DOMAIN g.ew}
Weight(g, S) == SumFunctionOnSet(g.vw, S)
LoadIn(g, p, d) == Weight(g, {v \in Ids(g) : p[v] = d})
ConnTo(g, p, v, d) ==
    SumFunctionOnSet(g.ew, {e \in DOMAIN g.ew : e[1] = v /\ p[e[2]] = d})
\* edgecut: every edge once.
EdgeCut(g, p) ==
    SumFunctionOnSet(g.ew, {e \in DOMAIN g.ew : e[1] < e[2] /\ p[e[1]] # p[e[2]]})

\* The elements of S, each after those that before puts in front of it.
InOrder(S, before) ==
    [k \in 1 .. Cardinality(S) |->
        CHOOSE v \in S : Cardinality({u \in S : <<u, v>> \in before}) = k - 1]
Ascending(S) == InOrder(S, {e \in S \X S : e[1] < e[2]})

\* A scan of S in ascending order: of each element and the one kept so far,
\* the new one is kept if the pair is in better.
Scanned(S, better) ==
    LET s == Ascending(S)
        kept[i \in 1 .. Len(s)] ==
            IF i = 1 THEN s[1]
            ELSE IF <<s[i], kept[i - 1]>> \in better THEN s[i] ELSE kept[i - 1]
    IN  kept[Len(s)]

-----------------------------------------------------------------------------
(* coarsen().                                                              *)

\* g0.totalw, and that of every level; weights of zero count as ones.
GrandTotal == LET sum == Weight(graphs[1], Ids(graphs[1]))
              IN  IF sum > 0 THEN sum ELSE Size(graphs[1])

\* maxvw: one and a half times the mean weight of a vertex of the last level.
MaxWeight == Max({1, (3 * GrandTotal) \div (2 * Coarsest)})

\* Vertices in the order of their degree, the lower first.
ByDegree(g) ==
    LET degree == [v \in Ids(g) |-> Cardinality(Nbrs(g, v))]
    IN  InOrder(Ids(g), {e \in Ids(g) \X Ids(g) :
                            \/ degree[e[1]] < degree[e[2]]
                            \/ degree[e[1]] = degree[e[2]] /\ e[1] < e[2]})

\* A vertex takes its heaviest free neighbour, the first of equals, unless the
\* two together would be too heavy.  -1 is no match.
HeavyMatched(g, match, v) ==
    LET free == {u \in Nbrs(g, v) : match[u] < 0 /\ g.vw[v] + g.vw[u] <= MaxWeight}
        best == CHOOSE u \in free : \A w \in free :
                    \/ g.ew[<<v, u>>] > g.ew[<<v, w>>]
                    \/ g.ew[<<v, u>>] = g.ew[<<v, w>>] /\ u <= w
    IN  IF match[v] >= 0 \/ free = {} THEN match
        ELSE [match EXCEPT ![v] = best, ![best] = v]

\* Pass 1.
HeavyEdges(g) ==
    LET vs == ByDegree(g)
        after[i \in 0 .. Len(vs)] == IF i = 0 THEN [v \in Ids(g) |-> -1]
                                     ELSE HeavyMatched(g, after[i - 1], vs[i])
    IN  after[Len(vs)]

\* A free vertex is paired with the one met before it, if there is one; of two
\* that are too heavy together the second waits for the next.
FanMatched(g, s, w) ==
    IF s.match[w] >= 0 THEN s
    ELSE IF s.prev >= 0 /\ g.vw[s.prev] + g.vw[w] <= MaxWeight
         THEN [match |-> [s.match EXCEPT ![s.prev] = w, ![w] = s.prev], prev |-> -1]
         ELSE [match |-> s.match, prev |-> w]

Fan(g, match, u) ==
    LET ws == Ascending(Nbrs(g, u))
        after[i \in 0 .. Len(ws)] == IF i = 0 THEN [match |-> match, prev |-> -1]
                                     ELSE FanMatched(g, after[i - 1], ws[i])
    IN  after[Len(ws)].match

\* Pass 2: free vertices that share a neighbour.
TwoHops(g, match) ==
    LET us == Ascending(Ids(g))
        after[i \in 0 .. Len(us)] == IF i = 0 THEN match ELSE Fan(g, after[i - 1], us[i])
    IN  after[Len(us)]

Matching(g) == IF twoHop THEN TwoHops(g, HeavyEdges(g)) ELSE HeavyEdges(g)

\* Supernodes are numbered by their first vertex.
Numbered(g, match) ==
    LET first  == [v \in Ids(g) |-> IF match[v] >= 0 /\ match[v] < v THEN match[v] ELSE v]
        firsts == {first[v] : v \in Ids(g)}
    IN  [v \in Ids(g) |-> Cardinality({u \in firsts : u < first[v]})]
Numbering(g) == Numbered(g, Matching(g))

\* Seeded fault: parallel edges between two supernodes count once.
MergedWeightFault(g, es) == g.ew[CHOOSE e \in es : TRUE]
MergedWeight(g, es) == SumFunctionOnSet(g.ew, es)

\* The weights of vertices and of parallel edges are summed; edges inside a
\* supernode are dropped.
Contracted(g, cmap) ==
    LET End(e) == <<cmap[e[1]], cmap[e[2]]>>
    IN  [vw |-> [c \in Range(cmap) |-> Weight(g, {v \in Ids(g) : cmap[v] = c})],
         ew |-> [x \in {y \in {End(e) : e \in DOMAIN g.ew} : y[1] # y[2]} |->
                    MergedWeight(g, {e \in DOMAIN g.ew : End(e) = x})]]

Coarser == graphs[Len(graphs)]

\* One level.  A level that hardly shrinks is kept and is the last.
Coarsen ==
    /\ step = "coarsen" /\ Size(Coarser) > Coarsest /\ Len(graphs) <= 60
    /\ LET cmap == Numbering(Coarser)
           c    == Contracted(Coarser, cmap)
       IN  /\ cmaps' = Append(cmaps, cmap)
           /\ graphs' = Append(graphs, c)
           /\ step' = IF Size(c) >= (95 * Size(Coarser)) \div 100 THEN "start" ELSE "coarsen"
    /\ UNCHANGED <<ratio, twoHop, starts, bestCut, mlPart, level>>

StopCoarsening ==
    /\ step = "coarsen" /\ (Size(Coarser) <= Coarsest \/ Len(graphs) > 60)
    /\ step' = "start"
    /\ UNCHANGED <<ratio, twoHop, graphs, cmaps, starts, bestCut, mlPart, level>>

-----------------------------------------------------------------------------
(* refine_kway() and balance_kway() on a level, under a capacity per part. *)

FitsUnder(cap, d, w) == w * cap[d][2] <= cap[d][1]

\* The cap of a part: its share of the total, rounded up, times ub.
Shares    == [d \in Parts |-> IF \A e \in Parts : ratio[e] <= 0 THEN 1
                              ELSE IF ratio[d] > 0 THEN ratio[d] ELSE 0]
Target(d) == -((-(GrandTotal * Shares[d])) \div SumFunctionOnSet(Shares, Parts))
TightCap  == [d \in Parts |-> <<Target(d) * UbPercent, 100>>]
LooseCap  == [d \in Parts |-> <<Target(d) * UbPercent * 108, 10000>>]

\* Seeded fault: what v has at home is not set against what it gains.
GainFault(g, p, v, d) == ConnTo(g, p, v, d)
\* How much the cut falls when v moves to d.
Gain(g, p, v, d) == ConnTo(g, p, v, d) - ConnTo(g, p, v, p[v])

\* Move v, if a neighbouring part with room has more of its weight: the one
\* with most, the first met of equals.
RefineMove(g, cap, p, v) ==
    LET gain == [d \in {p[u] : u \in Nbrs(g, v)} |-> Gain(g, p, v, d)]
        met  == [d \in DOMAIN gain |-> Min({u \in Nbrs(g, v) : p[u] = d})]
        to   == {d \in DOMAIN gain : /\ d # p[v] /\ gain[d] > 0
                                     /\ FitsUnder(cap, d, LoadIn(g, p, d) + g.vw[v])}
        best == CHOOSE d \in to : \A e \in to :
                    gain[d] > gain[e] \/ (gain[d] = gain[e] /\ met[d] <= met[e])
    IN  IF to = {} THEN p ELSE [p EXCEPT ![v] = best]

\* One pass over the vertices that have a neighbour in another part when it
\* starts.
RefinePass(g, cap, p) ==
    LET vs == Ascending({v \in Ids(g) : \E u \in Nbrs(g, v) : p[u] # p[v]})
        after[i \in 0 .. Len(vs)] == IF i = 0 THEN p
                                     ELSE RefineMove(g, cap, after[i - 1], vs[i])
    IN  after[Len(vs)]

\* What a pass leaves of p, and whether it moved anything.
AfterPass(p, q) == [part |-> q, moved |-> q # p]

\* The passes end when one has moved nothing.
RefineKway(g, p, cap, passes) ==
    LET after[i \in 0 .. passes] ==
            IF i = 0 THEN [part |-> p, moved |-> TRUE]
            ELSE LET s == after[i - 1]
                 IN  IF s.moved THEN AfterPass(s.part, RefinePass(g, cap, s.part)) ELSE s
    IN  after[passes].part

\* Pairs of parts of which the first is relatively lighter.
RelativelyLess(cap, load) ==
    {x \in Parts \X Parts :
        load[x[1]] * cap[x[2]][1] * cap[x[1]][2] < load[x[2]] * cap[x[1]][1] * cap[x[2]][2]}

\* Move v out of an overfull part, to the part with room that costs least;
\* a later part of equal cost must be relatively lighter.
BalanceMove(g, cap, p, v) ==
    LET load == [d \in Parts |-> LoadIn(g, p, d)]
        conn == [d \in Parts |-> ConnTo(g, p, v, d)]
        to   == {d \in Parts \ {p[v]} : FitsUnder(cap, d, load[d] + g.vw[v])}
        better == {x \in to \X to : \/ conn[x[1]] > conn[x[2]]
                                    \/ /\ conn[x[1]] = conn[x[2]]
                                       /\ x \in RelativelyLess(cap, load)}
    IN  IF FitsUnder(cap, p[v], load[p[v]]) \/ to = {} THEN p
        ELSE [p EXCEPT ![v] = Scanned(to, better)]

BalancePass(g, cap, p) ==
    LET vs == Ascending(Ids(g))
        after[i \in 0 .. Len(vs)] == IF i = 0 THEN p
                                     ELSE BalanceMove(g, cap, after[i - 1], vs[i])
    IN  after[Len(vs)]

\* Seeded fault: the overfull parts are left alone.
BalanceKwayFault(g, p, cap) == p
BalanceKway(g, p, cap) ==
    LET after[i \in 0 .. 4] ==
            IF i = 0 THEN [part |-> p, moved |-> TRUE]
            ELSE LET s == after[i - 1]
                 IN  IF s.moved THEN AfterPass(s.part, BalancePass(g, cap, s.part)) ELSE s
    IN  after[4].part

-----------------------------------------------------------------------------
(* initial_kway() and rb_split(): the starts, on the coarsest graph.       *)

\* Vertices in the order they grow: the heavier first.  The first start keeps
\* the numbering among equals, the seeded ones shuffle it.
GrowthOrders(g) ==
    {o \in SetToSeqs(Ids(g)) : \A i, j \in DOMAIN o :
        i < j => \/ g.vw[o[i]] > g.vw[o[j]]
                 \/ g.vw[o[i]] = g.vw[o[j]] /\ (starts = 0 => o[i] < o[j])}

\* v goes to the part with room that holds most of its weight, the lighter of
\* equals; if no part has room, to the one relatively least loaded.
Grow(g, p, v) ==
    LET load == [d \in Parts |-> LoadIn(g, p, d)]
        gain == [d \in Parts |-> ConnTo(g, p, v, d)]
        room == {d \in Parts : FitsUnder(TightCap, d, load[d] + g.vw[v])}
        better == {x \in room \X room :
                      \/ gain[x[1]] > gain[x[2]]
                      \/ gain[x[1]] = gain[x[2]] /\ load[x[1]] < load[x[2]]}
    IN  [p EXCEPT ![v] = IF room # {} THEN Scanned(room, better)
                         ELSE Scanned(Parts, RelativelyLess(TightCap, load))]

\* -1 is the part of a vertex that has not been placed.
Grown(g, vs) ==
    LET after[i \in 0 .. Len(vs)] == IF i = 0 THEN [v \in Ids(g) |-> -1]
                                     ELSE Grow(g, after[i - 1], vs[i])
    IN  after[Len(vs)]

\* The subgraph of a set of vertices.
Induced(g, S) == [vw |-> Restrict(g.vw, S),
                  ew |-> Restrict(g.ew, DOMAIN g.ew \cap (S \X S))]

\* The vertex that a search which has met those of s meets next: the first
\* neighbour of the earliest that has one, or else the first vertex.
NextMet(g, s) ==
    LET new == Ids(g) \ Range(s)
        By(v) == Min({i \in DOMAIN s : v \in Nbrs(g, s[i])} \cup {Len(s) + 1})
    IN  CHOOSE v \in new : \A u \in new : By(v) < By(u) \/ (By(v) = By(u) /\ v <= u)

BreadthFirst(g) ==
    LET met[i \in 0 .. Size(g)] == IF i = 0 THEN << >>
                                   ELSE LET s == met[i - 1] IN Append(s, NextMet(g, s))
    IN  met[Size(g)]

CapSum(ds) == SumFunctionOnSet([d \in ds |-> TightCap[d][1]], ds)

\* Of the vertices S of the k parts from p0 on, those that go to the second
\* half of the parts: the first grows breadth first to its share of the weight,
\* and the two sides are refined with five per cent of room.
SecondHalf(g, S, p0, k) ==
    LET s    == Induced(g, S)
        capL == CapSum(p0 .. (p0 + (k \div 2) - 1))
        all  == Max({1, CapSum(p0 .. (p0 + k - 1))})
        tgtL == Weight(g, S) * capL                     \* over all
        bfs  == BreadthFirst(s)
        left == {bfs[i] : i \in {j \in DOMAIN bfs :
                    Weight(g, {bfs[m] : m \in 1 .. (j - 1)}) * all < tgtL}}
        caps == [b \in {0, 1} |-> IF b = 0 THEN <<tgtL * 105, all * 100>>
                                  ELSE <<(Weight(g, S) * all - tgtL) * 105, all * 100>>]
        side == RefineKway(s, [v \in S |-> IF v \in left THEN 0 ELSE 1], caps, 12)
    IN  {v \in S : side[v] = 1}

\* Every range <<p0, k>> of more than one part is split in two, and so are its
\* vertices, which are in part p0 until then.
SplitInto(g, s, second) ==
    LET wide == DOMAIN second
        Half(r) == r[2] \div 2
    IN  [part |-> [v \in Ids(g) |->
                      IF \E r \in wide : v \in second[r]
                      THEN LET r == CHOOSE r \in wide : v \in second[r] IN r[1] + Half(r)
                      ELSE s.part[v]],
         ranges |-> (s.ranges \ wide)
                    \cup {<<r[1], Half(r)>> : r \in wide}
                    \cup {<<r[1] + Half(r), r[2] - Half(r)>> : r \in wide}]

Split(g, s) ==
    SplitInto(g, s, [r \in {x \in s.ranges : x[2] > 1} |->
                        SecondHalf(g, {v \in Ids(g) : s.part[v] = r[1]}, r[1], r[2])])

\* Split until every range is one part; D rounds are more than enough.
Bisected(g) ==
    LET after[i \in 0 .. D] ==
            IF i = 0 THEN [part |-> [v \in Ids(g) |-> 0], ranges |-> {<<0, D>>}]
            ELSE LET s == after[i - 1] IN Split(g, s)
    IN  after[D].part

BetterCut(cut) == bestCut < 0 \/ cut < bestCut

KeepBetter(p, cut) ==
    /\ bestCut' = IF BetterCut(cut) THEN cut ELSE bestCut
    /\ mlPart'  = IF BetterCut(cut) THEN p ELSE mlPart

TryStart(p0) ==
    /\ LET p == RefineKway(Coarser, p0, TightCap, 8)
       IN  KeepBetter(p, EdgeCut(Coarser, p))
    /\ starts' = starts + 1
    /\ UNCHANGED <<ratio, twoHop, graphs, cmaps>>

GrowStart ==
    /\ step = "start" /\ starts < 4
    /\ \E vs \in GrowthOrders(Coarser) : TryStart(Grown(Coarser, vs))
    /\ UNCHANGED <<step, level>>

BisectStart ==
    /\ step = "start" /\ starts = 4
    /\ TryStart(Bisected(Coarser))
    /\ level' = Len(graphs)
    /\ step' = IF level' = 1 THEN "finished" ELSE "uncoarsen"

-----------------------------------------------------------------------------
(* Back to the finest level.                                               *)

Projected == [v \in Ids(graphs[level - 1]) |-> mlPart[cmaps[level - 1][v]]]

\* passes: a level of many vertices gets fewer.
Passes(g) == IF Size(g) > ManyVertices THEN 6 ELSE 12

\* Carry the partition to the finer level and refine it there.
Uncoarsen ==
    /\ step = "uncoarsen"
    /\ level' = level - 1
    /\ mlPart' = RefineKway(graphs[level'], Projected,
                            IF level' > 1 THEN LooseCap ELSE TightCap,
                            Passes(graphs[level']))
    /\ step' = IF level' = 1 THEN "balance" ELSE "uncoarsen"
    /\ UNCHANGED <<ratio, twoHop, graphs, cmaps, starts, bestCut>>

Balance ==
    /\ step = "balance"
    /\ mlPart' = BalanceKway(graphs[1], mlPart, TightCap)
    /\ step' = "again"
    /\ UNCHANGED <<ratio, twoHop, graphs, cmaps, starts, bestCut, level>>

RefineAgain ==
    /\ step = "again"
    /\ mlPart' = RefineKway(graphs[1], mlPart, TightCap, 2)
    /\ step' = "finished"
    /\ UNCHANGED <<ratio, twoHop, graphs, cmaps, starts, bestCut, level>>

\* Without attributes every vertex weighs 1.
MlInit ==
    /\ step = "coarsen" /\ twoHop \in BOOLEAN
    /\ \E i \in InputGraphs :
          /\ graphs = <<i.graph>> /\ ratio = i.ratio
          /\ twoHop \/ \A v \in Ids(i.graph) : i.graph.vw[v] = 1
    /\ cmaps = << >> /\ starts = 0 /\ bestCut = -1 /\ mlPart = << >> /\ level = 0

MlNext == \/ Coarsen \/ StopCoarsening \/ GrowStart \/ BisectStart
          \/ Uncoarsen \/ Balance \/ RefineAgain

MlSpec == MlInit /\ [][MlNext]_mlVars

-----------------------------------------------------------------------------
\* A partition of a coarser level costs what it costs when it is carried to
\* the finer one, in cut and in the weight of every part; and a supernode is
\* one vertex, or two that together are light enough to be balanced.
CoarseningIsFaithful ==
    \A k \in DOMAIN cmaps :
        LET fine == graphs[k] coarse == graphs[k + 1] IN
        /\ \A p \in [Ids(coarse) -> Parts] :
              LET q == [v \in Ids(fine) |-> p[cmaps[k][v]]] IN
              /\ EdgeCut(fine, q) = EdgeCut(coarse, p)
              /\ \A d \in Parts : LoadIn(fine, q, d) = LoadIn(coarse, p, d)
        /\ \A c \in Ids(coarse) :
              LET vs == {v \in Ids(fine) : cmaps[k][v] = c} IN
              \/ Cardinality(vs) = 1
              \/ /\ Cardinality(vs) = 2
                 /\ coarse.vw[c] <= 1 \/ 2 * coarse.vw[c] * Coarsest <= 3 * GrandTotal

\* On the way back the cut only falls, from the best cut of the starts, until
\* the balance pass trades it for the capacities.
CutOnlyFalls ==
    [][/\ step = "start" => /\ bestCut' = EdgeCut(Coarser, mlPart')
                            /\ bestCut < 0 \/ bestCut' <= bestCut
       /\ step = "uncoarsen" =>
              /\ EdgeCut(graphs[level'], mlPart') <= EdgeCut(graphs[level], mlPart)
       /\ step = "again" => EdgeCut(graphs[1], mlPart') <= EdgeCut(graphs[1], mlPart)]_mlVars

\* What part d holds is within its capacity; and a vertex of weight w fits in
\* no part.
Within(g, p, d) == FitsUnder(TightCap, d, LoadIn(g, p, d))
NoRoom(g, p, w) == \A d \in Parts : ~FitsUnder(TightCap, d, LoadIn(g, p, d) + w)

\* The balance pass restores the capacities as far as single moves can: no
\* part stays overfull that has a vertex with room elsewhere, although the
\* room changes while the vertices are run through in one order, a few times.
\* Neither it nor the refinement that follows overfills a part.
CapacitiesAreRestored ==
    [][/\ step = "balance" =>
              \A d \in Parts : Within(graphs[1], mlPart', d)
                  \/ \A v \in Ids(graphs[1]) :
                        mlPart'[v] = d => NoRoom(graphs[1], mlPart', graphs[1].vw[v])
       /\ step \in {"balance", "again"} =>
              \A d \in Parts :
                  Within(graphs[1], mlPart, d) => Within(graphs[1], mlPart', d)]_mlVars
=============================================================================
