-------------------------- MODULE PolishPartition --------------------------
(***************************************************************************)
(* The polish mode of cpp/multilevel.cpp: a given partition is refined in  *)
(* place by four greedy passes, one after the other: refine_kway (edge     *)
(* cut), balance_kway (capacities), refine_volume (communication volume)   *)
(* and refine_makespan (the straggler).  A pass lists the vertices it will *)
(* visit when it starts and then moves them one by one, deciding each move *)
(* from counters it maintains incrementally.                               *)
(***************************************************************************)
EXTENDS PartitionGraph, FiniteSetsExt

CONSTANTS Graphs,        \* the neighbourhoods a run may be given
          Cap,           \* cap[d], the capacity of a part
          Alphas,        \* values of ZORD_MAKESPAN_ALPHA, the price of a halo row
          Slack          \* ZORD_MAKESPAN_SLACK, in percent

PolishAssumption ==
    /\ \A g \in Graphs : IsAdjacency(g)
    /\ Cap \in [Parts -> Nat]
    /\ Alphas \subseteq Nat /\ Slack \in Nat
ASSUME PolishAssumption

VARIABLES adj,           \* the graph
          alpha,         \* mk_alpha, in edge traversals
          part,          \* part[v]
          phase,         \* the function that is running
          pass,          \* it + 1
          todo,          \* what the running pass has still to visit
          moved,         \* moves > 0 in this pass
          load,          \* load[d]
          cnt,           \* cnt[u][d], maintained from refine_volume on
          recv,          \* R[d], maintained by refine_makespan
          inc,           \* I[d], maintained by refine_makespan
          drift,         \* tot_delta, the volume gained by refine_makespan
          tot0,          \* the volume refine_makespan started from
          straggler      \* a, the part refine_makespan moves vertices out of

counters == <<cnt, recv, inc, drift, tot0, straggler>>
input == <<adj, alpha>>
vars == <<input, part, phase, pass, todo, moved, load, counters>>

KwayPasses     == 12
BalancePasses  == 4
VolumePasses   == 8
MakespanSweeps == 8 * D

\* Seeded fault: a part that is not full takes any vertex.
FitsFault(v, d) == load[d] < Cap[d]
Fits(v, d) == load[d] + Vwgt[v] <= Cap[d]

\* load[d] / cap[d] < load[e] / cap[e]
RelativelyLighter(d, e) == load[d] * Cap[e] < load[e] * Cap[d]

\* Vertices are visited in ascending order.
IsNext(v) == v \in todo /\ \A u \in todo : v <= u

Relocate(v, d) ==
    /\ part' = [part EXCEPT ![v] = d]
    /\ load' = [load EXCEPT ![part[v]] = @ - Vwgt[v], ![d] = @ + Vwgt[v]]
    /\ moved' = TRUE

Stay == UNCHANGED <<part, load, moved>>

\* Seeded fault: a vertex is visited only if it has no neighbour at home.
BoundaryFault == {v \in Vertices : \A u \in adj[v] : part[u] # part[v]}
Boundary == {v \in Vertices : \E u \in adj[v] : part[u] # part[v]}

\* The same, read off the counters.
CountedBoundary(p, c) ==
    {v \in Vertices : \E d \in Parts \ {p[v]} : c[v][d] > 0}

-----------------------------------------------------------------------------
(* refine_kway: boundary moves that lower the edge cut.                    *)

KwayGain(v, d) == Conn(adj, part, v, d) - Conn(adj, part, v, part[v])

\* Seeded fault: a move that gains nothing is taken too.
KwayTargetsFault(v) ==
    {d \in Parts \ {part[v]} : /\ \E u \in adj[v] : part[u] = d
                               /\ Fits(v, d) /\ KwayGain(v, d) >= 0}
KwayTargets(v) ==
    {d \in Parts \ {part[v]} : /\ \E u \in adj[v] : part[u] = d
                               /\ Fits(v, d) /\ KwayGain(v, d) > 0}

\* d was touched before e: its first neighbour comes first.
TouchedBefore(v, d, e) ==
    \E u \in adj[v] : part[u] = d /\ \A w \in adj[v] : part[w] = e => u < w

KwayVisit(v) ==
    /\ phase = "kway" /\ IsNext(v)
    /\ \/ /\ KwayTargets(v) = {}
          /\ Stay
       \/ \E d \in KwayTargets(v) :
              /\ \A e \in KwayTargets(v) \ {d} :
                     \/ KwayGain(v, d) > KwayGain(v, e)
                     \/ KwayGain(v, d) = KwayGain(v, e) /\ TouchedBefore(v, d, e)
              /\ Relocate(v, d)
    /\ todo' = todo \ {v}
    /\ UNCHANGED <<input, phase, pass, counters>>

NextKwayPass ==
    /\ phase = "kway" /\ todo = {} /\ moved /\ pass < KwayPasses
    /\ pass' = pass + 1 /\ moved' = FALSE
    /\ todo' = Boundary
    /\ UNCHANGED <<input, part, phase, load, counters>>

-----------------------------------------------------------------------------
(* balance_kway: drain the overfull parts at the least damage to the cut.  *)

CutLoss(v, d) == -KwayGain(v, d)

BalanceTargets(v) ==
    IF load[part[v]] <= Cap[part[v]] THEN {}
    ELSE {d \in Parts \ {part[v]} : Fits(v, d)}

\* The lighter of two equally good parts, the first of two equally light.
LighterOrFirst(d, e) == \/ RelativelyLighter(d, e)
                        \/ ~RelativelyLighter(e, d) /\ d < e

BalanceVisit(v) ==
    /\ phase = "balance" /\ IsNext(v)
    /\ \/ /\ BalanceTargets(v) = {}
          /\ Stay
       \/ \E d \in BalanceTargets(v) :
              /\ \A e \in BalanceTargets(v) \ {d} :
                     \/ CutLoss(v, d) < CutLoss(v, e)
                     \/ CutLoss(v, d) = CutLoss(v, e) /\ LighterOrFirst(d, e)
              /\ Relocate(v, d)
    /\ todo' = todo \ {v}
    /\ UNCHANGED <<input, phase, pass, counters>>

NextBalancePass ==
    /\ phase = "balance" /\ todo = {} /\ moved /\ pass < BalancePasses
    /\ pass' = pass + 1 /\ moved' = FALSE
    /\ todo' = Vertices
    /\ UNCHANGED <<input, part, phase, load, counters>>

-----------------------------------------------------------------------------
(* Incremental counters, for refine_volume and refine_makespan.            *)

\* cnt after v moves from a to d.
Recounted(v, a, d) ==
    [u \in Vertices |-> IF u \in adj[v]
                            THEN [cnt[u] EXCEPT ![a] = @ - 1, ![d] = @ + 1]
                            ELSE cnt[u]]

\* daR: how many rows a receives more when v leaves it.
LeavingDelta(v, a) ==
    (IF cnt[v][a] > 0 THEN 1 ELSE 0)
        - Cardinality({u \in adj[v] : cnt[u][a] = 1 /\ part[u] # a})

\* Seeded fault: neighbours that live in d count as rows d receives.
EnteringDeltaFault(v, d) ==
    Cardinality({u \in adj[v] : cnt[u][d] = 0})
        - (IF cnt[v][d] > 0 THEN 1 ELSE 0)
\* dbR: how many rows d receives more when v joins it.
EnteringDelta(v, d) ==
    Cardinality({u \in adj[v] : cnt[u][d] = 0 /\ part[u] # d})
        - (IF cnt[v][d] > 0 THEN 1 ELSE 0)

VolumeDelta(v, d) == LeavingDelta(v, part[v]) + EnteringDelta(v, d)

-----------------------------------------------------------------------------
(* refine_volume: moves that lower the total of received rows.             *)

VolumeTargets(v) ==
    {d \in Parts \ {part[v]} : /\ cnt[v][d] > 0 /\ Fits(v, d)
                               /\ VolumeDelta(v, d) < 0}

VolumeVisit(v) ==
    /\ phase = "volume" /\ IsNext(v)
    /\ \/ /\ VolumeTargets(v) = {}
          /\ Stay /\ UNCHANGED cnt
       \/ \E d \in VolumeTargets(v) :
              /\ \A e \in VolumeTargets(v) \ {d} :
                     \/ VolumeDelta(v, d) < VolumeDelta(v, e)
                     \/ VolumeDelta(v, d) = VolumeDelta(v, e) /\ LighterOrFirst(d, e)
              /\ Relocate(v, d)
              /\ cnt' = Recounted(v, part[v], d)
    /\ todo' = todo \ {v}
    /\ UNCHANGED <<input, phase, pass, recv, inc, drift, tot0, straggler>>

NextVolumePass ==
    /\ phase = "volume" /\ todo = {} /\ moved /\ pass < VolumePasses
    /\ pass' = pass + 1 /\ moved' = FALSE
    /\ todo' = CountedBoundary(part, cnt)
    /\ UNCHANGED <<input, part, phase, load, counters>>

-----------------------------------------------------------------------------
(* refine_makespan: moves off the straggler that lower its cost.           *)

Cost(r, n, d) == alpha * r[d] + n[d]

\* The first part of maximal cost.
Straggler(r, n) ==
    CHOOSE a \in Parts : \A d \in Parts :
        \/ Cost(r, n, d) < Cost(r, n, a)
        \/ Cost(r, n, d) = Cost(r, n, a) /\ a <= d

WithinBudget(delta) == drift + delta <= (Slack * tot0) \div 100

\* nm: the larger of the two costs a move of v to b leaves.
NewCostHere(v) == alpha * (recv[straggler] + LeavingDelta(v, straggler))
                      + inc[straggler] - Degree(adj, v)
NewCostThere(v, b) == alpha * (recv[b] + EnteringDelta(v, b))
                          + inc[b] + Degree(adj, v)
\* Seeded fault: only the cost the straggler is left with is looked at.
NewMaxFault(v, b) == NewCostHere(v)
NewMax(v, b) == Max({NewCostHere(v), NewCostThere(v, b)})

MakespanTargets(v) ==
    {b \in Parts \ {straggler} : /\ cnt[v][b] > 0 /\ Fits(v, b)
                                 /\ WithinBudget(VolumeDelta(v, b))
                                 /\ NewMax(v, b) < Cost(recv, inc, straggler)}

\* Least maximum, then least volume, then least cost there, then first.
Preferable(v, b, e) ==
    \/ NewMax(v, b) < NewMax(v, e)
    \/ /\ NewMax(v, b) = NewMax(v, e)
       /\ \/ VolumeDelta(v, b) < VolumeDelta(v, e)
          \/ /\ VolumeDelta(v, b) = VolumeDelta(v, e)
             /\ \/ NewCostThere(v, b) < NewCostThere(v, e)
                \/ NewCostThere(v, b) = NewCostThere(v, e) /\ b < e

\* The straggler's boundary, heaviest first.
Heaviest(v) ==
    /\ v \in todo
    /\ \A u \in todo : \/ Degree(adj, v) > Degree(adj, u)
                       \/ Degree(adj, v) = Degree(adj, u) /\ v <= u

MakespanStay(v) ==
    /\ phase = "makespan" /\ Heaviest(v)
    /\ MakespanTargets(v) = {}
    /\ todo' = todo \ {v}
    /\ UNCHANGED <<input, part, phase, pass, moved, load, counters>>

\* When the straggler changes, the sweep ends and its list is rebuilt.
MakespanMove(v) ==
    /\ phase = "makespan" /\ Heaviest(v)
    /\ \E b \in MakespanTargets(v) :
           /\ \A e \in MakespanTargets(v) \ {b} : Preferable(v, b, e)
           /\ Relocate(v, b)
           /\ cnt' = Recounted(v, straggler, b)
           /\ recv' = [recv EXCEPT ![straggler] = @ + LeavingDelta(v, straggler),
                                   ![b] = @ + EnteringDelta(v, b)]
           /\ inc' = [inc EXCEPT ![straggler] = @ - Degree(adj, v),
                                 ![b] = @ + Degree(adj, v)]
           /\ drift' = drift + VolumeDelta(v, b)
           /\ todo' = IF Straggler(recv', inc') = straggler THEN todo \ {v} ELSE {}
    /\ UNCHANGED <<input, phase, pass, tot0, straggler>>

SweepOf(a, p, c) == {v \in CountedBoundary(p, c) : p[v] = a}

NextSweep ==
    /\ phase = "makespan" /\ todo = {} /\ moved /\ pass < MakespanSweeps
    /\ pass' = pass + 1 /\ moved' = FALSE
    /\ straggler' = Straggler(recv, inc)
    /\ todo' = SweepOf(straggler', part, cnt)
    /\ UNCHANGED <<input, part, phase, load, cnt, recv, inc, drift, tot0>>

-----------------------------------------------------------------------------
(* The sequence of the four functions.                                     *)

PassOver(limit) == todo = {} /\ ~(moved /\ pass < limit)

Init ==
    /\ adj \in Graphs /\ alpha \in Alphas
    /\ part \in [Vertices -> Parts]
    /\ phase = "kway" /\ pass = 1 /\ moved = FALSE
    /\ todo = Boundary
    /\ load = LoadOf(part)
    /\ cnt = [u \in Vertices |-> [d \in Parts |-> 0]]
    /\ recv = [d \in Parts |-> 0] /\ inc = [d \in Parts |-> 0]
    /\ drift = 0 /\ tot0 = 0 /\ straggler = 0

EnterBalance ==
    /\ phase = "kway" /\ PassOver(KwayPasses)
    /\ phase' = "balance" /\ pass' = 1 /\ moved' = FALSE
    /\ load' = LoadOf(part)
    /\ todo' = Vertices
    /\ UNCHANGED <<input, part, counters>>

EnterVolume ==
    /\ phase = "balance" /\ PassOver(BalancePasses)
    /\ phase' = "volume" /\ pass' = 1 /\ moved' = FALSE
    /\ load' = LoadOf(part)
    /\ cnt' = CountsOf(adj, part)
    /\ todo' = CountedBoundary(part, cnt')
    /\ UNCHANGED <<input, part, recv, inc, drift, tot0, straggler>>

MakespanEnabled == D >= 2 /\ alpha > 0

EnterMakespan ==
    /\ phase = "volume" /\ PassOver(VolumePasses) /\ MakespanEnabled
    /\ phase' = "makespan" /\ pass' = 1 /\ moved' = FALSE
    /\ load' = LoadOf(part)
    /\ cnt' = CountsOf(adj, part)
    /\ recv' = ReceivedOf(adj, part)
    /\ inc' = IncidentOf(adj, part)
    /\ drift' = 0 /\ tot0' = Volume(adj, part)
    /\ straggler' = Straggler(recv', inc')
    /\ todo' = SweepOf(straggler', part, cnt')
    /\ UNCHANGED <<input, part>>

Write ==
    /\ \/ phase = "makespan" /\ PassOver(MakespanSweeps)
       \/ phase = "volume" /\ PassOver(VolumePasses) /\ ~MakespanEnabled
    /\ phase' = "written"
    /\ UNCHANGED <<input, part, pass, todo, moved, load, counters>>

Terminated == phase = "written" /\ UNCHANGED vars

Visit(v) == KwayVisit(v) \/ BalanceVisit(v) \/ VolumeVisit(v)
                \/ MakespanStay(v) \/ MakespanMove(v)

Next == \/ \E v \in todo : Visit(v)
        \/ NextKwayPass \/ NextBalancePass \/ NextVolumePass \/ NextSweep
        \/ EnterBalance \/ EnterVolume \/ EnterMakespan
        \/ Write \/ Terminated

Spec == Init /\ [][Next]_vars

-----------------------------------------------------------------------------
(* Properties.                                                             *)

\* The counters every decision is read off never drift from the partition:
\* after any number of moves they are what a recount would give.
CountersExact ==
    /\ load = LoadOf(part)
    /\ phase \in {"volume", "makespan"} => cnt = CountsOf(adj, part)
    /\ phase = "makespan" => /\ recv = ReceivedOf(adj, part)
                             /\ inc = IncidentOf(adj, part)
                             /\ tot0 + drift = Volume(adj, part)

\* Each move of refine_kway lowers the cut and each move of refine_volume the
\* communication volume, recomputed from the graph: "monotone cut descent",
\* although both decide from counters and from a list made at the start of
\* the pass.  And whatever prior partition the four passes work on, and in
\* whatever order they leave it to each other, a part only grows within its
\* capacity: one that is too full can but shrink, in every pass.
EveryMoveDescends ==
    [][part' # part =>
        /\ \A d \in Parts : LoadOf(part')[d] > LoadOf(part)[d]
                               => LoadOf(part')[d] <= Cap[d]
        /\ phase = "kway" => Cut(adj, part') < Cut(adj, part)
        /\ phase = "volume" => Volume(adj, part') < Volume(adj, part)]_vars

Makespan(p) ==
    LET r == ReceivedOf(adj, p)
        n == IncidentOf(adj, p)
    IN  Max({Cost(r, n, d) : d \in Parts})

\* The straggler pass never makes the slowest part slower, and the volume
\* stays within the budget of the whole pass.
StragglerShrinks ==
    /\ [][phase = "makespan" => Makespan(part') <= Makespan(part)]_vars
    /\ [](phase = "makespan" =>
              Volume(adj, part) <= tot0 + (Slack * tot0) \div 100)

\* "Interior vertices can never gain": when refine_kway stops because a pass
\* moved nothing, no vertex at all can lower the cut by moving anywhere it
\* fits.
KwayLocalOptimum ==
    (phase = "kway" /\ todo = {} /\ ~moved) =>
        \A v \in Vertices, d \in Parts :
            (Fits(v, d) /\ d # part[v]) => KwayGain(v, d) <= 0

=============================================================================
