---------------------------- MODULE MemoryPlanner ----------------------------
(***************************************************************************)
(* plan_memory of schedule/planner.py: how much of a temporal window every *)
(* device keeps in its memory.  The devices are planned one after another. *)
(* A device that can hold a snapshot keeps as many as fit and streams the  *)
(* others; one that cannot is infeasible or, when the size and the home of *)
(* every vertex are known, spills single feature rows, the largest first.  *)
(* Byte counts are integers, times are fractions <<numerator, denominator>>*)
(* in bytes over GB/s; prefetch is on, as for every caller.                *)
(***************************************************************************)
EXTENDS Integers, Sequences, FiniteSets, Functions

CONSTANTS D,             \* the number of devices
          Layers,        \* the depth of the model
          BytesPerFeat, BytesPerEdge,
          ReserveBuffers \* snapshot slots set aside while streaming

ASSUME PlannerAssumption ==
    /\ D \in Nat \ {0} /\ Layers \in Nat
    /\ BytesPerFeat \in Nat \ {0} /\ BytesPerEdge \in Nat /\ ReserveBuffers \in Nat

VARIABLES w,             \* the workload
          hw,            \* hw[k]: the capacity and the bandwidths of device k
          plans,         \* the plans made so far, plans[k] for device k
          global         \* bottleneck and bound over all devices

plannerVars == <<w, hw, plans, global>>

Devices    == 1 .. D
CoreHome == 0          \* the home of a vertex of the replicated core
Forever    == <<1, 0>>   \* an infinite time
Larger(a, b) == IF a > b THEN a ELSE b
Smaller(a, b) == IF a < b THEN a ELSE b
\* The order of two times, an infinite one last.
Before(s, t) == s[1] * t[2] < t[1] * s[2]
Later(s, t) == IF Before(s, t) THEN t ELSE s

\* round(p / q), halves to the even neighbour.
Rounded(p, q) ==
    LET down == p \div q
        twice == 2 * (p % q)
    IN  IF twice > q \/ (twice = q /\ down % 2 = 1) THEN down + 1 ELSE down

-----------------------------------------------------------------------------
(* The share of the work a device gets.                                    *)

HomedOn(k) == {v \in DOMAIN w.home : w.home[v] = k}
Core       == HomedOn(CoreHome)
DimsOf(S)  == SumFunctionOnSet(w.fv, S)

TotalBandwidth == SumFunction([k \in Devices |-> hw[k].bw])
FairShare == [k \in Devices |-> Larger(1, Rounded(hw[k].bw * w.nodes, TotalBandwidth))]

\* In proportion to the bandwidth, the last device takes the difference.
ScalarShare(k) ==
    IF k < D THEN FairShare[k]
    ELSE Larger(1, FairShare[k] + w.nodes - SumFunction(FairShare))

\* The replicated core is held by every device.
NodesOn(k) == IF w.aware THEN Cardinality(HomedOn(k)) + Cardinality(Core) ELSE ScalarShare(k)
DimsOn(k)  == IF w.aware THEN DimsOf(HomedOn(k) \cup Core) ELSE ScalarShare(k) * w.featDim
EdgesOn(k) == Rounded(w.edges * NodesOn(k), Larger(1, w.nodes))

-----------------------------------------------------------------------------
(* What a number of snapshots takes.                                       *)

FwdTransientCopies == 3

\* The features of one snapshot; with the activations and the edges.
FeatBytes(k) == DimsOn(k) * BytesPerFeat
PerSnap(k)   == (1 + Layers) * FeatBytes(k) + EdgesOn(k) * BytesPerEdge

\* The intermediates of the forward pass, and the second prefetch buffer.
Overhead(k, streaming) == (FwdTransientCopies + IF streaming THEN 1 ELSE 0) * FeatBytes(k)

\* The allocator adds a quarter to the snapshots and the overhead.
\* Every comparison with the capacity is multiplied by 4.
Inflated4(k, snapshots, streaming) == 5 * (snapshots * PerSnap(k) + Overhead(k, streaming))

\* Seeded fault: the inflation of the allocator is left out.
WillStreamFault(k) == w.window * PerSnap(k) + Overhead(k, FALSE) > hw[k].cap
\* The whole window does not fit beside the intermediates.
WillStream(k) == Inflated4(k, w.window, FALSE) > 4 * hw[k].cap

\* The snapshots that fit beside the overhead; negative when not even that does.
Fit(k) == (4 * hw[k].cap - 5 * Overhead(k, WillStream(k))) \div (5 * Larger(1, PerSnap(k)))

-----------------------------------------------------------------------------
(* Tiering by snapshots.                                                   *)

\* Seeded fault: no slot is set aside for the snapshots that pass through.
ResidentFault(k) == IF w.window > Fit(k) THEN Smaller(w.window, Fit(k)) ELSE w.window
Resident(k) ==
    IF w.window > Fit(k) THEN Smaller(w.window, Larger(1, Fit(k) - ReserveBuffers))
    ELSE w.window

Counted(k) ==
    IF Resident(k) < w.window THEN Smaller(Resident(k) + ReserveBuffers, w.window)
    ELSE Resident(k)

\* Reuse leaves w.fresh quarters of a snapshot to be computed and staged,
\* except for the first one of the window.
SnapshotCompute(k) ==
    << Layers * 2 * EdgesOn(k) * FeatBytes(k) * (4 + (w.window - 1) * w.fresh),
       4 * Larger(1, NodesOn(k)) * hw[k].bw >>
SnapshotStaging(k) ==
    << (w.window - Resident(k)) * w.fresh * FeatBytes(k), 4 * hw[k].h2d >>

SnapshotPlan(k) ==
    [work |-> NodesOn(k), edges |-> EdgesOn(k),
     resident |-> Resident(k), streamed |-> w.window - Resident(k),
     peak |-> Inflated4(k, Counted(k), WillStream(k)) \div 4,
     compute |-> SnapshotCompute(k), staging |-> SnapshotStaging(k),
     epoch |-> Later(SnapshotCompute(k), SnapshotStaging(k)),
     feasible |-> TRUE]

InfeasiblePlan(k, streamed) ==
    [work |-> NodesOn(k), edges |-> EdgesOn(k),
     resident |-> 0, streamed |-> streamed, peak |-> PerSnap(k),
     compute |-> <<0, 1>>, staging |-> <<0, 1>>, epoch |-> Forever,
     feasible |-> FALSE]

-----------------------------------------------------------------------------
(* Tiering by rows, where not one snapshot fits but every row is known.    *)

WeightOf(S)   == DimsOf(S) * BytesPerFeat * (1 + Layers)
EdgeBytes(k)  == EdgesOn(k) * BytesPerEdge
RowBudget(k)  == hw[k].cap - EdgeBytes(k)
NeedFree(k)   == WeightOf(HomedOn(k)) - RowBudget(k)

\* Seeded fault: the smallest rows are spilled first.
AheadFault(u, v) == w.fv[u] < w.fv[v] \/ (w.fv[u] = w.fv[v] /\ u < v)
\* The order of the spill, a stable sort by decreasing size.
Ahead(u, v) == w.fv[u] > w.fv[v] \/ (w.fv[u] = w.fv[v] /\ u < v)

\* Rows are spilled until the bytes ahead of the next one are enough, at
\* least one of them even when nothing has to go.
Spilled(k) ==
    {v \in HomedOn(k) :
        LET first == {u \in HomedOn(k) : Ahead(u, v)}
        IN  first = {} \/ WeightOf(first) < NeedFree(k)}

\* Twice the resident bytes: where nothing has to go, the allocator's
\* quarter of the features and of one live copy is added.
Resident2(k) ==
    2 * (WeightOf(HomedOn(k)) - WeightOf(Spilled(k)) + EdgeBytes(k))
    + IF NeedFree(k) <= 0 THEN DimsOf(HomedOn(k)) * BytesPerFeat ELSE 0

RowCompute(k) ==
    << Layers * 2 * EdgesOn(k) * FeatBytes(k), Larger(1, NodesOn(k)) * hw[k].bw >>
RowStaging(k) == << WeightOf(Spilled(k)), hw[k].h2d >>

RowPlan(k) ==
    [work |-> NodesOn(k), edges |-> EdgesOn(k),
     resident |-> NodesOn(k) - Cardinality(Spilled(k)),
     streamed |-> Cardinality(Spilled(k)),
     peak |-> Resident2(k) \div 2,
     compute |-> RowCompute(k), staging |-> RowStaging(k),
     epoch |-> Later(RowCompute(k), RowStaging(k)),
     feasible |-> Resident2(k) <= 2 * hw[k].cap]

-----------------------------------------------------------------------------
(* The plan of all devices.                                                *)

NoGlobal == [bound |-> "none", bottleneck |-> 0]

\* A workload of at least one snapshot on devices that move data; vertices
\* are numbered, and the size of every vertex that has a home is known.
InputOK ==
    /\ w.window \in Nat \ {0} /\ w.nodes \in Nat /\ w.edges \in Nat
    /\ w.featDim \in Nat
    /\ \A k \in Devices :
          hw[k].cap \in Nat /\ hw[k].bw \in Nat \ {0} /\ hw[k].h2d \in Nat \ {0}
    /\ IsFiniteSet(DOMAIN w.home) /\ DOMAIN w.home \subseteq Nat
    /\ \A v \in DOMAIN w.home : w.fv[v] \in Nat

PlannerInit == InputOK /\ plans = << >> /\ global = NoGlobal

Add(k, plan) ==
    /\ k = Len(plans) + 1 /\ k \in Devices
    /\ plans' = Append(plans, plan)
    /\ UNCHANGED <<w, hw, global>>

PlanSnapshots(k) == Fit(k) >= 1 /\ Add(k, SnapshotPlan(k))
PlanNothing(k)   == Fit(k) < 1 /\ ~w.aware /\ Add(k, InfeasiblePlan(k, w.window))
\* The edges alone exceed the capacity.
PlanNoRows(k) ==
    /\ Fit(k) < 1 /\ w.aware /\ RowBudget(k) <= 0
    /\ Add(k, InfeasiblePlan(k, NodesOn(k)))
PlanRows(k) ==
    /\ Fit(k) < 1 /\ w.aware /\ RowBudget(k) > 0
    /\ Add(k, RowPlan(k))

FeasibleDevices == {k \in Devices : plans[k].feasible}
\* The first of the feasible devices whose epoch is the longest.
Bottleneck ==
    CHOOSE k \in FeasibleDevices :
        \A j \in FeasibleDevices \ {k} :
            \/ Before(plans[j].epoch, plans[k].epoch)
            \/ ~Before(plans[k].epoch, plans[j].epoch) /\ k < j
Globalise ==
    /\ Len(plans) = D /\ global = NoGlobal
    /\ global' =
          IF FeasibleDevices = {} THEN [bound |-> "infeasible", bottleneck |-> 1]
          ELSE [bound |-> IF FeasibleDevices # Devices THEN "infeasible"
                          ELSE IF Before(plans[Bottleneck].compute, plans[Bottleneck].staging)
                               THEN "pcie-staging" ELSE "compute",
                bottleneck |-> Bottleneck]
    /\ UNCHANGED <<w, hw, plans>>

PlannerNext ==
    \/ \E k \in Devices :
          PlanSnapshots(k) \/ PlanNothing(k) \/ PlanNoRows(k) \/ PlanRows(k)
    \/ Globalise
=============================================================================
