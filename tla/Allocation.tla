----------------------------- MODULE Allocation -----------------------------
(***************************************************************************)
(* allocate of partition/allocate.py: on the node axis the supra-cut       *)
(* solver and arrange both propose a layout and the one with the smaller   *)
(* weighted cut becomes the plan; on the other axes arrange's layout does. *)
(* The solver's layout is of cells and is folded to one home per vertex;   *)
(* arrange's is of vertices, with a replicated core on its vertex-cut, and *)
(* is lifted to cells.                                                     *)
(***************************************************************************)
EXTENDS SupraSolver, Functions

CONSTANT Homes           \* the layouts arrange may return

Replicated == -1         \* balanced_periphery leaves it for a core vertex

ASSUME AllocationAssumption == Homes \subseteq [Vertices -> Devices \cup {Replicated}]

VARIABLES axis,          \* the decomposition that was forced or chosen
          plan           \* the AllocationPlan, NoPlan until it is composed

vars == <<solverVars, axis, plan>>

NoPlan == [source |-> "none"]

AllocationInit ==
    /\ SolverInit
    /\ axis \in {"node", "feature", "hybrid"}
    /\ plan = NoPlan

\* Seeded fault: the cells of every vertex are counted.
CellsAtFault(asg, v, d) == CellsOn(asg, d)
CellsAt(asg, v, d) == {c \in CellsOn(asg, d) : c[1] = v}

\* The device with the most cells of v, the first of several; 0 when v has
\* no cell.
Majority(asg, v) ==
    CHOOSE d \in Devices : \A e \in Devices \ {d} :
        LET n == Cardinality(CellsAt(asg, v, d))
            m == Cardinality(CellsAt(asg, v, e))
        IN  n > m \/ (n = m /\ d < e)
Folded(asg) == [v \in Vertices |-> Majority(asg, v)]

CoreOf(h) == {v \in Vertices : h[v] = Replicated}

\* The core is on every device.
RowsOn(h, d) == Cardinality({v \in Vertices : h[v] = d}) + Cardinality(CoreOf(h))

PlanOf(source, h, asg) ==
    [source     |-> source,
     assignment |-> h,
     cellDevice |-> asg,
     spatial    |-> Cardinality(CutPairs(asg, sp)),
     temporal   |-> Cardinality(CutPairs(asg, tp)),
     counts     |-> [d \in Devices |-> RowsOn(h, d)]]

ArrangePlan(h) == PlanOf("arrange", h, Lifted(h, cells))
SupraPlan      == PlanOf("supra", Folded(out), out)

\* Seeded fault: the dearer of the two is kept.
SupraWinsFault(h) == CostOf(out) >= CostOf(Lifted(h, cells))
SupraWins(h) == CostOf(out) <= CostOf(Lifted(h, cells))

RunSolver == axis = "node" /\ SolverNext /\ UNCHANGED <<axis, plan>>

\* arrange reads nothing of the solver: its layout is brought in here.
ComposeNodePlan ==
    /\ phase \in {"solved", "fallback"} /\ plan = NoPlan
    /\ \E h \in Homes : plan' = IF SupraWins(h) THEN SupraPlan ELSE ArrangePlan(h)
    /\ UNCHANGED <<solverVars, axis>>

ComposeOtherPlan ==
    /\ axis # "node" /\ plan = NoPlan
    /\ \E h \in Homes : plan' = ArrangePlan(h)
    /\ UNCHANGED <<solverVars, axis>>

Done == plan # NoPlan /\ UNCHANGED vars

Next == RunSolver \/ ComposeNodePlan \/ ComposeOtherPlan \/ Done

Spec == AllocationInit /\ [][Next]_vars

-----------------------------------------------------------------------------
(* Properties.                                                             *)

\* Refinement that stops because a round moved nothing has reached a local
\* optimum: no single cell can move to a device with room and cut less.
LocalOptimum ==
    phase = "solved" /\ ~moved =>
        \A c \in cells, d \in Devices :
            load[d] < Capacity => CostOf([dev EXCEPT ![c] = d]) >= CostOf(dev)

\* The composed plan inherits the guarantee of the solver: on the node axis
\* it costs at most as much as either block assignment that respects the
\* capacity, whether the binary ran or the fallback did.
NoWorseThanCorners ==
    plan # NoPlan /\ axis = "node" =>
        \A corner \in {PSSBlocks(cells), PTSBlocks(cells)} :
            Feasible(corner) => CostOf(plan.cellDevice) <= CostOf(corner)

\* A plan that takes the solver's cells respects the capacity on the binary's path.
SupraPlanFits ==
    plan # NoPlan /\ plan.source = "supra" /\ phase = "solved" /\ HardCap =>
        \A d \in Devices : Cardinality(CellsOn(plan.cellDevice, d)) <= Capacity

\* A vertex whose cells are on one device is folded to that device: lifting
\* the folded layout back changes only timelines that were cut.
FoldKeepsWholeTimelines ==
    plan # NoPlan /\ plan.source = "supra" =>
        \A c \in cells :
            (\A e \in cells : e[1] = c[1] => plan.cellDevice[e] = plan.cellDevice[c])
                => Lifted(plan.assignment, cells)[c] = plan.cellDevice[c]

=============================================================================
