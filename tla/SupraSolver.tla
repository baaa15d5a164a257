----------------------------- MODULE SupraSolver -----------------------------
(***************************************************************************)
(* cpp/supra_solver.cpp: an assignment of the cells of a supra-graph to    *)
(* devices that cuts little weight.  The cells are streamed and placed one *)
(* by one (a Fennel score under a hard capacity), refinement rounds move   *)
(* single cells while that lowers the cut, and the cheapest feasible of    *)
(* the result and of two block assignments is written.  When the binary is *)
(* missing or fails, supra_solve_run of partition/allocate.py falls back   *)
(* to the cheaper of the two blocks.                                       *)
(* Weights are integers, scores are compared exactly.                      *)
(***************************************************************************)
EXTENDS SupraGraph

CONSTANTS Weights,       \* the values of w_S and w_T
          Caps           \* the values of cap_cells; 0 stands for no cap

ASSUME SolverAssumption == Weights \subseteq Nat /\ Caps \subseteq Nat

VARIABLES cells, sp, tp, \* the supra-graph
          ws, wt,        \* w_S and w_T
          capCells,      \* cap_cells
          dev,           \* dev[c], Unplaced at first
          load,          \* load[d]
          phase,         \* the part of the program that runs
          todo,          \* the cells the running loop has still to visit
          moved,         \* moves > 0 in this round
          round,
          out            \* the assignment that is written

input == <<cells, sp, tp, ws, wt, capCells>>
solverVars == <<input, dev, load, phase, todo, moved, round, out>>

Unplaced     == -1
RefineRounds == 8        \* two rounds only above five million cells

HardCap == capCells > 0

\* ceil(C / D)
MinFeasible == (Cardinality(cells) + D - 1) \div D

\* A hard cap below it is raised to it; without one it is the target.
Capacity == IF HardCap /\ capCells >= MinFeasible THEN capCells ELSE MinFeasible

CostOf(asg) ==
    ws * Cardinality(CutPairs(asg, sp)) + wt * Cardinality(CutPairs(asg, tp))

\* Seeded fault: the temporal pairs are not gathered.
PullFault(c, d) == ws * Cardinality(PairsOn(dev, c, d, sp))
\* The weight between c and the cells on d: gbuf[d] and mgain[d].
Pull(c, d) ==
    ws * Cardinality(PairsOn(dev, c, d, sp)) + wt * Cardinality(PairsOn(dev, c, d, tp))

\* A loop visits the cells in vertex-major order, but the stream of the
\* greedy pass follows the coordinate whose cut is the more expensive one.
Leads(c, d) == IF phase = "greedy" /\ wt <= ws THEN SnapshotMajor(c, d) ELSE VertexMajor(c, d)
IsNext(c) == c \in todo /\ \A d \in todo \ {c} : Leads(c, d)

Init ==
    /\ phase = "greedy" /\ todo = cells
    /\ dev = [c \in cells |-> Unplaced] /\ load = [d \in Devices |-> 0]
    /\ moved = FALSE /\ round = 1
    /\ out = dev

-----------------------------------------------------------------------------
(* Greedy placement.                                                       *)

Open == {d \in Devices : load[d] < Capacity}

WMax == IF ws = 0 /\ wt = 0 THEN 1 ELSE IF ws > wt THEN ws ELSE wt

\* gbuf[d] - 1.5 * wmax * load[d] / cap, times 2 * cap.
Score(c, d) == 2 * Capacity * Pull(c, d) - 3 * WMax * load[d]

\* There is always an open device: the cells placed so far are fewer than
\* D * Capacity.
Place(c) ==
    /\ phase = "greedy" /\ IsNext(c)
    /\ \E d \in Open :
           /\ \A e \in Open \ {d} : \/ Score(c, d) > Score(c, e)
                                    \/ Score(c, d) = Score(c, e) /\ d < e
           /\ dev' = [dev EXCEPT ![c] = d]
           /\ load' = [load EXCEPT ![d] = @ + 1]
    /\ todo' = todo \ {c}
    /\ UNCHANGED <<input, phase, moved, round, out>>

StartRefine ==
    /\ phase = "greedy" /\ todo = {}
    /\ phase' = "refine" /\ todo' = cells
    /\ UNCHANGED <<input, dev, load, moved, round, out>>

-----------------------------------------------------------------------------
(* Refinement.                                                             *)

\* Seeded fault: the capacity is compared before the cell is counted.
RoomyFault(d) == load[d] <= Capacity
Roomy(d) == load[d] + 1 <= Capacity

\* Seeded fault: a move that gains nothing is taken too.
BetterFault(c) ==
    {d \in Devices \ {dev[c]} : Roomy(d) /\ Pull(c, d) >= Pull(c, dev[c])}
\* The devices that would retain more of the weight of c.
Better(c) ==
    {d \in Devices \ {dev[c]} : Roomy(d) /\ Pull(c, d) > Pull(c, dev[c])}

\* Between devices that retain equally much the first touched in the
\* neighbour list of c is taken, which one is left open here.
Move(c) ==
    /\ phase = "refine" /\ IsNext(c)
    /\ \E d \in Better(c) :
           /\ \A e \in Better(c) : Pull(c, d) >= Pull(c, e)
           /\ dev' = [dev EXCEPT ![c] = d]
           /\ load' = [load EXCEPT ![dev[c]] = @ - 1, ![d] = @ + 1]
    /\ todo' = todo \ {c} /\ moved' = TRUE
    /\ UNCHANGED <<input, phase, round, out>>

Stay(c) ==
    /\ phase = "refine" /\ IsNext(c)
    /\ Better(c) = {}
    /\ todo' = todo \ {c}
    /\ UNCHANGED <<input, dev, load, phase, moved, round, out>>

NextRound ==
    /\ phase = "refine" /\ todo = {} /\ moved /\ round < RefineRounds
    /\ todo' = cells /\ moved' = FALSE /\ round' = round + 1
    /\ UNCHANGED <<input, dev, load, phase, out>>

-----------------------------------------------------------------------------
(* The winner, and the fallback.                                           *)

\* Seeded fault: the load of a block assignment is not looked at.
FeasibleFault(asg) == TRUE
Feasible(asg) == HardCap => \A d \in Devices : Cardinality(CellsOn(asg, d)) <= Capacity

\* greedy+refine, PSS, PTS
Candidates == <<dev, PSSBlocks(cells), PTSBlocks(cells)>>

\* The first of the cheapest feasible candidates.
Pick ==
    /\ phase = "refine" /\ todo = {} /\ (moved => round = RefineRounds)
    /\ \E i \in 1 .. 3 :
           /\ Feasible(Candidates[i])
           /\ \A j \in 1 .. 3 : Feasible(Candidates[j]) =>
                  \/ CostOf(Candidates[i]) < CostOf(Candidates[j])
                  \/ CostOf(Candidates[i]) = CostOf(Candidates[j]) /\ i <= j
           /\ out' = Candidates[i]
    /\ phase' = "solved"
    /\ UNCHANGED <<input, dev, load, todo, moved, round>>

\* The binary is missing, fails, or its output does not match the cells;
\* the fallback has no capacity.
Fallback ==
    /\ phase = "greedy" /\ todo = cells
    /\ out' = IF CostOf(PSSBlocks(cells)) <= CostOf(PTSBlocks(cells))
                  THEN PSSBlocks(cells) ELSE PTSBlocks(cells)
    /\ phase' = "fallback"
    /\ UNCHANGED <<input, dev, load, todo, moved, round>>

SolverNext ==
    \/ \E c \in todo : Place(c) \/ Move(c) \/ Stay(c)
    \/ StartRefine \/ NextRound \/ Pick \/ Fallback

\* The supra-graph is built from the edges.
SolverInit ==
    /\ ws \in Weights /\ wt \in Weights /\ capCells \in Caps
    /\ \E E \in Seq(TimedEdges) :
           cells = CellsOf(E) /\ sp = SpatialPairs(E) /\ tp = TemporalPairs(E)
    /\ cells # {} /\ Init

SolverSpec == SolverInit /\ [][SolverNext]_solverVars

-----------------------------------------------------------------------------
(* Properties.                                                             *)

\* The loads are kept by increments over the greedy pass and up to eight
\* rounds of moves; they are what every capacity test reads, so they must
\* stay exact, and within the capacity.
LoadsExactWithinCap ==
    \A d \in Devices : /\ load[d] = Cardinality(CellsOn(dev, d))
                       /\ load[d] <= Capacity

\* Every move of the refinement lowers the weighted cut of the whole
\* assignment, although it is decided from the pairs of one cell.
RefineDescends ==
    [][phase = "refine" /\ dev' # dev => CostOf(dev') < CostOf(dev)]_solverVars
=============================================================================
