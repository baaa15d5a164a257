----------------------------- MODULE SupraGraph -----------------------------
(***************************************************************************)
(* The supra-graph of a temporal graph, as build_supra_cells               *)
(* (partition/allocate.py), cpp/supra_build.cpp and cpp/supra_solver.cpp   *)
(* build it.  A cell <<v, t>> is a vertex in a snapshot in which it has an *)
(* edge; the program numbers the cells in vertex-major order, here a cell  *)
(* is its own number.  Cells are coupled by spatial pairs, one per edge,   *)
(* and temporal pairs, one per two consecutive snapshots of a vertex.      *)
(***************************************************************************)
EXTENDS Integers, Sequences, FiniteSets

CONSTANTS Vertices,      \* 0 .. N - 1
          Snapshots,     \* 0 .. S - 1
          D              \* number of devices

ASSUME SupraAssumption ==
    /\ Vertices \subseteq Nat /\ IsFiniteSet(Vertices)
    /\ Snapshots \subseteq Nat /\ IsFiniteSet(Snapshots)
    /\ D \in Nat \ {0}

Devices == 0 .. D - 1

\* A time-stamped edge; ingest has put every snapshot number in range.
TimedEdges == [src : Vertices, dst : Vertices, snap : Snapshots]

CellsOf(E) ==
    UNION {{<<E[k].src, E[k].snap>>, <<E[k].dst, E[k].snap>>} : k \in DOMAIN E}

\* The order of cell numbers: vertex-major, snapshot-minor.
VertexMajor(c, d) == c[1] < d[1] \/ (c[1] = d[1] /\ c[2] < d[2])
SnapshotMajor(c, d) == c[2] < d[2] \/ (c[2] = d[2] /\ c[1] < d[1])

\* <<k, a, b>>: the k-th edge couples the cells a and b.  Self-loops couple
\* nothing, parallel edges couple twice.
SpatialPairs(E) ==
    {<<k, <<E[k].src, E[k].snap>>, <<E[k].dst, E[k].snap>>>> :
        k \in {j \in DOMAIN E : E[j].src # E[j].dst}}

\* <<0, a, b>>: b is the next cell of a's vertex.
TemporalPairs(E) ==
    {<<0, p[1], p[2]>> : p \in
        {q \in CellsOf(E) \X CellsOf(E) :
            /\ q[1][1] = q[2][1] /\ q[1][2] < q[2][2]
            /\ \A c \in CellsOf(E) :
                   ~(c[1] = q[1][1] /\ q[1][2] < c[2] /\ c[2] < q[2][2])}}

-----------------------------------------------------------------------------
(* Cuts and loads of an assignment of cells to devices.                    *)

CutPairs(asg, pairs) == {p \in pairs : asg[p[2]] # asg[p[3]]}

\* The pairs of c and, of these, the ones whose other end is on device d.
Touching(c, pairs) == {p \in pairs : p[2] = c \/ p[3] = c}
OtherEnd(c, p) == IF p[2] = c THEN p[3] ELSE p[2]
PairsOn(asg, c, d, pairs) ==
    {p \in Touching(c, pairs) : asg[OtherEnd(c, p)] = d}

CellsOn(asg, d) == {c \in DOMAIN asg : asg[c] = d}

\* A cell inherits the device of its vertex.
Lifted(home, cells) == [c \in cells |-> home[c[1]]]

\* The contiguous blocks of a coordinate: its distinct values are dealt to
\* the devices in D runs of even length.
BlockAssignment(cells, coord) ==
    LET Values == {c[coord] : c \in cells}
        Rank(x) == Cardinality({y \in Values : y < x})
    IN  [c \in cells |-> (Rank(c[coord]) * D) \div Cardinality(Values)]
PSSBlocks(cells) == BlockAssignment(cells, 2)
PTSBlocks(cells) == BlockAssignment(cells, 1)
=============================================================================
