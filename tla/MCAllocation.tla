----------------------------- MODULE MCAllocation -----------------------------
(* Allocation on every supra-graph of a few time-stamped edges, up to the  *)
(* order and the direction of the edges.                                   *)
EXTENDS Allocation

CONSTANT MaxEdges

Edges == {e \in TimedEdges : e.src < e.dst}
EdgeBefore(e, f) == VertexMajor(<<e.snap, 10 * e.src + e.dst>>, <<f.snap, 10 * f.src + f.dst>>)
MCStreams ==
    {E \in UNION {[1 .. n -> Edges] : n \in 1 .. MaxEdges} :
        \A k \in 2 .. Len(E) : ~EdgeBefore(E[k], E[k - 1])}

\* Any layout without a core, and vertex-cuts with a core of one vertex.
MCHomes == {h \in [Vertices -> Devices \cup {Replicated}] : Cardinality(CoreOf(h)) <= 1}

MCInit ==
    /\ ws \in Weights /\ wt \in Weights /\ capCells \in Caps
    /\ \E E \in MCStreams :
           cells = CellsOf(E) /\ sp = SpatialPairs(E) /\ tp = TemporalPairs(E)
    /\ Init
    /\ axis \in {"node", "feature", "hybrid"} /\ plan = NoPlan
MCSpec == MCInit /\ [][Next]_vars
=============================================================================
