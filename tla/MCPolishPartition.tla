-------------------------- MODULE MCPolishPartition --------------------------
(* PolishPartition with a heavy vertex, a heavy edge and capacities that   *)
(* an initial partition may exceed; and on one larger graph.               *)
EXTENDS PolishPartition

MCVwgt == [v \in Vertices |-> IF v = 0 THEN 2 ELSE 1]
MCEwgt == [v \in Vertices |-> [u \in Vertices |-> IF {u, v} = {0, 1} THEN 2 ELSE 1]]
MCCap  == [d \in Parts |-> IF d = 0 THEN 3 ELSE 2]

Pairs == {e \in SUBSET Vertices : Cardinality(e) = 2}
FromEdges(E) == [v \in Vertices |-> {u \in Vertices : {u, v} \in E}]

\* Every graph up to the names of its vertices, numbered by falling degree.
MCGraphs == {g \in {FromEdges(E) : E \in SUBSET Pairs} :
                 \A v \in Vertices, u \in Vertices :
                     v < u => Cardinality(g[v]) >= Cardinality(g[u])}

\* Nine vertices of weight one, for which the order of the moves matters.
OneVwgt == [v \in Vertices |-> 1]
OneEwgt == [v \in Vertices |-> OneVwgt]
OneCap  == [d \in Parts |-> 4]
OneGraph == {FromEdges({{0, 3}, {0, 4}, {0, 6}, {1, 3}, {2, 3}, {2, 5}, {3, 4},
                        {3, 6}, {4, 5}, {6, 8}})}
=============================================================================
