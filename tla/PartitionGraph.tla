--------------------------- MODULE PartitionGraph ---------------------------
(***************************************************************************)
(* The weighted graph that cpp/multilevel.cpp partitions, and what a       *)
(* partition of it costs: the load of a part, the weight of the cut and    *)
(* the communication volume (the rows every part receives per layer).      *)
(***************************************************************************)
EXTENDS PartNumbers, FiniteSets, Functions

CONSTANTS N,             \* g.n, the number of vertices
          Vwgt,          \* vwgt[v], the weight of vertex v
          Ewgt           \* ewgt of the edge {v, u}, as Ewgt[v][u]

Vertices == 0 .. N - 1

GraphAssumption ==
    /\ N \in Nat
    /\ Vwgt \in [Vertices -> Nat \ {0}]
    /\ Ewgt \in [Vertices -> [Vertices -> Nat]]
    /\ \A v \in Vertices, u \in Vertices : Ewgt[v][u] = Ewgt[u][v]
ASSUME GraphAssumption

\* Neighbourhoods of a simple undirected graph, which build_csr produces:
\* parallel edges merged, self-loops dropped.
IsAdjacency(adj) ==
    /\ adj \in [Vertices -> SUBSET Vertices]
    /\ \A v \in Vertices : /\ v \notin adj[v]
                           /\ \A u \in adj[v] : v \in adj[u]

Members(part, d) == {v \in Vertices : part[v] = d}

LoadOf(part) == [d \in Parts |-> SumFunctionOnSet(Vwgt, Members(part, d))]

\* conn[d] of v: the weight of its edges into part d.
Conn(adj, part, v, d) == SumFunctionOnSet(Ewgt[v], adj[v] \cap Members(part, d))

\* cnt[u][d]: how many neighbours of u part d holds.
CountsOf(adj, part) ==
    [u \in Vertices |-> [d \in Parts |-> Cardinality(adj[u] \cap Members(part, d))]]

\* R[d]: the distinct remote rows part d receives.
ReceivedOf(adj, part) ==
    [d \in Parts |-> Cardinality({u \in Vertices \ Members(part, d) :
                                      adj[u] \cap Members(part, d) # {}})]

Degree(adj, v) == SumFunctionOnSet(Ewgt[v], adj[v])
Degrees(adj) == [v \in Vertices |-> Degree(adj, v)]

\* I[d]: the incident edge traversals of part d.
IncidentOf(adj, part) ==
    [d \in Parts |-> SumFunctionOnSet(Degrees(adj), Members(part, d))]

Volume(adj, part) == SumFunction(ReceivedOf(adj, part))

\* What the edges of v contribute to the cut, counted at v.
CutAt(adj, part) == [v \in Vertices |-> Degree(adj, v) - Conn(adj, part, v, part[v])]

\* Twice the weight of the cut.
Cut(adj, part) == SumFunction(CutAt(adj, part))
=============================================================================
