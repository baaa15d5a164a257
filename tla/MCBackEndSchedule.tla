-------------------------- MODULE MCBackEndSchedule --------------------------
(* BackEndSchedule for clusters and workloads of every kind.               *)
EXTENDS BackEndSchedule

CONSTANTS Capacities, Rates, NodeCounts, EdgeCounts, Windows, Vertices, Sizes

\* Without sizes: shares by bandwidth, on every cluster.
ScalarLoads ==
    {[nodes |-> n, edges |-> e, featDim |-> 1, window |-> t, fresh |-> f, aware |-> FALSE,
      fv |-> << >>, home |-> << >>] :
        n \in NodeCounts, e \in EdgeCounts, t \in Windows, f \in {2, 4}}
Cluster == [Devices -> [cap : Capacities, bw : Rates, h2d : Rates]]

\* With the size and the home of every vertex, some in the replicated core;
\* vertices of the same home are alike, they come in the order of their sizes.
AwareLoads ==
    {[nodes |-> Cardinality(Vertices), edges |-> e, featDim |-> 1, window |-> t, fresh |-> 4,
      aware |-> TRUE, fv |-> x, home |-> h] :
        e \in {3}, t \in Windows,
        x \in {y \in [Vertices -> Sizes] : \A u, v \in Vertices : u < v => y[u] <= y[v]},
        h \in [Vertices -> Devices \cup {CoreHome}]}
AwareCluster == [Devices -> [cap : Capacities, bw : {1}, h2d : {1}]]

MCInit ==
    /\ \/ hw \in Cluster /\ w \in ScalarLoads
       \/ hw \in AwareCluster /\ w \in AwareLoads
    /\ ScheduleInit
MCSpec == MCInit /\ [][ScheduleNext]_scheduleVars
=============================================================================
