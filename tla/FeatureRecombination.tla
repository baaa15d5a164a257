------------------------- MODULE FeatureRecombination -------------------------
(***************************************************************************)
(* sharded_llayer of runtime/feature_recombine.py: the columns are split   *)
(* over the devices; every layer each device aggregates its columns over   *)
(* the whole graph, then either the shards are concatenated or, with       *)
(* weights, every device multiplies its shard by its rows of the weight    *)
(* matrix and the partial products are summed; the nonlinearity comes      *)
(* after the sum, once, and the next layer is split again.                 *)
(***************************************************************************)
EXTENDS AggregationJob

VARIABLES shards,        \* h_shards: the aggregated shards of this layer
          partial,       \* z: the sum of the partial products so far
          device         \* the shard that is added next

recVars == <<job, shards, partial, device, h, done>>

-----------------------------------------------------------------------------
(* The layout: device d owns splits[d] columns, after those before it.     *)

NumDevices == Len(job.splits)
Offset(d)  == SumFunctionOnSet(job.splits, 1 .. (d - 1))
Shard(d)   == Offset(d) .. (Offset(d) + job.splits[d] - 1)

RecInit ==
    /\ h = job.x /\ done = 0
    /\ shards = << >> /\ partial = Zeros /\ device = 1

\* One device aggregates its columns over the whole graph.
AggregateShard ==
    /\ done < job.layers /\ Len(shards) < NumDevices
    /\ LET d == Len(shards) + 1
       IN  shards' = Append(shards, [v \in Vertices |->
                        [f \in Shard(d) |-> EdgeSum(job, h, v, f)]])
    /\ UNCHANGED <<job, partial, device, h, done>>

\* Seeded fault: the reduction waits for a column from every device.
AggregatedFault == /\ done < job.layers /\ Len(shards) = NumDevices
                   /\ \A d \in 1 .. NumDevices : job.splits[d] > 0
\* Every device has handed over its shard of this layer.
Aggregated == done < job.layers /\ Len(shards) = NumDevices

\* split_weight_rows and h_d @ W_d: the full-width product of one shard.
PartialProduct(d) ==
    [v \in Vertices |-> MixedRow([f \in Shard(d) |-> job.w[f]], shards[d][v])]

\* Seeded fault: each partial product goes through the nonlinearity.
ReduceFault(z, p) ==
    [v \in Vertices |-> PhiRow(job, [g \in Columns |-> z[v][g] + p[v][g]])]
Reduce(z, p) == [v \in Vertices |-> [g \in Columns |-> z[v][g] + p[v][g]]]

\* One step of the all-reduce.
MixShard ==
    /\ Aggregated /\ job.w # Unmixed /\ device <= NumDevices
    /\ partial' = Reduce(partial, PartialProduct(device))
    /\ device' = device + 1
    /\ UNCHANGED <<job, shards, h, done>>

NextLayer(z) ==
    /\ h' = [v \in Vertices |-> PhiRow(job, z[v])]
    /\ done' = done + 1
    /\ shards' = << >> /\ partial' = Zeros /\ device' = 1
    /\ UNCHANGED job

\* The nonlinearity, after the last partial product.
ActivateMixed ==
    /\ Aggregated /\ job.w # Unmixed /\ device = NumDevices + 1
    /\ NextLayer(partial)

\* recombine_aggregation: the concatenation of the shards, then the nonlinearity.
ActivateConcatenated ==
    /\ Aggregated /\ job.w = Unmixed
    /\ NextLayer([v \in Vertices |->
           [f \in Columns |-> shards[CHOOSE d \in 1..NumDevices : f \in Shard(d)][v][f]]])

RecNext == AggregateShard \/ MixShard \/ ActivateMixed \/ ActivateConcatenated
RecSpec == RecInit /\ [][RecNext]_recVars
=============================================================================
