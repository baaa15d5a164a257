---------------------------- MODULE AggregationJob ----------------------------
(***************************************************************************)
(* The job the executors of runtime/ and schedule/distributed.py are given *)
(* -- a graph, a feature matrix, the number of layers and the              *)
(* nonlinearity -- and the two layer functions they evaluate: the mean     *)
(* over a vertex and its neighbours (_mean_adj_csr and _agg_rows_cpu of    *)
(* runtime/coexec.py, the same CSR in run_distributed) and the sum over    *)
(* the neighbours, mixed by a weight matrix (feature_recombine.py).        *)
(*                                                                         *)
(* A matrix is a function from vertices to functions from columns to       *)
(* integers.  The inputs are multiples of a number that every degree       *)
(* divides once per layer, so the division of a mean is exact.             *)
(***************************************************************************)
EXTENDS Integers, Sequences, FiniteSets, Functions

CONSTANTS N,             \* the vertices are 0 .. N-1
          F              \* the feature columns are 0 .. F-1

ASSUME JobAssumption == N \in Nat \ {0} /\ F \in Nat \ {0}

Vertices == 0 .. (N - 1)
Columns  == 0 .. (F - 1)
Matrix   == [Vertices -> [Columns -> Int]]

VARIABLES job,           \* the job that is executed
          h,             \* the matrix after the finished layers
          done           \* the number of finished layers

\* The matrix an executor allocates for its output.
Zeros == [v \in Vertices |-> [f \in Columns |-> 0]]

-----------------------------------------------------------------------------
(* The neighbour sum.  Edge i of the list is a pair; both directions count, *)
(* and an edge from a vertex to itself counts twice.                       *)

EdgeSum(j, m, v, f) ==
    SumFunction([i \in DOMAIN j.edges |->
        LET e == j.edges[i]
        IN  (IF e[2] = v THEN m[e[1]][f] ELSE 0)
            + (IF e[1] = v THEN m[e[2]][f] ELSE 0)])

Degree(j, v) ==
    Cardinality({i \in DOMAIN j.edges : j.edges[i][1] = v})
    + Cardinality({i \in DOMAIN j.edges : j.edges[i][2] = v})

\* relu(), or _apply_nonlinearity with "relu" or "identity".
Phi(j, x) == IF j.relu /\ x < 0 THEN 0 ELSE x
PhiRow(j, row) == [f \in DOMAIN row |-> Phi(j, row[f])]

-----------------------------------------------------------------------------
(* One row of the mean layer, before the nonlinearity: the self-loop that  *)
(* _mean_adj_csr adds makes every degree positive.                         *)

MeanRow(j, m, v) ==
    [f \in Columns |-> (EdgeSum(j, m, v, f) + m[v][f]) \div (Degree(j, v) + 1)]
MeanLayer(j, m) == [v \in Vertices |-> PhiRow(j, MeanRow(j, m, v))]

(* The layer of reference_llayer: aggregate, mix if there are weights,     *)
(* then the nonlinearity.  The aggregation has no self-loop.               *)

Unmixed == << >>         \* W is None
SumRow(j, m, v) == [f \in Columns |-> EdgeSum(j, m, v, f)]
MixedRow(w, row) ==
    [g \in Columns |-> SumFunction([f \in DOMAIN row |-> row[f] * w[f][g]])]
FullLayer(j, m) ==
    [v \in Vertices |->
        PhiRow(j, IF j.w = Unmixed THEN SumRow(j, m, v)
                    ELSE MixedRow(j.w, SumRow(j, m, v)))]
-----------------------------------------------------------------------------
\* The layer function of the executor a job is for.
JobLayer(j, m) == IF j.executor = "recombine" THEN FullLayer(j, m) ELSE MeanLayer(j, m)

Promise == INSTANCE LayeredAggregation WITH Layer <- JobLayer
=============================================================================
