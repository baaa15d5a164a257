# A verification project for zord

zord partitions temporal graphs, places them on the devices of a heterogeneous
cluster and runs GNN aggregation on the placement. This directory holds TLA+
models of the parts of it that have control worth checking, the TLC
configurations that check them, and TLAPS proofs of the results that hold for
every value of the constants. `PROJECT.json` maps every definition to the lines
of `src/src/zord` it translates. Paths below are relative to `src/src/zord`
unless they begin with `src/`.

## 1. The system

zord is a pipeline. The front end reads events, the profiler describes the
cluster, the middle end decides where every vertex and every snapshot lives, and
the runtime executes the decision. Calls go down the pipeline; what flows back is
a plan object. State that outlives a call exists in four places only: the online
state threaded through `online_step`, the controller of `control_loop.py`, the
buffer pool, and the CUDA streams and buffers of the tiered executor. The rest
are pure functions of arrays and C++ programs that read one binary file and write
another.

| component | state | operations | what is hard | what makes it correct |
|---|---|---|---|---|
| tiered executor, `runtime/memtier.py` | two pinned buffers, two device slots, two CUDA streams, the sum | prefetch, copy, aggregate, wait | host and two streams run concurrently; a buffer is reused while work may be pending | every snapshot is summed once, in order, from its own bytes; the epoch ends |
| control loop, `runtime/control_loop.py` | resident bytes, spilled bytes, deferred bytes | tick, run | two spilling steps share one budget; backpressure; draining | no byte lost, headroom kept, budget kept, backlog drains |
| watermark admission, `runtime/watermark.py` | none | admit_allocation | thresholds in the right order | a decision never exceeds the device |
| buffer pool, `runtime/bufferpool.py`, `cpp/bufferpool.cpp` | the resident set with its keys | access, evict, simulate | stale keys, tie-breaks, an index map repaired after evictions | Belady is optimal, kernel and Python agree |
| multilevel kernel, `cpp/multilevel.cpp` | the partition, loads, per-neighbour counters | coarsen, initial, uncoarsen, polish | incremental counters over hundreds of moves; four passes with different objectives | counters exact, each move descends, capacities kept |
| incremental re-partitioning, `schedule/dynamic.py` | none | partition_incremental, label matching | propagation, relief and renaming interact | balance and migration budget |
| online stream, `schedule/dynamic_online.py` | the layout, a cursor, a staleness counter | online_step, run_stream | stale cursor, deferred refresh, growth of the graph | bounded staleness, each event new once |
| changed cone, `cpp/changed_cone.cpp` | an open-addressing table | last seen, forward cone | collisions, growth in the middle of a call | kernel and Python loop agree |
| planner, `schedule/planner.py`; back end of `schedule/scheduler.py` | the plans of the devices, the pools, the splits | plan_memory, pool_from_plan, plan_coexec, verdict | what fits, what is reserved and the peak are three computations | a feasible plan fits, streaming is reserved for, no row spilled in vain |
| co-execution, `runtime/coexec.py` | a stream, the device's and the host's output | split, launch, join, graft, fall back | device work is asynchronous to the host's share; any call may raise | every row once; the job ends; a single device's result |
| distributed halo, `schedule/distributed.py` | the rows a rank fills in | plan, verify, run | replicated rows, repeated edges, idle ranks | each needed row moved once; a single device's result |
| feature recombination, `runtime/feature_recombine.py` | column shards, the partial sum | shard, mix, activate | uneven and empty shards; the nonlinearity after the sum | the unsharded result |
| supra solver, `cpp/supra_solver.cpp`; allocate, `partition/allocate.py` | device of each cell, loads | stream, refine, choose, fold | loads by increments; two kinds of layouts compared; a missing binary | the cut descends, the capacity holds, no worse than the blocks |
| arrange, `partition/arrange.py`, `cpp/arrange.cpp` | none | orderings | heuristics | - |
| streaming partitioner, `cpp/streaming.cpp` | loads, replicas | place one vertex or edge | soft capacity guards | capacity; replication where it costs nothing |
| storage, `storage/`, `datasets/temporal_graph.py` | arrays sorted by time | ingest, range, snapshots | parallel arrays that must stay aligned | no event lost or misaligned |
| cost models, profiler, front end, loaders, wrappers, baselines | none | arithmetic and I/O | nothing a model checker reaches | - |

The full list, with the status of each part, is in `PROJECT.json` under
`components`; the places where a test would hardly notice a mistake are under
`hazards`, each at its line.

## 2. The modules

### Tiered executor: `TieredExecutor`, `SequentialAggregation`

`run_snapshot_tiering` on its GPU path. The host program is a program counter
(`hostPc`) and its loop variables; every statement that touches a buffer or a stream
is an action of its own, because the streams run between any two of them. A
stream is a sequence of operations with a count of the completed ones. An
operation takes time: it begins and ends in separate steps, and a buffer that is
written while it is read yields `Torn`. What the host can wait for is exactly
what the code waits for: `synchronize` at the start and the end, the blocking
`float(h2.sum())`, and `wait_stream`, which orders the default stream behind the
copies enqueued so far. `SequentialAggregation` is the abstract specification:
one accumulator that takes the snapshots in time order. The naive mode and the
CPU branch are sequential loops and are left out, and so are workloads of one
layer, for which the function does not run (see below).

### Reactive memory controller: `MemoryControlLoop`

One `Tick` is the whole method: spill above the high watermark, admit up to the
headroom, defer the rest, spill again with what is left of the budget. `run` is
the stream of ticks followed by the draining loop with its guard. Byte counts are
integers; the watermark fractions are constants, ordered as the defaults of the
class are. The class does not check the order; the theorems assume it
(`ConfigAssumption`). The caller may pass any `hot_bytes` or none.

### Buffer pool: `BufferPool`, `BufferPoolKernel`, `DemandPaging`

The resident set is a function from units to keys, with the insertion order that
Python's dictionary gives ties. `BufferPoolKernel` runs the C++ loop over the
same accesses on its own arrays and index map. The naive double buffer that a
report compares the plan with is left out. `DemandPaging` adds a rival: an
arbitrary demand-paging policy with the same number of slots, which makes
optimality an invariant.

### Polish mode: `PartNumbers`, `PartitionGraph`, `PolishPartition`

A warm start of `cpp/multilevel.cpp` runs `refine_kway`, `balance_kway`,
`refine_volume` and `refine_makespan` on a given partition. A state is between
two visits of a vertex; the incremental counters (per-neighbour part counts,
received rows, incident weight, cumulative drift) are variables, updated as the
code updates them. `PartitionGraph` defines the same quantities from scratch,
with sums over sets of vertices; `PartNumbers` is what both modes share.
Floating-point capacities are integers here, and the makespan's weight `alpha`
and slack are integers, the slack in percent. The guard that skips the two
counter passes on graphs with n * D > 2 * 10^9 is left out.

### Incremental layout and online stream: `IncrementalPartition`, `OnlineStream`

`IncrementalPartition` translates `partition_incremental`, `_migration_match` and
`plan_incremental` to functions of the prior layout. Where numpy's argpartition
picks among equals, the operator returns the set of all results. `OnlineStream`
is `run_stream` around `online_step`: a window per step; cold start, reuse or
refresh. The drift score is a floating-point statistic of the window and a free
choice of every step. A refresh takes the incremental plan: `run_stream` hands
`schedule()` a bare namespace without `num_nodes`, which fails, and the failure is
caught (`schedule/dynamic_online.py:442`). `run_stream` gives every window the
same `num_nodes`; the model also lets the graph gain vertices, as a caller of
`online_step` may.

### Changed cone: `EventDependency`, `ChangedConeKernel`

`EventDependency` is the Python loop of `build_event_dependency`: one pass over
the new events with a dictionary of the latest event per vertex, one iteration
per step. `ChangedConeKernel` is the C++ program that replaces it when it is
built: the dictionary becomes an open-addressing table, and a step is one turn of
a probe loop, one slot of a growing table, or the end of a call. `stage` says
which of the two gets and two sets of an iteration is running, `phase` where it
is. The hash is any function of the vertex, so every collision pattern is a
possible input. The kernel implements the loop: the mapping reads the dictionary
off the table (`Seen`), counts the sets still to come as done, and looks in the
part of the old table that has not moved while the table grows. Positions of
events count from 1 and `Root` = 0 stands for -1.

### Supra-graph, solver and plan: `SupraGraph`, `SupraSolver`, `Allocation`

`SupraGraph` builds the cells (a vertex in a snapshot where it has an edge) and
the spatial and temporal pairs between them. `SupraSolver` is the kernel: a cell
is placed per step, in the order of the coordinate whose cut costs more, then
single cells move while that cuts less, for at most eight rounds; the two block assignments
compete with the result, and alone when the binary fails. `Allocation` extends
it by what `allocate` does with it: on the node axis the cheaper of the solver's
cells and arrange's vertices becomes the plan, a cell layout is folded to one
home per vertex, a vertex layout is lifted to cells. What arrange returns is any
layout of a set (`Homes`), replicated core included.

### Planner and back end: `MemoryPlanner`, `BackEndSchedule`

`MemoryPlanner` is `plan_memory`, one device per step: snapshots kept and
streamed, infeasible, or single rows spilled, the largest first. Times are exact
fractions. `BackEndSchedule` extends it by the later steps of `schedule()`: the
pool of each device, the split of the streamed work between CPU and GPU in its
closed form, and the verdict.

### Executors: `AggregationJob`, `LayeredAggregation`, `CoExecution`, `DistributedExecution`, `FeatureRecombination`, `Executors`

`AggregationJob` is a graph, a matrix and the two layer functions of the code,
on integers. `LayeredAggregation` is what all executors promise: after k layers
the matrix is the one a single device computes. Three executors are modelled on
top of it. `CoExecution` has the host's program counter and the device's queue of
pending work, which the device runs when it likes; `synchronize` waits for an
empty queue. Any call of the torch path may raise, and the simulation on the host
starts from the inputs again. `DistributedExecution` makes the halo plan and then
computes rank after rank; -1 marks a replicated vertex. `FeatureRecombination`
aggregates the shards, then concatenates them or adds up one partial product per
step. `Executors` runs the one a job is for.

### Partitioners: `MultilevelPartition`, `StreamingPartition`, `Partitioners`

`MultilevelPartition` is the cold start of `cpp/multilevel.cpp`: a step is a
level of coarsening, one of the five starts, a level on the way back, the balance
pass or the last refinement. The passes that `PolishPartition` takes apart move by
move are functions here: the states of a pass are a recursive function on the
numbers of its visits (`after[i]`), so that theorems can speak of them. The
recursion of `rb_split` splits all ranges of parts of one depth at once. A seeded
start takes any order of the vertices of equal
weight. `StreamingPartition` is `cpp/streaming.cpp`, a vertex or an edge per step,
with the scores kept as integers by clearing their denominators. The slack of LDG
and the lambda of HDRF, which the program reads from its input, are any fractions
(`param`; one that is not positive counts as 1). The gamma of Fennel is 2; the default
of 1.5 makes its scores irrational. The number of vertices above which a level gets
six refinement passes instead of twelve is the constant `ManyVertices`. Weights that are
all zero count as the number of vertices in the capacity, as in the code.

## 3. The runs

| run | question | bounds, and why they are enough |
|---|---|---|
| `tiered_executor` | does the double-buffered epoch equal the sequential one at every interleaving, and end? | 2 resident and 6 streamed snapshots: each slot is reused twice while a copy of its previous use may be pending, and the last iteration, without a prefetch, is reached from both parities |
| `memory_control_loop` | are bytes kept, do the two spills and the admission of a tick keep to budget, hint and headroom, does the drain progress, and end? | a 12-unit device, demands from 0 to more than the device, hints from nothing hot to everything hot, 4 steps: long enough to fill the device, defer, and drain both above and between the watermarks |
| `buffer_pool` | fresh keys, optimal misses, kernel agrees? | 5 units, 3 slots, 7 accesses: every schedule; evictions out of the front, the middle and the end of the arrays, with ties |
| `polish_partition` | exact counters, descent, local optimum? | every graph on 5 vertices up to the names of its vertices, every prior partition into 3 parts, over capacity or not; weights 1 and 2, `alpha` 0 and 2 |
| `online_stream` | balance, budget, staleness, cursor? | every stream of 4 events over a graph that grows from 4 to 5 vertices, 3 devices, one event per window; the budget admits one move, so an event with two old endpoints exceeds it |
| `online_stream_sliding` | is the cursor right for sliding windows? | the same streams |
| `changed_cone_kernel` | do probes end, does the kernel equal the Python loop? | every stream of up to 3 events over 6 vertices, in a table of 8 slots that grows to 16, with homes that wrap around and part when it grows; and 6 events that outgrow 16 slots and are then looked up in 32. The least capacity is 4 instead of 16, so that short streams outgrow it |
| `supra_allocation` | exact loads within the capacity, descent, local optimum, guarantee against the blocks, consistent plan? | every supra-graph of up to 4 edges between 3 vertices in 2 snapshots; 2 devices; weights 0, 1 and 3, no capacity, one too small and one that binds; every layout of arrange with at most one replicated vertex. Four edges give cells with pairs of both kinds, parallel edges and split timelines |
| `back_end_plan` | does a feasible plan fit, is streaming reserved for, are rows spilled only as needed, does the split balance? | 2 devices of 30 to 250 bytes, rates 1 and 2, 2 layers, 4 bytes per feature and 12 per edge, 1 to 5 nodes, 0 to 3 edges, windows of 1 and 4: every branch of the planner is taken, with exact fits, one snapshot too many and one too few; with row sizes 1, 2 and 4 and every home of 3 vertices |
| `back_end_peak` | is the peak of a feasible device within its capacity, as its comment says? | the same |
| `executors` | a single device's result, each halo row once, every job ends? | 4 graphs on 3 vertices with a loop, a repeated edge, a triangle and no edge; 2 columns; 0, 1 and 3 layers; every assignment to 3 ranks on 2 machines or to replication; splits that leave either side without rows, column splits with an empty shard. Features are multiples of 1728, which every degree divides three times, so the means are exact, and of both signs, so the order of sum and nonlinearity shows |
| `partitioners` | faithful levels, falling cut, overfull parts drained, capacities of the streams, replication? | graphs of 7 vertices coarsened to 3 (star, two triangles, weighted ring; equal, unequal and zero weights; equal and unequal shares; one whose last refinement makes room again), 3 parts, 3 % of imbalance, and graphs that are small already; streams of 4 vertices into 3 parts in every order, 5 edge lists with loops and repetitions, 3 weight lists, one of zeros. Slack and lambda 1/2, 2 and 4 and the default of 1: below, at and above the thresholds of both streams' properties, with up to 6 edges. A level of more than 6 vertices counts as a large one, so both numbers of passes occur. The star, whose leaves have no neighbour but its centre, shrinks to three only by two-hop matches; the graph without edges does not shrink |

Each property of a passing run has a seeded fault: an operator `...Fault` next to
the definition it would replace, a plausible mistake in that code that the
property catches under the bounds of the run. They are not used anywhere else.

Liveness. `TieredExecutor` assumes weak fairness of the host and of each stream:
the host is a running program, and CUDA drains a stream that has runnable work.
No fairness between particular operations is assumed. `Executors` demands of every
executor what makes it run, for the jobs that are its own: weak fairness of the
host and of the device for a co-executed job, of the next step of the rank loop
for a distributed one, of the next step of the shard loop for a recombination.
That a call of the torch path raises is never owed, except for a
co-executed job of no layers, which raises for certain (the name of the result was
never bound). `EveryJobReturns` has a seeded fault in each of the three.
The two sequential executors, `MemoryControlLoop` and `ChangedConeKernel` assume
weak fairness of the whole step: they are programs of one thread; that of the
kernel is stated in its MC module. The other models state no liveness: their
programs are loops over finite inputs. Deadlock checking is off where a run of
the program ends in a state of its own; where it is on, the last state of the
model repeats. `BufferPoolKernel` has no final state, because a finished
simulation may be followed by another.

### What the models show

Two runs are expected to fail; each refutes a sentence of the repository.

* `online_stream_sliding`: with a sliding window, `processed_edges` is the length
  of the window rather than a cursor into the stream (dynamic_online.py:395):
  after the first window no event is new, and a refresh changes nothing.
* `back_end_peak`: a device that holds exactly one snapshot keeps it and counts
  it on top of the reserved slot (planner.py:294): it is feasible with a peak
  above its capacity. `PeakHeld` states what does hold.

Other places where the code and its words differ, met while modelling. The models
keep the code's behaviour; no run is spent on them.

* `oom` (control_loop.py:125) is raised by a full host tier only; the class
  comment says only the working set can cause it.
* The makespan pass tests its volume budget on the accumulated drift
  (multilevel.cpp:326), so one move may raise the total volume that the comment at
  line 281 says never rises.
* Two events of one vertex may be at the same depth of the dependency graph, which
  keeps one predecessor per event (dynamic_online.py:265), while the class comment
  says they are ordered.
* `max_staleness_snapshots` of 1 is said to refresh every snapshot
  (dynamic_online.py:61-63); without drift the code refreshes every other one,
  since it compares the counter one ahead with a bound of at least 1 (line 397),
  and 0 behaves alike. The run uses 2; `StalenessIsBounded` is about every bound.
* The comment at allocate.py:466-469 says that the replicated core is never cut and
  keeps a valid device from the split. The split stores -1 for a core vertex
  (arrange.py:321), and the score of the node axis is counted on that: a pair of
  a core cell and another is cut. `Allocation` counts as the code does.
* A workload of one layer makes `run_snapshot_tiering` index a scratch list of one
  entry at 1 (memtier.py:296, memtier.py:310) and raise.
* A plan of a device may put more cold rows on the CPU than there is work
  (a fraction above 1, the GPU's rows negative), and a plan that tiers rows is read
  by `plan_coexec` as one that tiers snapshots. `SplitBracketsBalance` speaks of
  neither.
* With more than six devices the label matching is not injective (dynamic.py:48):
  labels may be merged after the capacity relief.
* The plan reports the cuts of the cells, also when its assignment is the folded
  one (allocate.py:495).
* A co-execution plan for a device that streams nothing adds time at the CPU's
  rate to a GPU-only run (coexec.py:303).
* A device that tiers rows although all of them fit still spills one; the row
  tiering leaves out the replicated rows; and more memory can turn a device that
  tiers rows into one that is infeasible.
* `verify_distributed_same_result` refuses any edge with one replicated end,
  though the plan says a replicated vertex needs no halo; `run_distributed` reads
  the whole matrix, so that it cannot notice an incomplete halo.
* `balance_kway` restores the caps (multilevel.cpp:356) as far as single moves can;
  the schedule ends with one more refinement (multilevel.cpp:483), which may make
  room that a vertex of a part still overfull would fit into, and no balance pass
  follows. So the final partition need not be balanced even in that sense; the
  graph `Skewed` of the run shows it. `CapacitiesAreRestored` states what holds:
  the balance pass leaves no such vertex, and the refinement overfills no part.
* A graph that is small to begin with gets no balance pass, and the recursive
  bisection has a permitted imbalance of its own (multilevel.cpp).
* The first part of Fennel is looked at before the soft cap applies
  (streaming.cpp:106): it may be filled beyond it. `StreamsStayInCapacity` says so.

## 4. The proofs

All results hold for every value of the constants that the named assumptions
admit.

| module | theorem | establishes |
|---|---|---|
| `MemoryProofs`, executor | `TierTypeCorrect`, `SumIsRight`, `NoOverwrite`, `SettledSlots`, `Refinement` | every snapshot is summed once, in order, from its own bytes, and the epoch refines `SequentialAggregation`, for every number of resident and streamed snapshots |
| `MemoryProofs`, pool | `TypeCorrect`, `FreshKeys`, `Occupancy` | fresh keys and exact occupancy, for every set of units, number of slots and schedule |
| | `BeladyBeatsAnyRival` | on no prefix of any schedule has belady missed more than a demand-paging policy with as many slots, offline ones included |
| | `KernelMissesAgree` | the C++ simulation misses exactly where the Python loops do |
| `MemoryProofs`, controller | `LoopTypeCorrect`, `Conservation`, `Headroom`, `TickBounds`, `Drains` | no byte lost, headroom and budgets kept over both spills of a tick, progress of the drain, for every configuration, stream and hint |
| `PartitionProofs`, polish | `CountersNeverDrift` | loads, neighbour counts, received rows, incident edges and volume stay exact through any number of moves, for every graph, weights, capacities and number of parts |
| | `KwayEndsOptimal` | when `refine_kway` stops after a quiet pass, no vertex that fits elsewhere can lower the cut, the interior ones that no pass looked at included |
| | `MovesDescend`, `StragglerPassShrinks` | each move lowers what its pass is about, and in no pass does a part grow beyond its capacity, so that a part too full from the start only shrinks; the makespan pass never makes the slowest part slower and keeps its budget |
| `PartitionProofs`, streams | `CapacityIsKept` | LDG, at every slack, keeps its capacity up to one vertex, and so does Fennel; a lambda above 3 bounds the gap between two parts of HDRF |
| | `SharedPartsAreReused`, `ModestLambdaCostsNoReplica` | HDRF leaves a shared part only where lambda outweighs it; at a lambda of at most 1, the default, it never does, however unbalanced the parts |
| `PartitionProofs`, multilevel | `MultilevelInvariant` | every level is a graph faithful to the finer one, and each vertex of the level at hand, of the result too, is in one part; for every graph, weights, ratios and number of parts |
| | `CoarseningStaysFaithful` | cut and loads of a partition are the same on both sides of a level, and supernodes are light |
| | `CutNeverRises` | no start, projection or refinement at any level raises the cut |
| | `BalanceRestores` | after the balance pass what is overfull has no vertex that fits elsewhere; no part gets overfull, then or later |
| | `StructuralRunsAreBalanced` | without attributes and with capacities no less than the targets (`ub` of 100 % or more), no part of a graph that was coarsened ends over its capacity |
| `OnlineProofs` | `BudgetIsRespected` | propagation, relief and label matching together move no more old vertices than the budget |
| | `LayoutStaysBalanced` | no device above its capacity, through refreshes and reuses of a growing graph, if the labels are matched exactly (`D <= ExactMatchMax`) |
| | `StalenessIsBounded`, `GrowingIngestsOnce` | rearranged at least once in any bound + 1 windows; with growing windows each event is new once |
| `EventDependencyProofs` | `EarsAreRight` | the ear of an event is the latest earlier event that shares an endpoint, for every stream |
| `ChangedConeProofs` | `TableSound`, `Refinement`, `KernelEarsAreRight` | the hash table is a dictionary, the kernel implements the Python loop, and its ears are right, for every stream, hash function and initial capacity |
| | `TableHasRoom`, `ProbesEnd` | the table is half free, also while it grows, and no probe loop takes more turns than the table has vertices |
| `AllocationProofs` | `SolverTypeCorrect`, `LoadsAreExact`, `RefinementDescends` | loads exact and within the capacity, each move lowers the weighted cut |
| | `RefinementEndsOptimal` | refinement that stops after a quiet round leaves no improving move |
| | `AllocationRunsSolver`, `PlanBeatsCorners`, `SupraPlanIsInCapacity`, `FoldIsFaithful` | the plan of the node axis is no dearer than a feasible block assignment, keeps the capacity, and its fold leaves undivided vertices where they are |
| `ScheduleProofs`, planner | `PlansAreMade`, `PeakIsHeld`, `StreamingIsReserved` | feasible plans fit, streaming is reserved for exactly when it happens |
| | `FewestAreSpilled`, `SplitsAreBalanced` | as few rows are spilled as any choice could; the rounded split is within a row of the balance |
| `ScheduleProofs`, executors | `ExecutorsImplement`, `HaloExact` | the three executors implement `LayeredAggregation` and the halo plan is exact, for every graph, matrix, depth, split and assignment; both are about initial states and steps and assume no fairness |
| `Counting` | lemmas | sums and cardinalities over finite sets |

The assumptions are those named in the modules that declare the constants:
`PlanAssumption`, `ConfigAssumption`, `PoolAssumption`, `KernelAssumption`,
`PartitionAssumption`, `PolishAssumption`, `GraphAssumption`, `SupraAssumption`,
`SolverAssumption`, `AllocationAssumption`, `PlannerAssumption`, `CpuAssumption`,
`JobAssumption`, `TopologyAssumption`, `PartAssumption`, `MultilevelAssumption`, and a `StreamAssumption` each in
`OnlineStream` and in `StreamingPartition`. Three theorems have a hypothesis of
their own. The executors' is `SoundJob`: ranks are ranks, edges join vertices,
the weights are a matrix and the shards cover the columns, as `sharded_llayer`
asserts. `LayoutStaysBalanced` needs exact label matching, because the greedy map
used above `ExactMatchMax` devices may merge two labels. `GrowingIngestsOnce` is
about growing windows; the run `online_stream_sliding` shows why. The type
invariants, `Headroom`, `Occupancy`, `TableSound`, `TableHasRoom`, `ProbesEnd`,
`PlansAreMade`, `AllocationRunsSolver`, `MultilevelInvariant`,
`StructuralRunsAreBalanced`, `ModestLambdaCostsNoReplica` and `EarsAreRight` state no
property of the runs.

*Tiered executor.* `SumIsRight` is not inductive: it says nothing about the
buffers. The invariant adds that copy n of the copy stream moves snapshot
`ResidentSnapshots` + n into slot n % 2, that when iteration k begins all but the
last of the enqueued copies have completed (`CopyInv`), what the buffers hold as a
function of the copies completed (`BufferInv`), and that at most one wait and one
kernel are pending on the default stream (`DefaultInv`). The blocking read of the
sum is what carries the argument: it drains the default stream, hence every copy
awaited before.

*Control loop.* `TickLemma` bounds what one tick spills, admits and defers by
arithmetic on the watermarks; type correctness, conservation and headroom
together are inductive, and the two action properties follow from the lemma and
the invariant of the state before the step.

*Buffer pool.* Freshness needs that a resident unit's key is changed only by an
access of that unit; occupancy needs that a hit adds neither a miss nor a unit and
that an eviction happens exactly when the pool is full.

*Belady.* The usual exchange argument changes a schedule of evictions step by step
and is an induction over schedules. The proof here compares the two caches at one
moment instead. `Ahead` says, for every later position t: belady's misses, plus
the rival's units that are due by t, are at most the rival's misses plus belady's
units due by t. Wherever the rival is better placed, it has paid for it. Each case
of an access keeps this for every t. The hard one is an eviction by belady: if its
victim is due by t, then, the victim being the unit due last, so is everything it
holds, and the rival with its equal number of slots cannot hold more.

*Kernel of the pool.* `Mirrors`: the arrays list the resident set in insertion
order, with the keys, and the index map is their inverse, also after the repair
that follows an eviction. The first minimum of the arrays is then the unit the
dictionary's tie-break picks.

*Polish mode.* What one move changes is computed for each counter separately
(loads, neighbour counts, received rows, incident edges, cut) and compared with
what the code adds and subtracts; a received row appears or vanishes exactly when
a neighbour count leaves or reaches zero. `QuietInv` says that until a pass moves
a vertex, the ones it has seen cannot gain; a vertex without neighbours outside its
part cannot gain either, so a quiet pass ends in a local optimum. `SweepInv` says
that the vertices a sweep still lists are in the part that was slowest when they
were listed, and that the drift is within the budget; only the two parts of a move
change their cost, and the guard bounds both by the old maximum.

*Multilevel mode.* `MlInv` says that the levels are simple symmetric graphs, each
`Faithful` to the next, and that what is at hand is a partition of its level, whose
cut is `bestCut` while starts are tried. Faithfulness of a new level needs that
both passes of the matching leave a matching of light enough pairs (`IsMatching`,
carried through every visit with the vertex that waits in a fan), that the
numbering gives two vertices one number exactly if they are matched, and that
sums over the vertices and edges of a supernode, one supernode after another, are
sums over all of them (`SumOfFibres`). A cut edge of the coarse graph is then the
sum of the fine edges between the two, counted from both ends (`CutCountsTwice`).
For a refinement, `Eases` says of two partitions that the second cuts no more and
that whatever part was within its capacity still is; each visit eases, and easing
is transitive. For the balance, `Settled` says of a vertex that its part is not
overfull or that it fits nowhere. Both last: a vertex w that fits
nowhere is heavier than any v that moves (v found room where w did not), and v
leaves an overfull part, so that w does not fit there afterwards either. One pass
settles every vertex, and later passes keep it so. Without attributes more
follows (`UnitsFindRoom`): were a part overfull, its vertices would fit nowhere, so
that every part would hold its target at least and this one more; but the targets,
shares rounded up, cover the weight of the graph.

*Streams.* The loads sum to the weight placed so far (`PlacedInv`). As long as
weight is left, the least loaded part is therefore below the mean. At a slack of 1
or more it has room, and LDG, for which a full part scores no more than its
tie-break, takes no full part before it. At a slack below 1 all parts may be full;
then the tie-break alone decides, for the least loaded one. In HDRF the ends of
an edge are worth at most three times their degrees and the whole spread, and a
replica at least once. So the balance term of a lambda of at most 1 never exceeds a
replica (`ModestLambdaCostsNoReplica`), and a part that is further ahead than three
times the spread over lambda is never chosen, which bounds the gap for a lambda
above 3 (`EdgePartsLevel`). At the default nothing bounds it: the program trades
balance for replicas.

*Online stream.* The budget is followed through a whole refresh. Propagation and
relief touch only the vertices being placed, of which no more are old than the
budget admits, and a relabelling moves no more old vertices than leaving the labels
alone (`Gentle`), for the exact search and for the greedy map. For the balance, an
iteration of the relief takes vertices off an overfull device and overfills none, so
no vertex is moved twice (`Eases`): as many iterations as there are vertices leave
every device within its capacity, provided those that are not placed fit
(`StayersFit`), which they did before the graph grew. `LayoutInv` ties the layout to an
earlier, no larger graph, `DriverInv` the staleness counter to the trace of
rearrangements, `CursorInv` the cursor to the events seen.

*Changed cone.* Soundness needs no count of the probes. `Passed(h, p, q)` says that
probing from slot h to slot p, wrapping around, has passed slot q; of two slots
one is always passed on the way to the other. The invariant: no vertex is in the
table twice, no free slot lies between the home of a vertex and its place, the
running probe has passed neither a free slot nor its vertex, and while the table
grows the first j slots of the old one, and they only, are in the new one. Hence
a probe that meets a free slot has shown its vertex absent. Every step but the
second get and the collection of the cone keeps what each vertex maps to, or
changes it as the mapping has already counted. `KernelEarsAreRight` carries the
invariant of the Python loop over the refinement. That probes end is a second
invariant, `RoomInv`: `count` is the number of slots in use, at most half of them,
and of a growing table at most a quarter, with the vertices that are still to move
counted in. So a `set` that `grow()` calls never grows the table once more, a
case the model leaves out (the guard of `Reinsert` is never false), and as the slots a probe has passed are in use, its
turns are no more than `count`.

*Supra solver and plan.* Descent rests on `CutSplits`: of the cut pairs of an
assignment, those that do not touch a cell stay what they are when it moves, and
those that do are all its pairs but the ones to its own device. The invariant is
`AInv`: type correctness, exact loads within the capacity, and that in the greedy
pass the cells still to come are exactly those without a device; `RoundIsQuiet`,
that until a round moves a cell, those it has seen cannot improve; `OutWins`, that
what is written is no dearer than a feasible block assignment; and `Composed`,
where a plan may come from.

*Planner.* Every plan is the one that a branch makes for its device, from an
input that never changes (`PlansInv`); peak and reservation are then arithmetic
about one plan. That the largest rows first is fewest rows is an exchange of the
rows two sets do not share, done at once with a bound on each side
(`SumOfExchange`). The balance is compared over the common denominator of the two
times, without division.

*Executors.* Refinement needs to know what is in flight. For the co-executor:
the device's copy of the matrix is the host's, nothing but the product is pending
when the host works, and once nothing is, the device's output is the layer. For
the ranks: those before the current one have their rows, the others zeros. For
the shards: those there are hold their columns, and the partial product of a
weighted recombination is the part of each entry that the columns before the next
shard make (`MixedSoFar`). The halo plan is exact because the deduplicated pairs of
a rank are in bijection with the rows it needs.

*Induction.* The library's induction theorems take a predicate as a parameter,
which the provers cannot instantiate. Where a sum or a loop must be followed step
by step, `Counting` takes the set of the numbers a claim holds for instead: a set of
naturals with 0 and closed under successor is all of them (`CountUp`), and a set of
subsets closed under adding one element holds every finite set (`BuildUp`).
`PartialSumsExist` and `PartialSumsAgree` get from them what a fold of the
community modules computes; all lemmas about sums follow. The same way shows that
a recursive function on the visits of a pass exists (`Recursion`), and that what
every visit keeps holds at its end (`Along`).

### Only model-checked

* Liveness (`EpochCompletes`, `RunDrains`, `Terminates`, `EveryJobReturns`) is out of
  the prover's reach, as is everything about ENABLED. `ProbesEnd` is the part of the
  kernel's `Terminates` that depends on the table, stated as safety. `ImplementsSequential`
  includes the fairness of its abstract specification; its initial states and steps
  are the theorem `Refinement` of `MemoryProofs`.
* The two properties of the runs that are expected to fail,
  `EveryEventIngestedOnce` for sliding windows and `PeakWithinCapacity`.

## 5. What is left

Done, most important first: the executors, whose hazards are concurrent; the
controller and the pool, which keep state across calls; the solver, the polish
passes and the partitioners, which keep counters and capacities; the planner and
the back end, which must agree about memory; the online stream, which composes
the layout with its policy, and the dependency graph that tells it what changed.

Every safety property of a passing run is a theorem as well.

Open: the scheduler path of an online refresh, on top of `BackEndSchedule`.

## 6. Not modelled

* `arrange` and its kernel: orderings and a core-periphery split chosen by a
  floating-point score, with no promise beyond the score. Its results enter
  `Allocation` as any layout.
* `choose_decomposition`, `plan()` and `granularity.py`, the placement choice in
  `memtier.py` and `plan_recombine`: comparisons of floating-point cost estimates.
* Watermark admission: one pure expression; its thresholds are those of
  `MemoryControlLoop`.
* Storage and the temporal graph: arrays sorted once at ingest and sliced.
* Closed-form cost models (`partition/attr_cost.py`, `partition/cost_model.py`,
  `guarantees.py`), graph orderings, statistics, the spectral kernel and the RMAT
  generator: numerics without control.
* Kernel wrappers, loaders, the registry, the profiler, the CLI and the front end:
  I/O and array preparation.
* The experiment scripts under `src/scripts` are harnesses outside the package.

Reports and predicted seconds are left out of every model, except where a
comparison of them decides something.
