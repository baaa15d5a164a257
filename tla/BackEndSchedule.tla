--------------------------- MODULE BackEndSchedule ---------------------------
(***************************************************************************)
(* The back-end steps of schedule() in schedule/scheduler.py: plan_memory  *)
(* for every device, the buffer pool sized from a device's plan            *)
(* (pool_from_plan of runtime/bufferpool.py), the share of the streamed    *)
(* rows that the CPU aggregates (plan_coexec of runtime/coexec.py), and    *)
(* the makespan with what bounds it.                                       *)
(***************************************************************************)
EXTENDS MemoryPlanner

CONSTANT CpuRate         \* cpu_agg_gbps

ASSUME CpuAssumption == CpuRate \in Nat \ {0}

VARIABLES pools,         \* pools[k]: the units the pool of device k counts in
          coexec,        \* coexec[k]: the split of the work of device k
          outcome        \* the makespan and the bound

scheduleVars == <<plannerVars, pools, coexec, outcome>>

Plus(s, t) == <<s[1] * t[2] + t[1] * s[2], s[2] * t[2]>>

-----------------------------------------------------------------------------
(* Step 4: the pool.  The peak is its capacity.                            *)

UnitBytes(p) ==
    Larger(1, IF p.peak > 0 THEN p.peak \div w.window
              ELSE Larger(1, p.work) * w.featDim * BytesPerFeat * (1 + Layers)
                   + p.edges * BytesPerEdge)
PoolOf(p, k) ==
    LET capacity == IF p.peak > 0 THEN p.peak ELSE hw[k].cap
    IN  [unit |-> UnitBytes(p), slots |-> Larger(1, capacity \div UnitBytes(p))]

SizePool(k) ==
    /\ global # NoGlobal
    /\ k = Len(pools) + 1 /\ k \in Devices
    /\ pools' = Append(pools, PoolOf(plans[k], k))
    /\ UNCHANGED <<plannerVars, coexec, outcome>>

-----------------------------------------------------------------------------
(* Step 5: the split of rows between GPU and CPU.                          *)

\* The bytes gathered for inc edges; the time of a share of the rows.
Gathered(inc) == Layers * 2 * inc * w.featDim * BytesPerFeat
GpuTime(k, inc, rows, n) == << n * Gathered(inc), rows * hw[k].bw >>
CpuTime(inc, rows, n)    == << n * Gathered(inc), rows * CpuRate >>
StageTime(k, n)          == << n * w.featDim * BytesPerFeat, hw[k].h2d >>
CpuBranch(k, inc, rows, n) == Plus(CpuTime(inc, rows, n), StageTime(k, n))

\* Seeded fault: the rows sent to the CPU cross the bus for free.
BalancedRowsFault(k, inc, rows) ==
    Rounded(rows * CpuRate, CpuRate + hw[k].bw)
\* The closed form of the share at which both branches take equally long.
BalancedRows(k, inc, rows) ==
    LET gpu   == Gathered(inc) * CpuRate * hw[k].h2d
        cpu   == Gathered(inc) * hw[k].bw * hw[k].h2d
        stage == rows * w.featDim * BytesPerFeat * hw[k].bw * CpuRate
    IN  Rounded(rows * gpu, gpu + cpu + stage)

NoWork(inc, rows) == rows = 0 \/ Gathered(inc) = 0
RowsForCpu(k, inc, rows) == IF NoWork(inc, rows) THEN 0 ELSE BalancedRows(k, inc, rows)

\* Within a twentieth of the longer branch the split counts as balanced.
BoundOf(gpu, cpu) ==
    LET longer == Later(gpu, cpu)
        shorter == IF longer = gpu THEN cpu ELSE gpu
        slack == 20 * (longer[1] * shorter[2] - shorter[1] * longer[2])
    IN  IF slack <= longer[1] * shorter[2] THEN "balanced"
        ELSE IF Before(gpu, cpu) THEN "cpu-coexec" ELSE "gpu"

\* The streamed units are snapshots if they are at most the window, else rows.
ColdRows(p) == IF p.streamed <= Larger(1, w.window) THEN p.streamed * p.work ELSE p.streamed
ColdEdges(p) ==
    IF p.work > 0 THEN Rounded(p.edges * Smaller(p.work, ColdRows(p)), p.work) ELSE p.edges

Split(k, gpuRows, cpuRows, gpu, cpu, bound) ==
    [gpuRows |-> gpuRows, cpuRows |-> cpuRows, overlapped |-> Later(gpu, cpu), bound |-> bound]

\* The split of all rows is computed and its two times are added.
GpuOnlyTime(k, p) ==
    IF NoWork(p.edges, p.work) THEN <<0, 1>>
    ELSE LET n == RowsForCpu(k, p.edges, p.work)
         IN  Plus(GpuTime(k, p.edges, p.work, p.work - n), CpuTime(p.edges, p.work, n))
GpuOnly(k, p) ==
    Split(k, IF NoWork(p.edges, p.work) THEN 0 ELSE p.work, 0, GpuOnlyTime(k, p), <<0, 1>>, "gpu")

\* The whole compute of the device's plan is added to the GPU's branch.
Offload(k, p) ==
    LET rows == ColdRows(p)
        inc  == ColdEdges(p)
        n    == RowsForCpu(k, inc, rows)
        gpu  == IF NoWork(inc, rows) THEN p.compute
                ELSE Plus(p.compute, GpuTime(k, inc, rows, rows - n))
        cpu  == IF NoWork(inc, rows) THEN <<0, 1>> ELSE CpuBranch(k, inc, rows, n)
    IN  Split(k, p.work - n, n, gpu, cpu, BoundOf(gpu, cpu))

Coexecute(k, split) ==
    /\ Len(pools) = D
    /\ k = Len(coexec) + 1 /\ k \in Devices
    /\ coexec' = Append(coexec, split)
    /\ UNCHANGED <<plannerVars, pools, outcome>>

CoexecNothing(k) ==
    /\ k <= Len(plans) /\ ~plans[k].feasible
    /\ Coexecute(k, Split(k, 0, 0, Forever, <<0, 1>>, "gpu"))
CoexecResident(k) ==
    /\ k <= Len(plans) /\ plans[k].feasible /\ plans[k].streamed <= 0
    /\ Coexecute(k, GpuOnly(k, plans[k]))
CoexecCold(k) ==
    /\ k <= Len(plans) /\ plans[k].feasible /\ plans[k].streamed > 0
    /\ Coexecute(k, Offload(k, plans[k]))

-----------------------------------------------------------------------------
(* Step 7: makespan and bound.                                             *)

Finite == {k \in Devices : coexec[k].overlapped[2] # 0}
Worst ==
    CHOOSE k \in Finite :
        \A j \in Finite \ {k} :
            \/ Before(coexec[j].overlapped, coexec[k].overlapped)
            \/ ~Before(coexec[k].overlapped, coexec[j].overlapped) /\ k < j
CoexecMs == IF Finite = {} THEN Forever ELSE coexec[Worst].overlapped
MemoryMs == IF FeasibleDevices = {} THEN Forever ELSE plans[Bottleneck].epoch
CoexecBound == IF coexec[Worst].bound = "gpu" THEN "compute" ELSE coexec[Worst].bound

NoOutcome == [makespan |-> <<0, 1>>, bound |-> "none"]
Conclude ==
    /\ Len(coexec) = D /\ outcome = NoOutcome
    /\ outcome' =
          [makespan |-> Later(CoexecMs, MemoryMs),
           bound |-> IF FeasibleDevices # Devices THEN "infeasible"
                     ELSE IF Before(MemoryMs, CoexecMs) THEN CoexecBound ELSE global.bound]
    /\ UNCHANGED <<plannerVars, pools, coexec>>

-----------------------------------------------------------------------------
ScheduleInit == PlannerInit /\ pools = << >> /\ coexec = << >> /\ outcome = NoOutcome

ScheduleNext ==
    \/ PlannerNext /\ UNCHANGED <<pools, coexec, outcome>>
    \/ \E k \in Devices :
          SizePool(k) \/ CoexecNothing(k) \/ CoexecResident(k) \/ CoexecCold(k)
    \/ Conclude

ScheduleSpec == ScheduleInit /\ [][ScheduleNext]_scheduleVars

-----------------------------------------------------------------------------
(* Properties.                                                             *)

\* The predicted peak of a feasible device is within its memory, unless it
\* can hold no more snapshots than are set aside for the streamed ones: the
\* one it keeps is then counted on top of these (plan_memory).
PeakHeld ==
    \A k \in DOMAIN plans :
        \/ ~plans[k].feasible
        \/ plans[k].peak <= hw[k].cap
        \/ plans[k].resident = 1 /\ plans[k].streamed > 0 /\ Fit(k) \in 1 .. ReserveBuffers

\* planner.py line 67: "predicted peak HBM use (<= capacity if feasible)".
PeakWithinCapacity ==
    \A k \in DOMAIN plans : plans[k].feasible => plans[k].peak <= hw[k].cap

\* A device streams snapshots exactly when the second prefetch buffer was
\* reserved for it, although the two are decided by different comparisons
\* (will_stream and fit in plan_memory).
StreamsIffReserved ==
    \A k \in DOMAIN plans :
        (Fit(k) >= 1 /\ PerSnap(k) > 0) => (plans[k].streamed > 0 <=> WillStream(k))

\* When rows have to go, what is spilled suffices, and no smaller number of
\* rows would (the row tiering of plan_memory).
FewestRowsSpilled ==
    \A k \in DOMAIN plans :
        (w.aware /\ Fit(k) < 1 /\ RowBudget(k) > 0 /\ NeedFree(k) > 0)
        => /\ WeightOf(Spilled(k)) >= NeedFree(k)
           /\ \A S \in SUBSET HomedOn(k) :
                  WeightOf(S) >= NeedFree(k) => Cardinality(S) >= plans[k].streamed

\* With one row more the CPU's branch would be the longer one, with one row
\* less the GPU's (the closed form of split_work).
SplitBracketsBalance ==
    \A k \in DOMAIN coexec :
        LET p    == plans[k]
            rows == ColdRows(p)
            inc  == ColdEdges(p)
            n    == coexec[k].cpuRows
        IN  (p.feasible /\ p.streamed > 0 /\ ~NoWork(inc, rows))
            => /\ n < rows =>
                      ~Before(CpuBranch(k, inc, rows, n + 1), GpuTime(k, inc, rows, rows - n - 1))
               /\ n > 0 =>
                      ~Before(GpuTime(k, inc, rows, rows - n + 1), CpuBranch(k, inc, rows, n - 1))
=============================================================================
