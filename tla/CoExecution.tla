----------------------------- MODULE CoExecution -----------------------------
(***************************************************************************)
(* run_coexec of runtime/coexec.py: every layer the GPU aggregates on a    *)
(* stream of its own while the host aggregates the last rows itself; the   *)
(* host waits for the device, grafts its rows over the GPU's and uploads   *)
(* the result for the next layer.  The device runs its queued work when it *)
(* likes; whatever raises on the torch path sends the whole job to the     *)
(* simulation on the host.                                                 *)
(***************************************************************************)
EXTENDS AggregationJob

CONSTANT Unwritten       \* a matrix of device memory nobody has written

VARIABLES pc,            \* where the host is
          pending,       \* the device work queued and not finished
          dev,           \* H: the matrix on the device
          gpuOut,        \* og: the output of the device's share
          cpuOut         \* oc: the output of the host's share

coVars == <<job, pc, pending, dev, gpuOut, cpuOut, h, done>>

-----------------------------------------------------------------------------
(* The split: round(cpu_frac * N) rows at the end, clamped to the rows     *)
(* there are.  Python rounds a half to the even neighbour.                 *)

RoundHalfEven(n, d) ==
    LET q == n \div d
        r == n - q * d
    IN  IF 2 * r > d \/ (2 * r = d /\ q % 2 = 1) THEN q + 1 ELSE q
Clamp(x, lo, hi) == IF x < lo THEN lo ELSE IF x > hi THEN hi ELSE x

CpuCount == Clamp(RoundHalfEven(job.cpu[1] * N, job.cpu[2]), 0, N)
CpuRows  == {v \in Vertices : v >= N - CpuCount}
GpuRows  == Vertices \ CpuRows

-----------------------------------------------------------------------------
CoexecInit ==
    /\ pc = "setup"
    /\ pending = {}
    /\ dev = job.x /\ h = job.x
    /\ gpuOut = Unwritten /\ cpuOut = << >>
    /\ done = 0

\* Seeded fault: the host does not wait for the device.
SynchronizedFault == TRUE
\* torch.cuda.synchronize() returns when the device has nothing left to do.
Synchronized == pending = {}

\* Build the adjacency on the device: coalesce() is queued, not finished.
Setup ==
    /\ pc = "setup"
    /\ pending' = {"coalesce"}
    /\ pc' = "settle"
    /\ UNCHANGED <<job, dev, gpuOut, cpuOut, h, done>>

\* The first torch.cuda.synchronize(), before the clock starts.
Settle ==
    /\ pc = "settle"
    /\ Synchronized
    /\ pc' = "launch"
    /\ UNCHANGED <<job, pending, dev, gpuOut, cpuOut, h, done>>

\* Queue the sparse product on the side stream and return at once.
Launch ==
    /\ pc = "launch" /\ done < job.layers
    /\ pending' = pending \cup {"spmm"}
    /\ gpuOut' = Unwritten
    /\ pc' = "share"
    /\ UNCHANGED <<job, dev, cpuOut, h, done>>

\* The host aggregates its rows from its own copy.
HostShare ==
    /\ pc = "share"
    /\ cpuOut' = [v \in CpuRows |-> PhiRow(job, MeanRow(job, h, v))]
    /\ pc' = "join"
    /\ UNCHANGED <<job, pending, dev, gpuOut, h, done>>

\* The device finishes queued work, in any order across its streams.  The
\* product needs the adjacency: before coalesce() it reads what is there.
DeviceRuns(op) ==
    /\ op \in pending
    /\ pending' = pending \ {op}
    /\ gpuOut' = IF op = "spmm" /\ "coalesce" \notin pending
                 THEN MeanLayer(job, dev) ELSE gpuOut
    /\ UNCHANGED <<job, pc, dev, cpuOut, h, done>>

Grafted == [v \in Vertices |-> IF v \in CpuRows THEN cpuOut[v] ELSE gpuOut[v]]

\* The device is waited for, the host's rows are grafted over the device's,
\* and the result is uploaded, which blocks.
Join ==
    /\ pc = "join" /\ Synchronized
    /\ h' = Grafted /\ dev' = Grafted
    /\ done' = done + 1
    /\ pc' = "launch"
    /\ UNCHANGED <<job, pending, gpuOut, cpuOut>>

Return ==
    /\ pc = "launch" /\ done = job.layers /\ done > 0
    /\ pc' = "returned"
    /\ UNCHANGED <<job, pending, dev, gpuOut, cpuOut, h, done>>

\* Seeded fault: only the lack of a device is rescued.
RescuedFault == pc = "setup"
\* Where the except clause of the torch path applies.
Rescued == pc \in {"setup", "settle", "launch", "share", "join"}

\* Any torch call may raise (no CUDA, out of memory), and a job of no layers
\* does: Hn was never bound.  The simulation starts from the inputs again.
GiveUp ==
    /\ Rescued
    /\ h' = job.x /\ done' = 0
    /\ pc' = "simulate"
    /\ UNCHANGED <<job, pending, dev, gpuOut, cpuOut>>

\* One layer of the simulation: both shares on the host.
Simulate ==
    /\ pc = "simulate" /\ done < job.layers
    /\ h' = [v \in CpuRows \cup GpuRows |-> PhiRow(job, MeanRow(job, h, v))]
    /\ done' = done + 1
    /\ UNCHANGED <<job, pc, pending, dev, gpuOut, cpuOut>>

ReturnSimulated ==
    /\ pc = "simulate" /\ done = job.layers
    /\ pc' = "returned"
    /\ UNCHANGED <<job, pending, dev, gpuOut, cpuOut, h, done>>

DeviceStep == \E op \in {"coalesce", "spmm"} : DeviceRuns(op)
HostStep == \/ Setup \/ Settle \/ Launch \/ HostShare \/ Join \/ Return
            \/ Simulate \/ ReturnSimulated
CoexecNext == HostStep \/ DeviceStep \/ GiveUp

\* For a job of run_coexec the host runs its program and the device its
\* queue; giving up is never owed, except to a job of no layers.  A job of
\* another executor owes nothing here: none of this code runs for it.
CoexecFairness ==
    /\ WF_coVars(job.executor = "coexec" /\ HostStep)
    /\ WF_coVars(job.executor = "coexec" /\ DeviceStep)
    /\ WF_coVars(job.executor = "coexec" /\ job.layers = 0 /\ GiveUp)

CoexecSpec == CoexecInit /\ [][CoexecNext]_coVars
=============================================================================
