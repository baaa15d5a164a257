--------------------------- MODULE TieredExecutor ---------------------------
(***************************************************************************)
(* The tiered executor of runtime/memtier.py.  One epoch keeps the first   *)
(* ResidentSnapshots snapshots in device memory and streams the other      *)
(* StreamedSnapshots from host memory through two pinned bounce buffers    *)
(* and two device slots.  Three agents run at their own speed: the host    *)
(* program, the default CUDA stream (kernels) and the copy stream          *)
(* (prefetches).  The host enqueues work and blocks only where the code    *)
(* blocks.  A device operation takes time: it begins and ends in separate  *)
(* steps, and a buffer that is overwritten in between yields Torn data.    *)
(***************************************************************************)
EXTENDS Integers, Sequences

CONSTANTS ResidentSnapshots,   \* plan.per_device[d].resident_snapshots
          StreamedSnapshots    \* plan.per_device[d].streamed_snapshots

ASSUME PlanAssumption == ResidentSnapshots \in Nat /\ StreamedSnapshots \in Nat

VARIABLES hostPc,        \* where the host program is
          s,             \* the resident snapshot the host aggregates next
          k,             \* the streamed snapshot of the current iteration
          pin,           \* pin[b]: the snapshot in pinned bounce buffer b
          gbuf,          \* gbuf[b]: the snapshot in device slot b
          h2,            \* the snapshot behind the last aggregation's output
          acc,           \* the snapshots summed into the result, in order
          queue,         \* queue[q]: every operation enqueued on stream q
          done,          \* done[q]: how many of them have completed
          latch          \* latch[q]: what the running operation of q read

host == <<hostPc, s, k>>
data == <<pin, gbuf, h2, acc>>
streams == <<queue, done, latch>>
tierVars == <<hostPc, s, k, pin, gbuf, h2, acc, queue, done, latch>>

Empty == -1              \* a buffer nothing was written to
Torn  == -2              \* a mixture of two snapshots
Idle  == -3              \* a stream that runs no operation

TierSlots    == {0, 1}
Queues   == {"default", "copy"}
Snapshot == 0 .. ResidentSnapshots + StreamedSnapshots - 1
Content  == Snapshot \cup {Empty, Torn}

H2D(b)       == [op |-> "h2d", arg |-> b]          \* gbuf[b] <- pin[b]
Aggregate(b) == [op |-> "aggregate", arg |-> b]    \* h2 <- aggregate(gbuf[b])
Wait(n)      == [op |-> "wait", arg |-> n]         \* n copies have completed
Operation    == [op : {"h2d", "aggregate", "wait"}, arg : Nat]

\* Seeded fault: the slot alternates every other iteration.
SlotFault(n) == (n \div 2) % 2
Slot(n) == n % 2
cur == Slot(k)
nxt == Slot(k + 1)

Quiet(q) == done[q] = Len(queue[q])
Enqueue(q, o) == queue' = [queue EXCEPT ![q] = Append(@, o)]

\* There is a snapshot to prefetch behind the current one.
HasNext == k + 1 < StreamedSnapshots

\* Seeded fault: the loop leaves the last snapshot out.
MoreIterationsFault == k + 2 < StreamedSnapshots
MoreIterations == k + 1 < StreamedSnapshots

\* Seeded fault: the sum is read without waiting for the kernels.
SumReadableFault == TRUE
\* float(h2.sum()) blocks the host until the default stream has drained.
SumReadable == Quiet("default")

\* Seeded fault: wait_stream is missing.
AwaitedFault == 0
\* wait_stream(copy_stream): every copy enqueued so far.
Awaited == Len(queue["copy"])

TierInit == /\ hostPc = "resident" /\ s = 0 /\ k = 0
        /\ pin = [b \in TierSlots |-> Empty]
        /\ gbuf = [b \in TierSlots |-> Empty]
        /\ h2 = Empty
        /\ acc = << >>
        /\ queue = [q \in Queues |-> << >>]
        /\ done = [q \in Queues |-> 0]
        /\ latch = [q \in Queues |-> Idle]

-----------------------------------------------------------------------------
(* The host program.                                                       *)

\* A resident snapshot never moves: the kernel and the blocking read of its
\* sum are one step.
AggregateResident ==
    /\ hostPc = "resident" /\ s < ResidentSnapshots
    /\ acc' = Append(acc, s)
    /\ h2' = s
    /\ s' = s + 1
    /\ UNCHANGED <<hostPc, k, pin, gbuf, streams>>

FinishResident ==
    /\ hostPc = "resident" /\ s = ResidentSnapshots
    /\ hostPc' = IF StreamedSnapshots > 0 THEN "fill" ELSE "synchronize"
    /\ UNCHANGED <<s, k, data, streams>>

\* pin[0].copy_(cpu_bank[resident]); gbuf[0].copy_(pin[0], non_blocking=True)
FillFirst ==
    /\ hostPc = "fill"
    /\ pin' = [pin EXCEPT ![0] = ResidentSnapshots]
    /\ Enqueue("default", H2D(0))
    /\ hostPc' = "ready"
    /\ UNCHANGED <<s, k, gbuf, h2, acc, done, latch>>

SynchronizeFirst ==
    /\ hostPc = "ready"
    /\ \A q \in Queues : Quiet(q)
    /\ hostPc' = "prefetch"
    /\ UNCHANGED <<s, k, data, streams>>

\* The bounce buffer is written by the host itself, before the copy that
\* reads it is enqueued.
Prefetch ==
    /\ hostPc = "prefetch" /\ HasNext
    /\ pin' = [pin EXCEPT ![nxt] = ResidentSnapshots + k + 1]
    /\ hostPc' = "enqueue"
    /\ UNCHANGED <<s, k, gbuf, h2, acc, streams>>

NoPrefetch ==
    /\ hostPc = "prefetch" /\ ~HasNext
    /\ hostPc' = "launch"
    /\ UNCHANGED <<s, k, data, streams>>

EnqueueCopy ==
    /\ hostPc = "enqueue"
    /\ Enqueue("copy", H2D(nxt))
    /\ hostPc' = "launch"
    /\ UNCHANGED <<s, k, data, done, latch>>

Launch ==
    /\ hostPc = "launch"
    /\ Enqueue("default", Aggregate(cur))
    /\ hostPc' = "sum"
    /\ UNCHANGED <<s, k, data, done, latch>>

ReadSum ==
    /\ hostPc = "sum"
    /\ SumReadable
    /\ acc' = Append(acc, h2)
    /\ hostPc' = "wait"
    /\ UNCHANGED <<s, k, pin, gbuf, h2, streams>>

\* What is enqueued on the default stream from here on runs after the
\* copies awaited.
WaitStream ==
    /\ hostPc = "wait"
    /\ Enqueue("default", Wait(Awaited))
    /\ k' = k + 1
    /\ hostPc' = IF MoreIterations THEN "prefetch" ELSE "synchronize"
    /\ UNCHANGED <<s, data, done, latch>>

Synchronize ==
    /\ hostPc = "synchronize"
    /\ \A q \in Queues : Quiet(q)
    /\ hostPc' = "finished"
    /\ UNCHANGED <<s, k, data, streams>>

Host == \/ AggregateResident \/ FinishResident
        \/ FillFirst \/ SynchronizeFirst
        \/ Prefetch \/ NoPrefetch \/ EnqueueCopy
        \/ Launch \/ ReadSum \/ WaitStream
        \/ Synchronize

-----------------------------------------------------------------------------
(* The device: each stream runs its operations one at a time, in order.    *)

Head1(q) == queue[q][done[q] + 1]
Starts(q, o) == ~Quiet(q) /\ latch[q] = Idle /\ Head1(q).op = o
Runs(q, o)   == ~Quiet(q) /\ latch[q] # Idle /\ Head1(q).op = o

BeginCopy(q) ==
    /\ Starts(q, "h2d")
    /\ latch' = [latch EXCEPT ![q] = pin[Head1(q).arg]]
    /\ gbuf' = [gbuf EXCEPT ![Head1(q).arg] = Torn]
    /\ UNCHANGED <<host, pin, h2, acc, queue, done>>

EndCopy(q) ==
    /\ Runs(q, "h2d")
    /\ gbuf' = [gbuf EXCEPT ![Head1(q).arg] =
                    IF pin[Head1(q).arg] = latch[q] THEN latch[q] ELSE Torn]
    /\ latch' = [latch EXCEPT ![q] = Idle]
    /\ done' = [done EXCEPT ![q] = @ + 1]
    /\ UNCHANGED <<host, pin, h2, acc, queue>>

BeginAggregate(q) ==
    /\ Starts(q, "aggregate")
    /\ latch' = [latch EXCEPT ![q] = gbuf[Head1(q).arg]]
    /\ UNCHANGED <<host, data, queue, done>>

EndAggregate(q) ==
    /\ Runs(q, "aggregate")
    /\ h2' = IF gbuf[Head1(q).arg] = latch[q] THEN latch[q] ELSE Torn
    /\ latch' = [latch EXCEPT ![q] = Idle]
    /\ done' = [done EXCEPT ![q] = @ + 1]
    /\ UNCHANGED <<host, pin, gbuf, acc, queue>>

PassWait(q) ==
    /\ Starts(q, "wait")
    /\ done["copy"] >= Head1(q).arg
    /\ done' = [done EXCEPT ![q] = @ + 1]
    /\ UNCHANGED <<host, data, queue, latch>>

Device(q) == \/ BeginCopy(q) \/ EndCopy(q)
             \/ BeginAggregate(q) \/ EndAggregate(q)
             \/ PassWait(q)

EpochOver == hostPc = "finished" /\ UNCHANGED tierVars

TierNext == Host \/ (\E q \in Queues : Device(q)) \/ EpochOver

\* The host keeps executing and the hardware keeps draining both streams.
TierSpec == /\ TierInit /\ [][TierNext]_tierVars
            /\ WF_tierVars(Host)
            /\ \A q \in Queues : WF_tierVars(Device(q))

-----------------------------------------------------------------------------
(* Properties.                                                             *)

TierTypeOK ==
    /\ hostPc \in {"resident", "fill", "ready", "prefetch", "enqueue", "launch",
               "sum", "wait", "synchronize", "finished"}
    /\ s \in 0 .. ResidentSnapshots
    /\ k \in 0 .. StreamedSnapshots
    /\ pin \in [TierSlots -> Snapshot \cup {Empty}]
    /\ gbuf \in [TierSlots -> Content]
    /\ h2 \in Content
    /\ acc \in Seq(Content)
    /\ queue \in [Queues -> Seq(Operation)]
    /\ done \in [Queues -> Nat]
    /\ latch \in [Queues -> Content \cup {Idle}]

\* Every snapshot is aggregated on its own features, once, in time order:
\* neither a half-filled slot, nor the slot of another iteration, ever
\* reaches the sum of run_snapshot_tiering.
RightSnapshots == \A i \in 1 .. Len(acc) : acc[i] = i - 1

Outstanding(q, o) == \E i \in done[q] + 1 .. Len(queue[q]) : queue[q][i] = o

\* When the host overwrites a bounce buffer for the next prefetch, no copy
\* out of that buffer is still pending on either stream, and when it
\* enqueues the copy no kernel that reads the device slot is still pending.
NoOverwriteInFlight ==
    /\ hostPc = "prefetch" => \A q \in Queues : ~Outstanding(q, H2D(nxt))
    /\ hostPc = "enqueue" => ~Outstanding("default", Aggregate(nxt))

\* A kernel that has begun reads a slot that holds the current iteration's
\* snapshot, and no copy is writing that slot.
KernelReadsSettledSlot ==
    \A i \in done["default"] + 1 .. Len(queue["default"]) :
        (queue["default"][i].op = "aggregate" /\ latch["default"] # Idle)
            => gbuf[queue["default"][i].arg] = ResidentSnapshots + k

\* The epoch ends, with every snapshot of the window aggregated.
EpochCompletes ==
    <>(hostPc = "finished" /\ Len(acc) = ResidentSnapshots + StreamedSnapshots)

\* The executor implements the sequential aggregation of the window.
Sequential == INSTANCE SequentialAggregation
                  WITH Window <- ResidentSnapshots + StreamedSnapshots
ImplementsSequential == Sequential!Spec
=============================================================================
