---------------------------- MODULE MemoryProofs ----------------------------
(***************************************************************************)
(* Proofs about what moves data through device memory and keeps it within  *)
(* its bounds.  First the tiered executor, for every split of the window:  *)
(* its inductive invariant says, at each point of the host program, how    *)
(* far the two streams can be behind it.  Then the buffer pool, for every  *)
(* set of units, number of slots and schedule: the keys belady compares    *)
(* are never stale, the occupancy is the one that plan_schedule derives    *)
(* from the misses, no demand-paging policy misses less than belady, and   *)
(* the C++ kernel misses where the Python loops do.  Last the reactive     *)
(* controller, for every configuration and every stream: conservation of   *)
(* the bytes, the headroom, the spill bounds and the progress of the       *)
(* draining loop.                                                          *)
(***************************************************************************)
EXTENDS TieredExecutor, DemandPaging, MemoryControlLoop, SequenceTheorems, Counting

-----------------------------------------------------------------------------
(* The tiered executor: how far the streams are behind the host.            *)

Before == {"resident", "fill", "ready"}
Loop   == {"prefetch", "enqueue", "launch", "sum", "wait"}
After  == {"synchronize", "finished"}

nC == Len(queue["copy"])
nD == Len(queue["default"])
dC == done["copy"]
dD == done["default"]

ControlInv ==
    /\ hostPc # "resident" => s = ResidentSnapshots
    /\ hostPc \in Before => k = 0
    /\ hostPc \in Loop => k < StreamedSnapshots
    /\ hostPc \in {"fill", "ready"} => StreamedSnapshots > 0
    /\ hostPc = "enqueue" => k + 1 < StreamedSnapshots
    /\ hostPc \in After => k = StreamedSnapshots

\* How many snapshots the sum holds.
Summed == IF hostPc = "resident" THEN s
          ELSE IF hostPc = "wait" THEN ResidentSnapshots + k + 1
          ELSE ResidentSnapshots + k
AccInv == Len(acc) = Summed /\ RightSnapshots

\* Copy n moves snapshot ResidentSnapshots + n into slot n % 2; when iteration k
\* begins, k copies are enqueued and all but the last have completed.
Issued == IF hostPc \in {"launch", "sum", "wait"} /\ k + 1 < StreamedSnapshots
              THEN k + 1 ELSE k
CopyInv ==
    /\ \A n \in 1 .. nC : queue["copy"][n] = H2D(Slot(n))
    /\ dC <= nC
    /\ hostPc \in Before => nC = 0
    /\ hostPc \in Loop => nC = Issued /\ dC >= k - 1
    /\ hostPc = "wait" => dC >= k
    /\ hostPc \in After => dC = nC
    /\ latch["copy"] # Idle => dC < nC /\ latch["copy"] = ResidentSnapshots + dC + 1

\* What the buffers hold: the bounce buffers follow the host, the device
\* slots follow the copies that have completed.
BufferInv ==
    /\ hostPc \in Loop \cup {"ready"} => pin[Slot(k)] = ResidentSnapshots + k
    /\ (hostPc \in Loop \ {"prefetch"} /\ k + 1 < StreamedSnapshots)
           => pin[Slot(k + 1)] = ResidentSnapshots + k + 1
    /\ hostPc \in Loop /\ dC >= k => gbuf[Slot(k)] = ResidentSnapshots + k
    /\ hostPc \in Loop /\ dC >= k + 1 => gbuf[Slot(k + 1)] = ResidentSnapshots + k + 1
    /\ hostPc = "ready" /\ dD = 1 => gbuf[0] = ResidentSnapshots

\* What can be pending on the default stream.
DefaultInv ==
    /\ dD <= nD
    /\ hostPc \in {"resident", "fill"} => nD = 0
    /\ hostPc = "ready" => nD = 1 /\ queue["default"][1] = H2D(0)
    /\ hostPc \in {"prefetch", "enqueue", "launch"} =>
           /\ dD < nD => dD = nD - 1 /\ queue["default"][nD] = Wait(k)
           /\ dD = nD => dC >= k
    /\ hostPc = "sum" =>
           /\ dD >= nD - 2
           /\ nD >= 1 /\ queue["default"][nD] = Aggregate(Slot(k))
           /\ dD = nD - 2 => queue["default"][nD - 1] = Wait(k)
           /\ dD >= nD - 1 => dC >= k
           /\ dD = nD => h2 = ResidentSnapshots + k
    /\ hostPc = "wait" => dD = nD
    /\ hostPc \in After /\ dD < nD =>
           dD = nD - 1 /\ queue["default"][nD].op = "wait"
    /\ latch["default"] # Idle =>
           \/ hostPc = "ready" /\ dD = 0 /\ latch["default"] = ResidentSnapshots
           \/ hostPc = "sum" /\ dD = nD - 1 /\ latch["default"] = ResidentSnapshots + k

TierInv == TierTypeOK /\ ControlInv /\ AccInv /\ CopyInv /\ BufferInv /\ DefaultInv

-----------------------------------------------------------------------------
\* A lemma: consecutive snapshots use different slots.
LEMMA SlotLemma == ASSUME NEW n \in Nat
                   PROVE  /\ Slot(n) \in TierSlots /\ Slot(n + 1) \in TierSlots
                          /\ Slot(n + 1) # Slot(n)
                          /\ Slot(0) = 0
  BY DEF Slot, TierSlots

\* A lemma: the slots of the current and of the next iteration differ.
LEMMA CurrentSlots ==
    ASSUME TierTypeOK
    PROVE  /\ k \in Nat /\ s \in Nat
           /\ Slot(k) \in TierSlots /\ Slot(k + 1) \in TierSlots
           /\ Slot(k + 1) # Slot(k)
<1>1. k \in Nat /\ s \in Nat
  BY PlanAssumption DEF TierTypeOK
<1> QED
  BY <1>1, SlotLemma

\* A lemma: what enqueueing does to the two streams.
LEMMA EnqueueLemma ==
    ASSUME NEW q \in Queues, NEW o \in Operation,
           queue \in [Queues -> Seq(Operation)],
           Enqueue(q, o)
    PROVE  /\ queue' \in [Queues -> Seq(Operation)]
           /\ Len(queue'[q]) = Len(queue[q]) + 1
           /\ queue'[q][Len(queue[q]) + 1] = o
           /\ \A n \in 1 .. Len(queue[q]) : queue'[q][n] = queue[q][n]
           /\ \A p \in Queues \ {q} : queue'[p] = queue[p]
  BY DEF Enqueue

\* A lemma: appending snapshot number Len(acc) keeps the sum right.
LEMMA AppendLemma ==
    ASSUME acc \in Seq(Content), RightSnapshots, Len(acc) \in Snapshot,
           acc' = Append(acc, Len(acc))
    PROVE  /\ acc' \in Seq(Content) /\ RightSnapshots'
           /\ Len(acc') = Len(acc) + 1
  BY DEF RightSnapshots, Content

\* A lemma: the initial state satisfies the inductive invariant.
LEMMA InitTierInv == TierInit => TierInv
  BY PlanAssumption DEF TierInit, TierInv, TierTypeOK, ControlInv, AccInv, CopyInv,
     BufferInv,
     DefaultInv, RightSnapshots, Summed, Issued, Before, Loop, After, Queues, TierSlots,
     Content, Snapshot, Empty, Idle, nC, nD, dC, dD, Operation

-----------------------------------------------------------------------------
(* The steps of the host.                                                  *)

\* A lemma: a resident snapshot is aggregated: the sum grows in order.
LEMMA AggregateResidentStep == TierInv /\ AggregateResident => TierInv'
<1> SUFFICES ASSUME TierInv, AggregateResident PROVE TierInv'
  OBVIOUS
<1> USE PlanAssumption DEF TierInv, TierTypeOK, AggregateResident, data, streams
<1>1. Len(acc) = s /\ s \in Snapshot
  BY DEF AccInv, Summed, Snapshot
<1>2. AccInv' /\ acc' \in Seq(Content)
  BY <1>1, AppendLemma DEF AccInv, Summed
<1>3. TierTypeOK'
  BY <1>1, <1>2 DEF Content
<1>4. ControlInv' /\ CopyInv' /\ BufferInv' /\ DefaultInv'
  BY DEF ControlInv, CopyInv, BufferInv, DefaultInv, Issued, Before, Loop, After,
         nC, nD, dC, dD
<1> QED
  BY <1>2, <1>3, <1>4

\* A lemma: the resident phase ends with all resident snapshots in the sum.
LEMMA FinishResidentStep == TierInv /\ FinishResident => TierInv'
<1> SUFFICES ASSUME TierInv, FinishResident PROVE TierInv'
  OBVIOUS
<1>0. /\ k \in Nat /\ Slot(k) \in TierSlots /\ Slot(k + 1) \in TierSlots
      /\ Slot(k + 1) # Slot(k)
  BY CurrentSlots DEF TierInv
<1> USE PlanAssumption DEF TierInv, TierTypeOK, FinishResident, data, streams, host
<1>1. TierTypeOK' /\ ControlInv'
  <2>1. hostPc' \in {"fill", "synchronize"} /\ (hostPc' = "fill" => StreamedSnapshots
     > 0)
        /\ (hostPc' = "synchronize" => StreamedSnapshots = 0)
    OBVIOUS
  <2>2. k = 0 /\ s = ResidentSnapshots
    BY DEF ControlInv, Before
  <2> QED
    BY <2>1, <2>2 DEF ControlInv, Before, Loop, After
<1>2. AccInv'
  BY DEF AccInv, Summed, RightSnapshots, ControlInv, Before, Loop, After
<1>3. CopyInv'
  BY DEF CopyInv, Issued, Before, Loop, After, nC, dC, ControlInv, HasNext,
     Quiet, Queues
<1>4. BufferInv'
  BY <1>0 DEF BufferInv, CopyInv, Issued, Before, Loop, After, nC, dC, dD, nD,
     ControlInv, HasNext
<1>5. DefaultInv'
  BY DEF DefaultInv, CopyInv, Before, Loop, After, nD, dD, dC, ControlInv,
     Quiet, Queues
<1> QED
  BY <1>1, <1>2, <1>3, <1>4, <1>5

\* A lemma: after the first synchronize, slot 0 holds the first streamed snapshot.
LEMMA SynchronizeFirstStep == TierInv /\ SynchronizeFirst => TierInv'
<1> SUFFICES ASSUME TierInv, SynchronizeFirst PROVE TierInv'
  OBVIOUS
<1>0. /\ k \in Nat /\ Slot(k) \in TierSlots /\ Slot(k + 1) \in TierSlots
      /\ Slot(k + 1) # Slot(k)
  BY CurrentSlots DEF TierInv
<1> USE PlanAssumption DEF TierInv, TierTypeOK, SynchronizeFirst, data, streams, host
<1>1. TierTypeOK' /\ ControlInv'
  BY DEF ControlInv, Before, Loop, After, HasNext
<1>2. AccInv'
  BY DEF AccInv, Summed, RightSnapshots, ControlInv, Before, Loop, After
<1>3. CopyInv'
  BY DEF CopyInv, Issued, Before, Loop, After, nC, dC, ControlInv, HasNext,
     Quiet, Queues
<1>4. BufferInv'
  <2>1. k = 0 /\ Slot(k) = 0 /\ dD = 1 /\ nC = 0 /\ dC = 0
    BY SlotLemma DEF ControlInv, Before, DefaultInv, CopyInv, nC, dC, dD, nD,
       Quiet, Queues
  <2> QED
    BY <1>0, <2>1 DEF BufferInv, Loop, dC, dD
<1>5. DefaultInv'
  BY DEF DefaultInv, CopyInv, Before, Loop, After, nD, dD, dC, ControlInv,
     Quiet, Queues
<1> QED
  BY <1>1, <1>2, <1>3, <1>4, <1>5

\* A lemma: the host fills the other bounce buffer; the current slot is untouched.
LEMMA PrefetchStep == TierInv /\ Prefetch => TierInv'
<1> SUFFICES ASSUME TierInv, Prefetch PROVE TierInv'
  OBVIOUS
<1>0. /\ k \in Nat /\ Slot(k) \in TierSlots /\ Slot(k + 1) \in TierSlots
      /\ Slot(k + 1) # Slot(k)
  BY CurrentSlots DEF TierInv
<1> USE PlanAssumption DEF TierInv, TierTypeOK, Prefetch, data, streams, host
<1>1. TierTypeOK' /\ ControlInv'
  <2>1. pin' \in [TierSlots -> Snapshot \cup {Empty}]
    <3>1. ResidentSnapshots + k + 1 \in Snapshot
      BY <1>0 DEF HasNext, Snapshot
    <3> QED
      BY <1>0, <3>1 DEF nxt
  <2> QED
    BY <2>1 DEF ControlInv, Before, Loop, After, HasNext
<1>2. AccInv'
  BY DEF AccInv, Summed, RightSnapshots, ControlInv, Before, Loop, After
<1>3. CopyInv'
  BY DEF CopyInv, Issued, Before, Loop, After, nC, dC
<1>4. BufferInv'
  <2>1. pin'[Slot(k + 1)] = ResidentSnapshots + k + 1 /\ pin'[Slot(k)] = pin[Slot(k)]
    BY <1>0 DEF nxt
  <2> QED
    BY <1>0, <2>1 DEF BufferInv, Loop, dC, dD
<1>5. DefaultInv'
  BY DEF DefaultInv, CopyInv, Before, Loop, After, nD, dD, dC, ControlInv,
     Quiet, Queues
<1> QED
  BY <1>1, <1>2, <1>3, <1>4, <1>5

\* A lemma: in the last iteration there is nothing to prefetch.
LEMMA NoPrefetchStep == TierInv /\ NoPrefetch => TierInv'
<1> SUFFICES ASSUME TierInv, NoPrefetch PROVE TierInv'
  OBVIOUS
<1>0. /\ k \in Nat /\ Slot(k) \in TierSlots /\ Slot(k + 1) \in TierSlots
      /\ Slot(k + 1) # Slot(k)
  BY CurrentSlots DEF TierInv
<1> USE PlanAssumption DEF TierInv, TierTypeOK, NoPrefetch, data, streams, host
<1>1. TierTypeOK' /\ ControlInv'
  BY DEF ControlInv, Before, Loop, After, HasNext
<1>2. AccInv'
  BY DEF AccInv, Summed, RightSnapshots, ControlInv, Before, Loop, After
<1>3. CopyInv'
  BY DEF CopyInv, Issued, Before, Loop, After, nC, dC, ControlInv, HasNext,
     Quiet, Queues
<1>4. BufferInv'
  BY <1>0 DEF BufferInv, CopyInv, Issued, Before, Loop, After, nC, dC, dD, nD,
     ControlInv, HasNext
<1>5. DefaultInv'
  BY DEF DefaultInv, CopyInv, Before, Loop, After, nD, dD, dC, ControlInv,
     Quiet, Queues
<1> QED
  BY <1>1, <1>2, <1>3, <1>4, <1>5

\* A lemma: the final synchronize leaves no work on either stream.
LEMMA SynchronizeStep == TierInv /\ Synchronize => TierInv'
<1> SUFFICES ASSUME TierInv, Synchronize PROVE TierInv'
  OBVIOUS
<1>0. /\ k \in Nat /\ Slot(k) \in TierSlots /\ Slot(k + 1) \in TierSlots
      /\ Slot(k + 1) # Slot(k)
  BY CurrentSlots DEF TierInv
<1> USE PlanAssumption DEF TierInv, TierTypeOK, Synchronize, data, streams, host
<1>1. TierTypeOK' /\ ControlInv'
  BY DEF ControlInv, Before, Loop, After, HasNext
<1>2. AccInv'
  BY DEF AccInv, Summed, RightSnapshots, ControlInv, Before, Loop, After
<1>3. CopyInv'
  BY DEF CopyInv, Issued, Before, Loop, After, nC, dC, ControlInv, HasNext,
     Quiet, Queues
<1>4. BufferInv'
  BY <1>0 DEF BufferInv, CopyInv, Issued, Before, Loop, After, nC, dC, dD, nD,
     ControlInv, HasNext
<1>5. DefaultInv'
  BY DEF DefaultInv, CopyInv, Before, Loop, After, nD, dD, dC, ControlInv,
     Quiet, Queues
<1> QED
  BY <1>1, <1>2, <1>3, <1>4, <1>5

\* A lemma: the first fill is the only copy on the default stream.
LEMMA FillFirstStep == TierInv /\ FillFirst => TierInv'
<1> SUFFICES ASSUME TierInv, FillFirst PROVE TierInv'
  OBVIOUS
<1>0. /\ k \in Nat /\ Slot(k) \in TierSlots /\ Slot(k + 1) \in TierSlots
      /\ Slot(k + 1) # Slot(k)
  BY CurrentSlots DEF TierInv
<1>e. /\ queue' \in [Queues -> Seq(Operation)]
      /\ Len(queue'["default"]) = Len(queue["default"]) + 1
      /\ queue'["default"][Len(queue["default"]) + 1] = H2D(0)
      /\ \A n \in 1 .. Len(queue["default"]) : queue'["default"][n] =
         queue["default"][n]
      /\ queue'["copy"] = queue["copy"]
  <2>1. H2D(0) \in Operation
    BY <1>0 DEF TierInv, TierTypeOK, Operation, H2D, Aggregate, Wait, TierSlots,
       Queues, cur, nxt,
       Awaited
  <2> QED
    BY <2>1, EnqueueLemma DEF TierInv, TierTypeOK, FillFirst, Queues
<1> USE PlanAssumption DEF TierInv, TierTypeOK, data, streams, host
<1>1. TierTypeOK' /\ ControlInv'
  BY <1>0, <1>e DEF FillFirst, ControlInv, Before, Loop, After, TierSlots, Snapshot
<1>2. AccInv'
  BY <1>0, <1>e
     DEF FillFirst, AccInv, Summed, RightSnapshots, ControlInv, Before, Loop, After,
         MoreIterations
<1>3. CopyInv'
  BY <1>0, <1>e DEF FillFirst, CopyInv, Issued, ControlInv, Before, Loop, After,
         MoreIterations, nC, dC, Queues
<1>4. BufferInv'
  <2>1. k = 0 /\ dD = 0 /\ dD' = 0 /\ hostPc' = "ready"
    BY DEF FillFirst, ControlInv, DefaultInv, Before, nD, dD, Queues
  <2>2. pin'[0] = ResidentSnapshots /\ Slot(k) = 0
    BY <2>1, SlotLemma DEF FillFirst, TierSlots
  <2> QED
    BY <2>1, <2>2 DEF BufferInv, FillFirst, Loop, dD
<1>5. DefaultInv'
  BY <1>0, <1>e
     DEF FillFirst, DefaultInv, CopyInv, Issued, ControlInv, Before, Loop, After,
         nC, dC, nD, dD, cur, Queues
<1> QED
  BY <1>1, <1>2, <1>3, <1>4, <1>5

\* A lemma: the prefetch copy becomes copy k + 1 of the copy stream.
LEMMA EnqueueCopyStep == TierInv /\ EnqueueCopy => TierInv'
<1> SUFFICES ASSUME TierInv, EnqueueCopy PROVE TierInv'
  OBVIOUS
<1>0. /\ k \in Nat /\ Slot(k) \in TierSlots /\ Slot(k + 1) \in TierSlots
      /\ Slot(k + 1) # Slot(k)
  BY CurrentSlots DEF TierInv
<1>e. /\ queue' \in [Queues -> Seq(Operation)]
      /\ Len(queue'["copy"]) = Len(queue["copy"]) + 1
      /\ queue'["copy"][Len(queue["copy"]) + 1] = H2D(nxt)
      /\ \A n \in 1 .. Len(queue["copy"]) : queue'["copy"][n] = queue["copy"][n]
      /\ queue'["default"] = queue["default"]
  <2>1. H2D(nxt) \in Operation
    BY <1>0 DEF TierInv, TierTypeOK, Operation, H2D, Aggregate, Wait, TierSlots,
       Queues, cur, nxt,
       Awaited
  <2> QED
    BY <2>1, EnqueueLemma DEF TierInv, TierTypeOK, EnqueueCopy, Queues
<1> USE PlanAssumption DEF TierInv, TierTypeOK, data, streams, host
<1>1. TierTypeOK' /\ ControlInv'
  BY <1>0, <1>e DEF EnqueueCopy, ControlInv, Before, Loop, After,
         MoreIterations
<1>2. AccInv'
  BY <1>0, <1>e
     DEF EnqueueCopy, AccInv, Summed, RightSnapshots, ControlInv, Before, Loop, After,
         MoreIterations
<1>3. CopyInv'
  <2>1. nC = k /\ k + 1 < StreamedSnapshots /\ nC' = k + 1 /\ dC' = dC
    BY <1>0, <1>e DEF EnqueueCopy, CopyInv, Issued, Loop, ControlInv, nC, dC
  <2>2. queue'["copy"][k + 1] = H2D(Slot(k + 1))
    BY <1>e, <2>1 DEF nC, nxt
  <2>3. \A n \in 1 .. k : queue'["copy"][n] = H2D(Slot(n))
    BY <1>e, <2>1 DEF CopyInv, nC
  <2>4. \A n \in 1 .. nC' : queue'["copy"][n] = H2D(Slot(n))
    BY <1>0, <2>1, <2>2, <2>3
  <2>5. hostPc = "enqueue" /\ hostPc' = "launch" /\ latch' = latch /\ k' = k
    BY DEF EnqueueCopy
  <2>6. /\ dC \in Nat /\ dC <= k /\ dC >= k - 1
        /\ latch["copy"] # Idle => dC < k /\ latch["copy"] = ResidentSnapshots + dC + 1
    BY <2>1, <2>5 DEF CopyInv, Loop, dC, Queues
  <2>7. Issued' = k + 1
    BY <2>1, <2>5 DEF Issued
  <2> QED
    BY <1>0, <2>1, <2>4, <2>5, <2>6, <2>7 DEF CopyInv, Before, Loop, After
<1>4. BufferInv'
  BY <1>0, <1>e, SlotLemma
     DEF EnqueueCopy, BufferInv, CopyInv, Issued, ControlInv, Before, Loop, After,
         nC, dC, dD, TierSlots, cur, nxt, Queues
<1>5. DefaultInv'
  BY <1>0, <1>e
     DEF EnqueueCopy, DefaultInv, CopyInv, Issued, ControlInv, Before, Loop, After,
         nC, dC, nD, dD, cur, Queues
<1> QED
  BY <1>1, <1>2, <1>3, <1>4, <1>5

\* A lemma: the kernel joins the default stream behind at most one pending wait.
LEMMA LaunchStep == TierInv /\ Launch => TierInv'
<1> SUFFICES ASSUME TierInv, Launch PROVE TierInv'
  OBVIOUS
<1>0. /\ k \in Nat /\ Slot(k) \in TierSlots /\ Slot(k + 1) \in TierSlots
      /\ Slot(k + 1) # Slot(k)
  BY CurrentSlots DEF TierInv
<1>e. /\ queue' \in [Queues -> Seq(Operation)]
      /\ Len(queue'["default"]) = Len(queue["default"]) + 1
      /\ queue'["default"][Len(queue["default"]) + 1] = Aggregate(cur)
      /\ \A n \in 1 .. Len(queue["default"]) : queue'["default"][n] =
         queue["default"][n]
      /\ queue'["copy"] = queue["copy"]
  <2>1. Aggregate(cur) \in Operation
    BY <1>0 DEF TierInv, TierTypeOK, Operation, H2D, Aggregate, Wait, TierSlots,
       Queues, cur, nxt,
       Awaited
  <2> QED
    BY <2>1, EnqueueLemma DEF TierInv, TierTypeOK, Launch, Queues
<1> USE PlanAssumption DEF TierInv, TierTypeOK, data, streams, host
<1>1. TierTypeOK' /\ ControlInv'
  BY <1>0, <1>e DEF Launch, ControlInv, Before, Loop, After,
         MoreIterations
<1>2. AccInv'
  BY <1>0, <1>e
     DEF Launch, AccInv, Summed, RightSnapshots, ControlInv, Before, Loop, After,
         MoreIterations
<1>3. CopyInv'
  BY <1>0, <1>e DEF Launch, CopyInv, Issued, ControlInv, Before, Loop, After,
         MoreIterations, nC, dC, Queues
<1>4. BufferInv'
  BY <1>0, <1>e, SlotLemma
     DEF Launch, BufferInv, CopyInv, Issued, ControlInv, Before, Loop, After,
         nC, dC, dD, TierSlots, cur, nxt, Queues
<1>5. DefaultInv'
  <2>1. /\ hostPc = "launch" /\ hostPc' = "sum" /\ k' = k /\ dD' = dD /\ dC' = dC
        /\ latch' = latch /\ latch["default"] = Idle
    BY DEF Launch, DefaultInv, dD, dC
  <2>2. /\ nD \in Nat /\ dD \in Nat /\ nD' = nD + 1
        /\ queue'["default"][nD + 1] = Aggregate(Slot(k))
    BY <1>e DEF nD, dD, cur, Queues
  <2>3. /\ dD <= nD /\ dD >= nD - 1
        /\ dD = nD => dC >= k
        /\ dD = nD - 1 => queue["default"][nD] = Wait(k)
    BY <2>1, <2>2 DEF DefaultInv
  <2>4. dD = nD - 1 => queue'["default"][nD] = Wait(k)
    <3> SUFFICES ASSUME dD = nD - 1 PROVE queue'["default"][nD] = Wait(k)
      OBVIOUS
    <3>1. nD \in 1 .. nD
      BY <2>2
    <3>2. queue'["default"][nD] = queue["default"][nD]
      BY <1>e, <3>1 DEF nD
    <3> QED
      BY <2>3, <3>2
  <2> QED
    BY <2>1, <2>2, <2>3, <2>4 DEF DefaultInv, After
<1> QED
  BY <1>1, <1>2, <1>3, <1>4, <1>5

\* A lemma: the wait orders what follows behind every copy enqueued so far.
LEMMA WaitStreamStep == TierInv /\ WaitStream => TierInv'
<1> SUFFICES ASSUME TierInv, WaitStream PROVE TierInv'
  OBVIOUS
<1>0. /\ k \in Nat /\ Slot(k) \in TierSlots /\ Slot(k + 1) \in TierSlots
      /\ Slot(k + 1) # Slot(k)
  BY CurrentSlots DEF TierInv
<1>e. /\ queue' \in [Queues -> Seq(Operation)]
      /\ Len(queue'["default"]) = Len(queue["default"]) + 1
      /\ queue'["default"][Len(queue["default"]) + 1] = Wait(Awaited)
      /\ \A n \in 1 .. Len(queue["default"]) : queue'["default"][n] =
         queue["default"][n]
      /\ queue'["copy"] = queue["copy"]
  <2>1. Wait(Awaited) \in Operation
    BY <1>0 DEF TierInv, TierTypeOK, Operation, H2D, Aggregate, Wait, TierSlots,
       Queues, cur, nxt,
       Awaited
  <2> QED
    BY <2>1, EnqueueLemma DEF TierInv, TierTypeOK, WaitStream, Queues
<1> USE PlanAssumption DEF TierInv, TierTypeOK, data, streams, host
<1>1. TierTypeOK' /\ ControlInv'
  BY <1>0, <1>e DEF WaitStream, ControlInv, Before, Loop, After,
         MoreIterations
<1>a. /\ hostPc = "wait" /\ k' = k + 1 /\ k < StreamedSnapshots
      /\ hostPc' = IF k + 1 < StreamedSnapshots THEN "prefetch" ELSE "synchronize"
      /\ UNCHANGED <<s, data, done, latch>>
  BY DEF WaitStream, ControlInv, Loop, MoreIterations
<1>b. /\ nC = IF k + 1 < StreamedSnapshots THEN k + 1 ELSE k
      /\ dC \in Nat /\ dC >= k /\ dC <= nC
      /\ nC' = nC /\ dC' = dC
  BY <1>e, <1>a DEF CopyInv, Issued, Loop, nC, dC, Queues
<1>2. AccInv'
  BY <1>0, <1>a DEF AccInv, Summed, RightSnapshots
<1>3. CopyInv'
  BY <1>0, <1>e DEF WaitStream, CopyInv, Issued, ControlInv, Before, Loop, After,
         MoreIterations, nC, dC, Queues
<1>4. BufferInv'
  <2>1. CASE k + 1 < StreamedSnapshots
    BY <1>0, <1>a, <1>b, <2>1 DEF BufferInv, Loop, dD
  <2>2. CASE ~(k + 1 < StreamedSnapshots)
    BY <1>0, <1>a, <2>2 DEF BufferInv, Loop
  <2> QED
    BY <2>1, <2>2
<1>5. DefaultInv'
  <2>1. /\ nD \in Nat /\ dD = nD /\ nD' = nD + 1 /\ dD' = dD
        /\ queue'["default"][nD + 1] = Wait(nC)
        /\ latch'["default"] = Idle
    BY <1>e, <1>a DEF DefaultInv, nD, dD, nC, Awaited, Queues
  <2>2. CASE k + 1 < StreamedSnapshots
    BY <1>0, <1>a, <1>b, <2>1, <2>2 DEF DefaultInv, After
  <2>3. CASE ~(k + 1 < StreamedSnapshots)
    BY <1>0, <1>a, <2>1, <2>3 DEF DefaultInv, After, Wait
  <2> QED
    BY <2>2, <2>3
<1> QED
  BY <1>1, <1>2, <1>3, <1>4, <1>5

\* A lemma: when the sum is read, the default stream has drained, so h2 is the
\* current iteration's snapshot.
LEMMA ReadSumStep == TierInv /\ ReadSum => TierInv'
<1> SUFFICES ASSUME TierInv, ReadSum PROVE TierInv'
  OBVIOUS
<1> USE PlanAssumption DEF TierInv, TierTypeOK, ReadSum, data, streams, host
<1>0. k < StreamedSnapshots /\ dD = nD /\ h2 = ResidentSnapshots + k /\ dC >= k
  BY DEF ControlInv, Loop, DefaultInv, SumReadable, Quiet, dD, nD
<1>1. Len(acc) = ResidentSnapshots + k /\ Len(acc) \in Snapshot
  BY <1>0 DEF AccInv, Summed, Snapshot
<1>2. AccInv' /\ acc' \in Seq(Content)
  BY <1>0, <1>1, AppendLemma DEF AccInv, Summed
<1>3. TierTypeOK' /\ ControlInv'
  BY <1>2 DEF ControlInv, Before, Loop, After
<1>4. CopyInv'
  BY <1>0 DEF CopyInv, Issued, Before, Loop, After, nC, dC
<1>5. BufferInv'
  BY DEF BufferInv, Loop, dC, dD
<1>6. DefaultInv'
  BY <1>0 DEF DefaultInv, Before, Loop, After, nD, dD, dC
<1> QED
  BY <1>2, <1>3, <1>4, <1>5, <1>6

-----------------------------------------------------------------------------
(* The steps of the two streams.                                           *)

\* A lemma: the pending copy is the one of iteration k or of iteration k + 1.
LEMMA CopyHead ==
    ASSUME TierInv, ~Quiet("copy")
    PROVE  /\ hostPc \in Loop /\ k < StreamedSnapshots /\ dC < nC /\ dC \in Nat
           /\ \/ dC = k - 1
              \/ dC = k /\ k + 1 < StreamedSnapshots /\ hostPc \in {"launch", "sum",
                 "wait"}
           /\ Head1("copy") = H2D(Slot(dC + 1))
           /\ Slot(dC + 1) \in TierSlots
           /\ pin[Slot(dC + 1)] = ResidentSnapshots + dC + 1
           /\ ResidentSnapshots + dC + 1 \in Snapshot
<1> USE PlanAssumption DEF TierInv
<1>1. dC < nC /\ dC \in Nat /\ nC \in Nat
  BY DEF TierTypeOK, CopyInv, Quiet, dC, nC, Queues
<1>2. hostPc \in Loop /\ k < StreamedSnapshots /\ k \in Nat
  BY <1>1 DEF TierTypeOK, ControlInv, CopyInv, Loop, Before, After
<1>3. \/ dC = k - 1
      \/ dC = k /\ k + 1 < StreamedSnapshots /\ hostPc \in {"launch", "sum", "wait"}
  BY <1>1, <1>2 DEF CopyInv, Issued
<1>4. Head1("copy") = H2D(Slot(dC + 1))
  BY <1>1 DEF CopyInv, Head1, dC
<1>5. Slot(dC + 1) \in TierSlots
  BY <1>1, SlotLemma
<1>6. pin[Slot(dC + 1)] = ResidentSnapshots + dC + 1
  <2>1. CASE dC = k - 1
    <3>1. dC + 1 = k /\ ResidentSnapshots + dC + 1 = ResidentSnapshots + k
      BY <2>1, <1>1, <1>2
    <3>2. pin[Slot(k)] = ResidentSnapshots + k
      BY <1>2 DEF BufferInv
    <3> QED
      BY <3>1, <3>2
  <2>2. CASE dC = k /\ k + 1 < StreamedSnapshots /\ hostPc \in {"launch", "sum", "wait"}
    BY <2>2, <1>2 DEF BufferInv, Loop
  <2> QED
    BY <1>3, <2>1, <2>2
<1>7. ResidentSnapshots + dC + 1 \in Snapshot
  BY <1>1, <1>2, <1>3 DEF Snapshot
<1> QED
  BY <1>1, <1>2, <1>3, <1>4, <1>5, <1>6, <1>7

\* A lemma: what can be pending on the default stream.
LEMMA DefaultHead ==
    ASSUME TierInv, ~Quiet("default")
    PROVE  /\ dD < nD /\ dD \in Nat /\ nD \in Nat
           /\ \/ /\ hostPc = "ready" /\ dD = 0 /\ nD = 1
                 /\ Head1("default") = H2D(0)
              \/ /\ hostPc \in {"prefetch", "enqueue", "launch"} /\ dD = nD - 1
                 /\ Head1("default") = Wait(k)
              \/ /\ hostPc = "sum" /\ dD = nD - 2
                 /\ Head1("default") = Wait(k)
              \/ /\ hostPc = "sum" /\ dD = nD - 1 /\ dC >= k
                 /\ Head1("default") = Aggregate(Slot(k))
              \/ /\ hostPc \in After /\ dD = nD - 1
                 /\ Head1("default").op = "wait"
<1> USE DEF TierInv
<1>1. dD < nD /\ dD \in Nat /\ nD \in Nat /\ dD = done["default"]
  BY DEF TierTypeOK, DefaultInv, Quiet, dD, nD, Queues
<1>2. hostPc \notin {"resident", "fill", "wait"}
  BY <1>1 DEF DefaultInv
<1>3. CASE hostPc = "ready"
  BY <1>1, <1>3 DEF DefaultInv, Head1
<1>4. CASE hostPc \in {"prefetch", "enqueue", "launch"}
  <2>1. dD + 1 = nD
    BY <1>1, <1>4 DEF DefaultInv
  <2> QED
    BY <1>1, <1>4, <2>1 DEF DefaultInv, Head1
<1>5. CASE hostPc = "sum" /\ dD = nD - 2
  <2>1. dD + 1 = nD - 1
    BY <1>1, <1>5
  <2> QED
    BY <1>1, <1>5, <2>1 DEF DefaultInv, Head1
<1>6. CASE hostPc = "sum" /\ dD # nD - 2
  <2>1. dD + 1 = nD
    BY <1>1, <1>6 DEF DefaultInv
  <2> QED
    BY <1>1, <1>6, <2>1 DEF DefaultInv, Head1
<1>7. CASE hostPc \in After
  <2>1. dD + 1 = nD
    BY <1>1, <1>7 DEF DefaultInv
  <2> QED
    BY <1>1, <1>7, <2>1 DEF DefaultInv, Head1
<1> QED
  BY <1>2, <1>3, <1>4, <1>5, <1>6, <1>7 DEF TierTypeOK, After

\* A lemma: the steps of the copy stream keep the invariant.
LEMMA CopyStreamStep == TierInv /\ Device("copy") => TierInv'
<1> SUFFICES ASSUME TierInv, Device("copy") PROVE TierInv'
  OBVIOUS
<1>1. ~Quiet("copy") /\ Head1("copy").op = "h2d" /\ Head1("copy").arg = Slot(dC + 1)
  <2>1. ~Quiet("copy")
    BY DEF Device, BeginCopy, EndCopy, BeginAggregate, EndAggregate, PassWait,
       Starts, Runs
  <2> QED
    BY <2>1, CopyHead DEF H2D
<1>2. /\ hostPc \in Loop /\ k \in Nat /\ k < StreamedSnapshots /\ dC \in Nat /\ dC < nC
      /\ \/ dC = k - 1
         \/ dC = k /\ k + 1 < StreamedSnapshots /\ hostPc \in {"launch", "sum", "wait"}
      /\ Slot(dC + 1) \in TierSlots
      /\ pin[Slot(dC + 1)] = ResidentSnapshots + dC + 1
      /\ ResidentSnapshots + dC + 1 \in Snapshot
      /\ dC >= k => Slot(dC + 1) # Slot(k)
  BY <1>1, CopyHead, CurrentSlots DEF TierInv
<1> USE DEF TierInv, TierTypeOK, host, data
<1>3. CASE BeginCopy("copy")
  <2>1. /\ latch' = [latch EXCEPT !["copy"] = ResidentSnapshots + dC + 1]
        /\ gbuf' = [gbuf EXCEPT ![Slot(dC + 1)] = Torn]
        /\ UNCHANGED <<host, pin, h2, acc, queue, done>>
    BY <1>1, <1>2, <1>3 DEF BeginCopy
  <2>2. TierTypeOK'
    BY <1>2, <2>1 DEF Content, Queues
  <2>3. ControlInv' /\ AccInv'
    BY <2>1 DEF ControlInv, AccInv, Summed, RightSnapshots
  <2>4. CopyInv'
    BY <1>2, <2>1 DEF CopyInv, Issued, nC, dC, Queues
  <2>5. BufferInv'
    BY <1>2, <2>1 DEF BufferInv, dC, dD, Loop
  <2>6. DefaultInv'
    BY <1>2, <2>1 DEF DefaultInv, dC, dD, nD, Queues
  <2> QED
    BY <2>2, <2>3, <2>4, <2>5, <2>6
<1>4. CASE EndCopy("copy")
  <2>1. /\ latch' = [latch EXCEPT !["copy"] = Idle]
        /\ gbuf' = [gbuf EXCEPT ![Slot(dC + 1)] = ResidentSnapshots + dC + 1]
        /\ done' = [done EXCEPT !["copy"] = @ + 1]
        /\ UNCHANGED <<host, pin, h2, acc, queue>>
    BY <1>1, <1>2, <1>4 DEF EndCopy, Runs, CopyInv
  <2>2. TierTypeOK'
    BY <1>2, <2>1 DEF Content, Queues
  <2>3. ControlInv' /\ AccInv'
    BY <2>1 DEF ControlInv, AccInv, Summed, RightSnapshots
  <2>4. dC' = dC + 1 /\ dD' = dD /\ nC' = nC /\ nD' = nD
    BY <2>1 DEF dC, dD, nC, nD, Queues
  <2>5. CopyInv'
    BY <1>2, <2>1, <2>4 DEF CopyInv, Issued, Queues, Loop, Before, After
  <2>6. BufferInv'
    BY <1>2, <2>1, <2>4 DEF BufferInv, Loop
  <2>7. DefaultInv'
    BY <1>2, <2>1, <2>4 DEF DefaultInv, Queues
  <2> QED
    BY <2>2, <2>3, <2>5, <2>6, <2>7
<1> QED
  BY <1>1, <1>3, <1>4 DEF Device, BeginAggregate, EndAggregate, PassWait, Starts, Runs

\* A lemma: the steps of the default stream keep the invariant.
LEMMA DefaultStreamStep == TierInv /\ Device("default") => TierInv'
<1> SUFFICES ASSUME TierInv, Device("default") PROVE TierInv'
  OBVIOUS
<1>0. ~Quiet("default")
  BY DEF Device, BeginCopy, EndCopy, BeginAggregate, EndAggregate, PassWait,
     Starts, Runs
<1>k. k \in Nat /\ Slot(k) \in TierSlots /\ Slot(0) = 0
  BY CurrentSlots, SlotLemma DEF TierInv
<1> USE PlanAssumption DEF TierInv, TierTypeOK, host, data
<1>1. ASSUME Head1("default").op = "h2d"
      PROVE  /\ hostPc = "ready" /\ dD = 0 /\ nD = 1 /\ k = 0
             /\ Head1("default").arg = 0 /\ pin[0] = ResidentSnapshots
             /\ ResidentSnapshots \in Snapshot /\ dC = 0 /\ nC = 0
  <2>1. hostPc = "ready" /\ dD = 0 /\ nD = 1 /\ Head1("default").arg = 0
    BY <1>0, <1>1, DefaultHead DEF H2D, Wait, Aggregate
  <2> QED
    BY <1>k, <2>1 DEF ControlInv, BufferInv, Before, Snapshot, CopyInv, dC, nC, Queues
<1>2. ASSUME Head1("default").op = "aggregate"
      PROVE  /\ hostPc = "sum" /\ dD = nD - 1 /\ dC >= k
             /\ Head1("default").arg = Slot(k)
             /\ gbuf[Slot(k)] = ResidentSnapshots + k /\ ResidentSnapshots + k \in
                Snapshot
  <2>1. /\ hostPc = "sum" /\ dD = nD - 1 /\ dC >= k
        /\ Head1("default").arg = Slot(k)
    BY <1>0, <1>2, DefaultHead DEF H2D, Wait, Aggregate
  <2> QED
    BY <1>k, <2>1 DEF ControlInv, BufferInv, Loop, Snapshot
<1>3. CASE BeginCopy("default")
  <2>1. /\ latch' = [latch EXCEPT !["default"] = ResidentSnapshots]
        /\ gbuf' = [gbuf EXCEPT ![0] = Torn]
        /\ UNCHANGED <<host, pin, h2, acc, queue, done>>
    BY <1>1, <1>3 DEF BeginCopy, Starts
  <2>2. hostPc = "ready" /\ dD = 0 /\ nD = 1 /\ ResidentSnapshots \in Snapshot
    BY <1>1, <1>3 DEF BeginCopy, Starts
  <2>3. TierTypeOK'
    BY <2>1, <2>2 DEF Content, Queues, TierSlots
  <2>4. ControlInv' /\ AccInv'
    BY <2>1 DEF ControlInv, AccInv, Summed, RightSnapshots
  <2>5. CopyInv'
    BY <2>1 DEF CopyInv, Issued, nC, dC, Queues
  <2>6. BufferInv'
    BY <2>1, <2>2 DEF BufferInv, dC, dD, Loop
  <2>7. DefaultInv'
    BY <2>1, <2>2 DEF DefaultInv, dC, dD, nD, Queues, After
  <2> QED
    BY <2>3, <2>4, <2>5, <2>6, <2>7
<1>4. CASE EndCopy("default")
  <2>1. hostPc = "ready" /\ dD = 0 /\ nD = 1 /\ ResidentSnapshots \in Snapshot
    BY <1>1, <1>4 DEF EndCopy, Runs
  <2>2. latch["default"] = ResidentSnapshots
    BY <2>1, <1>4 DEF EndCopy, Runs, DefaultInv
  <2>3. /\ latch' = [latch EXCEPT !["default"] = Idle]
        /\ gbuf' = [gbuf EXCEPT ![0] = ResidentSnapshots]
        /\ done' = [done EXCEPT !["default"] = @ + 1]
        /\ UNCHANGED <<host, pin, h2, acc, queue>>
    BY <1>1, <1>4, <2>2 DEF EndCopy, Runs
  <2>4. TierTypeOK'
    BY <2>1, <2>3 DEF Content, Queues, TierSlots
  <2>5. ControlInv' /\ AccInv'
    BY <2>3 DEF ControlInv, AccInv, Summed, RightSnapshots
  <2>6. CopyInv'
    BY <2>3 DEF CopyInv, Issued, nC, dC, Queues
  <2>7. BufferInv'
    BY <2>1, <2>3 DEF BufferInv, dC, dD, Loop, TierSlots
  <2>8. DefaultInv'
    BY <2>1, <2>3 DEF DefaultInv, dC, dD, nD, Queues, After
  <2> QED
    BY <2>4, <2>5, <2>6, <2>7, <2>8
<1>5. CASE BeginAggregate("default")
  <2>1. /\ hostPc = "sum" /\ dD = nD - 1 /\ ResidentSnapshots + k \in Snapshot
        /\ latch' = [latch EXCEPT !["default"] = ResidentSnapshots + k]
        /\ UNCHANGED <<host, data, queue, done>>
    BY <1>2, <1>5 DEF BeginAggregate, Starts
  <2>2. TierTypeOK'
    BY <2>1 DEF Content, Queues
  <2>3. ControlInv' /\ AccInv'
    BY <2>1 DEF ControlInv, AccInv, Summed, RightSnapshots
  <2>4. CopyInv' /\ BufferInv'
    BY <2>1 DEF CopyInv, BufferInv, Issued, nC, dC, dD, Queues
  <2>5. DefaultInv'
    BY <2>1 DEF DefaultInv, dC, dD, nD, Queues, After
  <2> QED
    BY <2>2, <2>3, <2>4, <2>5
<1>6. CASE EndAggregate("default")
  <2>1. /\ hostPc = "sum" /\ dD = nD - 1 /\ dC >= k
        /\ ResidentSnapshots + k \in Snapshot
        /\ gbuf[Slot(k)] = ResidentSnapshots + k /\ Head1("default").arg = Slot(k)
    BY <1>2, <1>6 DEF EndAggregate, Runs
  <2>2. latch["default"] = ResidentSnapshots + k
    BY <2>1, <1>6 DEF EndAggregate, Runs, DefaultInv
  <2>3. /\ h2' = ResidentSnapshots + k
        /\ latch' = [latch EXCEPT !["default"] = Idle]
        /\ done' = [done EXCEPT !["default"] = @ + 1]
        /\ UNCHANGED <<host, pin, gbuf, acc, queue>>
    BY <1>6, <2>1, <2>2 DEF EndAggregate
  <2>4. TierTypeOK'
    BY <2>1, <2>3 DEF Content, Queues
  <2>5. ControlInv' /\ AccInv'
    BY <2>3 DEF ControlInv, AccInv, Summed, RightSnapshots
  <2>6. CopyInv' /\ BufferInv'
    BY <2>1, <2>3 DEF CopyInv, BufferInv, Issued, nC, dC, dD, Queues, Loop
  <2>7. DefaultInv'
    BY <2>1, <2>3 DEF DefaultInv, dC, dD, nD, Queues, After
  <2> QED
    BY <2>4, <2>5, <2>6, <2>7
<1>7. CASE PassWait("default")
  <2>1. /\ Head1("default").op = "wait" /\ dC >= Head1("default").arg
        /\ latch["default"] = Idle
        /\ done' = [done EXCEPT !["default"] = @ + 1]
        /\ UNCHANGED <<host, data, queue, latch>>
    BY <1>7 DEF PassWait, Starts, dC
  <2>2. /\ dD \in Nat /\ nD \in Nat /\ dD < nD
        /\ \/ hostPc \in {"prefetch", "enqueue", "launch"} /\ dD = nD - 1 /\ dC >= k
           \/ hostPc = "sum" /\ dD = nD - 2 /\ dC >= k
           \/ hostPc \in After /\ dD = nD - 1
    BY <1>0, <2>1, DefaultHead DEF H2D, Wait, Aggregate
  <2>3. dD' = dD + 1 /\ nD' = nD /\ dC' = dC /\ nC' = nC
    BY <2>1 DEF dC, dD, nC, nD, Queues
  <2>4. TierTypeOK'
    BY <2>1 DEF Queues
  <2>5. ControlInv' /\ AccInv'
    BY <2>1 DEF ControlInv, AccInv, Summed, RightSnapshots
  <2>6. CopyInv' /\ BufferInv'
    BY <2>1, <2>2, <2>3 DEF CopyInv, BufferInv, Issued, After, Loop
  <2>7. DefaultInv'
    BY <2>1, <2>2, <2>3 DEF DefaultInv, After
  <2> QED
    BY <2>4, <2>5, <2>6, <2>7
<1> QED
  BY <1>3, <1>4, <1>5, <1>6, <1>7 DEF Device

-----------------------------------------------------------------------------
(* The theorems.                                                           *)

\* A lemma: the inductive invariant holds in every reachable state.
LEMMA TierInvariance == TierSpec => []TierInv
<1>1. TierInv /\ UNCHANGED tierVars => TierInv'
  BY DEF tierVars, TierInv, TierTypeOK, ControlInv, AccInv, CopyInv, BufferInv,
     DefaultInv,
     RightSnapshots, Summed, Issued, nC, nD, dC, dD
<1>2. TierInv /\ [TierNext]_tierVars => TierInv'
  BY <1>1, AggregateResidentStep, FinishResidentStep, FillFirstStep,
     SynchronizeFirstStep, PrefetchStep, NoPrefetchStep, EnqueueCopyStep, LaunchStep,
     ReadSumStep, WaitStreamStep, SynchronizeStep, CopyStreamStep, DefaultStreamStep
     DEF TierNext, Host, Queues, EpochOver
<1> QED
  BY InitTierInv, <1>2, PTL DEF TierSpec

\* Every variable of the executor keeps its range, whatever the plan.
THEOREM TierTypeCorrect == TierSpec => []TierTypeOK
  BY TierInvariance, PTL DEF TierInv

\* For every split of the window, every snapshot is summed on its own
\* features, once, in time order.
THEOREM SumIsRight == TierSpec => []RightSnapshots
  BY TierInvariance, PTL DEF TierInv, AccInv

\* For every split of the window, no buffer is overwritten while an
\* operation that needs its old contents is pending.
THEOREM NoOverwrite == TierSpec => []NoOverwriteInFlight
<1>1. TierInv => NoOverwriteInFlight
  <2> SUFFICES ASSUME TierInv PROVE NoOverwriteInFlight
    OBVIOUS
  <2> USE DEF TierInv, TierTypeOK
  <2>k. k \in Nat /\ Slot(k + 1) # Slot(k) /\ Slot(k) \in TierSlots /\ Slot(k + 1)
     \in TierSlots
    BY CurrentSlots
  <2>1. ASSUME hostPc = "prefetch" PROVE ~Outstanding("copy", H2D(nxt))
    <3>1. nC = k /\ dC >= k - 1 /\ dC \in Nat
      BY <2>1 DEF CopyInv, Issued, Loop, dC, Queues
    <3>2. ASSUME NEW n \in dC + 1 .. nC, queue["copy"][n] = H2D(nxt) PROVE FALSE
      <4>1. n = k /\ n \in 1 .. nC
        BY <2>k, <3>1, <3>2
      <4>2. H2D(Slot(k)) = H2D(Slot(k + 1))
        BY <3>2, <4>1 DEF CopyInv, nxt
      <4> QED
        BY <2>k, <4>2 DEF H2D
    <3> QED
      BY <3>2 DEF Outstanding, dC, nC
  <2>2. ASSUME hostPc = "prefetch" PROVE ~Outstanding("default", H2D(nxt))
    BY <2>2 DEF DefaultInv, Outstanding, H2D, Wait, dD, nD, Queues
  <2>3. ASSUME hostPc = "enqueue" PROVE ~Outstanding("default", Aggregate(nxt))
    BY <2>3 DEF DefaultInv, Outstanding, Aggregate, Wait, dD, nD, Queues
  <2> QED
    BY <2>1, <2>2, <2>3 DEF NoOverwriteInFlight, Queues
<1> QED
  BY <1>1, TierInvariance, PTL

\* For every split of the window, a kernel that has begun reads the
\* snapshot of its own iteration, complete.
THEOREM SettledSlots == TierSpec => []KernelReadsSettledSlot
<1>1. TierInv => KernelReadsSettledSlot
  <2> SUFFICES ASSUME TierInv,
                      NEW n \in dD + 1 .. nD,
                      queue["default"][n].op = "aggregate",
                      latch["default"] # Idle
               PROVE  gbuf[queue["default"][n].arg] = ResidentSnapshots + k
    BY DEF KernelReadsSettledSlot, dD, nD
  <2> USE DEF TierInv, TierTypeOK
  <2>1. dD \in Nat /\ nD \in Nat /\ k \in Nat
    BY CurrentSlots DEF dD, nD, Queues
  <2>2. hostPc = "sum" /\ n = nD
    BY <2>1 DEF DefaultInv, H2D
  <2>3. dC >= k /\ queue["default"][n].arg = Slot(k)
    BY <2>1, <2>2 DEF DefaultInv, Aggregate
  <2> QED
    BY <2>2, <2>3 DEF BufferInv, Loop
<1> QED
  BY <1>1, TierInvariance, PTL

\* For every split of the window, the executor's steps are those of the
\* sequential aggregation, or leave the result alone: the safety half of
\* ImplementsSequential.
THEOREM Refinement == TierSpec => Sequential!Init /\ [][Sequential!Next]_acc
<1>1. TierInit => Sequential!Init
  BY DEF TierInit, Sequential!Init
<1>2. TierInv /\ [TierNext]_tierVars => [Sequential!Next]_acc
  <2> SUFFICES ASSUME TierInv, TierNext, acc' # acc PROVE Sequential!Aggregate
    BY DEF Sequential!Next, tierVars
  <2> USE PlanAssumption DEF TierInv, TierTypeOK
  <2>1. CASE AggregateResident
    <3>1. acc' = Append(acc, Len(acc)) /\ Len(acc) < ResidentSnapshots
      BY <2>1 DEF AggregateResident, AccInv, Summed
    <3> QED
      BY <3>1 DEF Sequential!Aggregate
  <2>2. CASE ReadSum
    <3>1. h2 = ResidentSnapshots + k /\ k < StreamedSnapshots /\ k \in Nat
      BY <2>2, CurrentSlots
         DEF ReadSum, SumReadable, Quiet, DefaultInv, ControlInv, Loop, dD, nD
    <3>2. acc' = Append(acc, Len(acc)) /\ Len(acc) = ResidentSnapshots + k
      BY <2>2, <3>1 DEF ReadSum, AccInv, Summed
    <3> QED
      BY <3>1, <3>2 DEF Sequential!Aggregate
  <2> QED
    BY <2>1, <2>2 DEF TierNext, Host, FinishResident, FillFirst, SynchronizeFirst,
       Prefetch,
       NoPrefetch, EnqueueCopy, Launch, WaitStream, Synchronize, Device, BeginCopy,
       EndCopy, BeginAggregate, EndAggregate, PassWait, EpochOver, tierVars, data
<1> QED
  BY <1>1, <1>2, TierInvariance, PTL DEF TierSpec

-----------------------------------------------------------------------------
(* The buffer pool: fresh keys and occupancy.                               *)

\* A lemma: of some resident units, one has the largest key and, among
\* those, was inserted first.
LEMMA VictimIsMax ==
    ASSUME TypeOK, Resident # {}
    PROVE  \E v \in Resident :
               \A w \in Resident : \/ key[w] < key[v]
                                   \/ key[w] = key[v] /\ born[v] <= born[w]
<1> USE PoolAssumption DEF PoolAssumption, TypeOK, Positions
<1> DEFINE K == {Length + 1 - key[w] : w \in Resident}
<1>1. K \in SUBSET Nat /\ K # {}
  OBVIOUS
<1>2. PICK m \in K : \A n \in K : m <= n
  BY <1>1, Least
<1>3. PICK x \in Resident : m = Length + 1 - key[x]
  OBVIOUS
<1>4. \A w \in Resident : key[w] <= key[x]
  <2> TAKE w \in Resident
  <2>1. m <= Length + 1 - key[w]
    BY <1>2
  <2> QED
    BY <1>3, <2>1
<1> DEFINE B == {born[w] : w \in {v \in Resident : key[v] = key[x]}}
<1>5. B \in SUBSET Nat /\ B # {}
  <2>1. \A w \in Resident : born[w] \in Nat
    OBVIOUS
  <2>2. born[x] \in B
    OBVIOUS
  <2> QED
    BY <2>1, <2>2
<1>6. PICK b \in B : \A n \in B : b <= n
  BY <1>5, Least
<1>7. PICK v \in Resident : key[v] = key[x] /\ b = born[v]
  OBVIOUS
<1>8. ASSUME NEW w \in Resident
      PROVE  \/ key[w] < key[v]
             \/ key[w] = key[v] /\ born[v] <= born[w]
  <2>1. CASE key[w] = key[x]
    BY <1>6, <1>7, <2>1
  <2>2. CASE key[w] # key[x]
    BY <1>4, <1>7, <2>2
  <2> QED
    BY <2>1, <2>2
<1> QED
  BY <1>7, <1>8

\* A lemma: the victim is resident.
LEMMA VictimExists ==
    ASSUME TypeOK, Resident # {}
    PROVE  Victim \in Resident
BY VictimIsMax DEF Victim

\* A lemma: NextUse is the first position after j that accesses the unit of
\* position j, or Never if there is none.
LEMMA NextUseIsNext ==
    ASSUME NEW j \in Positions
    PROVE  /\ NextUse(j) \in j + 1 .. Never
           /\ NextUse(j) # Never => access[NextUse(j)] = access[j]
           /\ \A m \in j + 1 .. Length : access[m] = access[j] => NextUse(j) <= m
<1> USE PoolAssumption DEF PoolAssumption, Positions, Never
<1> DEFINE S == {m \in j + 1 .. Length : access[m] = access[j]}
<1>1. CASE S = {}
  BY <1>1 DEF NextUse
<1>2. CASE S # {}
  <2>0. S \in SUBSET Nat
    OBVIOUS
  <2>1. PICK m \in S : \A n \in S : m <= n
    BY <1>2, <2>0, Least
  <2>2. \A n \in j + 1 .. m - 1 : access[n] # access[j]
    BY <2>1
  <2> DEFINE Is(c) == /\ access[c] = access[j]
                      /\ \A n \in j + 1 .. c - 1 : access[n] # access[j]
  <2>3. /\ NextUse(j) = CHOOSE c \in j + 1 .. Length : Is(c)
        /\ \E c \in j + 1 .. Length : Is(c)
    BY <1>2, <2>1, <2>2 DEF NextUse
  <2>4. NextUse(j) \in j + 1 .. Length /\ Is(NextUse(j))
    <3> HIDE DEF Is
    <3> QED BY <2>3
  <2> QED
    BY <2>4
<1> QED
  BY <1>1, <1>2

\* A lemma: a reuse distance is a position in the sequence, at most BIG.
LEMMA ReuseEstimateType ==
    ASSUME NEW j \in Positions
    PROVE  ReuseEstimate(j) \in 1 .. Length
<1> USE PoolAssumption DEF PoolAssumption, Positions
<1> DEFINE S == {j - m : m \in {n \in 1 .. j - 1 : access[n] = access[j]}}
<1>1. CASE S = {}
  <2>1. ~ \E m \in 1 .. j - 1 : access[m] = access[j]
    BY <1>1
  <2> QED
    BY <2>1 DEF ReuseEstimate
<1>2. CASE S # {}
  <2>1. S \in SUBSET Nat
    OBVIOUS
  <2>2. PICK d \in S : \A n \in S : d <= n
    BY <1>2, <2>1, Least
  <2>3. PICK m \in 1 .. j - 1 : access[m] = access[j] /\ d = j - m
    OBVIOUS
  <2>4. ASSUME NEW n \in m + 1 .. j - 1, access[n] = access[j] PROVE FALSE
    <3>1. j - n \in S
      <4>1. n \in {p \in 1 .. j - 1 : access[p] = access[j]}
        BY <2>4
      <4> QED
        BY <4>1
    <3>2. d <= j - n
      <4> HIDE DEF S
      <4> QED BY <2>2, <3>1
    <3> QED
      BY <2>3, <2>4, <3>2
  <2> DEFINE Is(c) == /\ access[c] = access[j]
                      /\ \A n \in c + 1 .. j - 1 : access[n] # access[j]
  <2>5. /\ ReuseEstimate(j) = j - CHOOSE c \in 1 .. j - 1 : Is(c)
        /\ \E c \in 1 .. j - 1 : Is(c)
    BY <2>3, <2>4 DEF ReuseEstimate
  <2>6. (CHOOSE c \in 1 .. j - 1 : Is(c)) \in 1 .. j - 1
    <3> HIDE DEF Is
    <3> QED BY <2>5
  <2> QED
    BY <2>5, <2>6
<1> QED
  BY <1>1, <1>2

-----------------------------------------------------------------------------
\* Strengthenings that make the occupancy inductive.
CountInv ==
    /\ OccupancyFromMisses
    /\ evictions = Cardinality(missed) - Cardinality(Resident)

IInv == TypeOK /\ KeysAreFresh /\ CountInv

\* A lemma: the empty pool satisfies the inductive invariant.
LEMMA InitIInv == Init => IInv
  BY PoolAssumption, FS_EmptySet
     DEF PoolAssumption, Init, IInv, TypeOK, KeysAreFresh, CountInv,
         OccupancyFromMisses, Resident, Positions

\* A lemma: the sets that the simulation counts are finite.
LEMMA Finite ==
    ASSUME TypeOK
    PROVE  /\ IsFiniteSet(Resident) /\ Cardinality(Resident) \in Nat
           /\ IsFiniteSet(missed) /\ Cardinality(missed) \in Nat
<1>1. IsFiniteSet(Resident)
  BY PoolAssumption, FS_Subset DEF PoolAssumption, TypeOK
<1>2. IsFiniteSet(missed)
  <2>1. IsFiniteSet(1 .. i - 1)
    BY PoolAssumption, FS_Interval DEF PoolAssumption, TypeOK
  <2> QED
    BY <2>1, FS_Subset DEF TypeOK
<1> QED
  BY <1>1, <1>2, FS_CardinalityType

\* A lemma: what a hit and a miss of admit do to the resident set.
LEMMA AdmitLemma ==
    ASSUME TypeOK, NEW u \in Units, NEW new \in 1 .. Length + 1, Admit(u, new),
           i \in Positions
    PROVE  /\ u \in Resident =>
                 Resident' = Resident /\ UNCHANGED <<born, missed, evictions>>
           /\ u \notin Resident =>
                 /\ Resident' = (IF Full THEN Resident \ {Victim} ELSE Resident) \cup {u}
                 /\ missed' = missed \cup {i}
                 /\ evictions' = IF Full THEN evictions + 1 ELSE evictions
                 /\ born' \in [Resident' -> Positions]
           /\ Resident' \subseteq Resident \cup {u}
           /\ key' \in [Resident' -> 1 .. Length + 1]
           /\ u \in Resident' /\ key'[u] = new
           /\ \A w \in Resident' \ {u} : key'[w] = key[w]
<1>1. CASE u \in Resident
  BY <1>1 DEF Admit, Refresh, Resident, TypeOK
<1>2. CASE u \notin Resident
  BY <1>2 DEF Admit, Resident, TypeOK
<1> QED
  BY <1>1, <1>2

\* A lemma: an access keeps the invariant.
LEMMA AccessStep == IInv /\ Access => IInv'
<1> SUFFICES ASSUME IInv, Access PROVE IInv'
  OBVIOUS
<1> DEFINE u == access[i]
           new == KeyAt(i)
<1> USE PoolAssumption DEF PoolAssumption
<1>1. /\ i \in Positions /\ u \in Units /\ i' = i + 1 /\ access' = access
      /\ policy' = policy /\ Admit(u, new) /\ TypeOK
  BY DEF IInv, TypeOK, Access, Positions
<1>2. new \in 1 .. Length + 1
  BY <1>1, NextUseIsNext, ReuseEstimateType DEF KeyAt, Never, Positions
<1> HIDE DEF u, new
<1>3. TypeOK'
  <2>1. /\ Resident' \subseteq Units
        /\ key' \in [Resident' -> 1 .. Length + 1]
        /\ born' \in [Resident' -> Positions]
    BY <1>1, <1>2, AdmitLemma DEF TypeOK
  <2>2. missed' \subseteq 1 .. i' - 1 /\ evictions' \in Nat
    <3>1. missed' \subseteq missed \cup {i} /\ evictions' \in Nat
      BY <1>1, <1>2, AdmitLemma DEF TypeOK
    <3>2. missed \subseteq 1 .. i - 1
      BY <1>1 DEF TypeOK
    <3> QED
      BY <1>1, <3>1, <3>2 DEF Positions
  <2> QED
    BY <1>1, <2>1, <2>2 DEF TypeOK, Positions
<1>4. KeysAreFresh'
  <2> SUFFICES ASSUME policy = "belady", NEW w \in Resident'
               PROVE  /\ key'[w] >= i + 1
                      /\ key'[w] # Never => access[key'[w]] = w
                      /\ \A m \in i + 1 .. Length : access[m] = w => key'[w] <= m
    BY <1>1 DEF KeysAreFresh, Never
  <2>1. CASE w = u
    <3>1. key'[w] = NextUse(i)
      BY <1>1, <1>2, <2>1, AdmitLemma DEF new, KeyAt
    <3> QED
      BY <1>1, <2>1, <3>1, NextUseIsNext DEF u, Positions, Never
  <2>2. CASE w # u
    <3>1. w \in Resident /\ key'[w] = key[w]
      BY <1>1, <1>2, <2>2, AdmitLemma
    <3>2. /\ key[w] >= i /\ key[w] \in Nat
          /\ key[w] # Never => access[key[w]] = w
          /\ \A m \in i .. Length : access[m] = w => key[w] <= m
      BY <1>1, <3>1 DEF IInv, KeysAreFresh, TypeOK
    <3>3. key[w] # i
      BY <1>1, <2>2, <3>2 DEF u, Never, Positions
    <3> QED
      BY <1>1, <3>1, <3>2, <3>3 DEF Positions
  <2> QED
    BY <2>1, <2>2
<1>5. CountInv'
  <2>1. CASE u \in Resident
    BY <1>1, <1>2, <2>1, AdmitLemma DEF IInv, CountInv, OccupancyFromMisses
  <2>2. CASE u \notin Resident
    <3>1. /\ IsFiniteSet(Resident) /\ Cardinality(Resident) \in Nat
          /\ IsFiniteSet(missed) /\ Cardinality(missed) \in Nat
      BY <1>1, Finite
    <3>2. Cardinality(missed') = Cardinality(missed) + 1
      <4>1. missed' = missed \cup {i} /\ i \notin missed
        BY <1>1, <1>2, <2>2, AdmitLemma DEF TypeOK, Positions
      <4> QED
        BY <3>1, <4>1, FS_AddElement
    <3>3. CASE Full
      <4>1. Victim \in Resident
        BY <1>1, <3>1, <3>3, FS_EmptySet, VictimExists DEF Full
      <4>2. /\ IsFiniteSet(Resident \ {Victim})
            /\ Cardinality(Resident \ {Victim}) = Cardinality(Resident) - 1
        BY <3>1, <4>1, FS_RemoveElement
      <4>3. Resident' = (Resident \ {Victim}) \cup {u} /\ evictions' = evictions + 1
        BY <1>1, <1>2, <2>2, <3>3, AdmitLemma
      <4>4. Cardinality(Resident') = Cardinality(Resident)
        <5>1. u \notin Resident \ {Victim}
          BY <2>2
        <5>2. Cardinality(Resident') = Cardinality(Resident \ {Victim}) + 1
          BY <4>2, <4>3, <5>1, FS_AddElement
        <5> QED
          BY <3>1, <4>2, <5>2
      <4> QED
        BY <1>1, <3>1, <3>2, <3>3, <4>3, <4>4
           DEF IInv, CountInv, OccupancyFromMisses, Full, TypeOK
    <3>4. CASE ~Full
      <4>1. Resident' = Resident \cup {u} /\ evictions' = evictions
        BY <1>1, <1>2, <2>2, <3>4, AdmitLemma
      <4>2. Cardinality(Resident') = Cardinality(Resident) + 1
        BY <2>2, <3>1, <4>1, FS_AddElement
      <4> QED
        BY <1>1, <3>1, <3>2, <3>4, <4>1, <4>2
           DEF IInv, CountInv, OccupancyFromMisses, Full, TypeOK
    <3> QED
      BY <3>3, <3>4
  <2> QED
    BY <2>1, <2>2
<1> QED
  BY <1>3, <1>4, <1>5 DEF IInv

\* A lemma: a new schedule starts from an empty pool.
LEMMA ResetStep == IInv /\ Reset => IInv'
  BY PoolAssumption, FS_EmptySet
     DEF PoolAssumption, Reset, IInv, TypeOK, KeysAreFresh, CountInv,
         OccupancyFromMisses, Resident, Positions

LEMMA StutterStep == IInv /\ UNCHANGED vars => IInv'
  BY DEF vars, IInv, TypeOK, KeysAreFresh, CountInv, OccupancyFromMisses, Resident

\* A lemma: the inductive invariant holds in every reachable state.
LEMMA Invariance == Spec => []IInv
<1>1. IInv /\ [Next]_vars => IInv'
  BY StutterStep, AccessStep, ResetStep DEF Next
<1> QED
  BY InitIInv, <1>1, PTL DEF Spec

\* Every variable of the simulation keeps its range.
THEOREM TypeCorrect == Spec => []TypeOK
  BY Invariance, PTL DEF IInv

\* For every access sequence and every number of slots, the key belady
\* compares is the first access still to come: the lookahead is never stale.
THEOREM FreshKeys == Spec => []KeysAreFresh
  BY Invariance, PTL DEF IInv

\* For both policies, the occupancy is min(misses, slots) at every access,
\* so the pool never exceeds its slots.
THEOREM Occupancy == Spec => []OccupancyFromMisses
  BY Invariance, PTL DEF IInv, CountInv

-----------------------------------------------------------------------------
(* Belady against any rival.                                               *)

\* The units that the accesses from i to t will ask for.
Soon(t) == {access[m] : m \in i .. t}

\* The potential: wherever the rival holds more of the units that are needed
\* soon than belady does, it has paid for them with misses.
Ahead ==
    policy = "belady" =>
        \A t \in i - 1 .. Length :
            Cardinality(missed) + Cardinality(cache \cap Soon(t))
                <= faults + Cardinality(Resident \cap Soon(t))

RivalOK == /\ cache \subseteq Units /\ Cardinality(cache) <= Slots
           /\ faults \in Nat

PagingInv == IInv /\ RivalOK /\ Ahead

\* A lemma: one unit more or less in a set that is counted.
LEMMA CountOne ==
    ASSUME NEW X, IsFiniteSet(X), NEW N, NEW u, u \in N
    PROVE  /\ Cardinality(X \cap N) =
                  Cardinality(X \cap (N \ {u})) + (IF u \in X THEN 1 ELSE 0)
           /\ Cardinality(X \cap (N \ {u})) \in Nat
<1> DEFINE Y == X \cap (N \ {u})
<1>1. IsFiniteSet(Y) /\ u \notin Y /\ Cardinality(Y) \in Nat
  <2>1. Y \in SUBSET X
    OBVIOUS
  <2> QED
    BY <2>1, FS_Subset, FS_CardinalityType
<1>2. CASE u \in X
  <2>1. X \cap N = Y \cup {u}
    BY <1>2
  <2>2. Cardinality(X \cap N) = Cardinality(Y) + 1
    BY <1>1, <2>1, FS_AddElement
  <2> QED
    BY <1>1, <1>2, <2>2
<1>3. CASE u \notin X
  <2>1. X \cap N = Y
    BY <1>3
  <2> QED
    BY <1>1, <1>3, <2>1
<1> QED
  BY <1>2, <1>3

\* A lemma: what the rival holds after an access, apart from the unit accessed,
\* it held before.
LEMMA RivalStep ==
    ASSUME RivalOK, NEW u \in Units, Rival(u)
    PROVE  /\ RivalOK' /\ u \in cache'
           /\ cache' \ {u} \subseteq cache \ {u}
           /\ faults' = IF u \in cache THEN faults ELSE faults + 1
<1> USE PoolAssumption DEF PoolAssumption
<1>1. IsFiniteSet(cache) /\ Cardinality(cache) \in Nat
  BY FS_Subset, FS_CardinalityType DEF RivalOK
<1>2. CASE u \in cache /\ UNCHANGED <<cache, faults>>
  BY <1>2 DEF RivalOK
<1>3. CASE u \notin cache /\ Cardinality(cache) < Slots /\ cache' = cache \cup {u} /\ faults' = faults + 1
  <2>1. Cardinality(cache') = Cardinality(cache) + 1
    BY <1>1, <1>3, FS_AddElement
  <2> QED
    BY <1>1, <1>3, <2>1 DEF RivalOK
<1>4. ASSUME u \notin cache, NEW v \in cache, cache' = (cache \ {v}) \cup {u}, faults' = faults + 1
      PROVE  /\ RivalOK' /\ u \in cache'
             /\ cache' \ {u} \subseteq cache \ {u}
             /\ faults' = IF u \in cache THEN faults ELSE faults + 1
  <2>1. IsFiniteSet(cache \ {v}) /\ Cardinality(cache \ {v}) = Cardinality(cache) - 1
    BY <1>1, FS_RemoveElement
  <2>2. Cardinality(cache') = Cardinality(cache \ {v}) + 1
    BY <1>4, <2>1, FS_AddElement
  <2> QED
    BY <1>1, <1>4, <2>1, <2>2 DEF RivalOK
<1> QED
  BY <1>2, <1>3, <1>4 DEF Rival

\* A lemma: when belady evicts a unit that is needed by t, everything else it
\* holds is needed by t too, and it holds as much as there are slots.
LEMMA VictimIsLast ==
    ASSUME IInv, policy = "belady", NEW t \in i .. Length,
           Resident # {}, Victim \in Soon(t)
    PROVE  Resident \subseteq Soon(t)
<1> USE PoolAssumption DEF PoolAssumption
<1>0. TypeOK /\ i \in Nat /\ t \in Nat /\ t <= Length /\ Never = Length + 1
  BY DEF IInv, TypeOK, Never
<1>1. Victim \in Resident /\ \A w \in Resident : key[w] <= key[Victim]
  <2>1. Victim \in Resident
    BY VictimExists DEF IInv
  <2> DEFINE Is(v) == \A w \in Resident : \/ key[w] < key[v]
                                          \/ key[w] = key[v] /\ born[v] <= born[w]
  <2>2. \E v \in Resident : Is(v)
    BY VictimIsMax DEF IInv
  <2>3. Victim = CHOOSE v \in Resident : Is(v)
    BY DEF Victim
  <2>4. Is(Victim)
    <3> HIDE DEF Is
    <3> QED BY <2>2, <2>3
  <2>5. \A w \in Resident : key[w] \in Nat
    BY <1>0 DEF TypeOK
  <2> QED
    BY <2>1, <2>4, <2>5
<1>2. key[Victim] <= t
  <2>1. PICK m \in i .. t : access[m] = Victim
    BY DEF Soon
  <2>2. key[Victim] <= m
    BY <1>0, <1>1, <2>1 DEF IInv, KeysAreFresh
  <2> QED
    BY <1>0, <1>1, <2>1, <2>2 DEF TypeOK
<1> SUFFICES ASSUME NEW w \in Resident
             PROVE  w \in Soon(t)
  OBVIOUS
<1>3. key[w] \in i .. t
  BY <1>0, <1>1, <1>2 DEF IInv, KeysAreFresh, TypeOK
<1>4. access[key[w]] = w
  BY <1>0, <1>3 DEF IInv, KeysAreFresh
<1> QED
  BY <1>3, <1>4 DEF Soon

\* A lemma: an access keeps the potential.
LEMMA AheadStep ==
    ASSUME PagingInv, Access, Rival(access[i])
    PROVE  PagingInv'
<1> DEFINE u == access[i]
<1> USE PoolAssumption DEF PoolAssumption
<1>1. /\ IInv /\ TypeOK /\ i \in Positions /\ u \in Units /\ i' = i + 1 /\ access' = access
      /\ policy' = policy /\ Admit(u, KeyAt(i)) /\ KeyAt(i) \in 1 .. Length + 1
  <2>1. IInv /\ TypeOK
    BY DEF PagingInv, IInv
  <2>2. i \in Positions /\ u \in Units
    BY <2>1 DEF TypeOK, Access, Positions
  <2>3. KeyAt(i) \in 1 .. Length + 1
    BY <2>2, NextUseIsNext, ReuseEstimateType DEF KeyAt, Never, Positions
  <2> QED
    BY <2>1, <2>2, <2>3 DEF Access
<1>2. IInv'
  BY <1>1, AccessStep
<1>3. /\ RivalOK /\ RivalOK' /\ u \in cache'
      /\ cache' \ {u} \subseteq cache \ {u}
      /\ faults' = IF u \in cache THEN faults ELSE faults + 1
  BY <1>1, RivalStep DEF PagingInv
<1>4. /\ IsFiniteSet(Resident) /\ IsFiniteSet(Resident') /\ IsFiniteSet(cache)
      /\ IsFiniteSet(cache') /\ IsFiniteSet(missed) /\ IsFiniteSet(missed')
      /\ Cardinality(missed) \in Nat /\ faults \in Nat
  <2>1. TypeOK'
    BY <1>2 DEF IInv
  <2>2. IsFiniteSet(cache) /\ IsFiniteSet(cache') /\ faults \in Nat
    BY <1>3, FS_Subset DEF RivalOK
  <2>3. IsFiniteSet(missed')
    <3>1. IsFiniteSet(missed) /\ missed' \subseteq missed \cup {i}
      BY <1>1, Finite, AdmitLemma
    <3>2. IsFiniteSet(missed \cup {i})
      BY <3>1, FS_AddElement
    <3> QED
      BY <3>1, <3>2, FS_Subset
  <2>4. IsFiniteSet(Resident')
    <3>1. IsFiniteSet(Resident) /\ Resident' \subseteq Resident \cup {u}
      BY <1>1, Finite, AdmitLemma
    <3>2. IsFiniteSet(Resident \cup {u})
      BY <3>1, FS_AddElement
    <3> QED
      BY <3>1, <3>2, FS_Subset
  <2> QED
    BY <1>1, <2>2, <2>3, <2>4, Finite
<1>5. u \in Resident' /\ u \in cache'
  BY <1>1, <1>3, AdmitLemma
<1>6. SUFFICES ASSUME policy = "belady", NEW t \in i .. Length
               PROVE  Cardinality(missed') + Cardinality(cache' \cap Soon(t)')
                          <= faults' + Cardinality(Resident' \cap Soon(t)')
  BY <1>1, <1>2, <1>3 DEF PagingInv, Ahead, Positions
<1> DEFINE S  == Soon(t) \ {u}
           r  == Cardinality(cache \cap S)   b  == Cardinality(Resident \cap S)
           r2 == Cardinality(cache' \cap S)  b2 == Cardinality(Resident' \cap S)
           one == IF u \in Soon(t)' THEN 1 ELSE 0
<1>7. u \in Soon(t) /\ Soon(t)' \ {u} = S
  <2>1. i \in Nat /\ t \in Nat /\ i \in i .. t
    BY <1>1, <1>6 DEF Positions
  <2>2. \A m : m \in i .. t <=> m = i \/ m \in i + 1 .. t
    BY <2>1
  <2> QED
    BY <1>1, <2>1, <2>2 DEF Soon
<1>8. /\ Cardinality(cache \cap Soon(t)) = r + (IF u \in cache THEN 1 ELSE 0)
      /\ Cardinality(Resident \cap Soon(t)) = b + (IF u \in Resident THEN 1 ELSE 0)
      /\ r \in Nat /\ b \in Nat
  <2>1. ASSUME NEW X, IsFiniteSet(X)
        PROVE  /\ Cardinality(X \cap Soon(t)) = Cardinality(X \cap S) + (IF u \in X THEN 1 ELSE 0)
               /\ Cardinality(X \cap S) \in Nat
    BY <1>7, <2>1, CountOne
  <2> QED
    BY <1>4, <2>1
<1>9. /\ Cardinality(cache' \cap Soon(t)') = r2 + one
      /\ Cardinality(Resident' \cap Soon(t)') = b2 + one
      /\ r2 \in Nat /\ b2 \in Nat
  <2>1. ASSUME NEW X, IsFiniteSet(X), u \in X
        PROVE  Cardinality(X \cap Soon(t)') = Cardinality(X \cap S) + one /\ Cardinality(X \cap S) \in Nat
    <3>1. CASE u \in Soon(t)'
      BY <1>7, <2>1, <3>1, CountOne
    <3>2. CASE u \notin Soon(t)'
      <4>1. X \cap Soon(t)' = X \cap S
        BY <1>7, <3>2
      <4>2. IsFiniteSet(X \cap S)
        <5>1. X \cap S \in SUBSET X
          OBVIOUS
        <5> QED
          BY <2>1, <5>1, FS_Subset
      <4>3. Cardinality(X \cap S) \in Nat /\ one = 0
        BY <3>2, <4>2, FS_CardinalityType
      <4> HIDE DEF S, one
      <4> QED
        BY <4>1, <4>3
    <3> QED
      BY <3>1, <3>2
  <2> QED
    BY <1>4, <1>5, <2>1
<1>10. r2 <= r /\ r2 <= Slots - 1
  <2>1. cache' \cap S \in SUBSET (cache \cap S)
    BY <1>3
  <2>2. IsFiniteSet(cache \cap S)
    <3>1. cache \cap S \in SUBSET cache
      OBVIOUS
    <3> QED
      BY <1>4, <3>1, FS_Subset
  <2>3. r2 <= r
    BY <2>1, <2>2, FS_Subset
  <2>4. cache' \cap S \in SUBSET (cache' \ {u})
    OBVIOUS
  <2>5. IsFiniteSet(cache' \ {u}) /\ Cardinality(cache' \ {u}) = Cardinality(cache') - 1
    BY <1>4, <1>5, FS_RemoveElement
  <2>6. r2 <= Cardinality(cache' \ {u})
    BY <2>4, <2>5, FS_Subset
  <2>7. Cardinality(cache') <= Slots /\ Cardinality(cache') \in Nat
    BY <1>3, <1>4, FS_CardinalityType DEF RivalOK
  <2> QED
    BY <1>9, <2>3, <2>5, <2>6, <2>7
<1>11. Cardinality(missed) + r + (IF u \in cache THEN 1 ELSE 0)
           <= faults + b + (IF u \in Resident THEN 1 ELSE 0)
  <2>1. t \in i - 1 .. Length
    BY <1>1, <1>6 DEF Positions
  <2>2. Cardinality(missed) + Cardinality(cache \cap Soon(t))
            <= faults + Cardinality(Resident \cap Soon(t))
    BY <1>6, <2>1 DEF PagingInv, Ahead
  <2> QED
    BY <1>4, <1>8, <2>2
\* Up to the current access the rival is not ahead of belady.
<1>12. Cardinality(missed) + (IF u \in cache THEN 1 ELSE 0)
           <= faults + (IF u \in Resident THEN 1 ELSE 0)
  <2>1. i \in i - 1 .. Length /\ i \in i .. Length
    BY <1>1 DEF Positions
  <2>2. Soon(i) = {u}
    BY <1>1 DEF Soon, Positions
  <2>3. Cardinality(missed) + Cardinality(cache \cap {u})
            <= faults + Cardinality(Resident \cap {u})
    BY <1>6, <2>1, <2>2 DEF PagingInv, Ahead
  <2>4. ASSUME NEW X
        PROVE  Cardinality(X \cap {u}) = IF u \in X THEN 1 ELSE 0
    <3>1. CASE u \in X
      <4>1. X \cap {u} = {u}
        BY <3>1
      <4> QED
        BY <3>1, <4>1, FS_Singleton
    <3>2. CASE u \notin X
      <4>1. X \cap {u} = {}
        BY <3>2
      <4> QED
        BY <3>2, <4>1, FS_EmptySet
    <3> QED
      BY <3>1, <3>2
  <2> QED
    BY <2>3, <2>4
<1>13. Cardinality(missed') + r2 <= faults' + b2
  <2>1. CASE u \in Resident
    <3>1. Resident' = Resident /\ missed' = missed
      BY <1>1, <2>1, AdmitLemma
    <3>2. b2 = b
      BY <3>1
    <3> HIDE DEF r, r2, b, b2, S, u
    <3> QED
      BY <1>3, <1>4, <1>8, <1>9, <1>10, <1>11, <2>1, <3>1, <3>2
  <2>2. CASE u \notin Resident
    <3>1. /\ Resident' = (IF Full THEN Resident \ {Victim} ELSE Resident) \cup {u}
          /\ missed' = missed \cup {i} /\ i \notin missed
      BY <1>1, <2>2, AdmitLemma DEF TypeOK
    <3>2. Cardinality(missed') = Cardinality(missed) + 1
      BY <1>4, <3>1, FS_AddElement
    <3>3. CASE b2 = b
      <4> HIDE DEF r, r2, b, b2, S, u
      <4> QED
        BY <1>3, <1>4, <1>8, <1>9, <1>10, <1>11, <2>2, <3>2, <3>3
    <3>4. CASE b2 # b
      <4>1. Full /\ Victim \in S
        <5>1. SUFFICES ASSUME ~Full \/ Victim \notin S
                       PROVE  Resident' \cap S = Resident \cap S
          BY <3>4
        <5> QED
          BY <3>1, <5>1
      <4>2. Resident # {}
        BY <4>1, FS_EmptySet DEF Full
      <4>3. Resident \subseteq Soon(t)
        BY <1>1, <1>6, <4>1, <4>2, VictimIsLast
      <4>4. Resident' \cap S = Resident \ {Victim}
        BY <2>2, <3>1, <4>1, <4>3
      <4>5. b2 = Cardinality(Resident) - 1 /\ Cardinality(Resident) \in Nat
        <5>1. Victim \in Resident
          BY <1>1, <4>2, VictimExists
        <5> QED
          BY <1>4, <4>4, <5>1, FS_RemoveElement, FS_CardinalityType
      <4>6. Cardinality(Resident) >= Slots
        BY <4>1 DEF Full
      <4> HIDE DEF r, r2, b, b2, S, u
      <4> QED
        BY <1>3, <1>4, <1>9, <1>10, <1>12, <2>2, <3>2, <4>5, <4>6
    <3> QED
      BY <3>3, <3>4
  <2> QED
    BY <2>1, <2>2
<1>14. Cardinality(missed') \in Nat /\ faults' \in Nat /\ one \in Nat
  BY <1>3, <1>4, FS_CardinalityType
<1> HIDE DEF r, r2, b, b2, S, u, one
<1> QED
  BY <1>9, <1>13, <1>14

\* A lemma: the potential before the first access.
LEMMA AheadAtStart ==
    ASSUME policy = "belady" => missed = {} /\ cache = {} /\ faults = 0,
           i = 1, IsFiniteSet(Resident)
    PROVE  Ahead
<1> SUFFICES ASSUME policy = "belady", NEW t \in 0 .. Length
             PROVE  Cardinality(missed) + Cardinality(cache \cap Soon(t))
                        <= faults + Cardinality(Resident \cap Soon(t))
  BY DEF Ahead
<1>1. Cardinality(missed) = 0 /\ Cardinality(cache \cap Soon(t)) = 0 /\ faults = 0
  <2>1. cache \cap Soon(t) = {}
    OBVIOUS
  <2> QED
    BY <2>1, FS_EmptySet
<1>2. Cardinality(Resident \cap Soon(t)) \in Nat
  <2>1. Resident \cap Soon(t) \in SUBSET Resident
    OBVIOUS
  <2> QED
    BY <2>1, FS_Subset, FS_CardinalityType
<1> QED
  BY <1>1, <1>2

LEMMA PagingStart == PagingInit => PagingInv
<1> SUFFICES ASSUME PagingInit PROVE PagingInv
  OBVIOUS
<1>1. IInv /\ i = 1 /\ missed = {} /\ cache = {} /\ faults = 0
  BY InitIInv DEF PagingInit, KernelInit, Init
<1>2. RivalOK
  BY <1>1, FS_EmptySet, PoolAssumption DEF RivalOK, PoolAssumption
<1>3. IsFiniteSet(Resident)
  BY <1>1, Finite DEF IInv
<1> QED
  BY <1>1, <1>2, <1>3, AheadAtStart DEF PagingInv

LEMMA PagingStep == PagingInv /\ [PagingNext]_pagingVars => PagingInv'
<1> SUFFICES ASSUME PagingInv, [PagingNext]_pagingVars PROVE PagingInv'
  OBVIOUS
<1>1. CASE PagingAccess
  BY <1>1, AheadStep DEF PagingAccess, KernelAccess
<1>2. CASE PagingReset
  <2>1. IInv' /\ i' = 1 /\ missed' = {} /\ cache' = {} /\ faults' = 0
    BY <1>2, ResetStep DEF PagingReset, KernelReset, Reset, PagingInv
  <2>2. RivalOK'
    BY <2>1, FS_EmptySet, PoolAssumption DEF RivalOK, PoolAssumption
  <2>3. Resident' = {}
    BY <1>2 DEF PagingReset, KernelReset, Reset, Resident
  <2>4. Ahead'
    <3>1. SUFFICES ASSUME NEW t \in 0 .. Length
                   PROVE  Cardinality(missed') + Cardinality(cache' \cap Soon(t)')
                              <= faults' + Cardinality(Resident' \cap Soon(t)')
      BY <2>1 DEF Ahead
    <3>2. cache' \cap Soon(t)' = {} /\ Resident' \cap Soon(t)' = {}
      BY <2>1, <2>3
    <3> QED
      BY <2>1, <3>2, FS_EmptySet
  <2> QED
    BY <2>1, <2>2, <2>4 DEF PagingInv
<1>3. CASE UNCHANGED pagingVars
  <2>1. UNCHANGED vars /\ UNCHANGED <<cache, faults>>
    BY <1>3 DEF pagingVars, allVars
  <2>2. IInv'
    BY <2>1, StutterStep DEF PagingInv
  <2> QED
    BY <2>1, <2>2 DEF vars, PagingInv, RivalOK, Ahead, Soon, Resident
<1> QED
  BY <1>1, <1>2, <1>3 DEF PagingNext

\* For every schedule, every number of slots and every demand-paging policy,
\* those that know the schedule included: on no prefix does the policy miss
\* less than belady.
THEOREM BeladyBeatsAnyRival == PagingSpec => []BeladyIsOptimal
<1>1. PagingInv => BeladyIsOptimal
  <2> SUFFICES ASSUME PagingInv, policy = "belady"
               PROVE  Cardinality(missed) <= faults
    BY DEF BeladyIsOptimal
  <2>1. i \in Nat /\ i - 1 \in i - 1 .. Length /\ TypeOK
    BY PoolAssumption DEF PagingInv, IInv, TypeOK, PoolAssumption
  <2>2. Soon(i - 1) = {}
    BY <2>1 DEF Soon
  <2>3. Cardinality(missed) + Cardinality(cache \cap {}) <= faults + Cardinality(Resident \cap {})
    BY <2>1, <2>2 DEF PagingInv, Ahead
  <2>4. Cardinality(missed) \in Nat /\ faults \in Nat
    BY <2>1, Finite DEF PagingInv, RivalOK
  <2>5. cache \cap {} = {} /\ Resident \cap {} = {} /\ Cardinality({}) = 0
    BY FS_EmptySet
  <2> QED
    BY <2>3, <2>4, <2>5
<1> QED
  BY <1>1, PagingStart, PagingStep, PTL DEF PagingSpec

-----------------------------------------------------------------------------
(* The kernel's arrays against the Python dictionary.                      *)

\* The arrays units and keys list the set C in insertion order, and index is
\* the map from a unit to its place in them.
Mirrors(units, keys, index, C, ky, bn) ==
    /\ units \in Seq(Units) /\ keys \in Seq(Nat) /\ Len(keys) = Len(units)
    /\ C \subseteq Units /\ DOMAIN index = C
    /\ \A u \in C : /\ index[u] \in 1 .. Len(units) /\ units[index[u]] = u
                    /\ keys[index[u]] = ky[u]
    /\ \A p \in 1 .. Len(units) : units[p] \in C /\ index[units[p]] = p
    /\ \A p \in 1 .. Len(units), q \in 1 .. Len(units) :
           p < q => bn[units[p]] < bn[units[q]]

KernelInv ==
    /\ IInv
    /\ Mirrors(resUnit, resKey, where, Resident, key, born)
    /\ \A u \in Resident : born[u] < i
    /\ isMiss = missed

\* A lemma: the arrays are as long as the set is large.
LEMMA MirrorLength ==
    ASSUME NEW units, NEW keys, NEW index, NEW C, NEW ky, NEW bn,
           Mirrors(units, keys, index, C, ky, bn)
    PROVE  Len(units) = Cardinality(C)
<1>1. Len(units) \in Nat /\ IsFiniteSet(C)
  BY PoolAssumption, FS_Subset DEF Mirrors, PoolAssumption
<1> DEFINE f == [u \in C |-> index[u]]
<1>2. f \in Bijection(C, 1 .. Len(units))
  <2>1. f \in [C -> 1 .. Len(units)]
    BY DEF Mirrors
  <2>2. \A u, v \in C : f[u] = f[v] => u = v
    BY DEF Mirrors
  <2>3. \A p \in 1 .. Len(units) : \E u \in C : f[u] = p
    BY DEF Mirrors
  <2> HIDE DEF f
  <2> QED
    BY <2>1, <2>2, <2>3 DEF Bijection, Injection, Surjection, IsInjective
<1>3. IsFiniteSet(1 .. Len(units)) /\ Cardinality(1 .. Len(units)) = Len(units)
  BY <1>1, FS_Interval
<1> HIDE DEF f
<1>4. ExistsBijection(C, 1 .. Len(units))
  BY <1>2 DEF ExistsBijection
<1> QED
  BY <1>1, <1>3, <1>4, FS_Bijection

\* A lemma: what RemoveAt returns.
LEMMA RemoveAtIs ==
    ASSUME NEW T, NEW z \in Seq(T), NEW p \in 1 .. Len(z)
    PROVE  /\ RemoveAt(z, p) \in Seq(T)
           /\ Len(RemoveAt(z, p)) = Len(z) - 1
           /\ \A q \in 1 .. Len(z) - 1 :
                  RemoveAt(z, p)[q] = IF q < p THEN z[q] ELSE z[q + 1]
<1> DEFINE a == SubSeq(z, 1, p - 1)
           b == SubSeq(z, p + 1, Len(z))
<1>0. Len(z) \in Nat /\ p \in Nat
  OBVIOUS
<1>1. a \in Seq(T) /\ Len(a) = p - 1 /\ \A q \in 1 .. p - 1 : a[q] = z[q]
  BY <1>0
<1>2. b \in Seq(T) /\ Len(b) = Len(z) - p /\ \A q \in 1 .. Len(z) - p : b[q] = z[p + q]
  BY <1>0
<1>3. RemoveAt(z, p) = a \o b
  BY DEF RemoveAt
<1> HIDE DEF a, b
<1>4. a \o b \in Seq(T) /\ Len(a \o b) = Len(z) - 1
  <2>1. a \o b \in Seq(T) /\ Len(a \o b) = Len(a) + Len(b)
    BY <1>1, <1>2, ConcatProperties
  <2> QED
    BY <1>0, <1>1, <1>2, <2>1
<1>5. ASSUME NEW q \in 1 .. Len(z) - 1
      PROVE  (a \o b)[q] = IF q < p THEN z[q] ELSE z[q + 1]
  <2>1. CASE q < p
    BY <1>0, <1>1, <1>2, <2>1
  <2>2. CASE ~(q < p)
    <3>1. q - (p - 1) \in 1 .. Len(z) - p /\ p + (q - (p - 1)) = q + 1
      BY <1>0, <2>2
    <3>2. (a \o b)[q] = b[q - (p - 1)]
      BY <1>0, <1>1, <1>2, <2>2
    <3>3. b[q - (p - 1)] = z[p + (q - (p - 1))]
      BY <1>2, <3>1
    <3> QED
      BY <2>2, <3>1, <3>2, <3>3
  <2> QED
    BY <2>1, <2>2
<1> QED
  BY <1>3, <1>4, <1>5

\* A lemma: the scan over the keys finds the unit that max() finds in the
\* dictionary, ties included: array order is insertion order.
LEMMA BestIsVictim ==
    ASSUME KernelInv, Resident # {}
    PROVE  Best \in 1 .. Len(resUnit) /\ resUnit[Best] = Victim
<1> DEFINE IsV(v) == \A w \in Resident : \/ key[w] < key[v]
                                         \/ key[w] = key[v] /\ born[v] <= born[w]
           IsB(p) == /\ \A q \in DOMAIN resKey : resKey[q] <= resKey[p]
                     /\ \A q \in 1 .. p - 1 : resKey[q] < resKey[p]
           v == Victim
           p0 == where[v]
<1>1. TypeOK /\ Mirrors(resUnit, resKey, where, Resident, key, born)
  BY DEF KernelInv, IInv
<1>2. v \in Resident /\ IsV(v)
  <2>1. \E x \in Resident : IsV(x)
    BY <1>1, VictimIsMax
  <2>2. v = CHOOSE x \in Resident : IsV(x)
    BY DEF Victim
  <2> HIDE DEF IsV, v
  <2> QED
    BY <2>1, <2>2
<1> HIDE DEF v
<1>3. /\ DOMAIN resKey = 1 .. Len(resUnit) /\ Len(resUnit) \in Nat
      /\ p0 \in 1 .. Len(resUnit) /\ resUnit[p0] = v
      /\ \A q \in 1 .. Len(resUnit) : /\ resUnit[q] \in Resident /\ where[resUnit[q]] = q
                                      /\ resKey[q] = key[resUnit[q]] /\ resKey[q] \in Nat
  BY <1>1, <1>2, SMTT(60) DEF Mirrors
<1>4. \A w \in Resident : key[w] \in Nat /\ born[w] \in Nat
  BY <1>1, PoolAssumption DEF TypeOK, Positions, PoolAssumption
<1>5. IsB(p0)
  <2>1. ASSUME NEW q \in 1 .. Len(resUnit) PROVE resKey[q] <= resKey[p0]
    BY <1>2, <1>3, <1>4
  <2>2. ASSUME NEW q \in 1 .. p0 - 1 PROVE resKey[q] < resKey[p0]
    <3>1. q \in 1 .. Len(resUnit) /\ q < p0
      BY <1>3
    <3>2. born[resUnit[q]] < born[v]
      BY <1>1, <1>3, <3>1 DEF Mirrors
    <3> QED
      BY <1>2, <1>3, <1>4, <3>1, <3>2
  <2> QED
    BY <1>3, <2>1, <2>2
<1>6. ASSUME NEW p \in 1 .. Len(resUnit), IsB(p) PROVE p = p0
  <2>1. CASE p < p0
    <3>1. resKey[p] < resKey[p0] /\ resKey[p0] <= resKey[p]
      BY <1>3, <1>5, <1>6, <2>1
    <3> QED
      BY <1>3, <3>1
  <2>2. CASE p0 < p
    <3>1. resKey[p0] < resKey[p] /\ resKey[p] <= resKey[p0]
      BY <1>3, <1>5, <1>6, <2>2
    <3> QED
      BY <1>3, <3>1
  <2> QED
    BY <1>3, <2>1, <2>2
<1>7. Best = CHOOSE p \in DOMAIN resKey : IsB(p)
  BY DEF Best
<1> HIDE DEF IsB
<1>8. Best = p0
  BY <1>3, <1>5, <1>6, <1>7
<1> QED
  BY <1>3, <1>8 DEF v

\* A lemma: the eviction keeps arrays and map in step; the map is repaired
\* for every unit behind the one that left.
LEMMA EvictMirrors ==
    ASSUME KernelInv, NEW p \in 1 .. Len(resUnit)
    PROVE  Mirrors(RemoveAt(resUnit, p), RemoveAt(resKey, p),
                   Repaired(RemoveAt(resUnit, p), p),
                   Resident \ {resUnit[p]}, key, born)
<1> DEFINE units == RemoveAt(resUnit, p)
           keys  == RemoveAt(resKey, p)
           C     == Resident \ {resUnit[p]}
           n     == Len(resUnit)
           index == Repaired(units, p)
<1>1. Mirrors(resUnit, resKey, where, Resident, key, born)
  BY DEF KernelInv
<1>2. /\ resUnit \in Seq(Units) /\ resKey \in Seq(Nat) /\ Len(resKey) = n /\ n \in Nat
      /\ p \in 1 .. n /\ Resident \subseteq Units /\ DOMAIN where = Resident
      /\ \A u \in Resident : /\ where[u] \in 1 .. n /\ resUnit[where[u]] = u
                             /\ resKey[where[u]] = key[u]
      /\ \A q \in 1 .. n : resUnit[q] \in Resident /\ where[resUnit[q]] = q
      /\ \A q \in 1 .. n, r \in 1 .. n : q < r => born[resUnit[q]] < born[resUnit[r]]
  BY <1>1 DEF Mirrors
<1>3. /\ units \in Seq(Units) /\ Len(units) = n - 1
      /\ \A q \in 1 .. n - 1 : units[q] = IF q < p THEN resUnit[q] ELSE resUnit[q + 1]
  <2>1. resUnit \in Seq(Units) /\ p \in 1 .. Len(resUnit)
    BY <1>2
  <2> QED
    BY ONLY <2>1, RemoveAtIs
<1>4. /\ keys \in Seq(Nat) /\ Len(keys) = n - 1
      /\ \A q \in 1 .. n - 1 : keys[q] = IF q < p THEN resKey[q] ELSE resKey[q + 1]
  <2>1. resKey \in Seq(Nat) /\ p \in 1 .. Len(resKey) /\ Len(resKey) = n
    BY <1>2
  <2> QED
    BY ONLY <2>1, RemoveAtIs
<1> HIDE DEF units, keys
<1>5. ASSUME NEW u \in C
      PROVE  /\ index[u] = IF where[u] > p THEN where[u] - 1 ELSE where[u]
             /\ where[u] \in 1 .. n /\ where[u] # p
  <2>1. where[u] \in 1 .. n /\ where[u] # p /\ u \in Resident /\ resUnit[where[u]] = u
    BY <1>2
  <2>2. index[u] = IF where[u] > p THEN CHOOSE q \in p .. Len(units) : units[q] = u
                                   ELSE where[u]
    BY <1>2 DEF Repaired
  <2>3. ASSUME where[u] > p
        PROVE  (CHOOSE q \in p .. Len(units) : units[q] = u) = where[u] - 1
    <3>1. where[u] - 1 \in p .. n - 1 /\ units[where[u] - 1] = u
      BY <1>2, <1>3, <2>1, <2>3
    <3>2. ASSUME NEW q \in p .. n - 1, units[q] = u PROVE q = where[u] - 1
      <4>1. q \in 1 .. n - 1 /\ ~(q < p) /\ q + 1 \in 1 .. n
        BY <1>2
      <4>2. units[q] = resUnit[q + 1]
        BY <1>3, <4>1
      <4>3. where[resUnit[q + 1]] = q + 1
        BY <1>2, <4>1
      <4> QED
        BY <2>1, <3>2, <4>1, <4>2, <4>3
    <3> QED
      BY <1>3, <3>1, <3>2
  <2> QED
    BY <2>1, <2>2, <2>3
<1>6. DOMAIN index = C /\ C \subseteq Units
  BY <1>2 DEF Repaired
<1> HIDE DEF index
<1>7. ASSUME NEW u \in C
      PROVE  /\ index[u] \in 1 .. n - 1 /\ units[index[u]] = u
             /\ keys[index[u]] = key[u]
  <2>1. where[u] \in 1 .. n /\ where[u] # p /\ resUnit[where[u]] = u /\ resKey[where[u]] = key[u]
    BY <1>2, <1>5
  <2>2. CASE where[u] > p
    <3>1. index[u] = where[u] - 1 /\ index[u] \in 1 .. n - 1 /\ ~(index[u] < p) /\ index[u] + 1 = where[u]
      BY <1>2, <1>5, <2>1, <2>2
    <3> QED
      BY <1>3, <1>4, <2>1, <3>1
  <2>3. CASE ~(where[u] > p)
    <3>1. index[u] = where[u] /\ index[u] \in 1 .. n - 1 /\ index[u] < p
      BY <1>2, <1>5, <2>1, <2>3
    <3> QED
      BY <1>3, <1>4, <2>1, <3>1
  <2> QED
    BY <2>2, <2>3
<1>8. ASSUME NEW q \in 1 .. n - 1
      PROVE  units[q] \in C /\ index[units[q]] = q
  <2> DEFINE r == IF q < p THEN q ELSE q + 1
  <2>1. r \in 1 .. n /\ r # p /\ units[q] = resUnit[r] /\ where[resUnit[r]] = r
    BY <1>2, <1>3
  <2>2. resUnit[r] \in C
    BY <1>2, <2>1
  <2>3. index[resUnit[r]] = IF r > p THEN r - 1 ELSE r
    BY <1>5, <2>1, <2>2
  <2> QED
    BY <1>2, <2>1, <2>2, <2>3
<1>9. ASSUME NEW q \in 1 .. n - 1, NEW r \in 1 .. n - 1, q < r
      PROVE  born[units[q]] < born[units[r]]
  <2> DEFINE q1 == IF q < p THEN q ELSE q + 1
             r1 == IF r < p THEN r ELSE r + 1
  <2>0. n \in Nat /\ p \in 1 .. n
    BY <1>2
  <2>1. q1 \in 1 .. n /\ r1 \in 1 .. n /\ q1 < r1
    BY <2>0, <1>9
  <2>2. units[q] = resUnit[q1]
    BY <1>3
  <2>3. units[r] = resUnit[r1]
    BY <1>3
  <2> HIDE DEF q1, r1
  <2> QED
    BY <1>2, <2>1, <2>2, <2>3
<1>10. Mirrors(units, keys, index, C, key, born)
  BY <1>3, <1>4, <1>6, <1>7, <1>8, <1>9 DEF Mirrors
<1> QED
  BY <1>10 DEF units, keys, index

\* The unit u, new to the set C, was inserted after all of C; ky2 and bn2
\* have its key and its time, and those of C as they were.
Arrives(u, C, ky, bn, ky2, bn2) ==
    /\ \A w \in C : ky2[w] = ky[w] /\ bn2[w] = bn[w]
    /\ u \in Units \ C /\ ky2[u] \in Nat
    /\ \A w \in C : bn[w] < bn2[u]

\* A lemma: so does the insertion at the end.
LEMMA AppendMirrors ==
    ASSUME NEW units, NEW keys, NEW index, NEW C, NEW ky, NEW bn,
           NEW u, NEW ky2, NEW bn2,
           Mirrors(units, keys, index, C, ky, bn), Arrives(u, C, ky, bn, ky2, bn2)
    PROVE  Mirrors(Append(units, u), Append(keys, ky2[u]),
                   [w \in C \cup {u} |-> IF w = u THEN Len(units) + 1 ELSE index[w]],
                   C \cup {u}, ky2, bn2)
<1> DEFINE n == Len(units)
           U == Append(units, u)
           new == ky2[u]
           K == Append(keys, new)
           X == [w \in C \cup {u} |-> IF w = u THEN n + 1 ELSE index[w]]
<1>1. /\ units \in Seq(Units) /\ keys \in Seq(Nat) /\ Len(keys) = n /\ n \in Nat
      /\ C \subseteq Units
      /\ \A w \in C : index[w] \in 1 .. n /\ units[index[w]] = w /\ keys[index[w]] = ky[w]
      /\ \A p \in 1 .. n : units[p] \in C /\ index[units[p]] = p
      /\ \A p \in 1 .. n, q \in 1 .. n : p < q => bn[units[p]] < bn[units[q]]
  BY DEF Mirrors
<1>0. /\ u \in Units \ C /\ ky2[u] \in Nat
      /\ \A w \in C : ky2[w] = ky[w] /\ bn2[w] = bn[w] /\ bn[w] < bn2[u]
  BY DEF Arrives
<1>2. /\ U \in Seq(Units) /\ Len(U) = n + 1 /\ U[n + 1] = u
      /\ \A p \in 1 .. n : U[p] = units[p]
  BY <1>0, <1>1
<1>3. /\ K \in Seq(Nat) /\ Len(K) = n + 1 /\ K[n + 1] = new
      /\ \A p \in 1 .. n : K[p] = keys[p]
  BY <1>0, <1>1
<1>4. X[u] = n + 1 /\ (\A w \in C : X[w] = index[w]) /\ DOMAIN X = C \cup {u}
  BY <1>0
<1> HIDE DEF U, K, X
<1>5. ASSUME NEW w \in C \cup {u}
      PROVE  X[w] \in 1 .. n + 1 /\ U[X[w]] = w /\ K[X[w]] = ky2[w]
  <2>1. CASE w = u
    BY <1>0, <1>1, <1>2, <1>3, <1>4, <2>1
  <2>2. CASE w \in C
    <3>1. /\ X[w] = index[w] /\ index[w] \in 1 .. n /\ units[index[w]] = w
          /\ keys[index[w]] = ky[w] /\ ky2[w] = ky[w]
      BY <1>0, <1>1, <1>4, <2>2
    <3>2. U[index[w]] = units[index[w]] /\ K[index[w]] = keys[index[w]]
      BY <1>2, <1>3, <3>1
    <3> QED
      BY <1>1, <3>1, <3>2
  <2> QED
    BY <2>1, <2>2
<1>6. ASSUME NEW p \in 1 .. n + 1 PROVE U[p] \in C \cup {u} /\ X[U[p]] = p
  <2>1. CASE p = n + 1
    BY <1>0, <1>2, <1>4, <2>1
  <2>2. CASE p \in 1 .. n
    BY <1>0, <1>1, <1>2, <1>4, <2>2
  <2> QED
    BY <1>1, <2>1, <2>2
<1>7. ASSUME NEW p \in 1 .. n + 1, NEW q \in 1 .. n + 1, p < q
      PROVE  bn2[U[p]] < bn2[U[q]]
  <2>1. p \in 1 .. n
    BY <1>1, <1>7
  <2>2. U[p] \in C /\ bn2[U[p]] = bn[U[p]] /\ U[p] = units[p]
    BY <1>0, <1>1, <1>2, <2>1
  <2>3. CASE q = n + 1
    BY <1>0, <1>2, <2>2, <2>3
  <2>4. CASE q \in 1 .. n
    BY <1>0, <1>1, <1>2, <1>7, <2>1, <2>2, <2>4
  <2> QED
    BY <1>1, <2>3, <2>4
<1> QED
  BY <1>0, <1>1, <1>2, <1>3, <1>4, <1>5, <1>6, <1>7 DEF Mirrors, U, K, X

\* A lemma: the kernel's map has the units that the dictionary has, and its
\* arrays are full exactly when the pool is.
LEMMA KernelAgrees ==
    ASSUME KernelInv
    PROVE  DOMAIN where = Resident /\ (Len(resUnit) >= Slots <=> Full)
<1>1. Mirrors(resUnit, resKey, where, Resident, key, born)
  BY DEF KernelInv
<1>2. Len(resUnit) = Cardinality(Resident)
  BY <1>1, MirrorLength
<1> QED
  BY <1>1, <1>2 DEF Mirrors, Full

\* A lemma: an access of the kernel does what the Python loop does.
LEMMA KernelAccessStep == KernelInv /\ KernelAccess => KernelInv'
<1> SUFFICES ASSUME KernelInv, KernelAccess PROVE KernelInv'
  OBVIOUS
<1> DEFINE u == access[i]
           new == KeyAt(i)
<1>1. /\ IInv /\ TypeOK /\ i \in Positions /\ u \in Units /\ i' = i + 1
      /\ Admit(u, new) /\ new \in 1 .. Length + 1 /\ new \in Nat
  <2>1. IInv /\ TypeOK /\ Access
    BY DEF KernelInv, IInv, KernelAccess
  <2>2. i \in Positions /\ u \in Units
    BY <2>1, PoolAssumption DEF TypeOK, Access, Positions, PoolAssumption
  <2>3. new \in 1 .. Length + 1
    BY <2>2, NextUseIsNext, ReuseEstimateType, PoolAssumption
       DEF KeyAt, Never, Positions, PoolAssumption
  <2> QED
    BY <2>1, <2>2, <2>3 DEF Access
<1>2. IInv'
  BY <1>1, AccessStep DEF KernelAccess
<1>3. Mirrors(resUnit, resKey, where, Resident, key, born) /\ i \in Nat
  BY <1>1 DEF KernelInv, Positions
<1> HIDE DEF u, new
<1>4. CASE u \in Resident
  <2>1. KernelHit(u, new)
    BY <1>4, KernelAgrees DEF KernelAccess, u, new
  <2>2. /\ resUnit' = resUnit /\ where' = where /\ isMiss' = isMiss
        /\ resKey' = [resKey EXCEPT ![where[u]] = new]
    BY <2>1 DEF KernelHit
  <2>3. /\ key' = [key EXCEPT ![u] = new] /\ born' = born /\ missed' = missed
    BY <1>1, <1>4 DEF Admit, Refresh
  <2>4. Resident' = Resident
    BY <2>3 DEF Resident
  <2>5. Mirrors(resUnit', resKey', where', Resident', key', born')
    <3>1. /\ resUnit \in Seq(Units) /\ resKey \in Seq(Nat) /\ Len(resKey) = Len(resUnit)
          /\ Len(resUnit) \in Nat /\ where[u] \in 1 .. Len(resUnit) /\ resUnit[where[u]] = u
          /\ \A w \in Resident : /\ where[w] \in 1 .. Len(resUnit) /\ resUnit[where[w]] = w
                                 /\ resKey[where[w]] = key[w]
      BY <1>3, <1>4 DEF Mirrors
    <3>2. /\ resKey' \in Seq(Nat) /\ Len(resKey') = Len(resUnit) /\ resKey'[where[u]] = new
          /\ \A p \in 1 .. Len(resUnit) : p # where[u] => resKey'[p] = resKey[p]
      BY <1>1, <2>2, <3>1
    <3>3. key'[u] = new /\ \A w \in Resident \ {u} : key'[w] = key[w]
      BY <1>4, <2>3 DEF Resident
    <3>4. \A w \in Resident : w # u => where[w] # where[u]
      BY <3>1
    <3>5. ASSUME NEW w \in Resident PROVE resKey'[where[w]] = key'[w]
      BY <3>1, <3>2, <3>3, <3>4
    <3> QED
      BY <1>3, <2>2, <2>3, <2>4, <3>2, <3>5 DEF Mirrors
  <2>6. \A w \in Resident' : born'[w] < i'
    <3>1. \A w \in Resident : born[w] \in Nat /\ born[w] < i
      BY <1>1, PoolAssumption DEF KernelInv, TypeOK, Positions, PoolAssumption
    <3> QED
      BY <1>1, <1>3, <2>3, <2>4, <3>1
  <2> QED
    BY <1>2, <2>2, <2>3, <2>5, <2>6 DEF KernelInv
<1>5. CASE u \notin Resident
  <2> DEFINE kept  == IF Full THEN Resident \ {Victim} ELSE Resident
             units == IF Full THEN RemoveAt(resUnit, Best) ELSE resUnit
             keys  == IF Full THEN RemoveAt(resKey, Best) ELSE resKey
             index == IF Full THEN Repaired(RemoveAt(resUnit, Best), Best) ELSE where
  <2>1. KernelMiss(u, new)
    BY <1>5, KernelAgrees DEF KernelAccess, u, new
  <2>2. Mirrors(units, keys, index, kept, key, born)
    <3>1. CASE Full
      <4>1. Resident # {}
        BY <3>1, FS_EmptySet, PoolAssumption DEF Full, PoolAssumption
      <4>2. Best \in 1 .. Len(resUnit) /\ resUnit[Best] = Victim
        BY <4>1, BestIsVictim
      <4> QED
        BY <3>1, <4>2, EvictMirrors
    <3>2. CASE ~Full
      BY <1>3, <3>2
    <3> QED
      BY <3>1, <3>2
  <2>3. DOMAIN index = kept
    BY <2>2 DEF Mirrors
  <2>4. /\ resUnit' = Append(units, u) /\ resKey' = Append(keys, new)
        /\ where' = [w \in DOMAIN index \cup {u} |->
                        IF w = u THEN Len(units) + 1 ELSE index[w]]
        /\ isMiss' = isMiss \cup {i}
    <3>1. Len(resUnit) >= Slots <=> Full
      BY KernelAgrees
    <3> QED
      BY <2>1, <3>1 DEF KernelMiss
  <2>5. /\ key' = [w \in kept \cup {u} |-> IF w = u THEN new ELSE key[w]]
        /\ born' = [w \in kept \cup {u} |-> IF w = u THEN i ELSE born[w]]
        /\ missed' = missed \cup {i}
    BY <1>1, <1>5 DEF Admit
  <2> HIDE DEF units, keys, index
  <2>6. /\ Resident' = kept \cup {u} /\ key'[u] = new /\ born'[u] = i /\ kept \subseteq Resident
        /\ \A w \in kept : key'[w] = key[w] /\ born'[w] = born[w]
        /\ u \notin kept
    BY <1>5, <2>5 DEF Resident
  <2>7. \A w \in Resident : born[w] < i /\ born[w] \in Nat
    BY <1>1, PoolAssumption DEF KernelInv, TypeOK, Positions, PoolAssumption
  <2>8. Mirrors(resUnit', resKey', where', Resident', key', born')
    <3>1. u \in Units \ kept /\ \A w \in kept : born[w] < i
      BY <1>1, <2>6, <2>7
    <3>2. where' = [w \in kept \cup {u} |-> IF w = u THEN Len(units) + 1 ELSE index[w]]
      BY <2>3, <2>4
    <3> HIDE DEF kept
    <3>3. Mirrors(Append(units, u), Append(keys, new),
                  [w \in kept \cup {u} |-> IF w = u THEN Len(units) + 1 ELSE index[w]],
                  kept \cup {u}, key', born')
      <4> DEFINE k2 == key'
                 bn2 == born'
      <4>1. \A w \in kept : k2[w] = key[w] /\ bn2[w] = born[w]
        BY <2>6
      <4>2. k2[u] = new /\ k2[u] \in Nat /\ \A w \in kept : born[w] < bn2[u]
        BY <1>1, <2>6, <3>1
      <4> HIDE DEF k2, bn2
      <4>3. Arrives(u, kept, key, born, k2, bn2)
        BY <4>1, <4>2, <3>1 DEF Arrives
      <4>4. Mirrors(Append(units, u), Append(keys, k2[u]),
                    [w \in kept \cup {u} |-> IF w = u THEN Len(units) + 1 ELSE index[w]],
                    kept \cup {u}, k2, bn2)
        BY ONLY <4>3, <2>2, AppendMirrors
      <4> QED
        BY <4>2, <4>4 DEF k2, bn2
    <3> QED
      BY <2>4, <2>6, <3>2, <3>3
  <2>9. \A w \in Resident' : born'[w] < i'
    BY <1>1, <1>3, <2>6, <2>7
  <2> QED
    BY <1>2, <2>4, <2>5, <2>8, <2>9 DEF KernelInv
<1> QED
  BY <1>4, <1>5

\* A lemma: empty arrays list the empty set.
LEMMA EmptyMirrors ==
    Mirrors(<< >>, << >>, << >>, {}, << >>, << >>)
BY DEF Mirrors

\* A lemma: every other step of the kernel keeps the invariant too.
LEMMA KernelStep == KernelInv /\ [KernelNext]_allVars => KernelInv'
<1> SUFFICES ASSUME KernelInv, [KernelNext]_allVars PROVE KernelInv'
  OBVIOUS
<1>1. CASE KernelAccess
  BY <1>1, KernelAccessStep
<1>2. CASE KernelReset
  <2>1. IInv'
    BY <1>2, ResetStep DEF KernelReset, KernelInv
  <2>2. /\ resUnit' = << >> /\ resKey' = << >> /\ where' = << >> /\ isMiss' = {}
        /\ key' = << >> /\ born' = << >> /\ missed' = {}
    BY <1>2 DEF KernelReset, Reset
  <2>3. Resident' = {}
    BY <2>2 DEF Resident
  <2> QED
    BY <2>1, <2>2, <2>3, EmptyMirrors DEF KernelInv
<1>3. CASE UNCHANGED allVars
  <2>1. UNCHANGED vars /\ UNCHANGED <<resUnit, resKey, where, isMiss>>
    BY <1>3 DEF allVars, kernelVars
  <2>2. IInv'
    BY <2>1, StutterStep DEF KernelInv
  <2> QED
    BY <2>1, <2>2 DEF vars, KernelInv, Resident
<1> QED
  BY <1>1, <1>2, <1>3 DEF KernelNext

LEMMA KernelStart == KernelInit => KernelInv
<1> SUFFICES ASSUME KernelInit PROVE KernelInv
  OBVIOUS
<1>1. IInv
  BY InitIInv DEF KernelInit
<1>2. /\ resUnit = << >> /\ resKey = << >> /\ where = << >> /\ isMiss = {}
      /\ key = << >> /\ born = << >> /\ missed = {}
  BY DEF KernelInit, Init
<1>3. Resident = {}
  BY <1>2 DEF Resident
<1> QED
  BY <1>1, <1>2, <1>3, EmptyMirrors DEF KernelInv

\* For every schedule, policy and number of slots the C++ kernel misses where
\* the Python loop does: the front-to-back scan of its arrays breaks ties as
\* max() over the dictionary does, and no eviction leaves its map wrong.
THEOREM KernelMissesAgree == KernelSpec => []SameMisses
<1>1. KernelInv => SameMisses
  BY DEF KernelInv, SameMisses
<1> QED
  BY <1>1, KernelStart, KernelStep, PTL DEF KernelSpec

-----------------------------------------------------------------------------
(* The reactive controller.                                                *)

USE ConfigAssumption DEF ConfigAssumption

\* A lemma about one control step: from a resident set within the headroom,
\* tick moves every byte of the demand somewhere, keeps the headroom, spills
\* within the budget and never below the low watermark or the hot bytes, and
\* admits at least MinProgress, if that much is offered and the hot bytes
\* are within the low watermark.
LEMMA TickLemma ==
    ASSUME NEW demand \in Nat, NEW h \in Nat, Tick(demand, h),
           resident \in Nat, spilled \in Nat, resident <= Usable
    PROVE  /\ resident' \in Nat /\ spilled' \in Nat /\ carry' \in Nat
           /\ oom' \in BOOLEAN /\ hot' = h
           /\ resident' <= Usable
           /\ resident' + spilled' + carry' = resident + spilled + demand
           /\ spilled' - spilled <= EvictCap
           /\ spilled' > spilled => resident' >= Low
           /\ spilled' > spilled => resident' >= Lesser(h, resident)
           /\ h <= Low => carry' <= Greater(0, demand - MinProgress)
<1> DEFINE ev    == Proactive(resident, h)
           r1    == resident - ev
           admit == Lesser(demand, Room(r1))
           rest  == demand - admit
           r2    == r1 + admit
           ev2   == Reactive(r2, h, rest, ev)
<1>1. EvictCap \in Nat /\ EvictCap > 0
  BY DEF EvictCap
<1>2. /\ ev \in Nat /\ ev <= EvictCap
      /\ ev > 0 => r1 >= Low /\ r1 >= h
      /\ r1 \in Nat /\ r1 <= resident
      /\ h <= Low => Lesser(EvictCap, Usable - High) <= Usable - r1
  BY <1>1 DEF Proactive, Lesser, Greater, Evictable
<1>3. /\ admit \in Nat /\ rest \in Nat /\ admit + rest = demand
      /\ r2 \in Nat /\ r2 <= Usable /\ r2 >= r1
      /\ rest = 0 \/ admit = Usable - r1
  BY <1>2 DEF Lesser, Greater, Room
<1>4. /\ ev2 \in Nat /\ ev + ev2 <= EvictCap
      /\ ev2 > 0 => r2 - ev2 >= Low /\ r2 - ev2 >= h
      /\ r2 - ev2 \in Nat
  <2> HIDE DEF ev, r1, admit, rest, r2
  <2> QED BY <1>1, <1>2, <1>3 DEF Reactive, Lesser, Greater, Evictable
<1>5. /\ resident' = r2 - ev2 /\ spilled' = spilled + ev + ev2
      /\ carry' = rest /\ hot' = h
      /\ oom' = (resident' > Cap \/ spilled' > HostCap)
  BY DEF Tick
<1> r1 = resident - ev /\ r2 = r1 + admit
  OBVIOUS
<1> HIDE DEF ev, r1, admit, rest, r2, ev2
<1>6. h <= Low => carry' <= Greater(0, demand - MinProgress)
  BY <1>1, <1>2, <1>3, <1>5 DEF MinProgress, Lesser, Greater
<1>7. spilled' > spilled => resident' >= Low /\ resident' >= Lesser(h, resident)
  BY <1>2, <1>3, <1>4, <1>5 DEF Lesser
<1> QED
  BY <1>1, <1>2, <1>3, <1>4, <1>5, <1>6, <1>7

\* The inductive invariant: conservation does not need strengthening beyond
\* the ranges, and the headroom implies the range of resident.
LoopInv == /\ LoopTypeOK
           /\ HeadroomKept
           /\ BytesConserved

\* A lemma: the empty controller satisfies the inductive invariant.
LEMMA LoopInitInv == LoopInit => LoopInv
<1> SUFFICES ASSUME LoopInit PROVE LoopInv
  OBVIOUS
<1> USE DEF LoopInit
<1>1. oom \in BOOLEAN
  OBVIOUS
<1>2. resident \in 0 .. Cap /\ fed \in 0 .. StreamLength /\ guard \in 0 .. MaxDrain
  OBVIOUS
<1>3. spilled \in Nat /\ carry \in Nat /\ arrived \in Nat /\ hot \in Nat
  OBVIOUS
<1>4. HeadroomKept /\ BytesConserved
  BY DEF HeadroomKept, BytesConserved
<1> QED
  BY <1>1, <1>2, <1>3, <1>4 DEF LoopInv, LoopTypeOK

\* A lemma: a hint, and the default for a missing one, is a number of bytes.
LEMMA HotType == ASSUME LoopInv, NEW h \in Hints \cup {DefaultHot(resident)}
                 PROVE  h \in Nat
  BY DEF LoopInv, LoopTypeOK, DefaultHot, Lesser

\* What is proved of every step.
SoundStep ==
    /\ LoopInv'
    /\ spilled' - spilled <= EvictCap
    /\ spilled' > spilled => resident' >= Low
    /\ spilled' > spilled => resident' >= Lesser(hot', resident)
    /\ guard' # guard => carry' <= Greater(0, carry - MinProgress)

\* A lemma: every step of run() keeps the invariant and the two step bounds.
LEMMA StepLemma ==
    ASSUME LoopInv, [LoopNext]_loopVars
    PROVE  SoundStep
<1> USE DEF LoopInv, LoopTypeOK, HeadroomKept, BytesConserved, SoundStep
<1>0. EvictCap \in Nat
  BY DEF EvictCap
<1>1. ASSUME NEW demand \in Demands, NEW h \in Hints \cup {DefaultHot(resident)},
             StreamTick(demand, h)
      PROVE  SoundStep
  <2>1. h \in Nat /\ demand \in Nat /\ demand + carry \in Nat
    BY HotType
  <2>2. Tick(demand + carry, h)
    BY <1>1 DEF StreamTick, Offered
  <2>3. /\ resident' \in Nat /\ spilled' \in Nat /\ carry' \in Nat
        /\ oom' \in BOOLEAN /\ hot' = h
        /\ resident' <= Usable
        /\ resident' + spilled' + carry' = resident + spilled + demand + carry
        /\ spilled' - spilled <= EvictCap
        /\ spilled' > spilled => resident' >= Low
        /\ spilled' > spilled => resident' >= Lesser(h, resident)
    BY <2>1, <2>2, TickLemma
  <2>4. /\ fed < StreamLength /\ fed' = fed + 1
        /\ pc' = pc /\ guard' = guard /\ arrived' = arrived + demand
    BY <1>1 DEF StreamTick
  <2>5. LoopTypeOK'
    BY <2>1, <2>3, <2>4
  <2>6. HeadroomKept' /\ BytesConserved'
    <3>1. resident + spilled + demand + carry = (resident + spilled + carry) + demand
      BY <2>1
    <3>2. arrived' = (resident + spilled + carry) + demand
      BY <2>4
    <3> QED
      BY <2>3, <3>1, <3>2
  <2> HIDE DEF LoopTypeOK, HeadroomKept, BytesConserved
  <2> QED
    BY <2>3, <2>4, <2>5, <2>6
<1>2. CASE DrainTick
  <2>1. DefaultHot(resident) \in Nat /\ DefaultHot(resident) <= Low
    BY DEF DefaultHot, Lesser
  <2>2. Tick(carry, DefaultHot(resident))
    BY <1>2 DEF DrainTick
  <2>3. /\ resident' \in Nat /\ spilled' \in Nat /\ carry' \in Nat
        /\ oom' \in BOOLEAN /\ hot' = DefaultHot(resident)
        /\ resident' <= Usable
        /\ resident' + spilled' + carry' = resident + spilled + carry
        /\ spilled' - spilled <= EvictCap
        /\ spilled' > spilled => resident' >= Low
        /\ spilled' > spilled => resident' >= Lesser(DefaultHot(resident), resident)
        /\ carry' <= Greater(0, carry - MinProgress)
    BY <2>1, <2>2, TickLemma
  <2>4. /\ guard < MaxDrain /\ guard' = guard + 1
        /\ pc' = pc /\ fed' = fed /\ arrived' = arrived
    BY <1>2 DEF DrainTick
  <2>5. LoopTypeOK'
    BY <2>1, <2>3, <2>4
  <2>6. HeadroomKept' /\ BytesConserved'
    BY <2>3, <2>4
  <2> HIDE DEF LoopTypeOK, HeadroomKept, BytesConserved
  <2> QED
    BY <2>3, <2>5, <2>6
<1>3. CASE StreamEnds \/ Return \/ Terminated \/ UNCHANGED loopVars
  BY <1>0, <1>3 DEF StreamEnds, Return, Terminated, loopVars
<1> QED
  BY <1>1, <1>2, <1>3 DEF LoopNext

\* A lemma: the inductive invariant holds in every reachable state.
LEMMA LoopInvariance == LoopSpec => []LoopInv
<1>1. LoopInv /\ [LoopNext]_loopVars => LoopInv'
  BY StepLemma DEF SoundStep
<1> QED
  BY LoopInitInv, <1>1, PTL DEF LoopSpec

\* Every variable of the loop keeps its range, whatever is configured.
THEOREM LoopTypeCorrect == LoopSpec => []LoopTypeOK
  BY LoopInvariance, PTL DEF LoopInv

\* No demand stream and no hints make tick or run() lose a byte.
THEOREM Conservation == LoopSpec => []BytesConserved
  BY LoopInvariance, PTL DEF LoopInv

\* The headroom is never eaten.
THEOREM Headroom == LoopSpec => []HeadroomKept
  BY LoopInvariance, PTL DEF LoopInv

\* Over both of its spilling steps a tick stays within its budget, takes no
\* hot or low-watermark bytes and leaves the headroom free.
THEOREM TickBounds == LoopSpec => TickIsBounded
<1>1. LoopInv /\ [LoopNext]_loopVars =>
        [/\ resident' <= Usable
         /\ spilled' - spilled <= EvictCap
         /\ spilled' > spilled => resident' >= Lesser(hot', resident)
         /\ spilled' > spilled => resident' >= Low]_loopVars
  BY StepLemma DEF SoundStep, LoopInv, HeadroomKept
<1> QED
  BY <1>1, LoopInvariance, PTL DEF LoopSpec, TickIsBounded

\* Every tick of the draining loop makes progress.
THEOREM Drains == LoopSpec => DrainProgress
<1>1. LoopInv /\ [LoopNext]_loopVars =>
        [guard' # guard => carry' <= Greater(0, carry - MinProgress)]_loopVars
  BY StepLemma DEF SoundStep
<1> QED
  BY <1>1, LoopInvariance, PTL DEF LoopSpec, DrainProgress
=============================================================================
