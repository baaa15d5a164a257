------------------------ MODULE SequentialAggregation ------------------------
(***************************************************************************)
(* What TieredExecutor.run_snapshot_tiering (runtime/memtier.py) promises: *)
(* wherever a snapshot's rows live, the epoch aggregates every snapshot of *)
(* the window exactly once, in time order, each on its own features ("the  *)
(* result depends only on the inputs, never on the tier a row lives in").  *)
(***************************************************************************)
EXTENDS Integers, Sequences

CONSTANT Window          \* the number of snapshots in the window, w.window

VARIABLE acc             \* the snapshots folded into the result so far

Init == acc = << >>

\* Fold the next snapshot, and no other, into the result.
Aggregate == /\ Len(acc) < Window
             /\ acc' = Append(acc, Len(acc))

Next == Aggregate

Spec == Init /\ [][Next]_acc /\ WF_acc(Next)
=============================================================================
