---------------------------- MODULE OnlineStream ----------------------------
(***************************************************************************)
(* The online subsystem of schedule/dynamic_online.py: run_stream feeds a  *)
(* time-sorted event stream to online_step window by window.  A step that  *)
(* sees neither drift nor too much staleness keeps the layout; any other   *)
(* refreshes it through the incremental plan of IncrementalPartition, the  *)
(* path run_stream takes (schedule() rejects the bare views it builds).    *)
(* The drift score is a free choice of every step.  run_stream gives all   *)
(* its views the same num_nodes; a caller of online_step whose graph gains *)
(* vertices is modelled too, by Sizes.                                     *)
(***************************************************************************)
EXTENDS IncrementalPartition

CONSTANTS Streams,       \* the event streams: sequences of vertex pairs
          Sizes,         \* Sizes[w]: num_nodes of the view of window w; a
                         \* graph gains vertices and loses none
          WindowEdges,   \* W
          Growing,       \* growing
          MaxStaleness   \* policy.max_staleness_snapshots

StreamAssumption ==
    /\ \A st \in Streams : /\ st \in Seq(Nat \X Nat) /\ st # << >>
                            /\ Len(st) <= Len(Sizes)
    /\ Sizes \in Seq(Nat \ {0})
    /\ \A v, w \in DOMAIN Sizes : v <= w => Sizes[v] <= Sizes[w]
    /\ WindowEdges \in Nat \ {0}
    /\ Growing \in BOOLEAN /\ MaxStaleness \in Nat
ASSUME StreamAssumption

VARIABLES stream,        \* src, dst
          hi,            \* the end of the last window
          layout,        \* state.assignment; empty before the cold start
          processed,     \* state.processed_edges
          staleness,     \* state.staleness
          migrated,      \* state.total_migrated_bytes, in vertices
          trace,         \* tr.steps: was the layout rearranged?
          ingested       \* how often each event was new to a step (history)

vars == <<stream, hi, layout, processed, staleness, migrated, trace, ingested>>

Window == Len(trace) + 1
Size   == Sizes[Window]

\* The bound of the next window, and the slice of the stream it shows.
NextHi == IF hi + WindowEdges < Len(stream) THEN hi + WindowEdges ELSE Len(stream)
Lo     == IF Growing \/ NextHi < WindowEdges THEN 0 ELSE NextHi - WindowEdges
View   == SubSeq(stream, Lo + 1, NextHi)

\* Seeded fault: the last event of the previous window counts as new again.
NewEdgeLoFault == IF processed = 0 THEN 0 ELSE processed - 1
\* The first event of the view that is new since the last step.
NewEdgeLo == IF processed < Len(View) THEN processed ELSE Len(View)

\* max(1, policy.max_staleness_snapshots)
StaleBound == IF MaxStaleness > 1 THEN MaxStaleness ELSE 1

\* Seeded fault: staleness is compared before the current step is counted.
OverStalenessFault == staleness > StaleBound
OverStaleness == staleness + 1 > StaleBound

\* What every step records.
Ingest(rearranged, lo) ==
    /\ hi' = NextHi
    /\ processed' = Len(View)
    /\ trace' = Append(trace, rearranged)
    /\ ingested' = [e \in DOMAIN ingested |->
                       IF e \in Lo + lo + 1 .. NextHi THEN ingested[e] + 1
                                                      ELSE ingested[e]]
    /\ UNCHANGED stream

Init ==
    /\ stream \in Streams
    /\ hi = 0 /\ layout = << >>
    /\ processed = 0 /\ staleness = 0 /\ migrated = 0
    /\ trace = << >>
    /\ ingested = [e \in DOMAIN stream |-> 0]

MoreWindows == hi < Len(stream)

ColdStart ==
    /\ MoreWindows /\ trace = << >>
    /\ layout' \in PartitionIncremental(View, << >>, 0, Size)
    /\ staleness' = 0
    /\ Ingest(TRUE, 0)
    /\ UNCHANGED migrated

Reuse(drift) ==
    /\ MoreWindows /\ trace # << >>
    /\ ~(OverStaleness \/ drift)
    /\ staleness' = staleness + 1
    /\ Ingest(FALSE, NewEdgeLo)
    /\ UNCHANGED <<layout, migrated>>

Refresh(drift) ==
    /\ MoreWindows /\ trace # << >>
    /\ OverStaleness \/ drift
    /\ layout' \in PlanIncremental(View, layout, NewEdgeLo, Size)
    /\ migrated' = migrated + Changed(layout, layout')
    /\ staleness' = 0
    /\ Ingest(TRUE, NewEdgeLo)

Terminated == ~MoreWindows /\ UNCHANGED vars

Next == \/ ColdStart
        \/ \E drift \in BOOLEAN : Reuse(drift) \/ Refresh(drift)
        \/ Terminated

Spec == Init /\ [][Next]_vars

-----------------------------------------------------------------------------
(* Properties.                                                             *)

\* "This stays balanced": through any sequence of refreshes and reuses, of a
\* growing graph, no device holds more than its capacity.
BalancedLayout ==
    \A d \in Devices :
        LoadOn(layout, d) <= CapOf(Cardinality(DOMAIN layout))

\* "At most budget * N old vertices may move": propagation, relief and the
\* renaming of all the labels together never move more of them than that.
BudgetRespected ==
    [][100 * Changed(layout, layout')
           <= BudgetPercent * Cardinality(DOMAIN layout')]_vars

\* Among any max(1, MaxStaleness) + 1 consecutive windows at least one
\* rearranged the layout: the staleness of StreamTrace is bounded.
StalenessBounded ==
    \A w \in 1 .. Len(trace) - StaleBound : \E x \in w .. w + StaleBound : trace[x]

\* processed_edges is a cursor: every event up to the end of the window was
\* new to exactly one step.
EveryEventIngestedOnce == \A e \in 1 .. hi : ingested[e] = 1
=============================================================================
