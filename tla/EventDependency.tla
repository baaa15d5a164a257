--------------------------- MODULE EventDependency ---------------------------
(***************************************************************************)
(* build_event_dependency of schedule/dynamic_online.py, the Python loop:  *)
(* one forward pass over the new events of a window.  Each event depends   *)
(* on the latest earlier one that shares an endpoint with it, its ear.     *)
(* The input is the block of new events.  Positions count from 1, and      *)
(* Root = 0 stands for the -1 of the code.                                 *)
(***************************************************************************)
EXTENDS Integers, Sequences

CONSTANT Vertices        \* vertices an event may have as an endpoint

VARIABLES stream,        \* the new events, <<src, dst>> in time order
          i,             \* the event the pass is at
          lastSeen,      \* last_seen: vertex -> its latest event
          ear,           \* ear[k]: the event k directly depends on
          depth,         \* depth[k]: length of the chain of ears below k
          cone           \* the changed cone

vars == <<stream, i, lastSeen, ear, depth, cone>>

Root == 0

Touches(k, w) == w \in {stream[k][1], stream[k][2]}

\* The more recent of the last events of the two endpoints.
Predecessor(pu, pv) == IF pu > pv THEN pu ELSE pv

DepthAbove(p) == IF p = Root THEN 0 ELSE depth[p] + 1

Init == /\ stream \in Seq(Vertices \X Vertices)
        /\ i = 1
        /\ lastSeen = [w \in Vertices |-> Root]
        /\ ear = << >> /\ depth = << >> /\ cone = {}

\* One iteration of the pass.
Link ==
    /\ i <= Len(stream)
    /\ LET p == Predecessor(lastSeen[stream[i][1]], lastSeen[stream[i][2]])
       IN  /\ ear' = Append(ear, p)
           /\ depth' = Append(depth, DepthAbove(p))
    /\ lastSeen' = [w \in Vertices |-> IF Touches(i, w) THEN i ELSE lastSeen[w]]
    /\ i' = i + 1
    /\ UNCHANGED <<stream, cone>>

\* np.unique of the endpoints, after the pass.
Collect ==
    /\ i > Len(stream)
    /\ cone' = {w \in Vertices : \E k \in 1 .. Len(stream) : Touches(k, w)}
    /\ UNCHANGED <<stream, i, lastSeen, ear, depth>>

Next == Link \/ Collect

Spec == Init /\ [][Next]_vars

-----------------------------------------------------------------------------
(* Properties.                                                             *)

\* The dictionary, the ears and the depths have their types, and an ear and
\* a depth refer to earlier events only.
TypeOK ==
    /\ stream \in Seq(Vertices \X Vertices)
    /\ i \in 1 .. Len(stream) + 1
    /\ lastSeen \in [Vertices -> 0 .. i - 1]
    /\ ear \in Seq(Nat) /\ Len(ear) = i - 1
    /\ depth \in Seq(Nat) /\ Len(depth) = i - 1
    /\ \A k \in 1 .. i - 1 : ear[k] < k
    /\ cone \subseteq Vertices

Shares(j, k) == \E w \in Vertices : Touches(j, w) /\ Touches(k, w)

\* The ear of an event is the latest earlier event that shares an endpoint,
\* and Root if there is none: last_seen always knows enough of the past.
EarIsLatestSharedEvent ==
    \A k \in DOMAIN ear :
        /\ ear[k] # Root => Shares(ear[k], k)
        /\ \A j \in 1 .. k - 1 : Shares(j, k) => j <= ear[k]

=============================================================================
