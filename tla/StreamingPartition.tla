-------------------------- MODULE StreamingPartition --------------------------
(***************************************************************************)
(* cpp/streaming.cpp: one pass over the vertices (Fennel, LDG) or over the *)
(* edges (HDRF), each put where its score is best when it arrives.  The    *)
(* scores are kept as integers by clearing their denominators.  The slack  *)
(* of LDG and the lambda of HDRF are any fractions; the gamma of Fennel is *)
(* 2 (the program's default, 1.5, makes its scores irrational).            *)
(***************************************************************************)
EXTENDS Integers, FiniteSets, FiniteSetsExt, SequencesExt

CONSTANTS SN,            \* N, the number of vertices
          SD,            \* D, the number of parts
          EdgeLists,     \* the lists of edges a run may be given
          Params,        \* the parameters a run may be given, as fractions
          WeightLists    \* vw, the weights of the vertices

StreamVertices == 0 .. (SN - 1)
StreamParts    == 0 .. (SD - 1)

StreamAssumption ==
    /\ SN \in Nat \ {0} /\ SD \in Nat \ {0}
    /\ EdgeLists \subseteq Seq(StreamVertices \X StreamVertices)
    /\ WeightLists \subseteq [StreamVertices -> Nat]
    /\ Params \subseteq Int \X (Nat \ {0})
ASSUME StreamAssumption

VARIABLES mode,          \* "fennel", "ldg" or "hdrf"
          param,         \* param: gamma, slack or lambda, <<numerator, denominator>>
          edges,         \* src and dst, a sequence of pairs
          vw,            \* vw[v]
          order,         \* the vertices in the order of their arrival
          arrived,       \* idx, or i: how many have arrived
          home,          \* part[v], -1 before it arrives
          size,          \* load[p], or size[p] for HDRF
          pmask          \* pmask[v]: the parts v is replicated into

streamVars == <<mode, param, edges, vw, order, arrived, home, size, pmask>>

\* The slack or lambda that is used: 1 unless a positive one is given.
Setting == IF param[1] > 0 THEN param ELSE <<1, 1>>

\* The part of the best score; the first of equals.
FirstBest(ps, Score(_)) ==
    CHOOSE p \in ps : \A q \in ps : Score(p) > Score(q) \/ (Score(p) = Score(q) /\ p <= q)

\* deg[v]: both ends of every edge that is no loop.
Deg(v) == Cardinality({i \in DOMAIN edges : edges[i][1] # edges[i][2] /\ edges[i][1] = v})
        + Cardinality({i \in DOMAIN edges : edges[i][1] # edges[i][2] /\ edges[i][2] = v})

\* totalw; a list of zeros counts as one of ones.
TotalWeight == LET sum == SumFunction(vw) IN IF sum > 0 THEN sum ELSE SN

\* cnt[p]: the edges of v into part p.
Count(v, p) ==
    Cardinality({i \in DOMAIN edges : \E k \in {1, 2} :
        edges[i][k] = v /\ edges[i][3 - k] # v /\ home[edges[i][3 - k]] = p})

-----------------------------------------------------------------------------
(* Fennel.  A part at its soft cap is skipped, but only once there is a    *)
(* choice: the first part is always looked at.                             *)

AtSoftCap(p) == size[p] * SD * 10 >= TotalWeight * 11

\* cnt - alpha * gamma * size, with gamma = 2 and alpha = M * D / N^2.
FennelScore(v, p) == Count(v, p) * SN * SN - 2 * Len(edges) * SD * size[p]

FennelChoices == {0} \cup {p \in StreamParts : ~AtSoftCap(p)}
FennelPart(v) == FirstBest(FennelChoices, LAMBDA p : FennelScore(v, p))

-----------------------------------------------------------------------------
(* LDG: the neighbours in a part, scaled by the room the part has left     *)
(* below C, the mean size times the slack; of equals the less loaded part, *)
(* by a term too small to matter otherwise.                                *)

Room(p) == Max({0, Setting[1] * TotalWeight - Setting[2] * SD * size[p]})
\* Seeded fault: nothing separates the parts of equal score.
TieBreakFault == 0
TieBreak == 1
LdgScore(v, p) == Count(v, p) * Room(p) * (TotalWeight + 1) - TieBreak * size[p]
LdgPart(v) == FirstBest(StreamParts, LAMBDA p : LdgScore(v, p))

PlaceVertex ==
    /\ mode \in {"fennel", "ldg"} /\ arrived < SN
    /\ LET v == order[arrived + 1]
           p == IF mode = "fennel" THEN FennelPart(v) ELSE LdgPart(v)
       IN  /\ home' = [home EXCEPT ![v] = p]
           /\ size' = [size EXCEPT ![p] = @ + vw[v]]
    /\ arrived' = arrived + 1
    /\ UNCHANGED <<mode, param, edges, vw, order, pmask>>

-----------------------------------------------------------------------------
(* HDRF: an edge goes where its ends already are, the end of lower degree  *)
(* counting more, and otherwise where there are fewer edges.               *)

MaxSize == Max(Range(size))
MinSize == Min(Range(size))

\* theta of u is deg(u) / (deg(u) + deg(v)), one half if neither has an edge.
Theta(u, v) == IF Deg(u) + Deg(v) > 0 THEN <<Deg(u), Deg(u) + Deg(v)>> ELSE <<1, 2>>

\* Seeded fault: the difference of the loads is not scaled to their spread.
SpreadFault == 1
Spread == 1 + MaxSize - MinSize

\* Seeded fault: the lambda of the file is left out.
CbalFault(p) == Setting[2] * (MaxSize - size[p])
\* cbal * spread, times the denominator of lambda.
Cbal(p) == Setting[1] * (MaxSize - size[p])

\* (crep + cbal) * (deg(u) + deg(v)) * spread, times the denominator of lambda.
HdrfScore(u, v, p) ==
    LET th == Theta(u, v)
        Replica(w, t) == IF p \in pmask[w] THEN 2 * th[2] - t ELSE 0
    IN  (Replica(u, th[1]) + Replica(v, th[2] - th[1])) * Spread * Setting[2]
        + Cbal(p) * th[2]

HdrfPart(u, v) == FirstBest(StreamParts, LAMBDA p : HdrfScore(u, v, p))

PlaceEdge ==
    /\ mode = "hdrf" /\ arrived < Len(edges)
    /\ LET u == edges[arrived + 1][1]
           v == edges[arrived + 1][2]
           p == HdrfPart(u, v)
       IN  /\ pmask' = [w \in StreamVertices |->
                            IF w \in {u, v} THEN pmask[w] \cup {p} ELSE pmask[w]]
           /\ size' = [size EXCEPT ![p] = @ + 1]
    /\ arrived' = arrived + 1
    /\ UNCHANGED <<mode, param, edges, vw, order, home>>

StreamInit ==
    /\ mode \in {"fennel", "ldg", "hdrf"}
    /\ param \in {q \in Params : mode = "fennel" => q = <<2, 1>>}
    /\ edges \in EdgeLists /\ vw \in WeightLists
    /\ order \in {o \in SetToSeqs(StreamVertices) : mode = "hdrf" => \A i \in 1..SN : o[i] = i - 1}
    /\ arrived = 0
    /\ home = [v \in StreamVertices |-> -1]
    /\ size = [p \in StreamParts |-> 0]
    /\ pmask = [v \in StreamVertices |-> {}]

StreamNext == PlaceVertex \/ PlaceEdge

StreamSpec == StreamInit /\ [][StreamNext]_streamVars

-----------------------------------------------------------------------------
\* What LDG lets a part hold before the vertex that crosses it: less than the
\* mean size, or less than the mean times the slack.
BelowCapacity(x) == \/ x * SD < TotalWeight
                    \/ x * SD * Setting[2] < Setting[1] * TotalWeight

VertexPartsFit ==
    LET heaviest == Max(Range(vw)) IN
    \A p \in StreamParts :
        /\ mode = "ldg" => BelowCapacity(size[p] - heaviest)
        /\ mode = "fennel" /\ p # 0 => (size[p] - heaviest) * SD * 10 < TotalWeight * 11

\* How far two parts are apart.
Gap == Max(Range(size)) - Min(Range(size))
EdgePartsLevel == mode = "hdrf" => Setting[1] * (Gap - 1) <= 3 * Setting[2] * Gap

\* A part is never filled further than by the one vertex that crosses its
\* capacity: for LDG the mean size, or the mean times the slack if that is
\* more; for Fennel 1.10 of the mean, but for its first part, which is looked
\* at before there is another choice.  HDRF has no capacity, but lambda limits
\* the gap g between two parts, lambda * (g - 1) <= 3 * g, as no part can score
\* more than 3 by the ends that it holds.  That is a bound for a lambda above 3
\* only; at the default the parts may drift apart.
StreamsStayInCapacity == VertexPartsFit /\ EdgePartsLevel

\* An edge whose ends share a part makes a new replica only if lambda outweighs
\* what is shared: lambda times the edges that the chosen part is behind reaches
\* the whole spread and one more.  No part can be so far behind at a lambda of
\* at most 1, the default included: there the balance never costs a replica,
\* however unbalanced the parts have become.
SharedPartIsReused ==
    [][mode = "hdrf" /\ arrived' > arrived =>
          LET e == edges[arrived'] IN
          \A r \in pmask[e[1]] \cap pmask[e[2]] :
              \/ pmask' = pmask
              \/ \E p \in StreamParts :
                     /\ size'[p] > size[p]
                     /\ Setting[1] * (size[r] - size[p]) >= Setting[2] * (1 + Gap)]_streamVars
=============================================================================
