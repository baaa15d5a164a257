------------------------- MODULE DistributedExecution -------------------------
(***************************************************************************)
(* plan_distributed, verify_distributed_same_result and run_distributed of *)
(* schedule/distributed.py: for a vertex-to-rank assignment, the rows each *)
(* rank receives every layer, split into those of its own machine and the  *)
(* others, the slowest rank, the check of the verifier, and the layers     *)
(* computed rank after rank.  Rank -1 is a replicated vertex.              *)
(***************************************************************************)
EXTENDS AggregationJob, SequencesExt

CONSTANTS Ranks,         \* num_ranks; the ranks are 0 .. Ranks-1
          MachineOf(_),  \* RankSpec.node
          Bandwidth(_),  \* RankSpec.hbm_bw_gbps
          IntraRate,     \* intra_node_gbps
          InterRate      \* inter_node_gbps

ASSUME TopologyAssumption ==
    /\ Ranks \in Nat \ {0}
    /\ IntraRate \in Nat \ {0} /\ InterRate \in Nat \ {0}
    /\ \A r \in 0 .. (Ranks - 1) : Bandwidth(r) \in Nat \ {0}

VARIABLES halo,          \* the plan: per rank the rows received, and the slowest
          turn,          \* the rank that computes next
          next           \* nxt: the rows of the layer computed so far

distVars == <<job, halo, turn, next, h, done>>

RankSet == 0 .. (Ranks - 1)
NoPlan  == [intra |-> << >>, inter |-> << >>, makespan |-> <<0, 1>>, slowest |-> -1]

-----------------------------------------------------------------------------
(* The plan.  A doubled edge <<a, b>> says that a needs the row of b.      *)

Dependencies == Range(job.edges) \cup {<<e[2], e[1]>> : e \in Range(job.edges)}

Crossing ==
    {d \in Dependencies : /\ job.assign[d[1]] # job.assign[d[2]]
                          /\ job.assign[d[1]] >= 0 /\ job.assign[d[2]] >= 0}

\* Seeded fault: every crossing dependency moves a row.
ReceivesFault == {<<job.assign[d[1]], d[2], d[1]>> : d \in Crossing}
\* The rows that move: distinct pairs of a receiving rank and a remote row.
Receives == {<<job.assign[d[1]], d[2]>> : d \in Crossing}

SameMachine(rcv) == MachineOf(rcv[1]) = MachineOf(job.assign[rcv[2]])
ReceivedIntra(r) == Cardinality({rcv \in Receives : rcv[1] = r /\ SameMachine(rcv)})
ReceivedInter(r) == Cardinality({rcv \in Receives : rcv[1] = r /\ ~SameMachine(rcv)})

\* The degrees of the vertices of a rank: both ends of every edge count.
Incident(r) == SumFunction([v \in {u \in Vertices : job.assign[u] = r} |-> Degree(job, v)])

\* The time of a rank's layer as a fraction: its own edges at the speed of
\* its memory, then the received rows over the two links.
StepTime(r) ==
    << F * 8 * (Incident(r) * IntraRate * InterRate
                + ReceivedIntra(r) * Bandwidth(r) * InterRate
                + ReceivedInter(r) * Bandwidth(r) * IntraRate),
       Bandwidth(r) * IntraRate * InterRate >>
Longer(s, t) == s[1] * t[2] > t[1] * s[2]

\* The first rank that is slower than all before it and than no work at all.
Slowest ==
    FoldLeft(LAMBDA acc, r : IF Longer(StepTime(r), acc.makespan)
                             THEN [makespan |-> StepTime(r), slowest |-> r] ELSE acc,
             [makespan |-> <<0, 1>>, slowest |-> -1], [i \in 1..Ranks |-> i - 1])

Plan ==
    /\ halo = NoPlan /\ done = 0 /\ turn = -1
    /\ halo' = [intra |-> [r \in RankSet |-> ReceivedIntra(r)],
                inter |-> [r \in RankSet |-> ReceivedInter(r)],
                makespan |-> Slowest.makespan, slowest |-> Slowest.slowest]
    /\ turn' = 0
    /\ UNCHANGED <<job, next, h, done>>

\* verify_distributed_same_result: no edge has exactly one end without a rank.
Verified == \A d \in Dependencies : job.assign[d[1]] < 0 <=> job.assign[d[2]] < 0

-----------------------------------------------------------------------------
(* The layers: every row of a layer starts as zeros, and the ranks fill in *)
(* their own, one after the other, from the whole matrix.                  *)

Rows(r) == {v \in Vertices : job.assign[v] = r}
WithRows(rows) ==
    [v \in Vertices |-> IF v \in rows THEN MeanRow(job, h, v) ELSE next[v]]

\* Seeded fault: a rank that has no row waits for one.
FollowingFault(r) == IF Rows(r) = {} THEN r ELSE r + 1
\* The rank whose turn it is after rank r.
Following(r) == r + 1

RankComputes(r) ==
    /\ turn = r /\ done < job.layers
    /\ next' = WithRows(Rows(r))
    /\ turn' = Following(r)
    /\ UNCHANGED <<job, halo, h, done>>

Replicated == Rows(-1)
\* The replicated rows, and the nonlinearity over the assembled matrix.
EndLayer ==
    /\ turn = Ranks /\ done < job.layers
    /\ h' = [v \in Vertices |-> PhiRow(job, WithRows(Replicated)[v])]
    /\ next' = Zeros
    /\ done' = done + 1
    /\ turn' = IF done' < job.layers THEN 0 ELSE Ranks
    /\ UNCHANGED <<job, halo>>

DistInit ==
    /\ halo = NoPlan /\ turn = -1 /\ done = 0
    /\ h = job.x /\ next = Zeros
DistNext == Plan \/ (\E r \in RankSet : RankComputes(r)) \/ EndLayer
DistSpec == DistInit /\ [][DistNext]_distVars

-----------------------------------------------------------------------------
\* The rows rank r must be sent: it has a row with that neighbour, and not
\* the neighbour itself.
Needed(r) ==
    {u \in Vertices : /\ job.assign[u] \notin {r, -1}
                      /\ \E i \in DOMAIN job.edges, v \in Rows(r) :
                             job.edges[i] \in {<<u, v>>, <<v, u>>}}

\* The plan moves every needed row once, by the link that joins the machines;
\* and when the verifier is content a rank has every row its own rows need.
HaloIsExact ==
    turn >= 0 =>
        \A r \in RankSet :
            /\ halo.inter[r] =
                  Cardinality({u \in Needed(r) : MachineOf(job.assign[u]) # MachineOf(r)})
            /\ halo.intra[r] + halo.inter[r] = Cardinality(Needed(r))
            /\ Verified => \A i \in DOMAIN job.edges, k \in {1, 2} :
                  job.assign[job.edges[i][k]] = r
                      => job.assign[job.edges[i][3 - k]] = r
                         \/ job.edges[i][3 - k] \in Needed(r)
=============================================================================
