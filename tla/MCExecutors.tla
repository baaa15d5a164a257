------------------------------ MODULE MCExecutors ------------------------------
(***************************************************************************)
(* Three vertices and two columns; every executor gets every graph, depth  *)
(* and layout of the sets below.                                           *)
(***************************************************************************)
EXTENDS Executors

MCUnwritten == [v \in Vertices |-> [f \in Columns |-> -7]]
MCMachineOf(r) == IF r = 2 THEN 1 ELSE 0
MCBandwidth(r) == IF r = 0 THEN 1 ELSE 2

\* A path with a repeated edge and a loop, a triangle, a star, no edge.
MCGraphs == { << <<0, 1>>, <<1, 2>>, <<2, 1>> >>, << <<0, 0>>, <<2, 0>> >>,
              << <<0, 1>>, <<1, 2>>, <<2, 0>> >>, << >> }
\* Multiples of 1728: every divisor up to 4 divides it three times.
MCFeatures == [v \in Vertices |-> [f \in Columns |->
                  1728 * (IF (v + f) % 2 = 1 THEN v + 1 ELSE -(2 * v) - 1)]]
MCWeights == { [f \in Columns |-> [g \in Columns |-> IF f = g THEN 1 ELSE -1]],
               [f \in Columns |-> [g \in Columns |-> IF f = 0 THEN 2 ELSE -1]] }

MCJob == [ edges : MCGraphs, x : {MCFeatures}, layers : {0, 1, 3}, relu : BOOLEAN ]
MCJobs ==
    { j @@ [executor |-> "coexec", cpu |-> q, w |-> Unmixed] :
          j \in MCJob, q \in {<<-1, 4>>, <<0, 1>>, <<1, 2>>, <<5, 6>>, <<3, 2>>} }
    \cup
    { j @@ [executor |-> "distributed", assign |-> a, w |-> Unmixed] :
          j \in MCJob, a \in [Vertices -> {-1} \cup RankSet] }
    \cup
    { j @@ [executor |-> "recombine", splits |-> s, w |-> m] :
          j \in MCJob, s \in {<<2>>, <<1, 1>>, <<0, 2>>, <<1, 0, 1>>},
          m \in MCWeights \cup {Unmixed} }
=============================================================================
