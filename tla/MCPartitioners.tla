---------------------------- MODULE MCPartitioners ----------------------------
(***************************************************************************)
(* Graphs of seven vertices, coarsened to three: unit and skewed weights,  *)
(* a star, two triangles joined by an edge, a weighted ring; and graphs    *)
(* that are small already, one without edges.  Streams of four vertices.   *)
(***************************************************************************)
EXTENDS Partitioners

\* The symmetric edge weights that a set of triples <<u, v, w>> stands for.
Weighted(es) ==
    [e \in {<<x[1], x[2]>> : x \in es} \cup {<<x[2], x[1]>> : x \in es} |->
        (CHOOSE x \in es : {x[1], x[2]} = {e[1], e[2]})[3]]
Unit(es) == Weighted({<<e[1], e[2], 1>> : e \in es})
GraphOf(weights, ew) == [vw |-> weights, ew |-> ew]
Ones(n) == [v \in 0 .. (n - 1) |-> 1]

Star      == Unit({<<0, v>> : v \in 1..6})
Triangles == Unit({<<0, 1>>, <<1, 2>>, <<0, 2>>, <<3, 4>>, <<4, 5>>, <<3, 5>>, <<2, 3>>, <<5, 6>>})
Ring      == Weighted({<<0, 1, 3>>, <<1, 2, 1>>, <<2, 3, 3>>, <<3, 4, 2>>,
                       <<4, 5, 1>>, <<5, 6, 2>>, <<6, 0, 1>>})
\* A graph that is refined once more after it has been balanced.
Skewed    == Weighted({<<0, 2, 1>>, <<0, 3, 1>>, <<0, 4, 1>>, <<0, 6, 3>>, <<1, 2, 2>>,
                       <<1, 3, 3>>, <<2, 3, 1>>, <<4, 6, 1>>, <<5, 6, 1>>})
Sevens    == <<6, 6, 2, 1, 1, 5, 6>>
MCInputGraphs ==
    LET even  == [d \in Parts |-> 1]
        skew  == [d \in Parts |-> IF d = 0 THEN 2 ELSE 1]
        heavy == [v \in 0..6 |-> IF v \in {0, 3} THEN 3 ELSE 1]
    IN  {[graph |-> GraphOf(w, ew), ratio |-> even] :
            w \in {Ones(7), heavy}, ew \in {Star, Triangles, Ring}}
        \cup {[graph |-> GraphOf(Ones(7), ew), ratio |-> skew] : ew \in {Star, Ring}}
        \cup {[graph |-> GraphOf([v \in 0..6 |-> Sevens[v + 1]], Skewed), ratio |-> skew],
              [graph |-> GraphOf([v \in 0..6 |-> 0], Ring), ratio |-> even]}
        \cup {[graph |-> GraphOf(Ones(4), Unit({})), ratio |-> even],
              [graph |-> GraphOf(Ones(3), Unit({<<0, 1>>, <<1, 2>>})), ratio |-> skew]}

MCEdgeLists == { << >>, << <<0, 1>>, <<1, 2>>, <<2, 3>>, <<3, 0>> >>,
                 << <<0, 1>>, <<0, 2>>, <<0, 3>>, <<0, 1>>, <<0, 0>>, <<1, 2>> >>,
                 << <<0, 1>>, <<0, 1>>, <<1, 0>>, <<2, 3>>, <<0, 1>>, <<1, 3>> >>,
                 [i \in 1..6 |-> <<0, 1>>] }
MCParams == {<<0, 1>>, <<1, 2>>, <<2, 1>>, <<4, 1>>}
MCWeightLists == { [v \in 0..3 |-> 1], [v \in 0..3 |-> 0],
                   [v \in 0..3 |-> IF v = 2 THEN 3 ELSE 1] }
=============================================================================
