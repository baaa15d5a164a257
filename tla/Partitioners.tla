----------------------------- MODULE Partitioners -----------------------------
(***************************************************************************)
(* The two partitioners of cpp/ that start from nothing: the multilevel    *)
(* one, which has the whole graph, and the streaming one, which sees it    *)
(* once.  A run of the program is a run of one of them.                    *)
(***************************************************************************)
EXTENDS MultilevelPartition, StreamingPartition

VARIABLE program         \* the kernel that was called

vars == <<program, mlVars, streamVars>>

\* The one that was not called rests on some input.
Init ==
    \/ /\ program = "multilevel" /\ MlInit
       /\ StreamInit /\ mode = "hdrf" /\ edges = << >>
       /\ vw = (CHOOSE w \in WeightLists : TRUE) /\ param = (CHOOSE q \in Params : TRUE)
    \/ /\ program = "streaming" /\ StreamInit
       /\ MlInit /\ ~twoHop
       /\ graphs = <<(CHOOSE i \in InputGraphs : TRUE).graph>>

Next == \/ program = "multilevel" /\ MlNext /\ UNCHANGED <<program, streamVars>>
        \/ program = "streaming" /\ StreamNext /\ UNCHANGED <<program, mlVars>>

Spec == Init /\ [][Next]_vars
=============================================================================
