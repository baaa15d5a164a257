---------------------------- MODULE MCOnlineStream ----------------------------
(* OnlineStream on every stream of a few events over a graph that gains a  *)
(* vertex after the first window.                                          *)
EXTENDS OnlineStream

CONSTANTS FirstSize,  \* num_nodes of the first window
          LastSize,   \* num_nodes of the later ones
          Events      \* the length of a stream

MCSizes == [w \in 1 .. Events |-> IF w = 1 THEN FirstSize ELSE LastSize]

Pair(size) == {p \in Vertex(size) \X Vertex(size) : p[1] < p[2]}

MCStreams == {st \in [1 .. Events -> Pair(LastSize)] :
                  \A e \in 1 .. WindowEdges : st[e] \in Pair(FirstSize)}
================================================================================
