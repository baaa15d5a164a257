------------------------- MODULE MCChangedConeKernel -------------------------
(* ChangedConeKernel on every short stream up to the names of its vertices *)
(* and on some longer ones that go on after the table has grown.           *)
EXTENDS ChangedConeKernel

\* Up to three events over up to six vertices, each new one the next number.
Canonical(s) ==
    \A k \in 1 .. 2 * Len(s) :
        LET at(m) == s[(m + 1) \div 2][IF m % 2 = 1 THEN 1 ELSE 2]
        IN  \A w \in 0 .. at(k) - 1 : \E m \in 1 .. k - 1 : at(m) = w
ShortStreams == {s \in UNION {[1 .. n -> (0 .. 5) \X (0 .. 5)] : n \in 0 .. 3} : Canonical(s)}

\* Four events that take eight slots, then two events of any sort.
Ends == {0, 3, 7, 8}
LongStreams == {<<<<0, 1>>, <<2, 3>>, <<4, 5>>, <<6, 7>>, e, f>> :
                    e \in Ends \X Ends, f \in Ends \X Ends}

MCStreams == ShortStreams \cup LongStreams

\* In a table of eight slots the homes 7 and 0 are neighbours across the end
\* of the table; growing to sixteen, or to thirty-two, parts some of them.
MCHashes == {[w \in Vertices |-> CASE w < 4 -> h[w] [] w = 4 -> 31 [] OTHER -> 8] :
                 h \in [0 .. 3 -> {8, 15}]}

MCInit == stream \in MCStreams /\ hash \in MCHashes /\ Init
MCSpec == MCInit /\ [][Next]_vars /\ WF_vars(Next)
=============================================================================
