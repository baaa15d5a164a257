-------------------------- MODULE ChangedConeProofs --------------------------
(***************************************************************************)
(* Proof that ChangedConeKernel implements EventDependency, for every      *)
(* stream, every hash function and every initial capacity: linear probing  *)
(* with growth is a dictionary, also in the middle of a call; and the      *)
(* table always has room, so that no probe loop spins.                     *)
(***************************************************************************)
EXTENDS ChangedConeKernel, FiniteSetTheorems, TLAPS

\* Probing from slot h to slot p, wrapping around, has passed slot q.
Passed(h, p, q) == IF h <= p THEN h <= q /\ q < p ELSE q >= h \/ q < p

Growing == phase \in {"rehash", "reinsert"}

\* The part of type correctness that the refinement rests on.
Shape ==
    /\ stream \in Seq(Vertices \X Vertices) /\ hash \in [Vertices -> Nat]
    /\ i \in Nat \ {0}
    /\ stage \in {"getU", "getV", "setU", "setV", "cone", "done"}
    /\ stage \in {"getU", "getV", "setU", "setV"} => i <= Len(stream)
    /\ stage \in {"cone", "done"} => i = Len(stream) + 1
    /\ phase \in {"size", "enter", "probe", "rehash", "reinsert"}
    /\ phase = "size" => \A q \in Slots : key[q] = Empty
    /\ phase = "size" => stage \in {"getU", "done"}
    /\ phase = "probe" => stage \in {"getU", "getV", "setU", "setV"}
    /\ Growing => stage \in {"setU", "setV"}
    /\ cap \in Nat \ {0}
    /\ key \in [Slots -> Vertices \cup {Empty}]
    /\ val \in [Slots -> Nat]
    /\ pos \in Nat
    /\ Probing => pos \in Slots

\* The old table while the slots move: its first j slots have been moved.
OldShape ==
    Growing =>
        /\ j \in Nat
        /\ \E n \in Nat : OldSlots = 0 .. n - 1 /\ j <= n
        /\ oldKey \in [OldSlots -> Vertices \cup {Empty}]
        /\ oldVal \in [OldSlots -> Nat]
        /\ phase = "reinsert" => j \in OldSlots /\ oldKey[j] # Empty
        /\ \A q \in OldSlots, r \in OldSlots :
               (oldKey[q] = oldKey[r] /\ oldKey[q] # Empty) => q = r
        /\ \A r \in Slots : key[r] # Empty =>
               \E q \in OldSlots : q < j /\ oldKey[q] = key[r]

\* No vertex is in the table twice.
OnceInTable ==
    \A q \in Slots, r \in Slots : (key[q] = key[r] /\ key[q] # Empty) => q = r

\* No free slot lies between the home of a vertex and its place.
Reachable ==
    \A q \in Slots, r \in Slots :
        (key[q] # Empty /\ Passed(Home(key[q]), q, r)) => key[r] # Empty

\* A probe loop has passed neither a free slot nor the vertex it looks for.
ProbeSound ==
    Probing => \A r \in Slots :
        Passed(Home(Sought), pos, r) => key[r] \notin {Empty, Sought}

\* The first get of an iteration is still valid at the second.
HeldResult == stage = "getV" => pu = Lookup(stream[i][1])

IInv == Shape /\ OldShape /\ OnceInTable /\ Reachable /\ ProbeSound /\ HeldResult

-----------------------------------------------------------------------------
(* Lemmas about probe paths.                                               *)

\* A lemma: hash & mask is a slot.
LEMMA HomeIsSlot ==
    ASSUME Shape, NEW w \in Vertices
    PROVE  Home(w) \in Slots
<1>1. hash[w] \in Nat /\ cap \in Nat \ {0}
  BY DEF Shape
<1> QED
  BY <1>1 DEF Home, Slots

\* A lemma: of two slots, a probe passes one on its way to the other.
LEMMA PassedTotal ==
    ASSUME NEW c \in Nat \ {0}, NEW h \in 0 .. c - 1,
           NEW p \in 0 .. c - 1, NEW q \in 0 .. c - 1, p # q
    PROVE  Passed(h, p, q) \/ Passed(h, q, p)
BY DEF Passed

\* A lemma: one turn of the probe loop passes the slot it leaves.
LEMMA PassedAdvance ==
    ASSUME Shape, NEW h \in Slots, NEW p \in Slots, NEW q \in Slots,
           Passed(h, Advance(p), q)
    PROVE  Advance(p) \in Slots /\ (Passed(h, p, q) \/ q = p)
<1>1. cap \in Nat \ {0}
  BY DEF Shape
<1>2. Advance(p) = IF p + 1 = cap THEN 0 ELSE p + 1
  BY <1>1 DEF Advance, Slots
<1> QED
  BY <1>1, <1>2 DEF Passed, Slots

\* A lemma: a probe that has not begun has passed nothing.
LEMMA PassedNothing ==
    ASSUME NEW c \in Nat, NEW h \in 0 .. c - 1, NEW q \in 0 .. c - 1
    PROVE  ~Passed(h, h, q)
BY DEF Passed

\* A lemma: the endpoints of the current event are vertices.
LEMMA Endpoints ==
    ASSUME Shape, NEW k \in 1 .. Len(stream)
    PROVE  stream[k][1] \in Vertices /\ stream[k][2] \in Vertices
<1>1. stream[k] \in Vertices \X Vertices
  BY DEF Shape
<1> QED
  BY <1>1

\* A lemma: a call is about a vertex.
LEMMA SubjectIsVertex ==
    ASSUME Shape, stage \in {"getU", "getV", "setU", "setV"}
    PROVE  Subject \in Vertices
<1>1. i \in 1 .. Len(stream)
  BY DEF Shape
<1> QED
  BY <1>1, Endpoints DEF Subject

\* A lemma: a probe loop looks for a vertex.
LEMMA SoughtIsVertex ==
    ASSUME Shape, OldShape, Probing
    PROVE  Sought \in Vertices
<1>1. CASE phase = "probe"
  BY <1>1, SubjectIsVertex DEF Sought, Shape
<1>2. CASE phase = "reinsert"
  <2>1. oldKey[j] \in Vertices \cup {Empty} /\ oldKey[j] # Empty
    BY <1>2 DEF OldShape, Growing
  <2> QED
    BY <1>2, <2>1 DEF Sought
<1> QED
  BY <1>1, <1>2 DEF Probing

\* A lemma: a probe that meets a free slot has shown the vertex absent.
LEMMA Absent ==
    ASSUME Shape, OldShape, Reachable, ProbeSound, Probing, key[pos] = Empty
    PROVE  \A q \in Slots : key[q] # Sought
<1> SUFFICES ASSUME NEW q \in Slots, key[q] = Sought
             PROVE  FALSE
  OBVIOUS
<1>1. Sought \in Vertices /\ Sought # Empty
  BY SoughtIsVertex, KernelAssumption DEF KernelAssumption
<1>2. Home(Sought) \in Slots /\ pos \in Slots /\ cap \in Nat \ {0}
  BY <1>1, HomeIsSlot DEF Shape
<1>3. q # pos
  BY <1>1
<1>4. ~Passed(Home(Sought), q, pos)
  BY <1>1, <1>2 DEF Reachable
<1>5. ~Passed(Home(Sought), pos, q)
  BY DEF ProbeSound
<1> QED
  BY <1>2, <1>3, <1>4, <1>5, PassedTotal DEF Slots

-----------------------------------------------------------------------------
(* Lemmas about what the table holds.                                      *)

\* A lemma: a vertex in the table has the value beside it.
LEMMA LookupPresent ==
    ASSUME OnceInTable, NEW q \in Slots, key[q] # Empty
    PROVE  Lookup(key[q]) = val[q]
BY DEF Lookup, OnceInTable

\* A lemma: one in the part of the old table still to move has its old value.
LEMMA LookupOld ==
    ASSUME OldShape, Growing, NEW q \in OldSlots, q >= j, oldKey[q] # Empty
    PROVE  /\ \A r \in Slots : key[r] # oldKey[q]
           /\ Lookup(oldKey[q]) = oldVal[q]
<1>1. \A r \in Slots : key[r] # oldKey[q]
  <2> SUFFICES ASSUME NEW r \in Slots, key[r] = oldKey[q]
               PROVE  FALSE
    OBVIOUS
  <2>1. PICK s \in OldSlots : s < j /\ oldKey[s] = key[r]
    BY DEF OldShape
  <2>2. s = q
    BY <2>1 DEF OldShape
  <2>3. s \in Int /\ j \in Int
    BY DEF OldShape
  <2> QED
    BY <2>1, <2>2, <2>3
<1> QED
  BY <1>1 DEF Lookup, OldShape, Growing

\* A lemma: any other vertex has not been seen.
LEMMA LookupNone ==
    ASSUME NEW w, \A q \in Slots : key[q] # w,
           Growing => \A q \in OldSlots : q >= j => oldKey[q] # w
    PROVE  Lookup(w) = Root
BY DEF Lookup, Growing

\* A lemma: what a lookup depends on.
LEMMA LookupKept ==
    ASSUME UNCHANGED <<table, oldKey, oldVal>>, Growing' <=> Growing,
           Growing => j' = j, NEW w
    PROVE  Lookup(w)' = Lookup(w)
<1>1. UNCHANGED <<cap, key, val, oldKey, oldVal>>
  BY DEF table
<1>2. (\E q \in OldSlots : q >= j /\ oldKey[q] = w)' <=>
          \E q \in OldSlots : q >= j' /\ oldKey[q] = w
  BY <1>1 DEF OldSlots
<1> QED
  BY <1>1, <1>2 DEF Lookup, Slots, OldSlots, Growing

\* A lemma: a step that keeps the pass and every lookup is a stutter of the
\* Python loop and keeps the result held between the two gets.
LEMMA Stutter ==
    ASSUME UNCHANGED pass, \A w \in Vertices : Lookup(w)' = Lookup(w),
           Shape, HeldResult
    PROVE  UNCHANGED Python!vars /\ HeldResult'
<1>1. UNCHANGED <<stream, i, ear, depth, cone, stage, pu>>
  BY DEF pass
<1>2. Turn' = Turn /\ Pending' = Pending
  BY <1>1 DEF Turn, Pending
<1>3. Seen' = Seen
  BY <1>1, <1>2 DEF Seen
<1>4. HeldResult'
  <2>1. stage = "getV" => stream[i][1] \in Vertices
    BY Endpoints DEF Shape
  <2> QED
    BY <1>1, <2>1 DEF HeldResult
<1> QED
  BY <1>1, <1>2, <1>3, <1>4 DEF Python!vars

-----------------------------------------------------------------------------
(* The steps that change neither the pass nor what the table holds.        *)

\* A lemma: a probe loop that begins at the home of a vertex is sound.
LEMMA ProbeBegins ==
    ASSUME Shape, NEW w \in Vertices, pos' = Home(w), hash' = hash, cap' = cap,
           key' = key, Sought' = w
    PROVE  pos' \in Slots' /\ ProbeSound'
<1>1. Home(w) \in Slots /\ cap \in Nat
  BY HomeIsSlot DEF Shape
<1>2. Home(Sought)' = Home(w) /\ Slots' = Slots
  BY DEF Home, Slots
<1>3. \A r \in Slots : ~Passed(Home(w), Home(w), r)
  BY <1>1, PassedNothing DEF Slots
<1> QED
  BY <1>1, <1>2, <1>3 DEF ProbeSound

\* A lemma: the table stays sound when nothing of it changes.
LEMMA TableKept ==
    ASSUME OnceInTable, Reachable, hash' = hash, UNCHANGED table
    PROVE  OnceInTable' /\ Reachable'
<1>1. UNCHANGED <<cap, key>> /\ Slots' = Slots
  BY DEF table, Slots
<1>2. \A w : Home(w)' = Home(w)
  BY <1>1 DEF Home
<1> QED
  BY <1>1, <1>2 DEF OnceInTable, Reachable

\* A lemma: a call begins.
LEMMA EnterCallStep ==
    ASSUME IInv, EnterCall
    PROVE  IInv' /\ UNCHANGED Python!vars
<1> USE DEF IInv
<1>1. /\ UNCHANGED pass /\ UNCHANGED table /\ UNCHANGED growing
      /\ phase = "enter" /\ phase' = "probe" /\ pos' = Home(Subject)
      /\ stage \in {"getU", "getV", "setU", "setV"}
  BY DEF EnterCall, StartProbe
<1>2. /\ UNCHANGED <<stream, hash, i, stage, cap, key, val, oldKey, oldVal, j>>
  BY <1>1 DEF pass, table, growing
<1>3. Subject \in Vertices /\ Sought' = Subject
  BY <1>1, <1>2, SubjectIsVertex DEF Sought, Subject
<1>4. pos' \in Slots' /\ ProbeSound'
  BY <1>1, <1>2, <1>3, ProbeBegins
<1>5. Shape'
  BY <1>1, <1>2, <1>4 DEF Shape, Slots, Growing, Probing
<1>6. OldShape' /\ OnceInTable' /\ Reachable'
  BY <1>1, <1>2, TableKept DEF OldShape, Growing
<1>7. \A w \in Vertices : Lookup(w)' = Lookup(w)
  BY <1>1, <1>2, LookupKept DEF Growing
<1> QED
  BY <1>1, <1>4, <1>5, <1>6, <1>7, Stutter

\* A lemma: the loop that sizes the empty table.
LEMMA WidenStep ==
    ASSUME IInv, Widen \/ Sized
    PROVE  IInv' /\ UNCHANGED Python!vars
<1> USE DEF IInv
<1>1. /\ UNCHANGED pass /\ UNCHANGED growing /\ UNCHANGED pos
      /\ phase = "size" /\ phase' \in {"size", "enter"} /\ stage # "done"
      /\ cap' \in {cap, 2 * cap} /\ cap \in Nat \ {0}
  BY DEF Widen, Sized, table, Shape
<1>2. /\ cap' \in Nat \ {0} /\ key' = [q \in 0 .. cap' - 1 |-> Empty]
      /\ val' \in [0 .. cap' - 1 -> Nat]
  <2>1. CASE Widen
    BY <1>1, <2>1 DEF Widen, Root
  <2>2. CASE Sized
    <3>1. key = [q \in Slots |-> Empty] /\ UNCHANGED <<key, val, cap>>
      BY <1>1, <2>2 DEF Shape, Sized, table
    <3> QED
      BY <1>1, <3>1 DEF Shape, Slots
  <2> QED
    BY <2>1, <2>2
<1>3. UNCHANGED <<stream, hash, i, stage>>
  BY <1>1 DEF pass
<1>4. Slots' = 0 .. cap' - 1 /\ \A q \in Slots' : key'[q] = Empty
  BY <1>2 DEF Slots
<1>5. Shape'
  BY <1>1, <1>2, <1>3, <1>4 DEF Shape, Growing, Probing
<1>6. OldShape' /\ OnceInTable' /\ Reachable' /\ ProbeSound'
  BY <1>1, <1>4 DEF OldShape, OnceInTable, Reachable, ProbeSound, Growing, Probing
<1>7. ASSUME NEW w \in Vertices
      PROVE  Lookup(w)' = Lookup(w)
  <2>1. w # Empty
    BY KernelAssumption DEF KernelAssumption
  <2>2. Lookup(w) = Root
    BY <1>1, <2>1, LookupNone DEF Shape, Growing
  <2>3. Lookup(w)' = Root
    BY <1>1, <1>4, <2>1 DEF Lookup, Root
  <2> QED
    BY <2>2, <2>3
<1> QED
  BY <1>1, <1>5, <1>6, <1>7, Stutter

\* A lemma: one slot of the old table is free and needs no move.
LEMMA SkipFreeSlotStep ==
    ASSUME IInv, SkipFreeSlot
    PROVE  IInv' /\ UNCHANGED Python!vars
<1> USE DEF IInv
<1>1. /\ UNCHANGED pass /\ UNCHANGED table /\ UNCHANGED <<oldKey, oldVal, pos, phase>>
      /\ phase = "rehash" /\ j \in OldSlots /\ oldKey[j] = Empty /\ j' = j + 1
  BY DEF SkipFreeSlot
<1>2. /\ UNCHANGED <<stream, hash, i, stage, cap, key, val>>
      /\ Slots' = Slots /\ OldSlots' = OldSlots
  BY <1>1 DEF pass, table, Slots, OldSlots
<1>3. Shape'
  BY <1>1, <1>2 DEF Shape, Growing, Probing
<1>4. OldShape'
  BY <1>1, <1>2 DEF OldShape, Growing
<1>5. OnceInTable' /\ Reachable' /\ ProbeSound'
  BY <1>1, <1>2, TableKept DEF ProbeSound, Probing
<1>6. ASSUME NEW w \in Vertices
      PROVE  Lookup(w)' = Lookup(w)
  <2>1. w # Empty
    BY KernelAssumption DEF KernelAssumption
  <2>2. \A q \in OldSlots : (q >= j + 1 /\ oldKey[q] = w) <=> (q >= j /\ oldKey[q] = w)
    BY <1>1, <2>1 DEF OldShape, Growing
  <2> QED
    BY <1>1, <1>2, <2>2 DEF Lookup, OldShape, Growing
<1> QED
  BY <1>1, <1>3, <1>4, <1>5, <1>6, Stutter

\* A lemma: one slot of the old table begins to move.
LEMMA ReinsertStep ==
    ASSUME IInv, Reinsert
    PROVE  IInv' /\ UNCHANGED Python!vars
<1> USE DEF IInv
<1>1. /\ UNCHANGED pass /\ UNCHANGED table /\ UNCHANGED growing
      /\ phase = "rehash" /\ j \in OldSlots /\ oldKey[j] # Empty
      /\ phase' = "reinsert" /\ pos' = Home(oldKey[j])
  BY DEF Reinsert
<1>2. UNCHANGED <<stream, hash, i, stage, cap, key, val, oldKey, oldVal, j>>
  BY <1>1 DEF pass, table, growing
<1>3. oldKey[j] \in Vertices /\ Sought' = oldKey[j]
  BY <1>1, <1>2 DEF OldShape, Growing, Sought
<1>4. pos' \in Slots' /\ ProbeSound'
  BY <1>2, <1>1, <1>3, ProbeBegins
<1>5. Shape'
  BY <1>1, <1>2, <1>4 DEF Shape, Slots, Growing, Probing
<1>6. OldShape' /\ OnceInTable' /\ Reachable'
  BY <1>1, <1>2, TableKept DEF OldShape, Growing, Slots, OldSlots
<1>7. \A w \in Vertices : Lookup(w)' = Lookup(w)
  BY <1>1, <1>2, LookupKept DEF Growing
<1> QED
  BY <1>1, <1>4, <1>5, <1>6, <1>7, Stutter

\* A lemma: everything has moved, and the set that grew the table goes on.
LEMMA ResumeSetStep ==
    ASSUME IInv, ResumeSet
    PROVE  IInv' /\ UNCHANGED Python!vars
<1> USE DEF IInv
<1>1. /\ UNCHANGED pass /\ UNCHANGED table /\ UNCHANGED growing
      /\ phase = "rehash" /\ j \notin OldSlots
      /\ phase' = "probe" /\ pos' = Home(Subject)
      /\ stage \in {"setU", "setV"}
  BY DEF ResumeSet, StartProbe, Shape, Growing
<1>2. UNCHANGED <<stream, hash, i, stage, cap, key, val, oldKey, oldVal, j>>
  BY <1>1 DEF pass, table, growing
<1>3. Subject \in Vertices /\ Sought' = Subject
  BY <1>1, <1>2, SubjectIsVertex DEF Sought, Subject
<1>4. pos' \in Slots' /\ ProbeSound'
  BY <1>1, <1>2, <1>3, ProbeBegins
<1>5. Shape'
  BY <1>1, <1>2, <1>4 DEF Shape, Slots, Growing, Probing
<1>6. OldShape' /\ OnceInTable' /\ Reachable'
  BY <1>1, <1>2, TableKept DEF OldShape, Growing
<1>7. \A q \in OldSlots : ~(q >= j)
  BY <1>1 DEF OldShape, Growing
<1>8. \A w \in Vertices : Lookup(w)' = Lookup(w)
  BY <1>1, <1>2, <1>7 DEF Lookup, Slots, Growing
<1> QED
  BY <1>1, <1>4, <1>5, <1>6, <1>8, Stutter

\* A lemma: a probe loop goes on past a slot of another vertex.
LEMMA ProbeOnStep ==
    ASSUME IInv, ProbeOn
    PROVE  IInv' /\ UNCHANGED Python!vars
<1> USE DEF IInv
<1>1. /\ UNCHANGED pass /\ UNCHANGED table /\ UNCHANGED growing
      /\ Probing /\ key[pos] \notin {Empty, Sought}
      /\ phase' = phase /\ pos' = Advance(pos)
  BY DEF ProbeOn
<1>2. /\ UNCHANGED <<stream, hash, i, stage, cap, key, val, oldKey, oldVal, j>>
      /\ Slots' = Slots
  BY <1>1 DEF pass, table, growing, Slots
<1>3. Sought \in Vertices /\ Sought' = Sought
  BY <1>1, <1>2, SoughtIsVertex DEF Sought, Subject
<1>4. pos \in Slots /\ Home(Sought) \in Slots /\ Home(Sought)' = Home(Sought)
  BY <1>1, <1>2, <1>3, HomeIsSlot DEF Shape, Home
<1>5. pos' \in Slots
  BY <1>1, <1>4 DEF Advance, Slots, Shape
<1>6. ProbeSound'
  <2> SUFFICES ASSUME NEW r \in Slots, Passed(Home(Sought), Advance(pos), r)
               PROVE  key[r] \notin {Empty, Sought}
    BY <1>1, <1>2, <1>3, <1>4 DEF ProbeSound
  <2>1. Passed(Home(Sought), pos, r) \/ r = pos
    BY <1>4, PassedAdvance
  <2> QED
    BY <1>1, <2>1 DEF ProbeSound
<1>7. Shape'
  BY <1>1, <1>2, <1>5, SMTT(60) DEF Shape, Slots, Growing, Probing
<1>8. OldShape' /\ OnceInTable' /\ Reachable'
  BY <1>1, <1>2, TableKept DEF OldShape, Growing, OldSlots
<1>9. \A w \in Vertices : Lookup(w)' = Lookup(w)
  BY <1>1, <1>2, LookupKept DEF Growing
<1> QED
  BY <1>1, <1>6, <1>7, <1>8, <1>9, Stutter

\* A lemma: the table is set aside and a free one of twice the size begun.
LEMMA GrowStep ==
    ASSUME IInv, Grow
    PROVE  IInv' /\ UNCHANGED Python!vars
<1> USE DEF IInv
<1>1. /\ UNCHANGED pass /\ UNCHANGED pos
      /\ phase = "enter" /\ phase' = "rehash" /\ stage \in {"setU", "setV"}
      /\ oldKey' = key /\ oldVal' = val /\ j' = 0 /\ cap' = 2 * cap
      /\ key' = [q \in 0 .. 2 * cap - 1 |-> Empty]
      /\ val' = [q \in 0 .. 2 * cap - 1 |-> Root]
  BY DEF Grow, FirstSlot
<1>2. UNCHANGED <<stream, hash, i, stage>>
  BY <1>1 DEF pass
<1>3. cap \in Nat \ {0} /\ cap' \in Nat \ {0} /\ Slots' = 0 .. 2 * cap - 1
  BY <1>1 DEF Shape, Slots
<1>4. OldSlots' = Slots /\ Slots = 0 .. cap - 1
  BY <1>1 DEF Shape, OldSlots, Slots
<1>5. Shape'
  BY <1>1, <1>2, <1>3 DEF Shape, Growing, Probing, Root
<1>6. OldShape'
  <2>1. OldSlots' = 0 .. cap - 1 /\ j' <= cap /\ cap \in Nat /\ j' \in Nat
    BY <1>1, <1>3, <1>4
  <2>2. /\ oldKey' \in [OldSlots' -> Vertices \cup {Empty}]
        /\ oldVal' \in [OldSlots' -> Nat]
    BY <1>1, <1>4 DEF Shape
  <2>3. \A q \in OldSlots', r \in OldSlots' :
            (oldKey'[q] = oldKey'[r] /\ oldKey'[q] # Empty) => q = r
    BY <1>1, <1>4 DEF OnceInTable
  <2>4. \A r \in Slots' : key'[r] = Empty
    BY <1>1, <1>3
  <2> QED
    BY <1>1, <2>1, <2>2, <2>3, <2>4 DEF OldShape
<1>7. OnceInTable' /\ Reachable' /\ ProbeSound'
  BY <1>1, <1>3 DEF OnceInTable, Reachable, ProbeSound, Probing
<1>8. ASSUME NEW w \in Vertices
      PROVE  Lookup(w)' = Lookup(w)
  <2>1. \A q \in Slots' : key'[q] # w
    BY <1>1, <1>3, KernelAssumption DEF KernelAssumption
  <2>2. \A q \in Slots : q >= 0
    BY <1>4
  <2>3. Lookup(w)' = IF \E q \in Slots : q >= 0 /\ key[q] = w
                     THEN val[CHOOSE q \in Slots : q >= 0 /\ key[q] = w] ELSE Root
    BY <1>1, <1>4, <2>1 DEF Lookup, Root
  <2>4. CASE \E q \in Slots : key[q] = w
    <3>1. PICK r \in Slots : key[r] = w
      BY <2>4
    <3>2. w # Empty
      BY KernelAssumption DEF KernelAssumption
    <3>3. \A q \in Slots : key[q] = w => q = r
      BY <3>1, <3>2 DEF OnceInTable
    <3>4. Lookup(w) = val[r]
      BY <3>1, <3>2, LookupPresent
    <3> QED
      BY <2>2, <2>3, <3>1, <3>3, <3>4
  <2>5. CASE ~\E q \in Slots : key[q] = w
    BY <1>1, <2>3, <2>5 DEF Lookup
  <2> QED
    BY <2>4, <2>5
<1> QED
  BY <1>1, <1>5, <1>6, <1>7, <1>8, Stutter

-----------------------------------------------------------------------------
(* The steps that read or write the table.                                 *)

\* A lemma: a get returns what the table holds for its vertex.
LEMMA GetIsLookup ==
    ASSUME IInv, AtEnd, phase = "probe"
    PROVE  Found = Lookup(Subject)
<1> USE DEF IInv
<1>1. Sought = Subject /\ Sought \in Vertices /\ Sought # Empty
  BY SoughtIsVertex, KernelAssumption DEF Sought, KernelAssumption, AtEnd
<1>2. pos \in Slots
  BY DEF Shape, AtEnd
<1>3. CASE key[pos] = Sought
  BY <1>1, <1>2, <1>3, LookupPresent DEF Found
<1>4. CASE key[pos] = Empty
  <2>1. \A q \in Slots : key[q] # Sought
    BY <1>4, Absent DEF AtEnd
  <2>2. Lookup(Subject) = Root
    BY <1>1, <2>1, LookupNone DEF Growing
  <2> QED
    BY <1>1, <1>4, <2>2 DEF Found
<1> QED
  BY <1>3, <1>4 DEF AtEnd

\* A lemma: a step to the start of another call keeps the table sound.
LEMMA NextCall ==
    ASSUME IInv, AtEnd, phase = "probe", phase' = "enter", UNCHANGED table,
           UNCHANGED <<stream, hash, i, pos, oldKey, oldVal, j>>,
           stage' \in {"getV", "setU", "setV"}
    PROVE  /\ Shape' /\ OldShape' /\ OnceInTable' /\ Reachable' /\ ProbeSound'
           /\ \A w \in Vertices : Lookup(w)' = Lookup(w)
<1> USE DEF IInv
<1>1. UNCHANGED <<cap, key, val, count>> /\ Slots' = Slots
  BY DEF table, Slots
<1>2. Shape'
  BY <1>1 DEF Shape, Growing, Probing
<1>3. OldShape' /\ OnceInTable' /\ Reachable' /\ ProbeSound'
  BY TableKept DEF OldShape, Growing, ProbeSound, Probing
<1>4. \A w \in Vertices : Lookup(w)' = Lookup(w)
  BY LookupKept DEF Growing
<1> QED
  BY <1>2, <1>3, <1>4

\* A lemma: the first get of an iteration.
LEMMA GetUStep ==
    ASSUME IInv, GetU
    PROVE  IInv' /\ UNCHANGED Python!vars
<1>1. /\ stage = "getU" /\ AtEnd /\ phase = "probe"
      /\ pu' = Found /\ stage' = "getV" /\ phase' = "enter"
      /\ UNCHANGED table /\ UNCHANGED growing
      /\ UNCHANGED <<stream, hash, i, ear, depth, cone, pos>>
  BY DEF GetU, IInv, Shape, Growing, AtEnd, Probing
<1>2. UNCHANGED <<oldKey, oldVal, j>>
  BY <1>1 DEF growing
<1>3. /\ Shape' /\ OldShape' /\ OnceInTable' /\ Reachable' /\ ProbeSound'
      /\ \A w \in Vertices : Lookup(w)' = Lookup(w)
  BY <1>1, <1>2, NextCall
<1>4. Subject = stream[i][1] /\ Subject \in Vertices
  BY <1>1, SubjectIsVertex DEF Subject, IInv
<1>5. HeldResult'
  BY <1>1, <1>3, <1>4, GetIsLookup DEF HeldResult
<1>6. Pending = {} /\ Pending' = {} /\ Turn' = Turn
  BY <1>1 DEF Pending, Turn
<1>7. Seen' = Seen
  BY <1>3, <1>6 DEF Seen
<1> QED
  BY <1>1, <1>3, <1>5, <1>6, <1>7 DEF IInv, Python!vars

\* A lemma: the second get, with the ear written after it, is the iteration
\* of the Python loop.
LEMMA GetVStep ==
    ASSUME IInv, GetV
    PROVE  IInv' /\ Python!Link
<1>1. /\ stage = "getV" /\ AtEnd /\ phase = "probe"
      /\ ear' = Append(ear, Predecessor(pu, Found))
      /\ depth' = Append(depth, DepthAbove(Predecessor(pu, Found)))
      /\ stage' = "setU" /\ phase' = "enter"
      /\ UNCHANGED table /\ UNCHANGED growing
      /\ UNCHANGED <<stream, hash, i, cone, pu, pos>>
  BY DEF GetV, IInv, Shape, Growing, AtEnd, Probing
<1>2. UNCHANGED <<oldKey, oldVal, j>>
  BY <1>1 DEF growing
<1>3. /\ Shape' /\ OldShape' /\ OnceInTable' /\ Reachable' /\ ProbeSound'
      /\ \A w \in Vertices : Lookup(w)' = Lookup(w)
  BY <1>1, <1>2, NextCall
<1>4. HeldResult'
  BY <1>1 DEF HeldResult
<1>5. i \in 1 .. Len(stream)
  BY <1>1 DEF IInv, Shape
<1>6. stream[i][1] \in Vertices /\ stream[i][2] \in Vertices
  BY <1>5, Endpoints DEF IInv
<1>7. Turn = i /\ Turn' = i + 1 /\ Pending = {}
      /\ Pending' = {stream[i][1], stream[i][2]}
  BY <1>1 DEF Turn, Pending
<1>8. Seen = [w \in Vertices |-> Lookup(w)]
  BY <1>7 DEF Seen
<1>9. pu = Seen[stream[i][1]] /\ Found = Seen[stream[i][2]]
  BY <1>1, <1>6, <1>8, GetIsLookup DEF IInv, HeldResult, Subject
<1>10. Seen' = [w \in Vertices |-> IF Python!Touches(Turn, w) THEN Turn ELSE Seen[w]]
  BY <1>1, <1>3, <1>7, <1>8 DEF Seen, Python!Touches
<1>11. Python!Link
  BY <1>1, <1>5, <1>7, <1>9, <1>10
     DEF Python!Link, Python!Predecessor, Python!DepthAbove, Python!Root,
         Predecessor, DepthAbove, Root
<1> QED
  BY <1>3, <1>4, <1>11 DEF IInv

\* A lemma: a write at the end of a probe keeps the table sound, and
\* changes what it holds for the written vertex only.
LEMMA PutSound ==
    ASSUME IInv, AtEnd, Put, hash' = hash, Stored \in Nat
    PROVE  /\ Slots' = Slots /\ OnceInTable' /\ Reachable'
           /\ key' \in [Slots' -> Vertices \cup {Empty}] /\ val' \in [Slots' -> Nat]
           /\ pos \in Slots /\ key'[pos] = Sought /\ val'[pos] = Stored
           /\ \A q \in Slots : q # pos => key'[q] = key[q] /\ val'[q] = val[q]
           /\ \A q \in Slots : key'[q] = Sought => q = pos
           /\ key[pos] # Sought => \A q \in Slots : key[q] # Sought
<1> USE DEF IInv
<1>1. /\ pos \in Slots /\ Slots' = Slots /\ cap' = cap /\ cap \in Nat \ {0}
      /\ key \in [Slots -> Vertices \cup {Empty}] /\ val \in [Slots -> Nat]
  BY DEF Put, Shape, AtEnd, Slots
<1>2. Sought \in Vertices /\ Sought # Empty
  BY SoughtIsVertex, KernelAssumption DEF KernelAssumption, AtEnd
<1>3. /\ key' = [key EXCEPT ![pos] = Sought]
      /\ val' = [val EXCEPT ![pos] = Stored]
  BY DEF Put
<1>4. /\ key'[pos] = Sought /\ val'[pos] = Stored
      /\ \A q \in Slots : q # pos => key'[q] = key[q] /\ val'[q] = val[q]
      /\ key' \in [Slots' -> Vertices \cup {Empty}] /\ val' \in [Slots' -> Nat]
  BY <1>1, <1>2, <1>3
<1>5. key[pos] # Sought => \A q \in Slots : key[q] # Sought
  BY Absent DEF AtEnd
<1>6. \A q \in Slots : key'[q] = Sought => q = pos
  <2>1. \A q \in Slots : q # pos => key[q] # Sought
    BY <1>1, <1>2, <1>5 DEF OnceInTable
  <2> QED
    BY <1>4, <2>1
<1>7. OnceInTable'
  BY <1>1, <1>4, <1>6 DEF OnceInTable
<1>8. Reachable'
  <2>1. \A w : Home(w)' = Home(w)
    BY <1>1 DEF Home
  <2> SUFFICES ASSUME NEW q \in Slots, NEW r \in Slots, key'[q] # Empty,
                      Passed(Home(key'[q]), q, r)
               PROVE  key'[r] # Empty
    BY <1>1, <2>1 DEF Reachable
  <2>2. key[r] # Empty => key'[r] # Empty
    BY <1>1, <1>2, <1>4
  <2>3. CASE q # pos
    BY <1>4, <2>2, <2>3 DEF Reachable
  <2>4. CASE q = pos
    BY <1>4, <2>2, <2>4 DEF ProbeSound, AtEnd
  <2> QED
    BY <2>3, <2>4
<1> QED
  BY <1>1, <1>4, <1>5, <1>6, <1>7, <1>8

\* A lemma: what a set changes of what the table holds.
LEMMA PutLookup ==
    ASSUME IInv, AtEnd, Put, hash' = hash, Stored \in Nat,
           phase = "probe", phase' = "enter"
    PROVE  /\ \A w \in Vertices : w = Sought => Lookup(w)' = Stored
           /\ \A w \in Vertices : w # Sought => Lookup(w)' = Lookup(w)
<1>1. /\ Slots' = Slots /\ pos \in Slots /\ key'[pos] = Sought /\ val'[pos] = Stored
      /\ \A q \in Slots : q # pos => key'[q] = key[q] /\ val'[q] = val[q]
      /\ \A q \in Slots : key'[q] = Sought => q = pos
  BY PutSound
<1>2. \A w : Lookup(w)' = IF \E q \in Slots : key'[q] = w
                          THEN val'[CHOOSE q \in Slots : key'[q] = w] ELSE Root
  BY <1>1 DEF Lookup, Root
<1>3. \A w : Lookup(w) = IF \E q \in Slots : key[q] = w
                         THEN val[CHOOSE q \in Slots : key[q] = w] ELSE Root
  BY DEF Lookup
<1>4. ASSUME NEW w \in Vertices, w # Sought
      PROVE  Lookup(w)' = Lookup(w)
  <2>1. w # Empty
    BY KernelAssumption DEF KernelAssumption
  <2>2. key[pos] # w
    BY <1>4, <2>1 DEF AtEnd
  <2>3. \A q \in Slots : key'[q] = w <=> key[q] = w
    BY <1>1, <1>4, <2>2
  <2>4. CASE \E q \in Slots : key[q] = w
    <3>1. PICK q \in Slots : key[q] = w
      BY <2>4
    <3>2. \A r \in Slots : key[r] = w => r = q
      BY <2>1, <3>1 DEF IInv, OnceInTable
    <3>3. val'[q] = val[q]
      BY <1>1, <2>2, <3>1
    <3> QED
      BY <1>2, <1>3, <2>3, <3>1, <3>2, <3>3
  <2>5. CASE ~\E q \in Slots : key[q] = w
    BY <1>2, <1>3, <2>3, <2>5
  <2> QED
    BY <2>4, <2>5
<1>5. ASSUME NEW w \in Vertices, w = Sought
      PROVE  Lookup(w)' = Stored
  BY <1>1, <1>2, <1>5
<1> QED
  BY <1>4, <1>5

\* A lemma: one slot of the old table has moved.
LEMMA PutOldStep ==
    ASSUME IInv, PutOld
    PROVE  IInv' /\ UNCHANGED Python!vars
<1>1. /\ UNCHANGED pass /\ UNCHANGED <<pos, oldKey, oldVal>>
      /\ phase = "reinsert" /\ phase' = "rehash" /\ j' = j + 1
      /\ AtEnd /\ Put /\ cap' = cap
      /\ Sought = oldKey[j] /\ Stored = oldVal[j]
  BY DEF PutOld, Put, Sought, Stored
<1>2. UNCHANGED <<stream, hash, i, stage>> /\ OldSlots' = OldSlots
  BY <1>1 DEF pass, OldSlots
<1>3. /\ j \in OldSlots /\ j \in Nat /\ oldKey[j] # Empty /\ oldVal[j] \in Nat
      /\ \E n \in Nat : OldSlots = 0 .. n - 1 /\ j <= n
      /\ \A q \in OldSlots, r \in OldSlots :
             (oldKey[q] = oldKey[r] /\ oldKey[q] # Empty) => q = r
      /\ \A r \in Slots : key[r] # Empty =>
             \E q \in OldSlots : q < j /\ oldKey[q] = key[r]
  BY <1>1 DEF IInv, OldShape, Growing
<1>4. /\ Slots' = Slots /\ OnceInTable' /\ Reachable'
      /\ key' \in [Slots' -> Vertices \cup {Empty}] /\ val' \in [Slots' -> Nat]
      /\ pos \in Slots /\ key'[pos] = Sought /\ val'[pos] = Stored
      /\ \A q \in Slots : q # pos => key'[q] = key[q] /\ val'[q] = val[q]
      /\ \A q \in Slots : key'[q] = Sought => q = pos
  BY <1>1, <1>2, <1>3, PutSound
<1>5. key[pos] = Empty /\ \A r \in Slots : key[r] # oldKey[j]
  <2>1. \A r \in Slots : key[r] # oldKey[j]
    BY <1>1, <1>3, LookupOld DEF IInv, Growing
  <2> QED
    BY <1>1, <1>4, <2>1 DEF AtEnd
<1>6. Shape'
  BY <1>1, <1>2, <1>4 DEF IInv, Shape, Growing, Probing
<1>7. OldShape'
  <2>1. \E n \in Nat : OldSlots = 0 .. n - 1 /\ j + 1 <= n
    BY <1>3
  <2>2. ASSUME NEW r \in Slots, key'[r] # Empty
        PROVE  \E q \in OldSlots : q < j + 1 /\ oldKey[q] = key'[r]
    <3>1. CASE r = pos
      BY <1>1, <1>3, <1>4, <3>1
    <3>2. CASE r # pos
      <4>1. PICK q \in OldSlots : q < j /\ oldKey[q] = key[r]
        BY <1>3, <1>4, <2>2, <3>2
      <4>2. q < j + 1
        BY <1>3, <4>1
      <4> QED
        BY <1>4, <3>2, <4>1, <4>2
    <3> QED
      BY <3>1, <3>2
  <2>3. oldKey \in [OldSlots -> Vertices \cup {Empty}] /\ oldVal \in [OldSlots -> Nat]
    BY <1>1 DEF IInv, OldShape, Growing
  <2>4. /\ \E n \in Nat : OldSlots' = 0 .. n - 1 /\ j' <= n
        /\ j' \in Nat /\ phase' # "reinsert"
    BY <1>1, <1>2, <1>3, <2>1
  <2>5. \A r \in Slots' : key'[r] # Empty =>
            \E q \in OldSlots' : q < j' /\ oldKey'[q] = key'[r]
    BY <1>1, <1>2, <1>4, <2>2
  <2>6. \A q \in OldSlots', r \in OldSlots' :
            (oldKey'[q] = oldKey'[r] /\ oldKey'[q] # Empty) => q = r
    BY <1>1, <1>2, <1>3
  <2>7. /\ oldKey' \in [OldSlots' -> Vertices \cup {Empty}]
        /\ oldVal' \in [OldSlots' -> Nat]
    BY <1>1, <1>2, <2>3
  <2> QED
    BY <2>4, <2>5, <2>6, <2>7 DEF OldShape
<1>8. ProbeSound'
  BY <1>1 DEF ProbeSound, Probing
<1>9. ASSUME NEW w \in Vertices
      PROVE  Lookup(w)' = Lookup(w)
  <2>1. w # Empty /\ Growing /\ Growing'
    BY <1>1, KernelAssumption DEF KernelAssumption, Growing
  <2>2. CASE w = oldKey[j]
    <3>1. Lookup(w) = oldVal[j]
      BY <1>3, <2>1, <2>2, LookupOld DEF IInv
    <3>2. Lookup(w)' = oldVal[j]
      BY <1>1, <1>4, <2>2 DEF Lookup
    <3> QED
      BY <3>1, <3>2
  <2>3. CASE \E q \in Slots : key[q] = w
    <3>1. PICK q \in Slots : key[q] = w
      BY <2>3
    <3>2. q # pos /\ key'[q] = w /\ val'[q] = val[q]
      BY <1>4, <1>5, <2>1, <3>1
    <3>3. \A r \in Slots : key'[r] = w => r = q
      BY <1>4, <2>1, <3>2 DEF OnceInTable
    <3>4. Lookup(w)' = val[q]
      BY <1>4, <3>2, <3>3 DEF Lookup
    <3>5. Lookup(w) = val[q]
      BY <2>1, <3>1, LookupPresent DEF IInv
    <3> QED
      BY <3>4, <3>5
  <2>4. CASE w # oldKey[j] /\ ~\E q \in Slots : key[q] = w
    <3>1. \A q \in Slots : key'[q] # w
      BY <1>1, <1>4, <2>4
    <3>2. \A q \in OldSlots : (q >= j + 1 /\ oldKey[q] = w) <=> (q >= j /\ oldKey[q] = w)
      BY <1>3, <2>4
    <3>3. Lookup(w)' = IF \E q \in OldSlots : q >= j /\ oldKey[q] = w
                       THEN oldVal[CHOOSE q \in OldSlots : q >= j /\ oldKey[q] = w]
                       ELSE Root
      <4>1. Lookup(w)' = IF \E q \in OldSlots : q >= j + 1 /\ oldKey[q] = w
                         THEN oldVal[CHOOSE q \in OldSlots : q >= j + 1 /\ oldKey[q] = w]
                         ELSE Root
        BY <1>1, <1>2, <1>4, <3>1 DEF Lookup, Root
      <4>2. CASE \E q \in OldSlots : q >= j /\ oldKey[q] = w
        <5>1. PICK q \in OldSlots : q >= j /\ oldKey[q] = w
          BY <4>2
        <5>2. \A r \in OldSlots : oldKey[r] = w => r = q
          BY <1>3, <2>1, <5>1
        <5> QED
          BY <3>2, <4>1, <5>1, <5>2
      <4>3. CASE ~\E q \in OldSlots : q >= j /\ oldKey[q] = w
        BY <3>2, <4>1, <4>3
      <4> QED
        BY <4>2, <4>3
    <3>4. Lookup(w) = IF \E q \in OldSlots : q >= j /\ oldKey[q] = w
                      THEN oldVal[CHOOSE q \in OldSlots : q >= j /\ oldKey[q] = w]
                      ELSE Root
      BY <1>1, <2>4 DEF Lookup
    <3> QED
      BY <3>3, <3>4
  <2> QED
    BY <2>2, <2>3, <2>4
<1> QED
  BY <1>1, <1>4, <1>6, <1>7, <1>8, <1>9, Stutter DEF IInv

\* A lemma: what a set of an endpoint keeps sound.
LEMMA SetKeeps ==
    ASSUME IInv, AtEnd, Put, phase = "probe", phase' = "enter",
           stage \in {"setU", "setV"}, UNCHANGED <<stream, hash, pos, growing>>,
           \/ stage = "setU" /\ i' = i /\ stage' = "setV"
           \/ /\ stage = "setV" /\ i' = i + 1
              /\ stage' = IF i < Len(stream) THEN "getU" ELSE "cone"
    PROVE  /\ IInv'
           /\ \A w \in Vertices : w = Subject => Lookup(w)' = i
           /\ \A w \in Vertices : w # Subject => Lookup(w)' = Lookup(w)
<1>1. /\ Sought = Subject /\ Stored = i /\ i \in Nat
      /\ i <= Len(stream) /\ Len(stream) \in Nat /\ cap' = cap
  BY DEF Sought, Stored, IInv, Shape, Put
<1>2. /\ Slots' = Slots /\ OnceInTable' /\ Reachable'
      /\ key' \in [Slots' -> Vertices \cup {Empty}] /\ val' \in [Slots' -> Nat]
      /\ pos \in Slots
  BY <1>1, PutSound
<1>3. Shape'
  <2>1. /\ i' \in Nat \ {0} /\ stage' \in {"getU", "setV", "cone"}
        /\ stage' \in {"getU", "setV"} => i' <= Len(stream)
        /\ stage' = "cone" => i' = Len(stream) + 1
    BY <1>1 DEF IInv, Shape
  <2>2. /\ stream' = stream /\ hash' = hash /\ pos' = pos /\ cap' = cap
        /\ phase' = "enter"
    BY <1>1
  <2> QED
    BY <1>2, <2>1, <2>2 DEF IInv, Shape, Growing, Probing
<1>4. OldShape' /\ ProbeSound' /\ HeldResult'
  BY DEF OldShape, ProbeSound, HeldResult, Growing, Probing
<1>5. /\ \A w \in Vertices : w = Subject => Lookup(w)' = i
      /\ \A w \in Vertices : w # Subject => Lookup(w)' = Lookup(w)
  BY <1>1, PutLookup
<1> QED
  BY <1>2, <1>3, <1>4, <1>5 DEF IInv

\* A lemma: the first set of an iteration was done in the Python loop.
LEMMA SetUStep ==
    ASSUME IInv, SetU
    PROVE  IInv' /\ UNCHANGED Python!vars
<1>1. /\ stage = "setU" /\ phase = "probe" /\ AtEnd /\ Put
      /\ stage' = "setV" /\ phase' = "enter"
      /\ UNCHANGED <<stream, hash, i, ear, depth, cone, pu, pos, growing>>
  BY DEF SetU
<1>2. /\ IInv'
      /\ \A w \in Vertices : w = Subject => Lookup(w)' = i
      /\ \A w \in Vertices : w # Subject => Lookup(w)' = Lookup(w)
  BY <1>1, SetKeeps
<1>3. Subject = stream[i][1] /\ Turn' = Turn
      /\ Pending = {stream[i][1], stream[i][2]} /\ Pending' = {stream[i][2]}
  BY <1>1 DEF Subject, Turn, Pending
<1>4. Seen' = Seen
  BY <1>1, <1>2, <1>3 DEF Seen
<1> QED
  BY <1>1, <1>2, <1>3, <1>4 DEF Python!vars

\* A lemma: so was the second.
LEMMA SetVStep ==
    ASSUME IInv, SetV
    PROVE  IInv' /\ UNCHANGED Python!vars
<1>1. /\ stage = "setV" /\ phase = "probe" /\ AtEnd /\ Put
      /\ i' = i + 1 /\ phase' = "enter"
      /\ stage' = IF i < Len(stream) THEN "getU" ELSE "cone"
      /\ UNCHANGED <<stream, hash, ear, depth, cone, pu, pos, growing>>
  BY DEF SetV
<1>2. /\ IInv'
      /\ \A w \in Vertices : w = Subject => Lookup(w)' = i
      /\ \A w \in Vertices : w # Subject => Lookup(w)' = Lookup(w)
  BY <1>1, SetKeeps
<1>3. Subject = stream[i][2] /\ Turn' = Turn
      /\ Pending = {stream[i][2]} /\ Pending' = {}
  BY <1>1 DEF Subject, Turn, Pending
<1>4. Seen' = Seen
  BY <1>1, <1>2, <1>3 DEF Seen
<1> QED
  BY <1>1, <1>2, <1>3, <1>4 DEF Python!vars

\* A lemma: the cone is collected as in the Python function.
LEMMA CollectStep ==
    ASSUME IInv, Collect
    PROVE  IInv' /\ Python!Collect
<1>1. /\ stage = "cone" /\ stage' = "done"
      /\ UNCHANGED <<stream, hash, i, ear, depth, pu, phase, pos, table, growing>>
      /\ cone' = {stream[k][1] : k \in 1 .. Len(stream)}
                 \cup {stream[k][2] : k \in 1 .. Len(stream)}
  BY DEF Collect
<1>2. /\ UNCHANGED <<cap, key, val, oldKey, oldVal, j>>
      /\ i = Len(stream) + 1 /\ Len(stream) \in Nat
  BY <1>1 DEF table, growing, IInv, Shape
<1>3. phase = "enter"
  BY <1>1 DEF IInv, Shape, Growing
<1>4. /\ Shape' /\ OldShape' /\ OnceInTable' /\ Reachable'
      /\ ProbeSound' /\ HeldResult'
  <2>1. Shape'
    BY <1>1, <1>2, <1>3 DEF IInv, Shape, Slots, Growing, Probing
  <2>2. OldShape' /\ ProbeSound' /\ HeldResult'
    BY <1>1, <1>3 DEF OldShape, ProbeSound, HeldResult, Growing, Probing
  <2>3. OnceInTable' /\ Reachable'
    BY <1>1, TableKept DEF IInv
  <2> QED
    BY <2>1, <2>2, <2>3
<1>5. \A w \in Vertices : Lookup(w)' = Lookup(w)
  BY <1>1, <1>2, LookupKept DEF Growing
<1>6. Turn = i /\ Turn' = i /\ Pending = {} /\ Pending' = {}
  BY <1>1 DEF Turn, Pending
<1>7. Seen' = Seen
  BY <1>1, <1>5, <1>6 DEF Seen
<1>8. cone' = {w \in Vertices : \E k \in 1 .. Len(stream) : Python!Touches(k, w)}
  BY <1>1, Endpoints DEF IInv, Python!Touches
<1>9. Turn > Len(stream)
  BY <1>2, <1>6
<1>10. UNCHANGED <<stream, Turn, Seen, ear, depth>>
  BY <1>1, <1>6, <1>7
<1> QED
  BY <1>4, <1>8, <1>9, <1>10 DEF IInv, Python!Collect

-----------------------------------------------------------------------------
(* The refinement.                                                         *)

\* A lemma: the kernel starts where the Python function does.
LEMMA InitStep == Init => IInv /\ Python!Init
<1> SUFFICES ASSUME Init
             PROVE  IInv /\ Python!Init
  OBVIOUS
<1>1. /\ stream \in Seq(Vertices \X Vertices) /\ hash \in [Vertices -> Nat]
      /\ i = 1 /\ phase = "size" /\ stage \in {"getU", "done"}
      /\ stage = "done" => stream = << >>
      /\ stage = "getU" => stream # << >>
      /\ cap \in Nat \ {0} /\ pos = 0
      /\ key = [q \in Slots |-> Empty] /\ val = [q \in Slots |-> Root]
  BY KernelAssumption DEF Init, KernelAssumption
<1>2. /\ stage = "done" => Len(stream) = 0
      /\ stage = "getU" => 1 <= Len(stream)
  BY <1>1
<1>3. Shape
  BY <1>1, <1>2 DEF Shape, Growing, Probing, Root
<1>4. OldShape /\ OnceInTable /\ Reachable /\ ProbeSound /\ HeldResult
  BY <1>1 DEF OldShape, OnceInTable, Reachable, ProbeSound, HeldResult, Growing, Probing
<1>5. Seen = [w \in Vertices |-> Root] /\ Turn = 1
  <2>1. \A w \in Vertices : Lookup(w) = Root
    BY <1>1, KernelAssumption DEF Lookup, KernelAssumption
  <2> QED
    BY <1>1, <2>1 DEF Seen, Pending, Turn
<1> QED
  BY <1>1, <1>3, <1>4, <1>5 DEF IInv, Python!Init, Python!Root, Root, Init

\* A lemma: every step is a step or a stutter of the Python loop.
LEMMA NextStep == IInv /\ [Next]_vars => IInv' /\ [Python!Next]_(Python!vars)
<1> SUFFICES ASSUME IInv, [Next]_vars
             PROVE  IInv' /\ [Python!Next]_(Python!vars)
  OBVIOUS
<1>1. CASE UNCHANGED vars
  <2>1. UNCHANGED pass /\ UNCHANGED table /\ UNCHANGED <<phase, pos>> /\ UNCHANGED growing
    BY <1>1 DEF vars
  <2>2. UNCHANGED <<stream, hash, i, stage, cap, key, val, oldKey, oldVal, j>>
    BY <2>1 DEF pass, table, growing
  <2>3. \A w \in Vertices : Lookup(w)' = Lookup(w)
    BY <2>1, <2>2, LookupKept DEF Growing
  <2>4. Shape'
    BY <2>1, <2>2 DEF IInv, Shape, Slots, Growing, Probing
  <2>5. OldShape'
    BY <2>1, <2>2 DEF IInv, OldShape, Slots, OldSlots, Growing
  <2>6. OnceInTable' /\ Reachable'
    BY <2>1, <2>2, TableKept DEF IInv
  <2>7. ProbeSound'
    BY <2>1, <2>2 DEF IInv, ProbeSound, Probing, Slots, Home, Sought, Subject
  <2> QED
    BY <2>1, <2>3, <2>4, <2>5, <2>6, <2>7, Stutter DEF IInv
<1>2. CASE Widen \/ Sized
  BY <1>2, WidenStep
<1>3. CASE EnterCall
  BY <1>3, EnterCallStep
<1>4. CASE Grow
  BY <1>4, GrowStep
<1>5. CASE SkipFreeSlot
  BY <1>5, SkipFreeSlotStep
<1>6. CASE Reinsert
  BY <1>6, ReinsertStep
<1>7. CASE ResumeSet
  BY <1>7, ResumeSetStep
<1>8. CASE ProbeOn
  BY <1>8, ProbeOnStep
<1>9. CASE GetU
  BY <1>9, GetUStep
<1>10. CASE GetV
  BY <1>10, GetVStep DEF Python!Next
<1>11. CASE PutOld
  BY <1>11, PutOldStep
<1>12. CASE SetU
  BY <1>12, SetUStep
<1>13. CASE SetV
  BY <1>13, SetVStep
<1>14. CASE Collect
  BY <1>14, CollectStep DEF Python!Next
<1> QED
  BY <1>1, <1>2, <1>3, <1>4, <1>5, <1>6, <1>7, <1>8, <1>9, <1>10, <1>11,
     <1>12, <1>13, <1>14 DEF Next

\* The table is never wrong about a vertex: its slots are unique and can be
\* reached, whatever collides and however often it grows.
THEOREM TableSound == Spec => [](OnceInTable /\ Reachable)
<1>1. IInv => OnceInTable /\ Reachable
  BY DEF IInv
<1>2. Init => IInv
  BY InitStep
<1>3. IInv /\ [Next]_vars => IInv'
  BY NextStep
<1> QED
  BY <1>1, <1>2, <1>3, PTL DEF Spec

\* For every stream, hash function and initial capacity the C++ kernel
\* computes the ears, depths and cone of the Python loop.
THEOREM Refinement == Spec => ImplementsPythonLoop
<1>1. Init => IInv /\ Python!Init
  BY InitStep
<1>2. IInv /\ [Next]_vars => IInv' /\ [Python!Next]_(Python!vars)
  BY NextStep
<1>3. Spec => Python!Init /\ [][Python!Next]_(Python!vars)
  BY <1>1, <1>2, PTL DEF Spec
<1> QED
  BY <1>3 DEF ImplementsPythonLoop, Python!Spec

-----------------------------------------------------------------------------
(* What was proved of the Python loop holds of the kernel.                 *)

Loop == INSTANCE EventDependencyProofs WITH i <- Turn, lastSeen <- Seen

\* A lemma: a step of the Python loop keeps its invariant, which the kernel
\* therefore has from its first state on.
LEMMA LoopInvariant ==
    /\ Python!Init => Loop!IInv
    /\ Loop!IInv /\ [Python!Next]_(Python!vars) => Loop!IInv'
<1>1. Python!Init => Loop!Init
  BY DEF Python!Init, Loop!Init, Python!Root, Loop!Root
<1>2. [Python!Next]_(Python!vars) => [Loop!Next]_(Loop!vars)
  BY DEF Python!Next, Python!Link, Python!Collect, Python!vars, Python!Touches,
         Python!Predecessor, Python!DepthAbove, Python!Root,
         Loop!Next, Loop!Link, Loop!Collect, Loop!vars, Loop!Touches,
         Loop!Predecessor, Loop!DepthAbove, Loop!Root
<1> QED
  BY <1>1, <1>2, Loop!InitInvariant, Loop!NextInvariant

\* A lemma: the kernel's own wording of a right ear is that of the loop.
LEMMA EarsAgree ==
    ASSUME Loop!IInv
    PROVE  EarIsLatestSharedEvent
<1> SUFFICES ASSUME NEW k \in DOMAIN ear
             PROVE  LET Shared == {m \in 1 .. k - 1 :
                                      \E w \in {stream[m][1], stream[m][2]} :
                                          w \in {stream[k][1], stream[k][2]}}
                    IN  /\ ear[k] \in Shared \cup {Root}
                        /\ \A m \in Shared : m <= ear[k]
  BY DEF EarIsLatestSharedEvent
<1>1. /\ stream \in Seq(Vertices \X Vertices) /\ Turn \in 1 .. Len(stream) + 1
      /\ ear \in Seq(Nat) /\ Len(ear) = Turn - 1 /\ Len(stream) \in Nat
      /\ \A m \in 1 .. Turn - 1 : ear[m] < m
  <2>1. /\ stream \in Seq(Vertices \X Vertices) /\ Turn \in 1 .. Len(stream) + 1
        /\ ear \in Seq(Nat) /\ Len(ear) = Turn - 1
        /\ \A m \in 1 .. Turn - 1 : ear[m] < m
    BY Zenon DEF Loop!IInv, Loop!TypeOK
  <2> QED
    BY <2>1
<1>2. k \in 1 .. Turn - 1 /\ k \in Nat /\ ear[k] \in Nat /\ ear[k] < k /\ k \in 1 .. Len(stream)
  BY <1>1
<1>3. /\ ear[k] # 0 => Loop!Shares(ear[k], k)
      /\ \A m \in 1 .. k - 1 : Loop!Shares(m, k) => m <= ear[k]
  BY DEF Loop!IInv, Loop!EarIsLatestSharedEvent, Loop!Root
<1>4. ASSUME NEW m \in 1 .. k - 1
      PROVE  Loop!Shares(m, k) <=> \E w \in {stream[m][1], stream[m][2]} :
                                      w \in {stream[k][1], stream[k][2]}
  <2>1. m \in 1 .. Len(stream)
    BY <1>2
  <2>2. stream[m] \in Vertices \X Vertices
    BY <1>1, <2>1
  <2> QED
    BY <2>2 DEF Loop!Shares, Loop!Touches
<1>5. ear[k] = Root \/ (ear[k] \in 1 .. k - 1 /\ Loop!Shares(ear[k], k))
  BY <1>2, <1>3 DEF Root
<1> QED
  BY <1>3, <1>4, <1>5

\* The ear the kernel writes is the latest earlier event that shares an
\* endpoint, for every stream, hash function and initial capacity.
THEOREM KernelEarsAreRight == Spec => []EarIsLatestSharedEvent
<1>1. Init => IInv /\ Loop!IInv
  BY InitStep, LoopInvariant
<1>2. IInv /\ Loop!IInv /\ [Next]_vars => IInv' /\ Loop!IInv'
  BY NextStep, LoopInvariant
<1> QED
  BY <1>1, <1>2, EarsAgree, PTL DEF Spec

-----------------------------------------------------------------------------
(* A table never fills up, so a probe loop ends.                           *)

Used    == {q \in Slots : key[q] # Empty}
\* The slots of the old table that are still to move.
Waiting == {q \in OldSlots : q >= j /\ oldKey[q] # Empty}

\* The table is at most half full, and at most a quarter while it grows, what
\* is still to come included; a set that has begun to probe has a slot for it.
RoomInv ==
    /\ count = Cardinality(Used) /\ 2 * count <= cap
    /\ Growing => cap >= 2 /\ 4 * (count + Cardinality(Waiting)) <= cap
    /\ phase = "probe" /\ stage \in {"setU", "setV"} => ~Overfull

\* A lemma: the sets that are counted are finite.
LEMMA CountsAreFinite ==
    ASSUME Shape
    PROVE  /\ IsFiniteSet(Slots) /\ IsFiniteSet(Used) /\ Cardinality(Used) \in Nat
           /\ Growing /\ OldShape => IsFiniteSet(Waiting) /\ Cardinality(Waiting) \in Nat
<1>1. IsFiniteSet(Slots)
  <2>1. 0 \in Int /\ cap - 1 \in Int
    BY DEF Shape
  <2> QED
    BY <2>1, FS_Interval DEF Slots
<1>2. IsFiniteSet(Used) /\ Cardinality(Used) \in Nat
  BY <1>1, FS_Subset, FS_CardinalityType DEF Used
<1>3. ASSUME Growing, OldShape
      PROVE  IsFiniteSet(Waiting) /\ Cardinality(Waiting) \in Nat
  <2>1. PICK n \in Nat : OldSlots = 0 .. n - 1
    BY <1>3 DEF OldShape
  <2>2. IsFiniteSet(OldSlots)
    <3>1. 0 \in Int /\ n - 1 \in Int
      OBVIOUS
    <3> QED
      BY <2>1, <3>1, FS_Interval
  <2> QED
    BY <2>2, FS_Subset, FS_CardinalityType DEF Waiting
<1> QED
  BY <1>1, <1>2, <1>3

\* A lemma: a table that is empty uses no slot.
LEMMA NothingUsed ==
    ASSUME \A q \in Slots : key[q] = Empty
    PROVE  Used = {} /\ Cardinality(Used) = 0
<1>1. Used = {}
  BY DEF Used
<1> QED
  BY <1>1, FS_EmptySet

\* A lemma: a write takes up at most one more slot, and is counted.
LEMMA PutCounts ==
    ASSUME IInv, AtEnd, Put, hash' = hash, Stored \in Nat, count = Cardinality(Used)
    PROVE  count' = Cardinality(Used)' /\ count' \in Nat /\ count' <= count + 1
<1>1. /\ Slots' = Slots /\ pos \in Slots /\ key'[pos] = Sought
      /\ \A q \in Slots : q # pos => key'[q] = key[q]
  BY PutSound
<1>2. Sought # Empty
  BY SoughtIsVertex, KernelAssumption DEF KernelAssumption, AtEnd, IInv
<1>3. IsFiniteSet(Used) /\ Cardinality(Used) \in Nat
  BY CountsAreFinite DEF IInv
<1>4. count' = IF key[pos] = Empty THEN count + 1 ELSE count
  BY DEF Put
<1>5. CASE key[pos] = Empty
  <2>1. Used' = Used \cup {pos} /\ pos \notin Used
    BY <1>1, <1>2, <1>5 DEF Used
  <2>2. Cardinality(Used \cup {pos}) = Cardinality(Used) + 1
    BY <1>3, <2>1, FS_AddElement
  <2> QED
    BY <1>3, <1>4, <1>5, <2>1, <2>2
<1>6. CASE key[pos] # Empty
  <2>1. Used' = Used
    BY <1>1, <1>2, <1>6 DEF Used
  <2> QED
    BY <1>3, <1>4, <1>6, <2>1
<1> QED
  BY <1>5, <1>6

\* A lemma: a step that leaves the table, and what waits, alone.
LEMMA RoomKept ==
    ASSUME IInv, RoomInv, UNCHANGED table,
           Growing' => Growing /\ Waiting' = Waiting,
           phase' = "probe" /\ stage' \in {"setU", "setV"} => ~Overfull
    PROVE  RoomInv'
<1>1. cap' = cap /\ key' = key /\ count' = count /\ Used' = Used /\ Overfull' = Overfull
  BY DEF table, Used, Slots, Overfull
<1> QED
  BY <1>1 DEF RoomInv

\* A lemma: a get reads the table.
LEMMA GetKeepsRoom ==
    ASSUME IInv, RoomInv, GetU \/ GetV
    PROVE  RoomInv'
<1>1. UNCHANGED table /\ phase' = "enter"
  BY DEF GetU, GetV
<1> QED
  BY <1>1, RoomKept DEF Growing

\* A lemma: a call begins with room for what it sets.
LEMMA CallsHaveRoom ==
    ASSUME IInv, RoomInv, EnterCall \/ Sized \/ Collect
    PROVE  RoomInv'
<1>1. CASE EnterCall
  <2>1. UNCHANGED table /\ UNCHANGED pass /\ phase' = "probe"
    BY <1>1 DEF EnterCall, StartProbe
  <2>2. stage' \in {"setU", "setV"} => ~Overfull
    BY <1>1, <2>1 DEF EnterCall, pass
  <2> QED
    BY <2>1, <2>2, RoomKept DEF Growing
<1>2. CASE Sized
  BY <1>2, RoomKept DEF Sized, Growing
<1>3. CASE Collect
  <2>1. UNCHANGED table /\ phase' = phase /\ stage' = "done" /\ stage = "cone"
    BY <1>3 DEF Collect
  <2>2. ~Growing
    BY <2>1 DEF IInv, Shape
  <2> QED
    BY <2>1, <2>2, RoomKept DEF Growing
<1> QED
  BY <1>1, <1>2, <1>3

\* A lemma: the table that is sized is empty.
LEMMA WidenKeepsRoom ==
    ASSUME IInv, RoomInv, Widen
    PROVE  RoomInv'
<1>1. /\ cap' = 2 * cap /\ count' = 0 /\ key' = [q \in 0 .. 2 * cap - 1 |-> Empty]
      /\ phase' = "size" /\ cap \in Nat
  BY DEF Widen, IInv, Shape
<1>2. Slots' = 0 .. 2 * cap - 1
  BY <1>1 DEF Slots
<1>3. Used' = {}
  BY <1>1, <1>2 DEF Used
<1>4. Cardinality(Used') = 0
  BY <1>3, FS_EmptySet
<1> QED
  BY <1>1, <1>4 DEF RoomInv, Growing

\* A lemma: a table that grows has a quarter of its slots to fill at most.
LEMMA GrowMakesRoom ==
    ASSUME IInv, RoomInv, Grow
    PROVE  RoomInv'
<1>1. /\ cap' = 2 * cap /\ count' = 0 /\ key' = [q \in 0 .. 2 * cap - 1 |-> Empty]
      /\ phase' = "rehash" /\ oldKey' = key /\ j' = 0
      /\ cap \in Nat \ {0} /\ key \in [Slots -> Vertices \cup {Empty}]
  BY DEF Grow, FirstSlot, IInv, Shape
<1>2. Slots' = 0 .. 2 * cap - 1 /\ Slots = 0 .. cap - 1
  BY <1>1 DEF Slots
<1>3. Used' = {}
  BY <1>1, <1>2 DEF Used
<1>4. Cardinality(Used') = 0
  BY <1>3, FS_EmptySet
<1>5. Waiting' = Used
  BY <1>1, <1>2 DEF Waiting, OldSlots, Used
<1>6. Cardinality(Used) = count /\ Cardinality(Used) \in Nat /\ 2 * count <= cap
  BY CountsAreFinite DEF RoomInv, IInv
<1>7. cap' >= 2 /\ 4 * (count' + Cardinality(Waiting')) <= cap' /\ 2 * count' <= cap'
  BY <1>1, <1>5, <1>6
<1> QED
  BY <1>1, <1>4, <1>7 DEF RoomInv

\* A lemma: a free slot of the old table does not wait.
LEMMA SkipKeepsRoom ==
    ASSUME IInv, RoomInv, SkipFreeSlot
    PROVE  RoomInv'
<1>1. /\ UNCHANGED table /\ oldKey' = oldKey /\ phase = "rehash" /\ phase' = "rehash"
      /\ j' = j + 1 /\ j \in OldSlots /\ oldKey[j] = Empty
  BY DEF SkipFreeSlot
<1>2. PICK n \in Nat : OldSlots = 0 .. n - 1
  BY <1>1 DEF IInv, OldShape, Growing
<1>3. OldSlots' = OldSlots
  BY <1>1 DEF OldSlots
<1>4. \A q \in OldSlots : q >= j + 1 /\ oldKey[q] # Empty <=> q >= j /\ oldKey[q] # Empty
  BY <1>1, <1>2
<1>5. Waiting' = Waiting
  BY <1>1, <1>3, <1>4 DEF Waiting
<1> QED
  BY <1>1, <1>5, RoomKept DEF Growing

\* A lemma: while a vertex of the old table waits, the new one is not full:
\* growing never makes the table grow once more.
LEMMA WaitingHasRoom ==
    ASSUME IInv, RoomInv, Growing, j \in OldSlots, oldKey[j] # Empty
    PROVE  Cardinality(Waiting) >= 1 /\ ~Overfull
<1>1. /\ IsFiniteSet(Waiting) /\ Cardinality(Waiting) \in Nat
      /\ count \in Nat /\ 4 * (count + Cardinality(Waiting)) <= cap /\ cap \in Nat
  BY CountsAreFinite DEF IInv, RoomInv, Shape
<1>2. j \in Waiting
  <2>1. j \in Nat
    BY DEF IInv, OldShape
  <2> QED
    BY <2>1 DEF Waiting
<1>3. Cardinality(Waiting) # 0
  BY <1>1, <1>2, FS_EmptySet
<1> QED
  BY <1>1, <1>3 DEF Overfull

\* A lemma: a vertex begins to move, or to be set when all have moved.
LEMMA MovesHaveRoom ==
    ASSUME IInv, RoomInv, Reinsert \/ ResumeSet
    PROVE  RoomInv'
<1>1. CASE Reinsert
  <2>1. /\ UNCHANGED table /\ UNCHANGED growing /\ phase = "rehash" /\ phase' = "reinsert"
    BY <1>1 DEF Reinsert
  <2>2. Waiting' = Waiting
    BY <2>1 DEF growing, Waiting, OldSlots
  <2> QED
    BY <2>1, <2>2, RoomKept DEF Growing
<1>2. CASE ResumeSet
  <2>1. UNCHANGED table /\ phase = "rehash" /\ phase' = "probe"
    BY <1>2 DEF ResumeSet, StartProbe
  <2>2. /\ Cardinality(Waiting) \in Nat /\ count \in Nat /\ cap \in Nat /\ cap >= 2
        /\ 4 * (count + Cardinality(Waiting)) <= cap
    BY <2>1, CountsAreFinite DEF IInv, RoomInv, Shape, Growing
  <2>3. ~Overfull
    BY <2>2 DEF Overfull
  <2> QED
    BY <2>1, <2>3, RoomKept DEF Growing
<1> QED
  BY <1>1, <1>2

\* A lemma: the table does not change while a loop probes it.
LEMMA ProbeKeepsRoom ==
    ASSUME IInv, RoomInv, ProbeOn
    PROVE  RoomInv'
<1>1. UNCHANGED table /\ UNCHANGED pass /\ UNCHANGED growing /\ phase' = phase
  BY DEF ProbeOn
<1>2. Waiting' = Waiting /\ stage' = stage
  BY <1>1 DEF growing, pass, Waiting, OldSlots
<1> QED
  BY <1>1, <1>2, RoomKept DEF Growing, RoomInv

\* A lemma: a vertex that has moved takes its slot and waits no more.
LEMMA PutOldKeepsRoom ==
    ASSUME IInv, RoomInv, PutOld
    PROVE  RoomInv'
<1>1. /\ phase = "reinsert" /\ phase' = "rehash" /\ AtEnd /\ Put /\ j' = j + 1
      /\ UNCHANGED pass /\ oldKey' = oldKey
  BY DEF PutOld
<1>2. /\ Growing /\ j \in OldSlots /\ oldKey[j] # Empty /\ hash' = hash
      /\ cap' = cap /\ cap \in Nat
  BY <1>1 DEF Growing, IInv, OldShape, pass, Put, Shape
<1>3. Stored \in Nat
  <2>1. Stored = oldVal[j] /\ oldVal \in [OldSlots -> Nat]
    BY <1>1, <1>2 DEF Stored, IInv, OldShape
  <2> QED
    BY <1>2, <2>1
<1>4. count' = Cardinality(Used)' /\ count' \in Nat /\ count' <= count + 1
  BY <1>1, <1>2, <1>3, PutCounts DEF RoomInv
<1>5. PICK n \in Nat : OldSlots = 0 .. n - 1
  BY <1>2 DEF IInv, OldShape
<1>6. Waiting' = Waiting \ {j} /\ j \in Waiting
  <2>1. OldSlots' = OldSlots
    BY <1>1 DEF OldSlots
  <2>2. \A q \in OldSlots : q >= j + 1 <=> q >= j /\ q # j
    BY <1>2, <1>5
  <2>3. j >= j
    BY <1>2, <1>5
  <2> QED
    BY <1>1, <1>2, <2>1, <2>2, <2>3 DEF Waiting
<1>7. /\ IsFiniteSet(Waiting) /\ Cardinality(Waiting) \in Nat /\ count \in Nat
      /\ 4 * (count + Cardinality(Waiting)) <= cap /\ cap >= 2
  BY <1>2, CountsAreFinite DEF IInv, RoomInv
<1>8. Cardinality(Waiting') = Cardinality(Waiting) - 1
  BY <1>6, <1>7, FS_RemoveElement
<1>9. /\ 4 * (count' + Cardinality(Waiting')) <= cap' /\ cap' >= 2 /\ 2 * count' <= cap'
  <2>1. Cardinality(Waiting) >= 1
    BY <1>2, WaitingHasRoom
  <2> QED
    BY <1>2, <1>4, <1>7, <1>8, <2>1
<1> QED
  BY <1>1, <1>4, <1>9 DEF RoomInv

\* A lemma: a set had room for its vertex.
LEMMA SetKeepsRoom ==
    ASSUME IInv, RoomInv, SetU \/ SetV
    PROVE  RoomInv'
<1>1. /\ phase = "probe" /\ phase' = "enter" /\ AtEnd /\ Put /\ hash' = hash
      /\ stage \in {"setU", "setV"}
  BY DEF SetU, SetV
<1>2. Stored \in Nat /\ cap' = cap /\ cap \in Nat /\ count \in Nat /\ ~Overfull
  BY <1>1, CountsAreFinite DEF Stored, IInv, Shape, Put, RoomInv
<1>3. count' = Cardinality(Used)' /\ count' \in Nat /\ count' <= count + 1
  BY <1>1, <1>2, PutCounts DEF RoomInv
<1>4. 2 * count' <= cap'
  BY <1>2, <1>3 DEF Overfull
<1> QED
  BY <1>1, <1>3, <1>4 DEF RoomInv, Growing

\* A lemma: the table begins empty.
LEMMA InitHasRoom == Init => RoomInv
<1> SUFFICES ASSUME Init PROVE RoomInv
  OBVIOUS
<1>1. /\ phase = "size" /\ count = 0 /\ cap \in Nat /\ key = [q \in Slots |-> Empty]
  BY KernelAssumption DEF Init, KernelAssumption
<1>2. Cardinality(Used) = 0
  BY <1>1, NothingUsed
<1> QED
  BY <1>1, <1>2 DEF RoomInv, Growing

\* A lemma: every step keeps room.
LEMMA RoomStep == IInv /\ RoomInv /\ [Next]_vars => RoomInv'
<1> SUFFICES ASSUME IInv, RoomInv, [Next]_vars PROVE RoomInv'
  OBVIOUS
<1>1. CASE UNCHANGED vars
  <2>1. UNCHANGED table /\ UNCHANGED pass /\ UNCHANGED growing /\ phase' = phase
    BY <1>1 DEF vars
  <2>2. Waiting' = Waiting /\ stage' = stage
    BY <2>1 DEF growing, pass, Waiting, OldSlots
  <2> QED
    BY <2>1, <2>2, RoomKept DEF Growing, RoomInv
<1>2. CASE GetU \/ GetV
  BY <1>2, GetKeepsRoom
<1>3. CASE EnterCall \/ Sized \/ Collect
  BY <1>3, CallsHaveRoom
<1>4. CASE Widen
  BY <1>4, WidenKeepsRoom
<1>5. CASE Grow
  BY <1>5, GrowMakesRoom
<1>6. CASE SkipFreeSlot
  BY <1>6, SkipKeepsRoom
<1>7. CASE Reinsert \/ ResumeSet
  BY <1>7, MovesHaveRoom
<1>8. CASE ProbeOn
  BY <1>8, ProbeKeepsRoom
<1>9. CASE PutOld
  BY <1>9, PutOldKeepsRoom
<1>10. CASE SetU \/ SetV
  BY <1>10, SetKeepsRoom
<1> QED
  BY <1>1, <1>2, <1>3, <1>4, <1>5, <1>6, <1>7, <1>8, <1>9, <1>10 DEF Next
\* How many turns a probe loop has taken: the slots it has passed.
Turns == Cardinality({q \in Slots : Passed(Home(Sought), pos, q)})

\* A lemma: a table with room has a free slot.
LEMMA SomeSlotIsFree ==
    ASSUME IInv, RoomInv
    PROVE  \E q \in Slots : key[q] = Empty
<1> SUFFICES ASSUME \A q \in Slots : key[q] # Empty
             PROVE  FALSE
  OBVIOUS
<1>1. Used = Slots /\ cap \in Nat \ {0} /\ count = Cardinality(Used) /\ 2 * count <= cap
  BY DEF Used, IInv, Shape, RoomInv
<1>2. Cardinality(Slots) = cap
  <2>1. 0 \in Int /\ cap - 1 \in Int /\ ~(0 > cap - 1) /\ (cap - 1) - 0 + 1 = cap
    BY <1>1
  <2>2. Cardinality(0 .. cap - 1) = (cap - 1) - 0 + 1
    BY <2>1, FS_Interval
  <2> QED
    BY <2>1, <2>2 DEF Slots
<1> QED
  BY <1>1, <1>2

\* A lemma: the slots a probe loop has passed are used.
LEMMA TurnsAreBounded ==
    ASSUME IInv, RoomInv, Probing
    PROVE  Turns <= count /\ Turns \in Nat
<1> DEFINE seen == {q \in Slots : Passed(Home(Sought), pos, q)}
<1>1. seen \in SUBSET Used
  BY DEF IInv, ProbeSound, Used
<1>2. IsFiniteSet(Used) /\ count = Cardinality(Used)
  BY CountsAreFinite DEF IInv, RoomInv
<1>3. Cardinality(seen) <= Cardinality(Used) /\ Cardinality(seen) \in Nat
  BY <1>1, <1>2, FS_Subset, FS_CardinalityType
<1> QED
  BY <1>2, <1>3 DEF Turns

\* A lemma: a turn of a probe loop passes one more slot, since the loop does not
\* come back to where it began: it would have passed every slot, and one is free.
LEMMA TurnsAddUp ==
    ASSUME IInv, RoomInv, ProbeOn
    PROVE  Turns' = Turns + 1
<1> DEFINE h == Home(Sought)
           seen == {q \in Slots : Passed(h, pos, q)}
<1>1. /\ Probing /\ key[pos] # Empty /\ pos' = Advance(pos)
      /\ UNCHANGED pass /\ UNCHANGED table /\ UNCHANGED growing /\ phase' = phase
  BY DEF ProbeOn
<1>2. Slots' = Slots /\ Home(Sought)' = h
  BY <1>1 DEF pass, table, growing, Slots, Home, Sought, Subject
<1>3. h \in Slots /\ pos \in Slots /\ cap \in Nat \ {0}
  BY <1>1, SoughtIsVertex, HomeIsSlot DEF IInv, Shape
<1>4. \A q \in Slots : Passed(h, pos, q) => key[q] # Empty
  BY <1>1 DEF IInv, ProbeSound
<1> HIDE DEF h
<1>5. Advance(pos) = IF pos + 1 = cap THEN 0 ELSE pos + 1
  BY <1>3 DEF Advance, Slots
<1>6. Advance(pos) # h
  <2> SUFFICES ASSUME Advance(pos) = h
               PROVE  FALSE
    OBVIOUS
  <2>1. \A q \in Slots : q = pos \/ Passed(h, pos, q)
    BY <1>3, <1>5 DEF Passed, Slots
  <2> QED
    BY <1>1, <1>4, <2>1, SomeSlotIsFree
<1>7. \A q \in Slots : Passed(h, Advance(pos), q) <=> Passed(h, pos, q) \/ q = pos
  BY <1>3, <1>5, <1>6 DEF Passed, Slots
<1>8. ~Passed(h, pos, pos)
  BY <1>3 DEF Passed, Slots
<1>9. Turns' = Cardinality(seen \cup {pos}) /\ Turns = Cardinality(seen)
  <2>1. {q \in Slots : Passed(h, Advance(pos), q)} = seen \cup {pos}
    BY <1>3, <1>7
  <2>2. Turns' = Cardinality({q \in Slots : Passed(h, Advance(pos), q)})
    BY <1>1, <1>2 DEF Turns
  <2> QED
    BY <2>1, <2>2 DEF Turns, h
<1>10. IsFiniteSet(seen) /\ pos \notin seen
  BY <1>8, CountsAreFinite, FS_Subset DEF IInv
<1> QED
  BY <1>9, <1>10, FS_AddElement

\* What grow() relies on: the count is exact, the table is half free, and
\* moving the slots of an outgrown table never makes the new one grow.
HasRoom ==
    /\ count = Cardinality(Used) /\ 2 * count <= cap
    /\ phase = "rehash" /\ j \in OldSlots /\ oldKey[j] # Empty => ~Overfull

\* For every stream, hash function and initial capacity, the load factor is
\* one half at most, so that the guard of Reinsert is never false.
THEOREM TableHasRoom == Spec => []HasRoom
<1>1. Init => IInv /\ RoomInv
  BY InitStep, InitHasRoom
<1>2. IInv /\ RoomInv /\ [Next]_vars => IInv' /\ RoomInv'
  BY NextStep, RoomStep
<1>3. IInv /\ RoomInv => HasRoom
  BY WaitingHasRoom DEF HasRoom, RoomInv, Growing
<1> QED
  BY <1>1, <1>2, <1>3, PTL DEF Spec

\* No probe loop spins, whatever collides: its turns add up, and there are no
\* more of them than vertices in the table.
THEOREM ProbesEnd == Spec => /\ [](Probing => Turns <= count)
                             /\ [][ProbeOn => Turns' = Turns + 1]_vars
<1>1. Init => IInv /\ RoomInv
  BY InitStep, InitHasRoom
<1>2. IInv /\ RoomInv /\ [Next]_vars => IInv' /\ RoomInv'
  BY NextStep, RoomStep
<1>3. IInv /\ RoomInv => (Probing => Turns <= count)
  BY TurnsAreBounded
<1>4. IInv /\ RoomInv /\ [Next]_vars => [ProbeOn => Turns' = Turns + 1]_vars
  BY TurnsAddUp
<1> QED
  BY <1>1, <1>2, <1>3, <1>4, PTL DEF Spec
=============================================================================
