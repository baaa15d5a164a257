-------------------------- MODULE ChangedConeKernel --------------------------
(***************************************************************************)
(* cpp/changed_cone.cpp, the C++ form of build_event_dependency.  The      *)
(* dictionary of the Python loop is an open-addressing hash table with     *)
(* linear probing that doubles when it is half full.  A step is one turn   *)
(* of a probe loop or of the loop that moves the slots of a table that     *)
(* grows.  Positions of events count from 1, slots from 0.                 *)
(***************************************************************************)
EXTENDS Integers, Sequences, FiniteSets

CONSTANTS Vertices, Empty,     \* Empty marks a free slot (-1)
          MinCapacity          \* capacity of the smallest table (16)

ASSUME KernelAssumption ==
    /\ Empty \notin Vertices
    /\ MinCapacity \in Nat \ {0}

VARIABLES stream, hash,        \* the input
          i, ear, depth, cone, \* of the forward pass
          stage,               \* the call the pass is in
          phase,               \* where that call is
          pu,                  \* last.get(u)
          cap, key, val, count,      \* the table
          pos,                       \* the slot a probe loop is at
          oldKey, oldVal, j          \* ok, ov and j of grow()

table   == <<cap, key, val, count>>
growing == <<oldKey, oldVal, j>>
pass    == <<stream, hash, i, ear, depth, cone, stage, pu>>
vars    == <<pass, phase, pos, table, growing>>

Root == 0
Slots == 0 .. cap - 1
OldSlots == DOMAIN oldKey

Home(w) == hash[w] % cap

\* Seeded fault: the probe skips every other slot.
AdvanceFault(p) == (p + 2) % cap
Advance(p) == (p + 1) % cap

Overfull == 2 * (count + 1) > cap

\* The vertex the current call is about.
Subject == IF stage \in {"getU", "setU"} THEN stream[i][1] ELSE stream[i][2]
\* The vertex the current probe loop looks for, and the value a set stores.
Sought == IF phase = "reinsert" THEN oldKey[j] ELSE Subject
Stored == IF phase = "reinsert" THEN oldVal[j] ELSE i

Init ==
    /\ stream \in Seq(Vertices \X Vertices) /\ hash \in [Vertices -> Nat]
    /\ i = 1 /\ ear = << >> /\ depth = << >> /\ cone = {}
    /\ stage = IF stream = << >> THEN "done" ELSE "getU"
    /\ phase = "size" /\ pu = Root /\ pos = 0
    /\ cap = MinCapacity /\ count = 0
    /\ key = [q \in Slots |-> Empty] /\ val = [q \in Slots |-> Root]
    /\ oldKey = << >> /\ oldVal = << >> /\ j = 0

\* init(n_new): the capacity doubles until it exceeds twice the events.
Widen ==
    /\ phase = "size" /\ stage # "done" /\ cap < 2 * Len(stream) + 1
    /\ cap' = 2 * cap /\ count' = 0
    /\ key' = [q \in 0 .. 2 * cap - 1 |-> Empty]
    /\ val' = [q \in 0 .. 2 * cap - 1 |-> Root]
    /\ UNCHANGED <<pass, phase, pos, growing>>

Sized ==
    /\ phase = "size" /\ stage # "done" /\ cap >= 2 * Len(stream) + 1
    /\ phase' = "enter"
    /\ UNCHANGED <<pass, pos, table, growing>>

StartProbe(w) == phase' = "probe" /\ pos' = Home(w)

EnterCall ==
    /\ phase = "enter"
    /\ \/ stage \in {"getU", "getV"}
       \/ stage \in {"setU", "setV"} /\ ~Overfull
    /\ StartProbe(Subject)
    /\ UNCHANGED <<pass, table, growing>>

\* Seeded fault: the loop starts at slot 1.
FirstSlotFault == 1
\* The first slot that grow() looks at.
FirstSlot == 0

Grow ==
    /\ phase = "enter" /\ stage \in {"setU", "setV"} /\ Overfull
    /\ oldKey' = key /\ oldVal' = val /\ j' = FirstSlot
    /\ cap' = 2 * cap /\ count' = 0
    /\ key' = [q \in 0 .. 2 * cap - 1 |-> Empty]
    /\ val' = [q \in 0 .. 2 * cap - 1 |-> Root]
    /\ phase' = "rehash"
    /\ UNCHANGED <<pass, pos>>

SkipFreeSlot ==
    /\ phase = "rehash" /\ j \in OldSlots /\ oldKey[j] = Empty
    /\ j' = j + 1
    /\ UNCHANGED <<pass, phase, pos, table, oldKey, oldVal>>

\* set(ok[j], ov[j]): the new table has room for it without growing.
Reinsert ==
    /\ phase = "rehash" /\ j \in OldSlots /\ oldKey[j] # Empty /\ ~Overfull
    /\ phase' = "reinsert" /\ pos' = Home(oldKey[j])
    /\ UNCHANGED <<pass, table, growing>>

\* After grow() the set that called it goes on to its own probe loop.
ResumeSet ==
    /\ phase = "rehash" /\ j \notin OldSlots
    /\ StartProbe(Subject)
    /\ UNCHANGED <<pass, table, growing>>

Probing == phase \in {"probe", "reinsert"}

ProbeOn ==
    /\ Probing /\ key[pos] \notin {Empty, Sought}
    /\ pos' = Advance(pos)
    /\ UNCHANGED <<pass, phase, table, growing>>

Found == IF key[pos] = Sought THEN val[pos] ELSE Root
AtEnd == Probing /\ key[pos] \in {Empty, Sought}

GetU ==
    /\ stage = "getU" /\ AtEnd
    /\ pu' = Found
    /\ stage' = "getV" /\ phase' = "enter"
    /\ UNCHANGED <<stream, hash, i, ear, depth, cone, pos, table, growing>>

\* Seeded fault: the source's last event wins whenever there is one.
PredecessorFault(x, y) == IF x # Root THEN x ELSE y
Predecessor(x, y) == IF x > y THEN x ELSE y

DepthAbove(p) == IF p = Root THEN 0 ELSE depth[p] + 1

GetV ==
    /\ stage = "getV" /\ AtEnd
    /\ ear' = Append(ear, Predecessor(pu, Found))
    /\ depth' = Append(depth, DepthAbove(Predecessor(pu, Found)))
    /\ stage' = "setU" /\ phase' = "enter"
    /\ UNCHANGED <<stream, hash, i, cone, pu, pos, table, growing>>

Put ==
    /\ key' = [key EXCEPT ![pos] = Sought]
    /\ val' = [val EXCEPT ![pos] = Stored]
    /\ count' = IF key[pos] = Empty THEN count + 1 ELSE count
    /\ UNCHANGED cap

PutOld ==
    /\ phase = "reinsert" /\ AtEnd
    /\ Put
    /\ phase' = "rehash" /\ j' = j + 1
    /\ UNCHANGED <<pass, pos, oldKey, oldVal>>

SetU ==
    /\ stage = "setU" /\ phase = "probe" /\ AtEnd
    /\ Put
    /\ stage' = "setV" /\ phase' = "enter"
    /\ UNCHANGED <<stream, hash, i, ear, depth, cone, pu, pos, growing>>

SetV ==
    /\ stage = "setV" /\ phase = "probe" /\ AtEnd
    /\ Put
    /\ i' = i + 1
    /\ stage' = IF i < Len(stream) THEN "getU" ELSE "cone"
    /\ phase' = "enter"
    /\ UNCHANGED <<stream, hash, ear, depth, cone, pu, pos, growing>>

\* sort and unique of the endpoints.
Collect ==
    /\ stage = "cone"
    /\ cone' = {stream[k][1] : k \in 1 .. Len(stream)}
               \cup {stream[k][2] : k \in 1 .. Len(stream)}
    /\ stage' = "done"
    /\ UNCHANGED <<stream, hash, i, ear, depth, pu, phase, pos, table, growing>>

Next == \/ Widen \/ Sized \/ EnterCall \/ Grow \/ SkipFreeSlot \/ Reinsert \/ ResumeSet
        \/ ProbeOn \/ GetU \/ GetV \/ PutOld \/ SetU \/ SetV \/ Collect

Spec == Init /\ [][Next]_vars

-----------------------------------------------------------------------------
(* Properties.                                                             *)

\* The ear the kernel writes is the latest earlier event that shares an
\* endpoint, whatever collides in the table.
EarIsLatestSharedEvent ==
    \A k \in DOMAIN ear :
        LET Shared == {m \in 1 .. k - 1 :
                          \E w \in {stream[m][1], stream[m][2]} :
                              w \in {stream[k][1], stream[k][2]}}
        IN  /\ ear[k] \in Shared \cup {Root}
            /\ \A m \in Shared : m <= ear[k]

\* What last_seen of the Python loop would hold.  Once the ear is written,
\* the sets that are still to come count as done.  While the table grows, a
\* vertex is in the new table or in the part of the old one not yet moved.
Lookup(w) ==
    IF \E q \in Slots : key[q] = w
    THEN val[CHOOSE q \in Slots : key[q] = w]
    ELSE IF phase \in {"rehash", "reinsert"}
            /\ \E q \in OldSlots : q >= j /\ oldKey[q] = w
         THEN oldVal[CHOOSE q \in OldSlots : q >= j /\ oldKey[q] = w]
         ELSE Root
Pending == CASE stage = "setU" -> {stream[i][1], stream[i][2]}
             [] stage = "setV" -> {stream[i][2]}
             [] OTHER -> {}

Turn == IF stage \in {"setU", "setV"} THEN i + 1 ELSE i
Seen == [w \in Vertices |-> IF w \in Pending THEN i ELSE Lookup(w)]

Python == INSTANCE EventDependency WITH i <- Turn, lastSeen <- Seen

\* The kernel "reproduces dynamic_online.build_event_dependency EXACTLY"
\* (changed_cone.cpp:16): ears, depths and cone are those of the Python loop.
ImplementsPythonLoop == Python!Spec

\* No probe loop spins, and the kernel writes its result.
Terminates == <>(stage = "done")
=============================================================================
