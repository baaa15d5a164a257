----------------------------- MODULE BufferPool -----------------------------
(***************************************************************************)
(* The buffer pool of runtime/bufferpool.py over a known access sequence.  *)
(* The resident set is a Python dictionary from units to keys: the next    *)
(* use of the unit (belady) or its estimated reuse distance (mrd).  On a   *)
(* miss with every slot taken, the resident unit with the largest key goes *)
(* and, among equals, the one inserted first.                              *)
(***************************************************************************)
EXTENDS Integers, FiniteSets

CONSTANTS Units,         \* the snapshots
          Slots,         \* num_slots
          Length         \* bound: the length of the access sequence

PoolAssumption == /\ IsFiniteSet(Units)
                  /\ Slots \in Nat /\ Slots >= 1
                  /\ Length \in Nat
ASSUME PoolAssumption

VARIABLES access,        \* the access sequence
          policy,        \* "belady" or "mrd"
          i,             \* the next access to simulate
          key,           \* the dictionary: its domain is the resident set
          born,          \* when each resident unit was inserted
          missed,        \* the accesses that were misses, is_miss
          evictions      \* units evicted to make room

vars == <<access, policy, i, key, born, missed, evictions>>

Positions == 1 .. Length
Never     == Length + 1            \* _NEVER: beyond every position
Resident  == DOMAIN key

\* _next_use_array: the next position that accesses the same unit.
NextUse(j) ==
    IF \E m \in j + 1 .. Length : access[m] = access[j]
        THEN CHOOSE m \in j + 1 .. Length :
                 /\ access[m] = access[j]
                 /\ \A n \in j + 1 .. m - 1 : access[n] # access[j]
        ELSE Never

\* The gap to the previous access of the same unit; BIG when there is none.
ReuseEstimate(j) ==
    IF \E m \in 1 .. j - 1 : access[m] = access[j]
        THEN j - CHOOSE m \in 1 .. j - 1 :
                     /\ access[m] = access[j]
                     /\ \A n \in m + 1 .. j - 1 : access[n] # access[j]
        ELSE Length

KeyAt(j) == IF policy = "belady" THEN NextUse(j) ELSE ReuseEstimate(j)

\* Seeded fault: the unit with the smallest key is evicted.
VictimFault ==
    CHOOSE v \in Resident : \A w \in Resident : key[v] <= key[w]
\* max(resident, key=...): the largest key, the first inserted among equals.
Victim == CHOOSE v \in Resident :
              \A w \in Resident : \/ key[w] < key[v]
                                  \/ key[w] = key[v] /\ born[v] <= born[w]

Full == Cardinality(Resident) >= Slots

\* Seeded fault: a hit leaves the key of the previous access in place.
RefreshFault(u, new) == key
Refresh(u, new) == [key EXCEPT ![u] = new]

\* admit(u, new): refresh on a hit; on a miss evict if full, then insert.
Admit(u, new) ==
    IF u \in Resident
        THEN /\ key' = Refresh(u, new)
             /\ UNCHANGED <<born, missed, evictions>>
        ELSE LET kept == IF Full THEN Resident \ {Victim} ELSE Resident
             IN  /\ key' = [w \in kept \cup {u} |-> IF w = u THEN new ELSE key[w]]
                 /\ born' = [w \in kept \cup {u} |-> IF w = u THEN i ELSE born[w]]
                 /\ missed' = missed \cup {i}
                 /\ evictions' = IF Full THEN evictions + 1 ELSE evictions

Init == /\ access \in [Positions -> Units]
        /\ policy \in {"belady", "mrd"}
        /\ i = 1
        /\ key = << >> /\ born = << >>
        /\ missed = {} /\ evictions = 0

\* One iteration of the simulation loops.
Access == /\ i <= Length
          /\ Admit(access[i], KeyAt(i))
          /\ i' = i + 1
          /\ UNCHANGED <<access, policy>>

\* reset() empties the pool; the schedule is simulated from its start again.
Reset == /\ i' = 1
         /\ key' = << >> /\ born' = << >>
         /\ missed' = {} /\ evictions' = 0
         /\ UNCHANGED <<access, policy>>

Next == Access \/ Reset

Spec == Init /\ [][Next]_vars

-----------------------------------------------------------------------------
(* Properties.                                                             *)

TypeOK == /\ access \in [Positions -> Units]
          /\ policy \in {"belady", "mrd"}
          /\ i \in 1 .. Length + 1
          /\ Resident \subseteq Units
          /\ key \in [Resident -> 1 .. Length + 1]
          /\ born \in [Resident -> Positions]
          /\ missed \subseteq 1 .. i - 1
          /\ evictions \in Nat

\* The pool holds what the byte budget has slots for and, after any mixture
\* of hits and evictions, exactly min(misses, slots) units: plan_schedule
\* derives the occupancy trace of the kernel path from that identity.
OccupancyFromMisses ==
    Cardinality(Resident) =
        IF Cardinality(missed) < Slots THEN Cardinality(missed) ELSE Slots

\* The key belady compares is never stale: after every prefix of the
\* schedule, for every resident unit, it is the first access of that unit
\* that is still to come.
KeysAreFresh ==
    policy = "belady" =>
        \A u \in Resident :
            /\ key[u] >= i
            /\ key[u] # Never => access[key[u]] = u
            /\ \A m \in i .. Length : access[m] = u => key[u] <= m

=============================================================================
