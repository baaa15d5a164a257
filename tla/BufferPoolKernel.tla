-------------------------- MODULE BufferPoolKernel --------------------------
(***************************************************************************)
(* The C++ simulation of the buffer pool, cpp/bufferpool.cpp, run over the *)
(* same accesses as the Python policy loops of BufferPool.  It keeps the   *)
(* resident set as two parallel arrays in insertion order and a map from   *)
(* units to array positions, which an eviction has to repair.              *)
(***************************************************************************)
EXTENDS BufferPool, SequencesExt

VARIABLES resUnit,       \* res_unit
          resKey,        \* res_key
          where,         \* where: unit -> its position in the arrays
          isMiss         \* is_miss, as the set of positions

kernelVars == <<resUnit, resKey, where, isMiss>>
allVars == <<vars, kernelVars>>

\* Seeded fault: a tie replaces the best slot, so the last inserted goes.
BestFault == CHOOSE p \in DOMAIN resKey :
                 /\ \A q \in DOMAIN resKey : resKey[q] <= resKey[p]
                 /\ \A q \in p + 1 .. Len(resKey) : resKey[q] < resKey[p]
\* The front-to-back scan that only a strictly larger key moves.
Best == CHOOSE p \in DOMAIN resKey :
            /\ \A q \in DOMAIN resKey : resKey[q] <= resKey[p]
            /\ \A q \in 1 .. p - 1 : resKey[q] < resKey[p]

\* where.erase(victim), then the positions of the shifted tail.
Repaired(units, p) ==
    [u \in DOMAIN where \ {resUnit[p]} |->
        IF where[u] > p THEN CHOOSE q \in p .. Len(units) : units[q] = u
                        ELSE where[u]]

KernelMiss(u, new) ==
    LET evict == Len(resUnit) >= Slots
        units == IF evict THEN RemoveAt(resUnit, Best) ELSE resUnit
        keys  == IF evict THEN RemoveAt(resKey, Best) ELSE resKey
        index == IF evict THEN Repaired(units, Best) ELSE where
    IN  /\ resUnit' = Append(units, u)
        /\ resKey' = Append(keys, new)
        /\ where' = [w \in DOMAIN index \cup {u} |->
                        IF w = u THEN Len(units) + 1 ELSE index[w]]
        /\ isMiss' = isMiss \cup {i}

KernelHit(u, new) ==
    /\ resKey' = [resKey EXCEPT ![where[u]] = new]
    /\ UNCHANGED <<resUnit, where, isMiss>>

KernelInit == /\ Init
              /\ resUnit = << >> /\ resKey = << >>
              /\ where = << >> /\ isMiss = {}

KernelAccess ==
    /\ Access
    /\ IF access[i] \in DOMAIN where THEN KernelHit(access[i], KeyAt(i))
                                     ELSE KernelMiss(access[i], KeyAt(i))

\* The kernel is a program of its own: every run starts empty.
KernelReset == /\ Reset
               /\ resUnit' = << >> /\ resKey' = << >>
               /\ where' = << >> /\ isMiss' = {}

KernelNext == KernelAccess \/ KernelReset

KernelSpec == KernelInit /\ [][KernelNext]_allVars

-----------------------------------------------------------------------------
(* Properties.                                                             *)

\* The kernel reproduces the miss set of the Python policy, tie-break
\* included, for both policies.
SameMisses == isMiss = missed
=============================================================================
