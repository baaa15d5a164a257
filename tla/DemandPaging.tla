---------------------------- MODULE DemandPaging ----------------------------
(***************************************************************************)
(* The pool and its kernel beside a rival: any policy that stages a unit   *)
(* only when it is accessed and has as many slots.  It evicts what it      *)
(* likes, so it stands for every replacement policy, those that know the   *)
(* schedule included; belady promises to miss no more than any of them.    *)
(***************************************************************************)
EXTENDS BufferPoolKernel

VARIABLES cache,         \* the rival's resident set
          faults         \* and its misses

pagingVars == <<allVars, cache, faults>>

Rival(u) ==
    \/ /\ u \in cache
       /\ UNCHANGED <<cache, faults>>
    \/ /\ u \notin cache /\ Cardinality(cache) < Slots
       /\ cache' = cache \cup {u} /\ faults' = faults + 1
    \/ /\ u \notin cache /\ Cardinality(cache) >= Slots
       /\ \E v \in cache : cache' = (cache \ {v}) \cup {u}
       /\ faults' = faults + 1

PagingInit == KernelInit /\ cache = {} /\ faults = 0

PagingAccess == KernelAccess /\ Rival(access[i])
PagingReset  == KernelReset /\ cache' = {} /\ faults' = 0

PagingNext == PagingAccess \/ PagingReset

PagingSpec == PagingInit /\ [][PagingNext]_pagingVars

-----------------------------------------------------------------------------
(* Properties.                                                             *)

\* Belady is optimal: on no prefix of no schedule does any demand-paging
\* policy with as many slots miss less.
BeladyIsOptimal == policy = "belady" => Cardinality(missed) <= faults
=============================================================================
