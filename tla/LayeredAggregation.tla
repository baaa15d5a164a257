-------------------------- MODULE LayeredAggregation --------------------------
(***************************************************************************)
(* What every executor promises, wherever its rows and columns live: the   *)
(* matrix it hands on after k layers is the one a single device would have *)
(* computed, layer after layer, from the inputs of the job ("every output  *)
(* row is computed exactly once -> identical to single-device").  An       *)
(* executor may give up and start again from the inputs.                   *)
(***************************************************************************)
EXTENDS Naturals

CONSTANT Layer(_, _)     \* the layer function of the job

VARIABLES job, h, done   \* the job, the current matrix, the finished layers

Init == h = job.x /\ done = 0

ApplyLayer == /\ done < job.layers
              /\ h' = Layer(job, h)
              /\ done' = done + 1
              /\ UNCHANGED job

Restart == /\ h' = job.x
           /\ done' = 0
           /\ UNCHANGED job

Next == ApplyLayer \/ Restart

Spec == Init /\ [][Next]_<<job, h, done>>
=============================================================================
