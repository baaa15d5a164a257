------------------------------- MODULE Executors -------------------------------
(***************************************************************************)
(* The executors that share the promise of LayeredAggregation: a job is    *)
(* handed to run_coexec, run_distributed or sharded_llayer.                *)
(***************************************************************************)
EXTENDS CoExecution, DistributedExecution, FeatureRecombination

CONSTANT Jobs            \* the jobs, each with the executor it is for

vars == <<coVars, distVars, recVars>>

Init == job \in Jobs /\ CoexecInit /\ DistInit /\ RecInit

CoexecStep == /\ job.executor = "coexec" /\ CoexecNext
              /\ UNCHANGED <<halo, turn, next, shards, partial, device>>
DistStep   == /\ job.executor = "distributed" /\ DistNext
              /\ UNCHANGED <<pc, pending, dev, gpuOut, cpuOut, shards, partial, device>>
RecStep    == /\ job.executor = "recombine" /\ RecNext
              /\ UNCHANGED <<pc, pending, dev, gpuOut, cpuOut, halo, turn, next>>

Next == CoexecStep \/ DistStep \/ RecStep

\* The loops of run_distributed and sharded_llayer run on; each of the
\* conditions binds only the jobs of its own executor.
Fairness == CoexecFairness /\ WF_vars(DistStep) /\ WF_vars(RecStep)

Spec == Init /\ [][Next]_vars /\ Fairness

-----------------------------------------------------------------------------
\* Whatever a row or a column is computed on, the matrix after every layer is
\* the one a single device computes: with the device running when it likes and
\* the torch path raising anywhere (run_coexec), with replicated vertices and
\* ranks without a row (run_distributed), with any column split (sharded_llayer).
ExecutorsImplementLayers == Promise!Spec

\* The executor of the job has handed its result on.
Returned == done = job.layers /\ (job.executor = "coexec" => pc = "returned")

\* Every job of every executor ends: though the torch path may raise anywhere
\* and a job of no layers raises for certain (run_coexec), though a rank may
\* have no row (run_distributed) or a device no column (sharded_llayer).
EveryJobReturns == <>[]Returned
=============================================================================
