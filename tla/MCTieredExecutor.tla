-------------------------- MODULE MCTieredExecutor --------------------------
(* TieredExecutor with enough streamed snapshots for both slots to be      *)
(* reused twice while a copy of the previous use may still be pending.     *)
EXTENDS TieredExecutor
=============================================================================
