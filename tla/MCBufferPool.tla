---------------------------- MODULE MCBufferPool ----------------------------
(* The pool, its kernel and a rival over every access sequence of the given *)
(* length.                                                                 *)
EXTENDS DemandPaging, TLC

UnitSymmetry == Permutations(Units)
=============================================================================
