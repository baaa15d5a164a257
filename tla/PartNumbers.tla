----------------------------- MODULE PartNumbers -----------------------------
(***************************************************************************)
(* What the modes of cpp/multilevel.cpp have in common: the parts of a     *)
(* partition are numbered from 0.                                          *)
(***************************************************************************)
EXTENDS Integers

CONSTANT D               \* the number of parts

Parts == 0 .. D - 1

PartAssumption == D \in Nat \ {0}
ASSUME PartAssumption
=============================================================================
