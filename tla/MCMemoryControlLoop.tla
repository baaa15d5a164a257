-------------------------- MODULE MCMemoryControlLoop --------------------------
(* MemoryControlLoop on a twelve-unit device: demands from none to more    *)
(* than the device holds, hints from nothing hot to everything hot.        *)
EXTENDS MemoryControlLoop

MCDemands == {0, 1, 3, 7, 14}
MCHints   == {0, 4, 9, 10, 12}
================================================================================
