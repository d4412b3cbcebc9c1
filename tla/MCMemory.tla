------------------------------ MODULE MCMemory ------------------------------
(***************************************************************************)
(* A small instance of Memory: two channels, and turns of the first.       *)
(***************************************************************************)
EXTENDS Memory

CONSTANT c1

Home == [t \in Turns |-> c1]
=============================================================================
