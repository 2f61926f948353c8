---------------------------- MODULE MCTrashStore ----------------------------
(* Model values.  Flows of different documents touch different rows and     *)
(* chunks, so one document carries the interleavings.                       *)
EXTENDS TrashStore, TLC

CONSTANTS d1, o1, o2, r1, q1

Symmetry == Permutations(Operators)
=============================================================================
