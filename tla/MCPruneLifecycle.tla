-------------------------- MODULE MCPruneLifecycle --------------------------
(* Model values and symmetry for TLC.  Rows of one document do not interact  *)
(* with rows of another, so one document carries the interleavings.          *)
EXTENDS PruneLifecycle, TLC

CONSTANTS d1, o1, o2, r1, r2, s1

Symmetry == Permutations(Operators)
=============================================================================
