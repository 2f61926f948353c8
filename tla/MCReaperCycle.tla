---------------------------- MODULE MCReaperCycle ----------------------------
(* Three rows: the first is of a document that is never captured (by the     *)
(* configuration), the second belongs to a connector, the third to none.  A  *)
(* batch of two can be blocked as a whole, and the third row is behind it.   *)
EXTENDS ReaperCycle

CONSTANTS p1, r1, r2

SecondHasPair == [i \in Rows |-> IF i = 2 THEN p1 ELSE None]
=============================================================================
