-------------------------------- MODULE MCTui --------------------------------
EXTENDS Tui, TLC

CONSTANTS all, some, recency, chunks

Matches == all :> {1, 2} @@ some :> {2}
TwoSorts == all :> recency @@ some :> chunks
=============================================================================
