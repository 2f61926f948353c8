----------------------------- MODULE MCPruneScan -----------------------------
(* Two detectors in two phases.  stub flags in the walk; variant flags a URL  *)
(* group, under the name of junk, a third detector.                           *)
EXTENDS PruneScan, TLC

CONSTANTS old, new, o1, stub, variant, junk, policy

TwoPhases == stub :> {1} @@ variant :> {1, 2}
Labels == stub :> stub @@ variant :> junk @@ policy :> policy
Both == {[wants |-> {stub, variant}, scope |-> Docs]}

Found == {[d \in Docs |-> CASE d = 1 -> {stub, variant} [] d = 2 -> {variant} [] OTHER -> {}]}
Candidate(w) == [NoRow EXCEPT !.n = 1, !.state = "candidate", !.reasons = {w}]
NoRows == [d \in Docs |-> NoRow]
Earlier == [d \in Docs |-> IF d = 2 THEN NoRow ELSE Candidate(stub)]
=============================================================================
