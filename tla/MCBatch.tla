------------------------------- MODULE MCBatch -------------------------------
(* Bounded instances of BatchEngine for TLC.                               *)
EXTENDS BatchRefinement

OneCheck == {"ci"}
TwoChecks == {"build", "lint"}
GreenRed == {"success", "failure"}
TwoPRs == {1, 2}
ThreePRs == {1, 2, 3}
NoFaults == {}
StopFaults == {"abort", "crash"}
AllFaults == FaultKind

=============================================================================
