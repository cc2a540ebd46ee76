------------------------------ MODULE MCSingle -------------------------------
(***************************************************************************)
(* Instances of SingleQueue for TLC.                                       *)
(***************************************************************************)
EXTENDS SingleInvariant, TLC

PRSymmetry == Permutations(PRs)
OneCheck == {"build"}
TwoChecks == {"build", "lint"}
GreenRed == {"success", "failure"}
NoHandlers == {}
OneHandler == {"webhook"}
NoFaults == {}
StopFaults == {"abort", "crash"}

=============================================================================
