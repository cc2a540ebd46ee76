------------------------------- MODULE MCChecks -------------------------------
(* Two repositories with an installation each, and the symmetry of the     *)
(* goroutines that write check runs, for TLC.                              *)
EXTENDS GithubChecks, TLC

OneEach == CHOOSE f \in [Repos -> 1 .. Cardinality(Repos)] :
               f[Repo] = 1 /\ \A r \in Repos \ {Repo} : f[r] = 2

Symmetry == Permutations(Writers)
=============================================================================
