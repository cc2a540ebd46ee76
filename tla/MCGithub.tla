------------------------------ MODULE MCGithub --------------------------------
(* Two pull requests for TLC. *)
EXTENDS GithubForge

TwoPRs == 1 .. 2
=============================================================================
