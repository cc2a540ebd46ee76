------------------------------ MODULE MCGitCache ------------------------------
(* Two pull requests for TLC. *)
EXTENDS GitCache

TwoHeads == 1 .. 2
=============================================================================
