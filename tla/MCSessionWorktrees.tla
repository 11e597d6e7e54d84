-------------------------- MODULE MCSessionWorktrees --------------------------
(* Two sessions and two worktrees.                                         *)
EXTENDS SessionWorktrees

CONSTANTS s1, s2, w1, w2
===============================================================================
