---------------------------- MODULE MCComputerUse ----------------------------
(* One session on a small instance.                                        *)
EXTENDS ComputerUse, TLC

LoopSymmetry == Permutations(Loops)
=============================================================================
