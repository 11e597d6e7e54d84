---------------------------- MODULE MCRunnerPool ----------------------------
(* Small instances of RunnerPool.                                          *)
EXTENDS RunnerPool

CONSTANTS a, b, p1, p2
=============================================================================
