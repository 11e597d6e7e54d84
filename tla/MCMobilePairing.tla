--------------------------- MODULE MCMobilePairing ---------------------------
(* Pairings and tool requests, with three stops on their way.              *)
EXTENDS MobilePairing

CONSTANTS p1, p2, p3, t1, t2
===============================================================================
