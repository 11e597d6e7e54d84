-------------------------- MODULE MCExternalAgents --------------------------
(* Instances of ExternalAgents for TLC. *)
EXTENDS ExternalAgents, TLC

CONSTANTS c, f1, f2, r1, r2, none

=============================================================================
