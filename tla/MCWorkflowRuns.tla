--------------------------- MODULE MCWorkflowRuns ---------------------------
(* One run of a workflow of two nodes, the second fed by the first.        *)
EXTENDS WorkflowRuns

CONSTANTS a, b, out, ghost, r1

MCNodes == {a, b}
MCPorts == {out}
MCDocument ==
  [incoming |-> [n \in MCNodes |-> IF n = b THEN <<[from |-> a, port |-> out]>> ELSE <<>>],
   tolerant |-> {b}]
=============================================================================
