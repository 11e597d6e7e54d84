--------------------------- MODULE WorkflowGraph ---------------------------
(***************************************************************************)
(* The graph of a workflow as the run engine of the API gateway sees it    *)
(* (apps/api-gateway/src/workflows/engine.ts): for every node, the list of *)
(* its incoming edges in document order, each with the node it comes from  *)
(* and the output port it reads.  Parameters that a node merely passes on  *)
(* (to_port, params, the values themselves) are abstracted away: what      *)
(* decides a run is which ports a completed node emitted a value on.       *)
(*                                                                         *)
(* All operators here are constant-level: `status' and `emitted' are the   *)
(* per-node states of one run, given by the module that owns them.         *)
(***************************************************************************)
EXTENDS Naturals, Sequences

CONSTANTS
  Nodes,    \* node ids of the workflow document
  Ports,    \* output port names
  Unknown   \* an id that an edge names but no node of the document has

ASSUME UnknownAssumption == Unknown \notin Nodes

Edge == [from : Nodes \cup {Unknown}, port : Ports]

NodeStatus == {"pending", "running", "completed", "failed", "skipped"}

(* A workflow: its incoming edges, and the nodes whose on_error is          *)
(* "continue".                                                              *)
Workflow == [incoming : [Nodes -> Seq(Edge)], tolerant : SUBSET Nodes]

Predecessors(wf, n) == {wf.incoming[n][i].from : i \in DOMAIN wf.incoming[n]}

(* Some non-empty set of nodes has no member without a predecessor in the  *)
(* set: exactly the graphs on which Kahn's algorithm cannot emit every     *)
(* node.  Edges that name unknown nodes do not take part.                  *)
Cyclic(wf) ==
  \E S \in SUBSET Nodes \ {{}} :
    \A n \in S : Predecessors(wf, n) \cap S # {}

(* The edge's source completed and has a value on the port.                *)
Fed(e, status, emitted) ==
  /\ e.from \in Nodes
  /\ status[e.from] = "completed"
  /\ e.port \in emitted[e.from]

(* The edge's source reached an end that leaves the port without a value.  *)
Dead(e, status, emitted) ==
  /\ e.from \in Nodes
  /\ \/ status[e.from] \in {"skipped", "failed"}
     \/ status[e.from] = "completed" /\ e.port \notin emitted[e.from]

(* computeReadiness(...).ready                                             *)
Ready(wf, n, status, emitted) ==
  \A i \in DOMAIN wf.incoming[n] : Fed(wf.incoming[n][i], status, emitted)

(* computeReadiness(...).skip: the edges are read in order and the first   *)
(* one that does not deliver decides, so a dead edge behind a pending one  *)
(* does not skip the node yet.                                             *)
MustSkip(wf, n, status, emitted) ==
  \E i \in DOMAIN wf.incoming[n] :
    /\ Dead(wf.incoming[n][i], status, emitted)
    /\ \A j \in 1..(i - 1) : Fed(wf.incoming[n][j], status, emitted)

=============================================================================
