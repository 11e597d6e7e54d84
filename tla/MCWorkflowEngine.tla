-------------------------- MODULE MCWorkflowEngine --------------------------
(* Instance of WorkflowEngine for TLC: a set of documents over three nodes *)
(* chosen to reach every branch of computeReadiness: chain, diamond half,  *)
(* fan-out, two edges on different ports, an edge from an unknown node,    *)
(* a dead edge behind a pending one, and a cycle.                          *)
EXTENDS WorkflowEngine

CONSTANTS a, b, c, ghost, out, alt

MCNodes == {a, b, c}
MCPorts == {out, alt}

e(n, p) == [from |-> n, port |-> p]
Doc(ia, ib, ic, tol) ==
  [incoming |-> [n \in MCNodes |-> CASE n = a -> ia [] n = b -> ib [] OTHER -> ic],
   tolerant |-> tol]

MCWorkflows ==
  {Doc(<<>>, <<e(a, out)>>, <<e(b, out)>>, {a}),                \* chain
   Doc(<<>>, <<>>, <<e(a, out), e(b, alt)>>, {b}),              \* join
   Doc(<<>>, <<e(a, out)>>, <<e(a, alt)>>, {}),                 \* branch
   Doc(<<>>, <<e(a, out)>>, <<e(b, out), e(a, alt)>>, {a, b}),  \* dead edge behind a pending one
   Doc(<<>>, <<>>, <<>>, {c}),                                  \* no edges
   Doc(<<e(ghost, out)>>, <<e(a, out)>>, <<>>, {}),             \* dangling edge
   Doc(<<>>, <<e(c, out)>>, <<e(b, out)>>, {})}                 \* cycle

=============================================================================
