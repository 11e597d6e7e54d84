---------------------------- MODULE MCJobOnPool ----------------------------
(* A job of one task, which needs an approval.                             *)
EXTENDS JobOnPool

CONSTANTS a, p1, p2, foreign, create, approve

MCPlans == {[deps |-> [t \in Tasks |-> {}], times |-> [t \in Tasks |-> 1], groups |-> <<>>,
             parallel |-> 0, approval |-> TRUE, limit |-> 0, cost |-> 1]}
=============================================================================
