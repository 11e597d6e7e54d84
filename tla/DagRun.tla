------------------------------- MODULE DagRun -------------------------------
(***************************************************************************)
(* What one workflow run promises, without rounds, batches, barriers, the  *)
(* order of the node list or the store: nodes are launched once their      *)
(* inputs are there, a node whose inputs can no longer arrive is skipped,  *)
(* and the run ends in a way that its nodes justify.                       *)
(*                                                                         *)
(* This is the abstract specification that WorkflowEngine is checked to    *)
(* implement.  A node is "lost" when its executor returned but the run     *)
(* dropped the result (the run was aborted, or the store refused the save  *)
(* that precedes the call).                                                *)
(***************************************************************************)
EXTENDS WorkflowGraph

CONSTANTS Workflows   \* the workflow documents considered

VARIABLES
  wf,        \* the document this run executes; never changes
  status,    \* node -> NodeStatus or "lost"
  emitted,   \* node -> the ports it emitted a value on
  outcome    \* status of the run

vars == <<wf, status, emitted, outcome>>

Ended == {"completed", "failed", "cancelled"}

Init ==
  /\ wf \in Workflows
  /\ status = [n \in Nodes |-> "pending"]
  /\ emitted = [n \in Nodes |-> {}]
  /\ outcome = "queued"

(* A run starts; a cyclic document fails it on the spot, or once the store *)
(* has answered.                                                           *)
Start ==
  /\ outcome = "queued"
  /\ outcome' = "running"
  /\ UNCHANGED <<wf, status, emitted>>

RejectCycle ==
  /\ outcome = "running"
  /\ Cyclic(wf)
  /\ status = [n \in Nodes |-> "pending"]
  /\ outcome' = "failed"
  /\ UNCHANGED <<wf, status, emitted>>

Launch(B) ==
  /\ outcome = "running"
  /\ ~Cyclic(wf)
  /\ \A n \in B : status[n] = "pending" /\ Ready(wf, n, status, emitted)
  /\ status' = [n \in Nodes |-> IF n \in B THEN "running" ELSE status[n]]
  /\ UNCHANGED <<wf, emitted, outcome>>

Complete(n, ports) ==
  /\ outcome = "running"
  /\ status[n] = "running"
  /\ status' = [status EXCEPT ![n] = "completed"]
  /\ emitted' = [emitted EXCEPT ![n] = ports]
  /\ UNCHANGED <<wf, outcome>>

Fail(n) ==
  /\ outcome = "running"
  /\ status[n] = "running"
  /\ status' = [status EXCEPT ![n] = "failed"]
  /\ UNCHANGED <<wf, emitted, outcome>>

Lose(n) ==
  /\ outcome = "running"
  /\ status[n] = "running"
  /\ status' = [status EXCEPT ![n] = "lost"]
  /\ UNCHANGED <<wf, emitted, outcome>>

(* Only a node that can never be fed is skipped while the run goes on.     *)
Skip(n) ==
  /\ outcome = "running"
  /\ status[n] = "pending"
  /\ \E i \in DOMAIN wf.incoming[n] : Dead(wf.incoming[n][i], status, emitted)
  /\ status' = [status EXCEPT ![n] = "skipped"]
  /\ UNCHANGED <<wf, emitted, outcome>>

(* The run ends when nothing runs any more: completed only if every node   *)
(* that could have run did, failed only because of a failed node.          *)
End ==
  /\ outcome = "running"
  /\ ~Cyclic(wf)
  /\ \A n \in Nodes : status[n] # "running"
  /\ outcome' \in Ended
  /\ outcome' = "completed" =>
       \A n \in Nodes : status[n] = "pending" => ~Ready(wf, n, status, emitted)
  /\ outcome' = "failed" =>
       \E n \in Nodes \ wf.tolerant : status[n] = "failed"
  /\ status' = [n \in Nodes |->
                  IF status[n] \in {"pending", "lost"} THEN "skipped" ELSE status[n]]
  /\ UNCHANGED <<wf, emitted>>

Next ==
  \/ Start \/ RejectCycle \/ End
  \/ \E B \in SUBSET Nodes : Launch(B)
  \/ \E n \in Nodes :
       \/ Fail(n) \/ Lose(n) \/ Skip(n)
       \/ \E ports \in SUBSET Ports : Complete(n, ports)

Spec == Init /\ [][Next]_vars

=============================================================================
