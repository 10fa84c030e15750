----------------------------- MODULE MCWorkflow -----------------------------
(***************************************************************************)
(* A workflow for TLC: a loop of two iterations (i1, then i2), and a task  *)
(* (after) that waits for the loop: a later phase of the workflow, or a    *)
(* task of a client that waits for another of its tasks (other) too.       *)
(***************************************************************************)
EXTENDS Workflow

CONSTANTS i1, i2, after, other

Chain == [t \in Task |-> CASE t = i1 -> {}
                           [] t = i2 -> {i1}
                           [] t = after -> {i2}]

Join == [t \in Task |-> CASE t \in {i1, other} -> {}
                          [] t = i2 -> {i1}
                          [] t = after -> {i2, other}]

OnePhaseEach == [t \in Wf |-> t]

TwoIterations == << {i1}, {i2} >>

=============================================================================
