---------------------------- MODULE MCCheckpoint ----------------------------
(***************************************************************************)
(* For TLC: a workflow of two tasks, one behind the other, and a task of a *)
(* client behind both.                                                     *)
(***************************************************************************)
EXTENDS Checkpoint

CONSTANTS first, second, last

Behind == [t \in Task |-> CASE t = first -> {}
                            [] t = second -> {first}
                            [] t = last -> {first, second}]

OnePhaseEach == [t \in Wf |-> t]

NoLoop == <<>>

=============================================================================
