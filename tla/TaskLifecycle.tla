--------------------------- MODULE TaskLifecycle ---------------------------
(***************************************************************************)
(* What the orchestrator promises of a task, without queues, agents and    *)
(* RESULTs: it is dispatched from the queue, may come back to it a bounded *)
(* number of times, and ends once.                                         *)
(***************************************************************************)
EXTENDS Naturals

CONSTANTS
    Task,
    MaxReturns   \* retries and escalations a task is allowed

VARIABLES
    state,       \* the state of each task
    returns      \* how often each task has come back to the queue

vars == <<state, returns>>

State == {"new", "queued", "dispatched",
          "completed", "failed", "dead", "cancelled"}

Init ==
    /\ state = [t \in Task |-> "new"]
    /\ returns = [t \in Task |-> 0]

move(t, from, to) ==
    /\ state[t] \in from
    /\ state' = [state EXCEPT ![t] = to]

submit(t) == move(t, {"new"}, "queued") /\ UNCHANGED returns

dispatch(t) == move(t, {"queued"}, "dispatched") /\ UNCHANGED returns

return(t) ==
    /\ returns[t] < MaxReturns
    /\ move(t, {"dispatched"}, "queued")
    /\ returns' = [returns EXCEPT ![t] = @ + 1]

(* A task ends for good; only one that was dispatched can complete.        *)
end(t) ==
    /\ \/ move(t, {"dispatched"}, "completed")
       \/ move(t, {"queued", "dispatched"}, "failed")
       \/ move(t, {"queued"}, "dead")
       \/ move(t, {"queued", "dispatched"}, "cancelled")
    /\ UNCHANGED returns

Next == \E t \in Task : submit(t) \/ dispatch(t) \/ return(t) \/ end(t)

Spec == Init /\ [][Next]_vars

=============================================================================
