------------------------------ MODULE Workflow ------------------------------
(***************************************************************************)
(* A workflow run: the orchestrator's dependency engine (Dependencies) and *)
(* the WorkflowManager that watches it, with POST /workflows, which        *)
(* submits the tasks and then registers the run, and cancel_workflow.      *)
(*                                                                         *)
(* A step of the route loop is a step of Dependencies and the manager call *)
(* it makes.  The calls the code does not make are as important: a task    *)
(* failed in cascade, dead-lettered or cancelled is not reported.          *)
(***************************************************************************)
EXTENDS Dependencies, WorkflowManager

CONSTANTS
    SpawnsAgents,    \* whether the router suspends between two submit_task
                     \* calls, to start the agent a phase asks for
    CancelsWorkflow  \* whether a client may call cancel_workflow

VARIABLES
    registered,  \* whether wm.submit and register_phases have been called
    stopping,    \* cancel_workflow: "no", "tasks" while under way, "done"
    left         \* the tasks cancel_workflow has still to cancel

requestVars == <<registered, stopping, left>>
wfVars == <<vars, managerVars, requestVars>>

ASSUME WorkflowAssumption ==
    /\ Wf \subseteq Task
    /\ SpawnsAgents \in BOOLEAN /\ CancelsWorkflow \in BOOLEAN

WorkflowInit ==
    /\ Init /\ ManagerInit
    /\ registered = FALSE /\ stopping = "no" /\ left = {}

(* A task of no run the manager knows is not looked at.                    *)
observe(t, call) == IF registered /\ t \in Wf THEN call ELSE UNCHANGED managerVars

-----------------------------------------------------------------------------
(* POST /workflows.                                                        *)

submitPhase(t) ==
    /\ t \in Wf /\ ~registered
    /\ submit_task(t)
    /\ UNCHANGED <<managerVars, requestVars>>

register ==
    /\ ~registered /\ Wf \subseteq submitted
    /\ registered' = TRUE
    /\ UNCHANGED <<vars, managerVars, stopping, left>>

(* The router lets others run only where it suspends.                      *)
(* Mutant: it suspends after every task it submits.                        *)
routerAway_always == TRUE

routerAway == SpawnsAgents \/ registered \/ Wf \cap submitted = {}

-----------------------------------------------------------------------------
(* The loops.                                                              *)

resultSuccess(t) ==
    /\ taskSucceeds(t)
    /\ observe(t, on_task_complete(t))
    /\ UNCHANGED requestVars

resultRetry(t) ==
    /\ retry(t)
    /\ observe(t, on_task_retrying(t))
    /\ UNCHANGED requestVars

(* Final failure, of an active task or of one that timed out too late: the *)
(* manager hears of t alone, not of what goes down with it.                *)
resultFailure(t) ==
    /\ taskFails(t) \/ lateTimeout(t)
    /\ observe(t, on_task_failed(t))
    /\ UNCHANGED requestVars

expiry(t) ==
    /\ expire(t)
    /\ observe(t, on_task_failed(t))
    /\ UNCHANGED requestVars

unseen == UNCHANGED <<managerVars, requestVars>>

(* A client submits a task that belongs to no workflow.                    *)
clientSubmits(t) == t \notin Wf /\ submit_task(t) /\ unseen

unobserved(t) ==
    /\ \/ get(t) \/ skipCancelled(t) \/ dispatch(t) \/ dead_letter(t)
       \/ dropResult(t) \/ waitReturns(t)
       \/ t \in Cancellable /\ cancel_task(t)
    /\ unseen

(* An agent that has the task answers, or times out.                       *)
answered(t) ==
    /\ t \in running
    /\ \/ resultSuccess(t) \/ resultRetry(t) \/ resultFailure(t)
       \/ dropResult(t) /\ unseen

-----------------------------------------------------------------------------
(* Cancellation.  cancel_task may find the task nowhere: it is in the hand *)
(* of the dispatch loop, or it has ended.                                  *)

cancelOrMiss(t) ==
    \/ cancel_task(t)
    \/ t \notin active \cup waiting \cup queued /\ UNCHANGED vars

(* A cancel_task that the end of a loop has scheduled.                     *)
scheduledCancel(t) ==
    /\ t \in toCancel
    /\ toCancel' = toCancel \ {t}
    /\ cancelOrMiss(t)
    /\ UNCHANGED <<runVars, phaseVars, doneTasks, loopOpen, requestVars>>

cancel_workflow ==
    /\ CancelsWorkflow /\ registered /\ stopping = "no"
    /\ stopping' = "tasks" /\ left' = Wf
    /\ UNCHANGED <<vars, managerVars, registered>>

(* It suspends where it interrupts the agent of an active task.            *)
cancelNext(t) ==
    /\ t \in left
    /\ left' = left \ {t}
    /\ cancelOrMiss(t)
    /\ UNCHANGED <<managerVars, registered, stopping>>

cancelRun ==
    /\ stopping = "tasks" /\ left = {}
    /\ stopping' = "done"
    /\ cancel
    /\ UNCHANGED <<vars, registered, left>>

-----------------------------------------------------------------------------

handle(t) ==
    /\ routerAway
    /\ \/ clientSubmits(t)
       \/ resultSuccess(t) \/ resultRetry(t) \/ resultFailure(t) \/ expiry(t)
       \/ unobserved(t) \/ scheduledCancel(t) \/ cancelNext(t)

WorkflowNext ==
    \/ \E t \in Task : submitPhase(t) \/ handle(t)
    \/ register \/ cancel_workflow \/ cancelRun

WorkflowSpec == WorkflowInit /\ [][WorkflowNext]_wfVars

(* The loops keep running and every dispatched task yields a RESULT, by    *)
(* its timeout if nothing else; a scheduled cancellation is carried out.   *)
WorkflowFairness ==
    /\ WF_wfVars(Wf \cap submitted # {} /\ \E t \in Task : submitPhase(t))
    /\ WF_wfVars(register)
    /\ WF_wfVars(routerAway /\ (\E t \in Task : get(t)) /\ unseen)
    /\ \A t \in Task :
         /\ WF_wfVars(routerAway /\ (skipCancelled(t) \/ dispatch(t) \/ dead_letter(t))
                      /\ unseen)
         /\ WF_wfVars(routerAway /\ answered(t))
         /\ WF_wfVars(scheduledCancel(t))

WorkflowFairSpec == WorkflowSpec /\ WorkflowFairness

-----------------------------------------------------------------------------
(* Properties.                                                             *)

skipped == IF loopOpen THEN {} ELSE UNION {Iterations[i] : i \in 2..Len(Iterations)}

(* The run is reported complete when every one of its tasks has completed, *)
(* or was skipped by the end of the loop, whatever was retried, cancelled  *)
(* or late in between; and so are the phases the loop did not skip.        *)
CompleteMeansDone ==
    /\ runStatus = "complete" =>
         /\ Wf \subseteq completed \cup skipped
         /\ \A p \in Phase : tasksOf(p) \cap skipped = {} => phaseStatus[p] = "complete"
    /\ \A p \in Phase : phaseStatus[p] = "complete" => tasksOf(p) \subseteq completed

loopOver == Iterations # <<>> /\ ~loopOpen

(* A run with a task that failed is reported failed, though the cascade    *)
(* tells the manager nothing; unless a loop of the run is over, which may  *)
(* have skipped the task, or the run is being cancelled.                   *)
FailureReported ==
    registered /\ ~loopOver /\ stopping = "no" /\ Wf \cap failed # {}
        => runStatus = "failed"

Ancestors(t) ==
    {d \in Task : \A D \in SUBSET Task :
        (\A u \in D \cup {t} : Deps[u] \subseteq D) => d \in D}

(* A held task is released or fails in the end, unless one of the tasks it *)
(* waits for, directly or not, was cancelled or dead-lettered: then nobody *)
(* tells it.                                                               *)
WaitingEnds ==
    \A t \in Task :
        t \in waiting ~> \/ t \notin waiting
                         \/ Ancestors(t) \cap (cancelled \cup dlq) # {}

(* A registered run ends, with the same exception, or with a failed task   *)
(* (then it is reported failed, but its end may never be recorded).        *)
RunEnds ==
    registered ~> runEnded \/ Wf \cap (cancelled \cup dlq \cup failed) # {}

(* LoopBlock: "Other phases may declare depends_on: [<name>] to wait for   *)
(* the entire loop to complete".  A task all of whose dependencies the     *)
(* manager counts as done is released.                                     *)
LoopReleases ==
    \A t \in Wf : (t \in waiting /\ Deps[t] \subseteq doneTasks) ~> t \notin waiting

=============================================================================
