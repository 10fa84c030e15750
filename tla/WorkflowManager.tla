--------------------------- MODULE WorkflowManager ---------------------------
(***************************************************************************)
(* WorkflowManager (application/workflow_manager.py): one workflow run,    *)
(* its phases and one LoopBlock with an until condition.                   *)
(*                                                                         *)
(* The manager is an observer: the orchestrator calls on_task_complete,    *)
(* on_task_failed and on_task_retrying as it handles RESULTs, and cancel   *)
(* at the end of cancel_workflow.  Each call is a conjunct of the          *)
(* orchestrator's own step (module Workflow); this module says what it     *)
(* does to the manager's state.                                            *)
(***************************************************************************)
EXTENDS Naturals, Sequences

CONSTANTS
    Wf,          \* run.task_ids
    Phase,       \* the names of run.phases
    PhaseOf,     \* _task_to_phase
    Iterations   \* _loop_iterations: the tasks of each iteration, in order

ASSUME WorkflowManagerAssumption ==
    /\ PhaseOf \in [Wf -> Phase]
    /\ Iterations \in Seq(SUBSET Wf)

VARIABLES
    runStatus,       \* run.status
    runCompleted,    \* run._completed
    runFailed,       \* run._failed
    runEnded,        \* run.completed_at is set
    phaseTasks,      \* the tasks _task_to_phase knows
    phaseStatus,     \* run.phases[...].status
    phaseCompleted,  \* _phase_completed, of all phases together
    phaseFailed,     \* _phase_failed
    doneTasks,       \* _completed_tasks, the manager's own
    loopOpen,        \* whether the loop is still in _loop_iterations
    toCancel         \* tasks _cancel_task_fn has scheduled a cancel_task for

runVars == <<runStatus, runCompleted, runFailed, runEnded>>
phaseVars == <<phaseTasks, phaseStatus, phaseCompleted, phaseFailed>>
loopVars == <<doneTasks, loopOpen, toCancel>>
managerVars == <<runVars, phaseVars, loopVars>>

ManagerInit ==
    /\ runStatus = "pending" /\ runCompleted = {} /\ runFailed = {}
    /\ runEnded = FALSE
    /\ phaseTasks = Wf /\ phaseStatus = [p \in Phase |-> "pending"]
    /\ phaseCompleted = {} /\ phaseFailed = {}
    /\ doneTasks = {} /\ loopOpen = (Iterations # <<>>) /\ toCancel = {}

tasksOf(p) == {t \in Wf : PhaseOf[t] = p}

-----------------------------------------------------------------------------

(* _update_status, once _completed and _failed are C and F.                *)
(* Mutant: a run whose tasks have all ended is complete.                   *)
_update_status_any_end(C, F) ==
    /\ runCompleted' = C /\ runFailed' = F
    /\ runStatus' = IF Wf \subseteq C \cup F THEN "complete"
                    ELSE IF F # {} THEN "failed"
                    ELSE IF C # {} THEN "running"
                    ELSE "pending"
    /\ runEnded' = (runEnded \/ Wf \subseteq C \cup F)

_update_status(C, F) ==
    /\ runCompleted' = C /\ runFailed' = F
    /\ runStatus' = IF F # {} THEN "failed"
                    ELSE IF Wf \subseteq C THEN "complete"
                    ELSE IF C # {} THEN "running"
                    ELSE "pending"
    /\ runEnded' = (runEnded \/ Wf \subseteq C \cup F)

(* The status of t's phase once the tasks C of it completed and F failed.  *)
phaseAfter(t, C, F) ==
    LET p == PhaseOf[t]
    IN  IF t \notin phaseTasks THEN phaseStatus[p]
        ELSE IF tasksOf(p) \subseteq C \cup F
        THEN IF F \cap tasksOf(p) # {} THEN "failed" ELSE "complete"
        ELSE IF phaseStatus[p] = "pending" THEN "running" ELSE phaseStatus[p]

(* _check_loop_until: t ends an iteration, and the condition is met, so    *)
(* the tasks of the later iterations are skipped.                          *)
iterationEnds(t, i) ==
    /\ loopOpen
    /\ i \in 1..Len(Iterations)
    /\ t \in Iterations[i]
    /\ Iterations[i] \subseteq doneTasks \cup {t}

laterTasks(i) == UNION {Iterations[j] : j \in i+1..Len(Iterations)}

on_task_complete(t) ==
    IF runStatus = "cancelled" THEN UNCHANGED managerVars ELSE
    LET C == runCompleted \cup {t}
        F == runFailed \ {t}
        PC == phaseCompleted \cup ({t} \cap phaseTasks)
        PF == phaseFailed \ {t}
        status == [phaseStatus EXCEPT ![PhaseOf[t]] = phaseAfter(t, PC, PF)]
    IN  /\ phaseCompleted' = PC /\ phaseFailed' = PF /\ UNCHANGED phaseTasks
        /\ \/ /\ _update_status(C, F)
              /\ phaseStatus' = status
              /\ doneTasks' = doneTasks \cup {t}
              /\ UNCHANGED <<loopOpen, toCancel>>
           \/ \E i \in 1..Len(Iterations) :
                /\ iterationEnds(t, i)
                /\ _update_status(C \cup laterTasks(i), F \ laterTasks(i))
                /\ phaseStatus' = [p \in Phase |->
                      IF /\ \E u \in laterTasks(i) : PhaseOf[u] = p
                         /\ status[p] \notin {"complete", "failed", "skipped"}
                      THEN "skipped" ELSE status[p]]
                /\ doneTasks' = doneTasks \cup {t} \cup laterTasks(i)
                /\ toCancel' = toCancel \cup laterTasks(i)
                /\ loopOpen' = FALSE

(* Mutant: the run's status is not brought up to date.                     *)
on_task_failed_stale(t) ==
    IF runStatus = "cancelled" THEN UNCHANGED managerVars ELSE
    /\ phaseCompleted' = phaseCompleted \ {t}
    /\ phaseFailed' = phaseFailed \cup ({t} \cap phaseTasks)
    /\ runFailed' = runFailed \cup {t}
    /\ UNCHANGED <<runStatus, runCompleted, runEnded, phaseTasks, phaseStatus, loopVars>>

on_task_failed(t) ==
    IF runStatus = "cancelled" THEN UNCHANGED managerVars ELSE
    /\ phaseCompleted' = phaseCompleted \ {t}
    /\ phaseFailed' = phaseFailed \cup ({t} \cap phaseTasks)
    /\ phaseStatus' = [phaseStatus EXCEPT ![PhaseOf[t]] =
                          phaseAfter(t, phaseCompleted \ {t}, phaseFailed \cup {t})]
    /\ UNCHANGED phaseTasks
    /\ _update_status(runCompleted \ {t}, runFailed \cup {t})
    /\ UNCHANGED loopVars

(* A cancelled run is not left alone here.                                 *)
on_task_retrying(t) ==
    /\ phaseCompleted' = phaseCompleted \ {t}
    /\ phaseFailed' = phaseFailed \ {t}
    /\ phaseStatus' = [phaseStatus EXCEPT ![PhaseOf[t]] =
                          IF @ = "failed" THEN "running" ELSE @]
    /\ UNCHANGED phaseTasks
    /\ _update_status(runCompleted \ {t}, runFailed \ {t})
    /\ UNCHANGED loopVars

cancel ==
    /\ runStatus' = "cancelled"
    /\ runEnded' = TRUE
    /\ UNCHANGED <<runCompleted, runFailed, phaseVars, loopVars>>

=============================================================================
