----------------------------- MODULE Checkpoint -----------------------------
(***************************************************************************)
(* Crash and restart with --resume.  The orchestrator of Workflow writes   *)
(* rows to the checkpoint store (infrastructure/checkpoint_store.py): a    *)
(* task when it is queued or held at its submission, the run after each    *)
(* completion; it removes a task's row when the task completes or fails    *)
(* for good.  A crash loses everything but the rows, and _resume_from_     *)
(* checkpoint rebuilds the queue, the held tasks and the runs from them.   *)
(*                                                                         *)
(* Every write is a commit of its own.  The only handler with two is that  *)
(* of a completion: a crash may come between them.                         *)
(***************************************************************************)
EXTENDS Workflow

CONSTANT MaxCrashes  \* bound of the model: how often the process crashes

ASSUME CheckpointAssumption == MaxCrashes \in Nat

VARIABLES
    taskRows,     \* task_checkpoints
    waitingRows,  \* waiting_checkpoints
    runRows,      \* workflow_checkpoints: none, or the one run
    crashes,
    finished,     \* history: tasks that ever completed
    ended         \* history: tasks that ever completed, failed, were
                  \* dead-lettered or cancelled

store == <<taskRows, waitingRows, runRows>>
history == <<finished, ended>>
ckVars == <<wfVars, store, crashes, history>>

CheckpointInit ==
    /\ WorkflowInit
    /\ taskRows = {} /\ waitingRows = {} /\ runRows = {}
    /\ crashes = 0
    /\ finished = {} /\ ended = {}

(* A step of the running process, whose outcome the history remembers.     *)
live(A) ==
    /\ A
    /\ finished' = finished \cup completed'
    /\ ended' = ended \cup completed' \cup failed' \cup dlq' \cup cancelled'
    /\ UNCHANGED crashes

-----------------------------------------------------------------------------
(* The handlers that write.                                                *)

(* POST /workflows dies with the process; after a restart nobody goes on   *)
(* with it.                                                                *)
requestAlive == crashes = 0

away == routerAway \/ ~requestAlive

(* submit_task saves what it queues or holds; a task that fails at once    *)
(* is not saved.                                                           *)
(* Mutant: a held task is saved as if it were queued.                      *)
saveSubmitted_as_queued(t) ==
    /\ taskRows' = taskRows \cup ({t} \cap (queued' \cup waiting'))
    /\ UNCHANGED <<waitingRows, runRows>>

saveSubmitted(t) ==
    /\ taskRows' = taskRows \cup ({t} \cap queued')
    /\ waitingRows' = waitingRows \cup ({t} \cap waiting')
    /\ UNCHANGED runRows

submission(t) ==
    /\ \/ requestAlive /\ submitPhase(t)
       \/ away /\ clientSubmits(t)
    /\ saveSubmitted(t)

remove_task(t) == taskRows' = taskRows \ {t}

save_workflow(t) ==
    runRows' = IF registered /\ t \in Wf
               THEN {[status |-> runStatus', completed |-> runCompleted',
                      failed |-> runFailed', ended |-> runEnded']}
               ELSE runRows

(* Mutant: the row of a completed task stays.                              *)
success_row_kept(t) ==
    /\ away /\ resultSuccess(t)
    /\ save_workflow(t)
    /\ UNCHANGED <<taskRows, waitingRows>>

success(t) ==
    /\ away /\ resultSuccess(t)
    /\ remove_task(t)
    /\ save_workflow(t)
    /\ UNCHANGED waitingRows

failure(t) ==
    /\ away /\ resultFailure(t)
    /\ remove_task(t)
    /\ UNCHANGED <<waitingRows, runRows>>

(* Mutant: a task to be retried loses its row.                             *)
retrying_removed(t) ==
    /\ away /\ resultRetry(t)
    /\ remove_task(t)
    /\ UNCHANGED <<waitingRows, runRows>>

retrying(t) == away /\ resultRetry(t) /\ UNCHANGED store

(* Expiry, dead-lettering and cancellation leave the rows alone, and so    *)
(* does the release of a held task.                                        *)
other(t) ==
    /\ away
    /\ expiry(t) \/ unobserved(t) \/ scheduledCancel(t) \/ cancelNext(t)
    /\ UNCHANGED store

request ==
    /\ (requestAlive /\ register) \/ cancel_workflow \/ cancelRun
    /\ UNCHANGED store

-----------------------------------------------------------------------------
(* Crash and restart.                                                      *)

(* What is left of the orchestrator's own state after a restart.           *)
restart(q, lists) ==
    /\ queued' = q /\ hand' = NoTask
    /\ waiting' = waitingRows /\ dependents' = lists
    /\ active' = {} /\ running' = {} /\ tombstones' = {} /\ overdue' = {}
    /\ retries' = [t \in Task |-> 0]
    /\ completed' = {} /\ failed' = {} /\ dlq' = {}
    /\ UNCHANGED <<submitted, cancelled>>

heldBehind == [d \in Task |-> {w \in waitingRows : d \in Deps[w]}]

(* Mutants: what an agent had is not queued again; a held task goes on the *)
(* list of one dependency only.                                            *)
resumeTasks_active_lost(rows) == restart(rows \ active, heldBehind)

resumeTasks_one_list(rows) ==
    restart(rows, [d \in Task |-> {w \in waitingRows : d = CHOOSE e \in Deps[w] : TRUE}])

(* _resume_from_checkpoint: each held task goes on the lists of all its    *)
(* dependencies, since none is known to have completed.                    *)
resumeTasks(rows) == restart(rows, heldBehind)

(* A run is restored from its row, without its phases and loops; one that  *)
(* has no row is unknown from then on.                                     *)
resumeRun ==
    /\ registered' = (runRows # {})
    /\ \/ /\ runRows = {}
          /\ runStatus' = "pending" /\ runCompleted' = {} /\ runFailed' = {}
          /\ runEnded' = FALSE
       \/ \E row \in runRows :
          /\ runStatus' = row.status /\ runEnded' = row.ended
          /\ runCompleted' = row.completed /\ runFailed' = row.failed
    /\ phaseTasks' = {} /\ phaseCompleted' = {} /\ phaseFailed' = {}
    /\ phaseStatus' = [p \in Phase |-> "pending"]
    /\ doneTasks' = {} /\ loopOpen' = FALSE /\ toCancel' = {}
    /\ stopping' = "no" /\ left' = {}

resume(rows) == resumeTasks(rows) /\ resumeRun

crash ==
    /\ crashes < MaxCrashes
    /\ crashes' = crashes + 1
    /\ resume(taskRows)
    /\ UNCHANGED <<store, history>>

(* The crash comes when the task's row is gone and the run's is not yet    *)
(* written.                                                                *)
crashInSuccess(t) ==
    /\ crashes < MaxCrashes
    /\ crashes' = crashes + 1
    /\ away
    /\ t \in running \ tombstones
    /\ remove_task(t)
    /\ resume(taskRows \ {t})
    /\ finished' = finished \cup {t} /\ ended' = ended \cup {t}
    /\ UNCHANGED <<waitingRows, runRows>>

-----------------------------------------------------------------------------

CheckpointNext ==
    \/ \E t \in Task :
          \/ live(submission(t)) \/ live(success(t)) \/ live(failure(t))
          \/ live(retrying(t)) \/ live(other(t))
          \/ crashInSuccess(t)
    \/ live(request) \/ crash

CheckpointSpec == CheckpointInit /\ [][CheckpointNext]_ckVars

(* As in Workflow: the loops run on, every dispatched task yields a RESULT.*)
CheckpointFairness ==
    /\ WF_ckVars(live(Wf \cap submitted # {} /\ \E t \in Task : submission(t) /\ t \in Wf))
    /\ WF_ckVars(live(request /\ stopping' = stopping))
    /\ WF_ckVars(live(away /\ (\E t \in Task : get(t)) /\ unseen /\ UNCHANGED store))
    /\ \A t \in Task :
         /\ WF_ckVars(live(/\ away /\ (skipCancelled(t) \/ dispatch(t) \/ dead_letter(t))
                           /\ unseen /\ UNCHANGED store))
         /\ WF_ckVars(live(/\ t \in running
                           /\ \/ success(t) \/ failure(t) \/ retrying(t)
                              \/ away /\ dropResult(t) /\ unseen /\ UNCHANGED store))

CheckpointFairSpec == CheckpointSpec /\ CheckpointFairness

-----------------------------------------------------------------------------
(* Properties.                                                             *)

(* "recovery from an unclean shutdown without losing queued work": a task  *)
(* that was accepted and has not ended has a row, whatever the crashes.    *)
AcceptedIsStored == submitted \subseteq ended \cup taskRows \cup waitingRows

(* What has become of a task, in all the lives of the process together.    *)
workOf(t) ==
    IF t \in finished THEN "done"
    ELSE IF t \in running THEN "running"
    ELSE IF t \in queued \cup {hand} THEN "queued"
    ELSE IF t \in waiting THEN "held"
    ELSE IF t \in submitted THEN "ended"
    ELSE "new"

work == [t \in Task |-> workOf(t)]

Durable == INSTANCE DurableWork WITH work <- work

(* The orchestrator with its store is durable work: over any crashes an    *)
(* accepted task goes back to the queue or to being held and is not lost,  *)
(* what is done is not undone, and nothing is queued too early.            *)
ImplementsDurable == Durable!Spec

(* "remove completed task so it isn't re-queued on resume": a task that    *)
(* completed in one life of the process never runs in another.  One that   *)
(* was held keeps its row and comes back as held; it must not be released. *)
FinishedStaysFinished == finished \cap (released \cup taskRows) = {}

(* A task is released after its dependencies completed, in this life or an *)
(* earlier one.                                                            *)
OrderSurvives == \A t \in released \cup finished : Deps[t] \subseteq finished

(* The books the resume rebuilds are in order: every restored task is      *)
(* found by the completion or the failure of what it waits for.            *)
BooksSurvive ==
    /\ WaitersRegistered /\ ListsHeld /\ NoDoomedWait
    /\ waiting \cap (released \cup completed \cup failed \cup overdue) = {}

(* A restored run is not reported complete before each of its tasks has    *)
(* completed, though failures after its last row are forgotten.            *)
RestoredRunHonest == runStatus = "complete" => Wf \subseteq finished \cup skipped

(* A queued task ends in the end, in spite of the crashes.                 *)
QueuedSurvives == \A t \in Task : t \in taskRows ~> t \in ended

-----------------------------------------------------------------------------
(* What the repository says of a resume, and the code does not do.         *)

(* "Waiting tasks are restored to _waiting_tasks with their dependency     *)
(* chains": a held task whose dependencies end, ends too.                  *)
HeldSurvives ==
    \A t \in Task : (t \in waitingRows /\ Deps[t] \subseteq ended) ~> t \in ended

=============================================================================
