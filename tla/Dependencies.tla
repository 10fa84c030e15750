---------------------------- MODULE Dependencies ----------------------------
(***************************************************************************)
(* depends_on (application/orchestrator.py): a task whose dependencies     *)
(* have not all completed is held in _waiting_tasks; _task_dependents says *)
(* which held tasks to look at when a task completes or fails.             *)
(*                                                                         *)
(* submit_task holds, releases or fails a task at once; _on_dep_satisfied  *)
(* releases; _on_dep_failed fails the held tasks in cascade; cancel_task   *)
(* and the TTL reaper take one away.  None of them suspends (the queue is  *)
(* unbounded here), so each is one step.                                   *)
(*                                                                         *)
(* What the dispatch loop and the agents do with a released task is in     *)
(* Dispatch; here it is queued, in the loop's hand or running, and ends.   *)
(***************************************************************************)
EXTENDS Integers, FiniteSets

CONSTANTS
    Task,
    NoTask,
    Deps,          \* task.depends_on, as a set
    Batch,         \* tasks of one POST /tasks/batch: their ids are known
                   \* before any of them is submitted
    MaxRetries,    \* task.max_retries
    Cancellable,   \* tasks a client may cancel
    Expirable,     \* tasks with a TTL
    Unroutable     \* tasks that may find no agent and be dead-lettered

ASSUME DependenciesAssumption ==
    /\ NoTask \notin Task
    /\ Deps \in [Task -> SUBSET Task]
    /\ MaxRetries \in Nat

VARIABLES
    submitted,   \* ids given to submit_task
    waiting,     \* _waiting_tasks
    dependents,  \* _task_dependents
    queued,      \* tasks with an entry in the queue
    hand,        \* the task the dispatch loop got and has not settled
    active,      \* _active_tasks: dispatched, and not seen through
    running,     \* tasks an agent has
    tombstones,  \* _cancelled_task_ids
    retries,     \* task.retry_count
    completed,   \* _completed_tasks
    failed,      \* _failed_tasks
    dlq,         \* _dlq
    cancelled,   \* history: tasks cancel_task found
    overdue      \* finished tasks whose run loop may yet report a timeout

heldVars == <<waiting, dependents>>
poolVars == <<queued, hand, active, running, tombstones, retries>>
endVars == <<completed, failed, dlq, cancelled>>
vars == <<submitted, heldVars, poolVars, endVars, overdue>>

-----------------------------------------------------------------------------

Init ==
    /\ submitted = {} /\ waiting = {}
    /\ dependents = [t \in Task |-> {}]
    /\ queued = {} /\ hand = NoTask
    /\ active = {} /\ running = {} /\ tombstones = {}
    /\ retries = [t \in Task |-> 0]
    /\ completed = {} /\ failed = {} /\ dlq = {} /\ cancelled = {}
    /\ overdue = {}

(* The held tasks that go down with t: the least set that holds the        *)
(* dependents of t and those of its own members.                           *)
Closed(t, D) ==
    \A d \in D \cup {t} : dependents[d] \cap waiting \subseteq D

(* Mutant: the cascade stops after one level.                              *)
doomed_direct(t) == dependents[t] \cap waiting

doomed(t) == {w \in waiting : \A D \in SUBSET waiting : Closed(t, D) => w \in D}

(* _on_dep_failed(t), with all the calls it makes to itself.               *)
_on_dep_failed(t) ==
    LET gone == doomed(t)
    IN  /\ waiting' = waiting \ gone
        /\ failed' = failed \cup {t} \cup gone
        /\ dependents' = [d \in Task |-> IF d \in gone \cup {t} THEN {}
                                         ELSE dependents[d] \ gone]

(* The held tasks the completion of t releases.                            *)
(* Mutant: one completed dependency is enough.                             *)
ready_any(t) == dependents[t] \cap waiting

(* Mutant: t itself is not counted as completed yet.                       *)
ready_too_early(t) == {w \in dependents[t] \cap waiting : Deps[w] \subseteq completed}

ready(t) ==
    {w \in dependents[t] \cap waiting : Deps[w] \subseteq completed \cup {t}}

_on_dep_satisfied(t) ==
    /\ waiting' = waiting \ ready(t)
    /\ queued' = queued \cup ready(t)
    /\ dependents' = [d \in Task |-> IF d = t THEN {}
                                     ELSE dependents[d] \ ready(t)]

(* A task cancelled or expired while it is held is forgotten by its        *)
(* dependencies.                                                           *)
unhold(t) ==
    /\ waiting' = waiting \ {t}
    /\ dependents' = [d \in Task |-> dependents[d] \ {t}]

-----------------------------------------------------------------------------
(* submit_task.  A client knows the ids of the tasks it has submitted and, *)
(* in a batch, of the ones that follow.                                    *)

known(t) == t \notin submitted /\ Deps[t] \subseteq submitted \cup Batch

submitFailed(t) ==
    /\ known(t)
    /\ Deps[t] \cap failed # {}
    /\ failed' = failed \cup {t}
    /\ submitted' = submitted \cup {t}
    /\ UNCHANGED <<heldVars, poolVars, completed, dlq, cancelled, overdue>>

submitReady(t) ==
    /\ known(t)
    /\ Deps[t] \cap failed = {}
    /\ Deps[t] \subseteq completed
    /\ queued' = queued \cup {t}
    /\ submitted' = submitted \cup {t}
    /\ UNCHANGED <<heldVars, hand, active, running, tombstones, retries, endVars,
                   overdue>>

(* Mutant: the task goes on the list of one dependency only.               *)
submitWaiting_one_list(t) ==
    /\ known(t)
    /\ Deps[t] \cap failed = {}
    /\ ~(Deps[t] \subseteq completed)
    /\ waiting' = waiting \cup {t}
    /\ dependents' = [dependents EXCEPT ![CHOOSE d \in Deps[t] \ completed : TRUE] =
                        @ \cup {t}]
    /\ submitted' = submitted \cup {t}
    /\ UNCHANGED <<poolVars, endVars, overdue>>

submitWaiting(t) ==
    /\ known(t)
    /\ Deps[t] \cap failed = {}
    /\ ~(Deps[t] \subseteq completed)
    /\ waiting' = waiting \cup {t}
    /\ dependents' = [d \in Task |-> IF d \in Deps[t] \ completed
                                     THEN dependents[d] \cup {t}
                                     ELSE dependents[d]]
    /\ submitted' = submitted \cup {t}
    /\ UNCHANGED <<poolVars, endVars, overdue>>

-----------------------------------------------------------------------------
(* The dispatch loop.                                                      *)

get(t) ==
    /\ hand = NoTask
    /\ t \in queued
    /\ queued' = queued \ {t}
    /\ hand' = t
    /\ UNCHANGED <<submitted, heldVars, active, running, tombstones, retries, endVars,
                   overdue>>

skipCancelled(t) ==
    /\ hand = t /\ t \in tombstones
    /\ tombstones' = tombstones \ {t}
    /\ hand' = NoTask
    /\ UNCHANGED <<submitted, heldVars, queued, active, running, retries, endVars,
                   overdue>>

dispatch(t) ==
    /\ hand = t /\ t \notin tombstones
    /\ active' = active \cup {t}
    /\ running' = running \cup {t}
    /\ hand' = NoTask
    /\ UNCHANGED <<submitted, heldVars, queued, tombstones, retries, endVars, overdue>>

dead_letter(t) ==
    /\ hand = t /\ t \in Unroutable \ tombstones
    /\ dlq' = dlq \cup {t}
    /\ hand' = NoTask
    /\ UNCHANGED <<submitted, heldVars, queued, active, running, tombstones, retries,
                   completed, failed, cancelled, overdue>>

(* _expire_task of a queued task.                                          *)
expireQueued(t) ==
    /\ hand = t /\ t \in Expirable \ tombstones
    /\ hand' = NoTask
    /\ _on_dep_failed(t)
    /\ UNCHANGED <<submitted, queued, active, running, tombstones, retries, completed,
                   dlq, cancelled, overdue>>

(* _expire_task of a held task, by _ttl_reaper_loop: first it is taken out *)
(* of its dependencies' lists, then its own dependents go down with it.    *)
expireWaiting(t) ==
    /\ t \in waiting \cap Expirable
    /\ LET gone == doomed(t) \cup {t}
       IN  /\ waiting' = waiting \ gone
           /\ failed' = failed \cup gone
           /\ dependents' = [d \in Task |-> IF d \in gone THEN {}
                                            ELSE dependents[d] \ gone]
    /\ UNCHANGED <<submitted, poolVars, completed, dlq, cancelled, overdue>>

-----------------------------------------------------------------------------
(* The route loop.                                                         *)

(* Until its next poll the run loop of the agent may time out on the task  *)
(* it has just finished.                                                   *)
taskSucceeds(t) ==
    /\ t \in running \ tombstones
    /\ completed' = completed \cup {t}
    /\ active' = active \ {t}
    /\ running' = running \ {t}
    /\ _on_dep_satisfied(t)
    /\ overdue' = overdue \cup {t}
    /\ UNCHANGED <<submitted, hand, tombstones, retries, failed, dlq, cancelled>>

retry(t) ==
    /\ t \in (running \cap active) \ tombstones
    /\ retries[t] < MaxRetries
    /\ retries' = [retries EXCEPT ![t] = @ + 1]
    /\ queued' = queued \cup {t}
    /\ running' = running \ {t}
    /\ UNCHANGED <<submitted, heldVars, hand, active, tombstones, endVars, overdue>>

taskFails(t) ==
    /\ t \in running \ tombstones
    /\ t \notin active \/ retries[t] = MaxRetries
    /\ active' = active \ {t}
    /\ running' = running \ {t}
    /\ _on_dep_failed(t)
    /\ UNCHANGED <<submitted, queued, hand, tombstones, retries, completed, dlq,
                   cancelled, overdue>>

(* The RESULT of a cancelled task, which may have been its completion.     *)
dropResult(t) ==
    /\ t \in running \cap tombstones
    /\ tombstones' = tombstones \ {t}
    /\ active' = active \ {t}
    /\ running' = running \ {t}
    /\ overdue' = overdue \cup {t}
    /\ UNCHANGED <<submitted, heldVars, queued, hand, retries, endVars>>

(* The late timeout: t is not active any more, so the failure is final.    *)
lateTimeout(t) ==
    /\ t \in overdue \ tombstones
    /\ overdue' = overdue \ {t}
    /\ _on_dep_failed(t)
    /\ UNCHANGED <<submitted, poolVars, completed, dlq, cancelled>>

(* The run loop polls in time.                                             *)
waitReturns(t) ==
    /\ t \in overdue
    /\ overdue' = overdue \ {t}
    /\ UNCHANGED <<submitted, heldVars, poolVars, endVars>>

-----------------------------------------------------------------------------
(* cancel_task: an active task gets a tombstone; a held or queued one is   *)
(* taken away.  Its dependents are told nothing.                           *)

cancelActive(t) ==
    /\ t \in active
    /\ tombstones' = tombstones \cup {t}
    /\ cancelled' = cancelled \cup {t}
    /\ UNCHANGED <<submitted, heldVars, queued, hand, active, running, retries,
                   completed, failed, dlq, overdue>>

cancelWaiting(t) ==
    /\ t \in waiting
    /\ unhold(t)
    /\ cancelled' = cancelled \cup {t}
    /\ UNCHANGED <<submitted, poolVars, completed, failed, dlq, overdue>>

cancelQueued(t) ==
    /\ t \in queued \ active
    /\ queued' = queued \ {t}
    /\ cancelled' = cancelled \cup {t}
    /\ UNCHANGED <<submitted, heldVars, hand, active, running, tombstones, retries,
                   completed, failed, dlq, overdue>>

cancel_task(t) == cancelActive(t) \/ cancelWaiting(t) \/ cancelQueued(t)

-----------------------------------------------------------------------------

submit_task(t) == submitFailed(t) \/ submitReady(t) \/ submitWaiting(t)

expire(t) == expireQueued(t) \/ expireWaiting(t)

step(t) ==
    \/ submit_task(t)
    \/ get(t) \/ skipCancelled(t) \/ dispatch(t) \/ dead_letter(t) \/ expire(t)
    \/ taskSucceeds(t) \/ retry(t) \/ taskFails(t) \/ dropResult(t)
    \/ lateTimeout(t) \/ waitReturns(t)

Next == \E t \in Task : step(t) \/ (t \in Cancellable /\ cancel_task(t))

Spec == Init /\ [][Next]_vars

-----------------------------------------------------------------------------
(* Properties.                                                             *)

released == queued \cup active \cup running \cup ({hand} \ {NoTask})

TypeOK ==
    /\ submitted \subseteq Task /\ waiting \subseteq Task
    /\ dependents \in [Task -> SUBSET Task]
    /\ queued \subseteq Task /\ hand \in Task \cup {NoTask}
    /\ active \subseteq Task /\ running \subseteq Task /\ tombstones \subseteq Task
    /\ retries \in [Task -> Nat]
    /\ completed \subseteq Task /\ failed \subseteq Task /\ dlq \subseteq Task
    /\ cancelled \subseteq Task /\ overdue \subseteq Task

(* No wakeup is lost: a held task has a dependency to wait for, and is on  *)
(* the list of every one that has not completed.                           *)
WaitersRegistered ==
    \A t \in waiting :
        /\ ~(Deps[t] \subseteq completed)
        /\ \A d \in Deps[t] \ completed : t \in dependents[d]

(* The lists hold nothing else: not a task that was released, failed,      *)
(* cancelled or expired through another dependency.                        *)
ListsHeld ==
    \A d \in Task : \A t \in dependents[d] : t \in waiting /\ d \in Deps[t]

(* A task reaches the queue, and an agent, after all its dependencies      *)
(* completed.                                                              *)
StartedInOrder ==
    \A t \in released \cup completed : Deps[t] \subseteq completed

(* No held task waits for one that failed.  It needs the ids of a task's   *)
(* dependencies to be of submitted tasks: in a batch a task that fails as  *)
(* it is submitted may already be waited for, and submit_task does not     *)
(* cascade.                                                                *)
NoDoomedWait ==
    Batch = {} => \A t \in waiting : Deps[t] \cap failed \subseteq completed

(* Why: a task is in one stage, and its dependencies were submitted before *)
(* it.                                                                     *)
Stages ==
    /\ waiting \cap (released \cup completed \cup failed \cup overdue) = {}
    /\ waiting \cup released \cup completed \cup failed \cup overdue \subseteq submitted
    /\ \A t \in submitted : Deps[t] \subseteq submitted \cup Batch

DependenciesInv ==
    /\ TypeOK /\ Stages
    /\ WaitersRegistered /\ ListsHeld /\ StartedInOrder /\ NoDoomedWait

=============================================================================
