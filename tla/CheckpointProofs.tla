-------------------------- MODULE CheckpointProofs --------------------------
(***************************************************************************)
(* What survives a crash, for any workflow, dependency graph and number of *)
(* crashes: accepted tasks have rows, finished ones do not run again, no   *)
(* task starts before its dependencies, in whatever life they ended, and   *)
(* the books of the engine and of the run are right after a resume.        *)
(***************************************************************************)
EXTENDS Checkpoint, DependenciesProofs

-----------------------------------------------------------------------------
(* The inductive invariant.                                                *)

(* A released task is in one place of the three.                           *)
OnePlace ==
    /\ queued \cap running = {}
    /\ hand \in queued \cup running => hand = NoTask

(* Whatever has a place or a row was submitted; a row is of one table.     *)
RowsApart ==
    /\ waiting \cup released \cup completed \cup finished
         \cup taskRows \cup waitingRows \subseteq submitted
    /\ waiting \subseteq waitingRows
    /\ waiting \cap (released \cup completed) = {}
    /\ taskRows \cap waitingRows = {}
    /\ completed \subseteq finished

(* A row says that the task may run, or that it has something to wait for. *)
RowsRight ==
    /\ \A t \in taskRows : Deps[t] \subseteq finished
    /\ \A t \in waitingRows : Deps[t] # {}

(* A finished task that a resume has brought back as held waits for tasks  *)
(* that finished too, in an earlier life, and so will not complete again.  *)
FinishedHeldForEver ==
    \A t \in waiting \cap finished : Deps[t] \cap completed = {}

StoreInv ==
    /\ OnePlace /\ RowsApart /\ RowsRight
    /\ FinishedStaysFinished /\ OrderSurvives /\ FinishedHeldForEver

LEMMA StoreInitInv == CheckpointInit => StoreInv
BY DependenciesAssumption
   DEF CheckpointInit, WorkflowInit, Init, StoreInv, OnePlace, RowsApart, RowsRight,
       FinishedStaysFinished, OrderSurvives, FinishedHeldForEver, released

-----------------------------------------------------------------------------
(* Most steps of the dependency engine only move a task on, or end it.     *)

MovesOn ==
    /\ waiting' \subseteq waiting
    /\ released' \subseteq released
    /\ OnePlace'
    /\ UNCHANGED <<submitted, completed>>

LEMMA MovesOnKeeps ==
    ASSUME StoreInv, MovesOn,
           finished' = finished \cup completed',
           taskRows' \subseteq taskRows, UNCHANGED waitingRows
    PROVE  StoreInv'
<1>1. finished' = finished
  BY DEF MovesOn, StoreInv, RowsApart
<1>2. RowsApart' /\ RowsRight'
  BY <1>1 DEF MovesOn, StoreInv, RowsApart, RowsRight
<1>3. FinishedStaysFinished' /\ OrderSurvives' /\ FinishedHeldForEver'
  BY <1>1 DEF MovesOn, StoreInv, FinishedStaysFinished, OrderSurvives,
              FinishedHeldForEver
<1>4. QED
  BY <1>2, <1>3 DEF MovesOn, StoreInv

LEMMA DispatchMovesOn ==
    ASSUME StoreInv, NEW t \in Task,
           get(t) \/ skipCancelled(t) \/ dispatch(t) \/ dead_letter(t)
    PROVE  MovesOn
<1> USE DependenciesAssumption DEF StoreInv, OnePlace, MovesOn, released, heldVars, endVars
<1>1. CASE get(t)
  BY <1>1 DEF get
<1>2. CASE skipCancelled(t)
  BY <1>2 DEF skipCancelled
<1>3. CASE dispatch(t)
  BY <1>3 DEF dispatch
<1>4. CASE dead_letter(t)
  BY <1>4 DEF dead_letter
<1>5. QED
  BY <1>1, <1>2, <1>3, <1>4

LEMMA EndingMovesOn ==
    ASSUME StoreInv, NEW t \in Task,
           \/ expire(t) \/ retry(t) \/ taskFails(t) \/ dropResult(t)
           \/ lateTimeout(t) \/ waitReturns(t)
    PROVE  MovesOn
<1> USE DependenciesAssumption
    DEF StoreInv, OnePlace, MovesOn, released, heldVars, poolVars, endVars
<1>1. CASE expireQueued(t)
  BY <1>1 DEF expireQueued, _on_dep_failed
<1>2. CASE expireWaiting(t)
  BY <1>2 DEF expireWaiting
<1>3. CASE retry(t)
  BY <1>3 DEF retry
<1>4. CASE taskFails(t)
  BY <1>4 DEF taskFails, _on_dep_failed
<1>5. CASE dropResult(t)
  BY <1>5 DEF dropResult
<1>6. CASE lateTimeout(t)
  BY <1>6 DEF lateTimeout, _on_dep_failed
<1>7. CASE waitReturns(t)
  BY <1>7 DEF waitReturns
<1>8. QED
  BY <1>1, <1>2, <1>3, <1>4, <1>5, <1>6, <1>7 DEF expire

LEMMA CancelMovesOn ==
    ASSUME StoreInv, NEW t \in Task, cancelOrMiss(t)
    PROVE  MovesOn
<1> USE DEF StoreInv, OnePlace, MovesOn, released, heldVars, poolVars, endVars
<1>1. CASE cancelActive(t)
  BY <1>1 DEF cancelActive
<1>2. CASE cancelWaiting(t)
  BY <1>2 DEF cancelWaiting, unhold
<1>3. CASE cancelQueued(t)
  BY <1>3 DEF cancelQueued
<1>4. CASE UNCHANGED vars
  BY <1>4 DEF vars
<1>5. QED
  BY <1>1, <1>2, <1>3, <1>4 DEF cancelOrMiss, cancel_task

-----------------------------------------------------------------------------
(* The steps that do more.                                                 *)

LEMMA SubmissionKeeps ==
    ASSUME StoreInv, NEW t \in Task, submit_task(t), saveSubmitted(t),
           finished' = finished \cup completed'
    PROVE  StoreInv'
<1> USE DEF StoreInv, OnePlace, RowsApart, RowsRight, FinishedStaysFinished,
            OrderSurvives, FinishedHeldForEver, released, heldVars, poolVars, endVars
<1>1. t \notin submitted
  BY DEF submit_task, submitFailed, submitReady, submitWaiting, known
<1>2. CASE submitFailed(t)
  BY <1>1, <1>2 DEF submitFailed, saveSubmitted
<1>3. CASE submitReady(t)
  <2>1. /\ queued' = queued \cup {t} /\ Deps[t] \subseteq completed
        /\ submitted' = submitted \cup {t} /\ completed' = completed
        /\ UNCHANGED <<waiting, hand, active, running>>
    BY <1>3 DEF submitReady
  <2>2. finished' = finished /\ taskRows' = taskRows \cup {t} /\ waitingRows' = waitingRows
    BY <1>1, <2>1 DEF saveSubmitted
  <2>3. t \notin released \cup finished \cup taskRows \cup waiting \cup waitingRows
    BY <1>1
  <2>4. t # hand
    BY <2>3, DependenciesAssumption
  <2>5. released' = released \cup {t}
    BY <2>1
  <2>6. OnePlace' /\ RowsApart'
    BY <2>1, <2>2, <2>3, <2>4, <2>5
  <2>7. RowsRight' /\ FinishedStaysFinished' /\ OrderSurvives' /\ FinishedHeldForEver'
    BY <2>1, <2>2, <2>3, <2>5
  <2>8. QED
    BY <2>6, <2>7
<1>4. CASE submitWaiting(t)
  <2>1. /\ waiting' = waiting \cup {t} /\ ~(Deps[t] \subseteq completed)
        /\ submitted' = submitted \cup {t} /\ completed' = completed
        /\ UNCHANGED <<queued, hand, active, running>>
    BY <1>4 DEF submitWaiting
  <2>2. t \notin released \cup finished \cup taskRows \cup waiting \cup completed
    BY <1>1
  <2>3. t \notin queued
    BY <2>2
  <2>4. finished' = finished /\ taskRows' = taskRows /\ waitingRows' = waitingRows \cup {t}
    BY <2>1, <2>3 DEF saveSubmitted
  <2>5. released' = released
    BY <2>1
  <2>6. OnePlace' /\ RowsApart'
    BY <2>1, <2>2, <2>4, <2>5
  <2>7. RowsRight' /\ FinishedStaysFinished' /\ OrderSurvives' /\ FinishedHeldForEver'
    BY <2>1, <2>2, <2>4, <2>5
  <2>8. QED
    BY <2>6, <2>7
<1>5. QED
  BY <1>2, <1>3, <1>4 DEF submit_task

(* What a completion releases has not finished in an earlier life.         *)
LEMMA ReadyIsNew ==
    ASSUME StoreInv, NEW t \in Task, t \in running
    PROVE  ready(t) \cap finished = {}
<1>1. SUFFICES ASSUME NEW w \in ready(t), w \in finished PROVE FALSE
  OBVIOUS
<1>2. w \in waiting /\ Deps[w] \subseteq completed \cup {t}
  BY DEF ready
<1>3. Deps[w] \subseteq finished /\ t \notin finished
  BY <1>1 DEF StoreInv, OrderSurvives, FinishedStaysFinished, released
<1>4. Deps[w] \cap completed = {} /\ Deps[w] # {}
  BY <1>1, <1>2 DEF StoreInv, FinishedHeldForEver, RowsApart, RowsRight
<1>5. QED
  BY <1>2, <1>3, <1>4

LEMMA CompletionKeeps ==
    ASSUME StoreInv, NEW t \in Task, taskSucceeds(t), remove_task(t),
           finished' = finished \cup completed', UNCHANGED waitingRows
    PROVE  StoreInv'
<1> DEFINE new == ready(t)
<1>1. /\ t \in running
      /\ completed' = completed \cup {t} /\ active' = active \ {t}
      /\ running' = running \ {t}
      /\ waiting' = waiting \ new /\ queued' = queued \cup new
      /\ UNCHANGED <<submitted, hand>>
  BY DEF taskSucceeds, _on_dep_satisfied
<1>2. /\ new \subseteq waiting
      /\ \A w \in new : Deps[w] \subseteq completed \cup {t}
  BY DEF ready
<1>3. new \cap finished = {}
  BY <1>1, ReadyIsNew
<1> HIDE DEF new
<1>4. /\ t \notin finished \cup waiting \cup queued /\ t # hand
      /\ Deps[t] \subseteq finished /\ t \in submitted
  BY <1>1, DependenciesAssumption
     DEF StoreInv, FinishedStaysFinished, OrderSurvives, RowsApart, OnePlace, released
<1>5. finished' = finished \cup {t} /\ taskRows' = taskRows \ {t}
  BY <1>1 DEF StoreInv, RowsApart, remove_task
<1>6. released' = (released \ {t}) \cup new /\ t \notin new
  BY <1>1, <1>2, <1>4 DEF released
<1>7. new \cap released = {} /\ new \subseteq submitted /\ new \cap completed = {}
  BY <1>2 DEF StoreInv, RowsApart
<1>8. OnePlace'
  <2>1. new \cap running = {} /\ (hand \in new => hand = NoTask)
    BY <1>7 DEF released
  <2>2. QED
    BY <1>1, <2>1 DEF StoreInv, OnePlace
<1>9. RowsApart'
  BY <1>1, <1>2, <1>4, <1>5, <1>6, <1>7 DEF StoreInv, RowsApart
<1>10. RowsRight' /\ FinishedStaysFinished'
  BY <1>2, <1>3, <1>4, <1>5, <1>6
     DEF StoreInv, RowsRight, FinishedStaysFinished, RowsApart
<1>11. OrderSurvives'
  BY <1>2, <1>4, <1>5, <1>6 DEF StoreInv, OrderSurvives, RowsApart
<1>12. FinishedHeldForEver'
  <2>1. SUFFICES ASSUME NEW w \in waiting', w \in finished'
                 PROVE  Deps[w] \cap (completed \cup {t}) = {}
    BY <1>1 DEF FinishedHeldForEver
  <2>2. w \in waiting \cap finished
    BY <1>1, <1>4, <1>5, <2>1
  <2>3. Deps[w] \subseteq finished /\ Deps[w] \cap completed = {}
    BY <2>2 DEF StoreInv, OrderSurvives, FinishedHeldForEver
  <2>4. QED
    BY <1>4, <2>3
<1>13. QED
  BY <1>8, <1>9, <1>10, <1>11, <1>12 DEF StoreInv

(* A restart from the rows in "rows", when the tasks in "more" have        *)
(* finished since the history was written.                                 *)
LEMMA ResumeKeeps ==
    ASSUME StoreInv, NEW rows, rows \subseteq taskRows,
           NEW more, more \subseteq submitted, more \cap rows = {},
           \A t \in more : Deps[t] \subseteq finished,
           resumeTasks(rows), taskRows' = rows, UNCHANGED waitingRows,
           finished' = finished \cup more
    PROVE  StoreInv'
<1>1. /\ queued' = rows /\ hand' = NoTask /\ waiting' = waitingRows
      /\ active' = {} /\ running' = {} /\ completed' = {} /\ submitted' = submitted
  BY DEF resumeTasks, restart
<1>2. rows \cap finished = {} /\ rows \subseteq submitted
  BY DEF StoreInv, FinishedStaysFinished, RowsApart
<1>3. released' = rows
  BY <1>1 DEF released
<1>4. QED
  BY <1>1, <1>2, <1>3
     DEF StoreInv, OnePlace, RowsApart, RowsRight, FinishedStaysFinished,
         OrderSurvives, FinishedHeldForEver

-----------------------------------------------------------------------------
(* Every step.                                                             *)

LEMMA StoreStep ==
    ASSUME StoreInv, [CheckpointNext]_ckVars
    PROVE  StoreInv'
<1>1. ASSUME NEW t \in Task, live(submission(t))
      PROVE  StoreInv'
  <2>1. submit_task(t) /\ saveSubmitted(t)
    BY <1>1 DEF live, submission, submitPhase, clientSubmits
  <2>2. QED
    BY <1>1, <2>1, SubmissionKeeps DEF live
<1>2. ASSUME NEW t \in Task, live(success(t))
      PROVE  StoreInv'
  BY <1>2, CompletionKeeps DEF live, success, resultSuccess
<1>3. ASSUME NEW t \in Task, live(failure(t))
      PROVE  StoreInv'
  <2>1. taskFails(t) \/ lateTimeout(t)
    BY <1>3 DEF live, failure, resultFailure
  <2>2. taskRows' \subseteq taskRows /\ UNCHANGED waitingRows
    BY <1>3 DEF live, failure, remove_task
  <2>3. QED
    BY <1>3, <2>1, <2>2, EndingMovesOn, MovesOnKeeps DEF live
<1>4. ASSUME NEW t \in Task, live(retrying(t))
      PROVE  StoreInv'
  <2>1. retry(t) /\ UNCHANGED store
    BY <1>4 DEF live, retrying, resultRetry
  <2>2. QED
    BY <1>4, <2>1, EndingMovesOn, MovesOnKeeps DEF live, store
<1>5. ASSUME NEW t \in Task, live(other(t))
      PROVE  StoreInv'
  <2>1. UNCHANGED store
    BY <1>5 DEF live, other
  <2>2. \/ expire(t) \/ dropResult(t) \/ waitReturns(t)
        \/ get(t) \/ skipCancelled(t) \/ dispatch(t) \/ dead_letter(t)
        \/ cancelOrMiss(t)
    BY <1>5 DEF live, other, expiry, unobserved, scheduledCancel, cancelNext, cancelOrMiss
  <2>3. MovesOn
    BY <2>2, DispatchMovesOn, EndingMovesOn, CancelMovesOn
  <2>4. QED
    BY <1>5, <2>1, <2>3, MovesOnKeeps DEF live, store
<1>6. ASSUME NEW t \in Task, crashInSuccess(t)
      PROVE  StoreInv'
  <2>1. t \in submitted /\ Deps[t] \subseteq finished
    BY <1>6 DEF crashInSuccess, StoreInv, RowsApart, OrderSurvives, released
  <2>2. /\ resumeTasks(taskRows \ {t}) /\ taskRows' = taskRows \ {t}
        /\ UNCHANGED waitingRows /\ finished' = finished \cup {t}
    BY <1>6 DEF crashInSuccess, resume, remove_task
  <2>3. QED
    BY <2>1, <2>2, ResumeKeeps
<1>7. CASE live(request)
  <2>1. UNCHANGED vars /\ UNCHANGED store
    BY <1>7 DEF live, request, register, cancel_workflow, cancelRun
  <2>2. MovesOn
    BY <2>1 DEF vars, heldVars, poolVars, endVars, MovesOn, released, StoreInv, OnePlace
  <2>3. QED
    BY <1>7, <2>1, <2>2, MovesOnKeeps DEF live, store
<1>8. CASE crash
  <2>1. /\ resumeTasks(taskRows) /\ UNCHANGED <<taskRows, waitingRows>>
        /\ finished' = finished \cup {}
    BY <1>8 DEF crash, resume, store, history
  <2> DEFINE none == {}
  <2>2. /\ taskRows \subseteq taskRows /\ none \subseteq submitted
        /\ none \cap taskRows = {} /\ \A t \in none : Deps[t] \subseteq finished
        /\ finished' = finished \cup none
    BY <2>1
  <2> HIDE DEF none
  <2>3. QED
    BY <2>1, <2>2, ResumeKeeps
<1>9. CASE UNCHANGED ckVars
  BY <1>9 DEF ckVars, wfVars, vars, heldVars, poolVars, endVars, store, history,
              StoreInv, OnePlace, RowsApart, RowsRight, FinishedStaysFinished,
              OrderSurvives, FinishedHeldForEver, released
<1>10. QED
  BY <1>1, <1>2, <1>3, <1>4, <1>5, <1>6, <1>7, <1>8, <1>9 DEF CheckpointNext

(* The invariant behind the two theorems that follow.                      *)
THEOREM StoreInvHolds == CheckpointSpec => []StoreInv
<1>1. QED
  BY StoreInitInv, StoreStep, PTL DEF CheckpointSpec

(* A task that completed in one life of the process runs in no later one,  *)
(* though a held one keeps its row for ever.                               *)
THEOREM FinishedStaysFinishedHolds == CheckpointSpec => []FinishedStaysFinished
<1>1. StoreInv => FinishedStaysFinished
  BY DEF StoreInv
<1>2. QED
  BY <1>1, StoreInvHolds, PTL

(* No task runs before its dependencies completed, in this life or an      *)
(* earlier one.                                                            *)
THEOREM OrderSurvivesHolds == CheckpointSpec => []OrderSurvives
<1>1. StoreInv => OrderSurvives
  BY DEF StoreInv
<1>2. QED
  BY <1>1, StoreInvHolds, PTL

-----------------------------------------------------------------------------
(* Accepted tasks.                                                         *)

LEMMA AcceptedStep ==
    ASSUME AcceptedIsStored, [CheckpointNext]_ckVars
    PROVE  AcceptedIsStored'
<1> USE DEF AcceptedIsStored
<1>1. ASSUME NEW t \in Task, live(submission(t))
      PROVE  AcceptedIsStored'
  <2>1. saveSubmitted(t) /\ submit_task(t) /\ ended \cup failed' \subseteq ended'
    BY <1>1 DEF live, submission, submitPhase, clientSubmits
  <2>2. /\ submitted' = submitted \cup {t}
        /\ t \in failed' \cup queued' \cup waiting'
    BY <2>1 DEF submit_task, submitFailed, submitReady, submitWaiting
  <2>3. QED
    BY <2>1, <2>2 DEF saveSubmitted
<1>2. ASSUME NEW t \in Task, live(success(t)) \/ live(failure(t))
      PROVE  AcceptedIsStored'
  <2>1. /\ remove_task(t) /\ UNCHANGED waitingRows
        /\ resultSuccess(t) \/ resultFailure(t)
        /\ ended \cup completed' \cup failed' \subseteq ended'
    BY <1>2 DEF live, success, failure
  <2>2. t \in completed' \cup failed' /\ submitted' = submitted
    BY <2>1 DEF resultSuccess, resultFailure, taskSucceeds, taskFails, lateTimeout,
                _on_dep_failed
  <2>3. QED
    BY <2>1, <2>2 DEF remove_task
<1>3. ASSUME NEW t \in Task, live(retrying(t)) \/ live(other(t))
      PROVE  AcceptedIsStored'
  <2>1. UNCHANGED store /\ ended \subseteq ended'
    BY <1>3 DEF live, retrying, other
  <2>2. submitted' = submitted
    <3>1. CASE retrying(t)
      BY <3>1 DEF retrying, resultRetry, retry
    <3>2. CASE expiry(t)
      BY <3>2 DEF expiry, expire, expireQueued, expireWaiting
    <3>3. CASE unobserved(t)
      BY <3>3 DEF unobserved, get, skipCancelled, dispatch, dead_letter, dropResult,
                  waitReturns, cancel_task, cancelActive, cancelWaiting, cancelQueued
    <3>4. CASE scheduledCancel(t) \/ cancelNext(t)
      BY <3>4 DEF scheduledCancel, cancelNext, cancelOrMiss, cancel_task, cancelActive,
                  cancelWaiting, cancelQueued, vars
    <3>5. QED
      BY <1>3, <3>1, <3>2, <3>3, <3>4 DEF live, other
  <2>3. QED
    BY <2>1, <2>2 DEF store
<1>4. ASSUME NEW t \in Task, crashInSuccess(t)
      PROVE  AcceptedIsStored'
  BY <1>4 DEF crashInSuccess, remove_task, resume, resumeTasks, restart
<1>5. CASE live(request)
  BY <1>5 DEF live, request, register, cancel_workflow, cancelRun, vars, store
<1>6. CASE crash
  BY <1>6 DEF crash, store, history, resume, resumeTasks, restart
<1>7. CASE UNCHANGED ckVars
  BY <1>7 DEF ckVars, wfVars, vars, store, history
<1>8. QED
  BY <1>1, <1>2, <1>3, <1>4, <1>5, <1>6, <1>7 DEF CheckpointNext

(* No crash, wherever it comes, makes the orchestrator forget an accepted  *)
(* task that has not ended.                                                *)
THEOREM AcceptedIsStoredHolds == CheckpointSpec => []AcceptedIsStored
<1>1. CheckpointInit => AcceptedIsStored
  BY DEF CheckpointInit, WorkflowInit, Init, AcceptedIsStored
<1>2. QED
  BY <1>1, AcceptedStep, PTL DEF CheckpointSpec

-----------------------------------------------------------------------------
(* The books of the engine: a life of the process keeps what it finds, and *)
(* a resume puts down books in order.                                      *)

LEMMA ResumeInOrder ==
    ASSUME StoreInv, HeldInv, NEW rows, rows \subseteq taskRows, resumeTasks(rows)
    PROVE  HeldInv'
<1>1. /\ queued' = rows /\ hand' = NoTask /\ waiting' = waitingRows
      /\ active' = {} /\ running' = {} /\ tombstones' = {} /\ overdue' = {}
      /\ completed' = {} /\ failed' = {} /\ dlq' = {}
      /\ retries' = [t \in Task |-> 0]
      /\ dependents' = [d \in Task |-> {w \in waitingRows : d \in Deps[w]}]
      /\ submitted' = submitted /\ cancelled' = cancelled
  BY DEF resumeTasks, restart, heldBehind
<1>2. /\ rows \cup waitingRows \subseteq submitted /\ rows \cap waitingRows = {}
      /\ \A w \in waitingRows : Deps[w] # {}
  BY DEF StoreInv, RowsApart, RowsRight
<1>3. submitted \subseteq Task /\ Deps \in [Task -> SUBSET Task]
  BY DependenciesAssumption DEF HeldInv, TypeOK
<1>4. TypeOK'
  BY <1>1, <1>2, <1>3 DEF HeldInv, TypeOK
<1>5. released' = rows
  BY <1>1 DEF released
<1>6. Stages'
  BY <1>1, <1>2, <1>5 DEF HeldInv, Stages
<1>7. Books'
  BY <1>1, <1>2, <1>3 DEF Books, WaitersRegistered, ListsHeld, NoDoomedWait
<1> QED  BY <1>4, <1>6, <1>7 DEF HeldInv

LEMMA SurvivesStep ==
    ASSUME StoreInv, HeldInv, [CheckpointNext]_ckVars
    PROVE  HeldInv'
<1>1. ASSUME NEW t \in Task,
             \/ live(submission(t)) \/ live(success(t)) \/ live(failure(t))
             \/ live(retrying(t)) \/ live(other(t))
      PROVE  [AnyStep]_vars
  <2>1. \/ submit_task(t) \/ taskSucceeds(t) \/ taskFails(t) \/ lateTimeout(t)
        \/ retry(t) \/ expire(t) \/ dropResult(t) \/ waitReturns(t)
        \/ get(t) \/ skipCancelled(t) \/ dispatch(t) \/ dead_letter(t)
        \/ cancelOrMiss(t)
    <3>1. CASE live(submission(t))
      BY <3>1 DEF live, submission, submitPhase, clientSubmits
    <3>2. CASE live(success(t)) \/ live(failure(t)) \/ live(retrying(t))
      BY <3>2 DEF live, success, resultSuccess, failure, resultFailure,
                  retrying, resultRetry
    <3>3. CASE live(other(t))
      BY <3>3 DEF live, other, expiry, unobserved, scheduledCancel, cancelNext, cancelOrMiss
    <3> QED  BY <1>1, <3>1, <3>2, <3>3
  <2> QED  BY <2>1 DEF AnyStep, step, cancelOrMiss
<1>2. ASSUME NEW t \in Task, crashInSuccess(t)
      PROVE  HeldInv'
  <2>1. resumeTasks(taskRows \ {t}) /\ taskRows \ {t} \subseteq taskRows
    BY <1>2 DEF crashInSuccess, resume
  <2> QED  BY <2>1, ResumeInOrder
<1>3. CASE crash
  <2>1. resumeTasks(taskRows) /\ taskRows \subseteq taskRows
    BY <1>3 DEF crash, resume
  <2> QED  BY <2>1, ResumeInOrder
<1>4. CASE live(request) \/ UNCHANGED ckVars
  BY <1>4, HeldStep DEF live, request, register, cancel_workflow, cancelRun, ckVars, wfVars
<1> QED
  BY <1>1, <1>2, <1>3, <1>4, HeldStep DEF CheckpointNext

(* For any workflow, dependencies and number of crashes: the books that a  *)
(* resume rebuilds are in order, and stay so.                              *)
THEOREM BooksSurviveHolds == CheckpointSpec => []BooksSurvive
<1>1. CheckpointInit => HeldInv
  BY InitInv DEF CheckpointInit, WorkflowInit, DependenciesInv, HeldInv, Books
<1>2. HeldInv => BooksSurvive
  BY DEF HeldInv, Books, Stages, BooksSurvive
<1> QED  BY <1>1, <1>2, SurvivesStep, StoreInvHolds, PTL DEF CheckpointSpec

-----------------------------------------------------------------------------
(* The run.  Its row and its books count what finished or was skipped.     *)

Honest(status, C) == C \subseteq finished \cup skipped /\ (status = "complete" => Wf \subseteq C)

RunInv ==
    /\ Honest(runStatus, runCompleted)
    /\ \A row \in runRows : Honest(row.status, row.completed)

LEMMA LaterSkipped ==
    \A i \in 1..Len(Iterations) :
        laterTasks(i) \subseteq UNION {Iterations[j] : j \in 2..Len(Iterations)}
<1>1. ASSUME NEW i \in 1..Len(Iterations), NEW j \in i+1..Len(Iterations)
      PROVE  j \in 2..Len(Iterations)
  <2>1. Iterations \in Seq(SUBSET Wf)
    BY WorkflowManagerAssumption
  <2> QED  BY <1>1, <2>1
<1> QED  BY <1>1 DEF laterTasks

(* The set of completed tasks shrinks, or what joins it has completed or   *)
(* is skipped.                                                             *)
Counts ==
    /\ runCompleted' \subseteq runCompleted \cup finished' \cup skipped'
    /\ runStatus' = "complete" =>
          Wf \subseteq runCompleted' \/ (runStatus = "complete" /\ runCompleted' = runCompleted)
    /\ loopOpen' => loopOpen

LEMMA CountsHonestly ==
    ASSUME RunInv, Counts, finished \subseteq finished',
           \/ runRows' = runRows
           \/ runRows' = {[status |-> runStatus', completed |-> runCompleted',
                           failed |-> runFailed', ended |-> runEnded']}
    PROVE  RunInv'
<1>1. skipped \subseteq skipped'
  BY DEF Counts, skipped
<1>2. Honest(runStatus, runCompleted)'
  BY <1>1 DEF RunInv, Honest, Counts
<1>3. ASSUME NEW row \in runRows' PROVE Honest(row.status, row.completed)'
  <2>1. CASE runRows' = runRows
    BY <1>1, <1>3, <2>1 DEF RunInv, Honest
  <2>2. CASE runRows' # runRows
    <3>1. row.status = runStatus' /\ row.completed = runCompleted'
      BY <1>3, <2>2
    <3> QED  BY <1>2, <3>1 DEF Honest
  <2> QED  BY <2>1, <2>2
<1> QED  BY <1>2, <1>3 DEF RunInv

(* What the manager is told, and what is skipped over its head.            *)
LEMMA ManagerCounts ==
    ASSUME NEW t,
           \/ on_task_complete(t) /\ t \in finished'
           \/ on_task_failed(t) \/ on_task_retrying(t) \/ cancel
           \/ UNCHANGED <<runVars, loopOpen>>
    PROVE  Counts
<1>1. CASE UNCHANGED <<runVars, loopOpen>>
  BY <1>1 DEF Counts, runVars
<1>2. CASE UNCHANGED managerVars
  BY <1>1, <1>2 DEF managerVars, loopVars
<1>3. CASE on_task_complete(t) /\ t \in finished' /\ ~UNCHANGED managerVars
  <2>1. CASE /\ _update_status(runCompleted \cup {t}, runFailed \ {t})
             /\ loopOpen' = loopOpen
    BY <1>3, <2>1 DEF Counts, _update_status
  <2>2. ASSUME NEW i \in 1..Len(Iterations), loopOpen' = FALSE,
               _update_status(runCompleted \cup {t} \cup laterTasks(i),
                              (runFailed \ {t}) \ laterTasks(i))
        PROVE  Counts
    <3>1. laterTasks(i) \subseteq skipped'
      BY <2>2, LaterSkipped DEF skipped
    <3> QED  BY <1>3, <2>2, <3>1 DEF Counts, _update_status
  <2> QED  BY <1>3, <2>1, <2>2 DEF on_task_complete
<1>4. CASE (on_task_failed(t) \/ on_task_retrying(t)) /\ ~UNCHANGED managerVars
  BY <1>4 DEF on_task_failed, on_task_retrying, _update_status, loopVars, Counts
<1>5. CASE cancel
  BY <1>5 DEF cancel, Counts, loopVars
<1> QED  BY <1>1, <1>2, <1>3, <1>4, <1>5

LEMMA RestoredHonestly ==
    ASSUME RunInv, resumeRun, finished \subseteq finished', runRows' = runRows
    PROVE  RunInv'
<1>1. /\ loopOpen' = FALSE
      /\ \/ runStatus' = "pending" /\ runCompleted' = {}
         \/ \E row \in runRows : runStatus' = row.status /\ runCompleted' = row.completed
  BY DEF resumeRun
<1>2. skipped \subseteq skipped'
  BY <1>1 DEF skipped
<1>3. \A row \in runRows : Honest(row.status, row.completed)'
  BY <1>2 DEF RunInv, Honest
<1>4. Honest(runStatus, runCompleted)'
  BY <1>1, <1>3 DEF Honest
<1> QED  BY <1>3, <1>4 DEF RunInv

LEMMA RunStep ==
    ASSUME RunInv, [CheckpointNext]_ckVars
    PROVE  RunInv'
<1> USE DEF live
<1>1. ASSUME NEW t \in Task, live(submission(t)) \/ live(retrying(t)) \/ live(other(t))
      PROVE  RunInv'
  <2>1. finished \subseteq finished' /\ runRows' = runRows
    BY <1>1 DEF submission, saveSubmitted, retrying, other, store
  <2>2. \/ on_task_failed(t) \/ on_task_retrying(t) \/ UNCHANGED <<runVars, loopOpen>>
    <3>1. CASE submission(t)
      BY <3>1 DEF submission, submitPhase, clientSubmits, unseen, managerVars, loopVars
    <3>2. CASE retrying(t)
      BY <3>2 DEF retrying, resultRetry, observe, managerVars, loopVars
    <3>3. CASE other(t)
      BY <3>3 DEF other, expiry, observe, unobserved, unseen, scheduledCancel, cancelNext,
                  managerVars, loopVars
    <3> QED  BY <1>1, <3>1, <3>2, <3>3
  <2> QED  BY <2>1, <2>2, ManagerCounts, CountsHonestly
<1>2. ASSUME NEW t \in Task, live(success(t)) \/ live(failure(t))
      PROVE  RunInv'
  <2>1. /\ finished \subseteq finished'
        /\ \/ runRows' = runRows
           \/ runRows' = {[status |-> runStatus', completed |-> runCompleted',
                           failed |-> runFailed', ended |-> runEnded']}
    BY <1>2 DEF success, save_workflow, failure
  <2>2. \/ on_task_complete(t) /\ t \in finished'
        \/ on_task_failed(t) \/ UNCHANGED <<runVars, loopOpen>>
    <3>1. CASE live(success(t))
      BY <3>1 DEF success, resultSuccess, taskSucceeds, observe, managerVars, loopVars
    <3>2. CASE live(failure(t))
      BY <3>2 DEF failure, resultFailure, observe, managerVars, loopVars
    <3> QED  BY <1>2, <3>1, <3>2
  <2> QED  BY <2>1, <2>2, ManagerCounts, CountsHonestly
<1>3. ASSUME NEW t \in Task, crashInSuccess(t)
      PROVE  RunInv'
  BY <1>3, RestoredHonestly DEF crashInSuccess, resume
<1>4. CASE crash
  BY <1>4, RestoredHonestly DEF crash, resume, store, history
<1>5. CASE live(request) \/ UNCHANGED ckVars
  <2>1. cancel \/ UNCHANGED <<runVars, loopOpen>>
    BY <1>5 DEF request, register, cancel_workflow, cancelRun, ckVars, wfVars, managerVars,
                loopVars
  <2>2. finished \subseteq finished' /\ runRows' = runRows
    BY <1>5 DEF request, ckVars, store, history
  <2> QED  BY <2>1, <2>2, ManagerCounts, CountsHonestly
<1> QED
  BY <1>1, <1>2, <1>3, <1>4, <1>5 DEF CheckpointNext

(* A run is not reported complete before all of it has finished or was     *)
(* skipped, in one life of the process or over several.                    *)
THEOREM RestoredRunHonestHolds == CheckpointSpec => []RestoredRunHonest
<1>1. CheckpointInit => RunInv
  BY DEF CheckpointInit, WorkflowInit, ManagerInit, RunInv, Honest
<1>2. RunInv => RestoredRunHonest
  BY DEF RunInv, Honest, RestoredRunHonest
<1> QED  BY <1>1, <1>2, RunStep, PTL DEF CheckpointSpec

-----------------------------------------------------------------------------
(* Durable work.  Beside the books it takes that a task with a place in    *)
(* the queue or at an agent has a row, and that a task whose timeout may   *)
(* yet be reported has no such place.                                      *)

pending == queued \cup ({hand} \ {NoTask})

placed == pending \cup running

PlacedStored == placed \subseteq taskRows \cup waitingRows

LateElsewhere == overdue \cap placed = {}

PlacesInv == StoreInv /\ HeldInv /\ PlacedStored /\ LateElsewhere

LEMMA WorkOfEach ==
    /\ work = [u \in Task |-> workOf(u)]
    /\ work' = [u \in Task |-> workOf(u)']
BY DEF work

(* The cases of workOf exclude each other.                                 *)
LEMMA PlacesApart ==
    ASSUME PlacesInv
    PROVE  /\ waiting \cup placed \cup finished \subseteq submitted
           /\ submitted \subseteq Task
           /\ placed \cap (waiting \cup finished \cup overdue) = {}
           /\ pending \cap running = {}
           /\ \A u \in Task : u \in queued \cup {hand} <=> u \in pending
BY DependenciesAssumption
   DEF PlacesInv, StoreInv, HeldInv, TypeOK, RowsApart, OnePlace, FinishedStaysFinished,
       LateElsewhere, Stages, released, placed, pending

LEMMA WorkOfPlace ==
    ASSUME PlacesInv, NEW u \in Task
    PROVE  /\ u \in finished => workOf(u) = "done"
           /\ u \in running => workOf(u) = "running"
           /\ u \in pending => workOf(u) = "queued"
           /\ u \in waiting \ finished => workOf(u) = "held"
           /\ u \in submitted \ (finished \cup placed \cup waiting) => workOf(u) = "ended"
           /\ u \notin submitted => workOf(u) = "new"
BY PlacesApart DEF workOf, placed

(* Tasks leave their places, and none gets another; a timeout that may yet *)
(* be reported is of a task that leaves.                                   *)
Leaves ==
    /\ waiting' \subseteq waiting
    /\ running' \subseteq running
    /\ pending' \subseteq pending
    /\ overdue' \subseteq overdue \cup (placed \ placed')
    /\ UNCHANGED <<submitted, completed>>

LEMMA LeavesGivesUp ==
    ASSUME PlacesInv, Leaves, hand' \in Task \cup {NoTask}, finished' = finished
    PROVE  Durable!giveUp
<1> DEFINE G == {u \in Task : workOf(u)' # workOf(u)}
<1>1. ASSUME NEW u \in Task
      PROVE  \/ workOf(u)' = workOf(u)
             \/ workOf(u) \in {"held", "queued", "running"} /\ workOf(u)' = "ended"
  <2>1. u \in queued' \cup {hand'} <=> u \in pending'
    BY DependenciesAssumption DEF pending
  <2>2. workOf(u)' = IF u \in finished THEN "done"
                     ELSE IF u \in running' THEN "running"
                     ELSE IF u \in pending' THEN "queued"
                     ELSE IF u \in waiting' THEN "held"
                     ELSE IF u \in submitted THEN "ended"
                     ELSE "new"
    BY <2>1 DEF workOf, Leaves
  <2>3. CASE u \in finished
    BY <2>2, <2>3, WorkOfPlace
  <2>4. CASE u \in running
    BY <2>2, <2>4, WorkOfPlace, PlacesApart DEF Leaves, placed
  <2>5. CASE u \in pending
    BY <2>2, <2>5, WorkOfPlace, PlacesApart DEF Leaves, placed
  <2>6. CASE u \in waiting \ finished
    BY <2>2, <2>6, WorkOfPlace, PlacesApart DEF Leaves, placed
  <2>7. CASE u \in submitted \ (finished \cup placed \cup waiting)
    BY <2>2, <2>7, WorkOfPlace DEF Leaves, placed
  <2>8. CASE u \notin submitted
    BY <2>2, <2>8, WorkOfPlace, PlacesApart DEF Leaves, placed
  <2> QED  BY <2>3, <2>4, <2>5, <2>6, <2>7, <2>8 DEF placed
<1>2. G \in SUBSET {u \in Task : work[u] \in {"held", "queued", "running"}}
  BY <1>1, WorkOfEach
<1>3. work' = [u \in Task |-> IF u \in G THEN "ended" ELSE work[u]]
  BY <1>1, WorkOfEach
<1> HIDE DEF G
<1> QED  BY <1>2, <1>3 DEF Durable!giveUp

(* The steps that only take tasks from where they are.                     *)
LEMMA EndingLeaves ==
    ASSUME PlacesInv, NEW t \in Task,
           \/ get(t) \/ skipCancelled(t) \/ dead_letter(t) \/ expire(t) \/ taskFails(t)
           \/ dropResult(t) \/ lateTimeout(t) \/ waitReturns(t) \/ cancelOrMiss(t)
    PROVE  Leaves
<1> USE DEF Leaves, pending, heldVars, poolVars, endVars
<1>1. CASE get(t)
  BY <1>1, DependenciesAssumption DEF get
<1>2. CASE skipCancelled(t)
  BY <1>2 DEF skipCancelled
<1>3. CASE dead_letter(t)
  BY <1>3 DEF dead_letter
<1>4. CASE expireQueued(t)
  BY <1>4 DEF expireQueued, _on_dep_failed
<1>5. CASE expireWaiting(t)
  BY <1>5 DEF expireWaiting
<1>6. CASE taskFails(t)
  BY <1>6 DEF taskFails, _on_dep_failed
<1>7. CASE dropResult(t)
  <2>1. t \notin pending /\ t \in placed
    BY <1>7, PlacesApart DEF dropResult, placed
  <2>2. t \notin placed'
    BY <1>7, <2>1 DEF dropResult, placed
  <2> QED  BY <1>7, <2>1, <2>2 DEF dropResult
<1>8. CASE lateTimeout(t)
  BY <1>8 DEF lateTimeout, _on_dep_failed
<1>9. CASE waitReturns(t)
  BY <1>9 DEF waitReturns
<1>10. CASE cancelActive(t)
  BY <1>10 DEF cancelActive
<1>11. CASE cancelWaiting(t)
  BY <1>11 DEF cancelWaiting, unhold
<1>12. CASE cancelQueued(t)
  BY <1>12 DEF cancelQueued
<1>13. CASE UNCHANGED vars
  BY <1>13 DEF vars
<1> QED
  BY <1>1, <1>2, <1>3, <1>4, <1>5, <1>6, <1>7, <1>8, <1>9, <1>10, <1>11, <1>12, <1>13
     DEF expire, cancelOrMiss, cancel_task

-----------------------------------------------------------------------------
(* The steps, one kind at a time.                                          *)

LEMMA LeavesPlaces ==
    ASSUME PlacesInv, Leaves, UNCHANGED waitingRows,
           taskRows \cap placed' \subseteq taskRows'
    PROVE  PlacedStored' /\ LateElsewhere'
<1>1. placed' \subseteq placed
  BY DEF Leaves, placed
<1> QED
  BY <1>1 DEF PlacesInv, PlacedStored, LateElsewhere, Leaves

LEMMA LeavesIsDurable ==
    ASSUME PlacesInv, TypeOK', Leaves, UNCHANGED waitingRows,
           taskRows \cap placed' \subseteq taskRows',
           finished' = finished \cup completed'
    PROVE  PlacedStored' /\ LateElsewhere' /\ Durable!Next
<1>1. finished' = finished
  BY DEF Leaves, PlacesInv, StoreInv, RowsApart
<1>2. Durable!giveUp
  BY <1>1, LeavesGivesUp DEF TypeOK
<1> QED  BY <1>2, LeavesPlaces DEF Durable!Next

(* A step that changes the place of one task only.                         *)
LEMMA OneMoves ==
    ASSUME NEW t \in Task, NEW to,
           \A u \in Task \ {t} : workOf(u)' = workOf(u), workOf(t)' = to
    PROVE  work' = [work EXCEPT ![t] = to]
BY WorkOfEach

LEMMA DispatchIsDurable ==
    ASSUME PlacesInv, NEW t \in Task, dispatch(t), UNCHANGED store,
           finished' = finished \cup completed'
    PROVE  PlacedStored' /\ LateElsewhere' /\ Durable!Next
<1>1. /\ hand = t /\ hand' = NoTask /\ queued' = queued /\ running' = running \cup {t}
      /\ UNCHANGED <<submitted, waiting, completed, overdue>>
  BY DEF dispatch, heldVars, endVars
<1>2. finished' = finished
  BY <1>1 DEF PlacesInv, StoreInv, RowsApart
<1>3. t \in pending /\ placed' \subseteq placed
  BY <1>1, DependenciesAssumption DEF pending, placed
<1>4. PlacedStored' /\ LateElsewhere'
  BY <1>1, <1>3 DEF PlacesInv, PlacedStored, LateElsewhere, store
<1>5. workOf(t) = "queued" /\ workOf(t)' = "running"
  BY <1>1, <1>2, <1>3, WorkOfPlace, PlacesApart DEF workOf, placed
<1>6. \A u \in Task \ {t} : workOf(u)' = workOf(u)
  BY <1>1, <1>2, DependenciesAssumption DEF workOf
<1>7. Durable!take(t)
  BY <1>5, <1>6, OneMoves, WorkOfEach DEF Durable!take, Durable!move
<1> QED  BY <1>4, <1>7 DEF Durable!Next

LEMMA RetryIsDurable ==
    ASSUME PlacesInv, NEW t \in Task, retry(t), UNCHANGED store,
           finished' = finished \cup completed'
    PROVE  PlacedStored' /\ LateElsewhere' /\ Durable!Next
<1>1. /\ t \in running /\ queued' = queued \cup {t} /\ running' = running \ {t}
      /\ UNCHANGED <<submitted, waiting, hand, completed, overdue>>
  BY DEF retry, heldVars, endVars
<1>2. finished' = finished
  BY <1>1 DEF PlacesInv, StoreInv, RowsApart
<1>3. placed' \subseteq placed
  BY <1>1 DEF pending, placed
<1>4. PlacedStored' /\ LateElsewhere'
  BY <1>1, <1>3 DEF PlacesInv, PlacedStored, LateElsewhere, store
<1>5. workOf(t) = "running" /\ workOf(t)' = "queued"
  BY <1>1, <1>2, WorkOfPlace, PlacesApart DEF workOf, placed
<1>6. \A u \in Task \ {t} : workOf(u)' = workOf(u)
  BY <1>1, <1>2 DEF workOf
<1>7. Durable!return(t)
  BY <1>5, <1>6, OneMoves, WorkOfEach DEF Durable!return, Durable!move
<1> QED  BY <1>4, <1>7 DEF Durable!Next

LEMMA SubmissionIsDurable ==
    ASSUME PlacesInv, NEW t \in Task, submit_task(t), saveSubmitted(t),
           finished' = finished \cup completed'
    PROVE  PlacedStored' /\ LateElsewhere' /\ Durable!Next
<1>1. /\ t \notin submitted /\ submitted' = submitted \cup {t}
      /\ UNCHANGED <<hand, running, completed, overdue>>
      /\ \/ queued' = queued /\ waiting' = waiting /\ Deps[t] # {}
         \/ queued' = queued \cup {t} /\ waiting' = waiting /\ Deps[t] \subseteq completed
         \/ queued' = queued /\ waiting' = waiting \cup {t} /\ Deps[t] # {}
  BY DEF submit_task, submitFailed, submitReady, submitWaiting, known,
         heldVars, poolVars, endVars
<1>2. finished' = finished /\ t \notin finished \cup placed \cup waiting \cup overdue
  BY <1>1, PlacesApart DEF PlacesInv, StoreInv, RowsApart, HeldInv, Stages
<1>3. t # hand
  BY <1>2, DependenciesAssumption DEF placed, pending
<1>4. placed' \subseteq placed \cup (queued' \cap {t})
  BY <1>1 DEF placed, pending
<1>5. PlacedStored' /\ LateElsewhere'
  BY <1>1, <1>2, <1>4
     DEF PlacesInv, PlacedStored, LateElsewhere, saveSubmitted
<1>6. \A u \in Task \ {t} : workOf(u)' = workOf(u)
  BY <1>1, <1>2 DEF workOf
<1>7. work[t] = "new"
  BY <1>1, WorkOfPlace, WorkOfEach
<1>8. CASE queued' = queued \cup {t} /\ waiting' = waiting /\ Deps[t] \subseteq completed
  <2>1. workOf(t)' = "queued"
    BY <1>1, <1>2, <1>8 DEF workOf, placed
  <2>2. \A d \in Deps[t] : d \in Task /\ d \in finished
    BY <1>8, DependenciesAssumption DEF PlacesInv, StoreInv, RowsApart
  <2>3. Durable!allDone(t)
    BY <2>2, WorkOfPlace, WorkOfEach DEF Durable!allDone
  <2> QED
    BY <1>5, <1>6, <1>7, <2>1, <2>3, OneMoves
       DEF Durable!Next, Durable!accept, Durable!move
<1>9. CASE queued' = queued /\ Deps[t] # {}
  <2>1. workOf(t)' \in {"held", "ended"}
    BY <1>1, <1>2, <1>3, <1>9 DEF workOf, placed, pending
  <2>2. Durable!move(t, "new", workOf(t)')
    BY <1>6, <1>7, OneMoves DEF Durable!move
  <2> QED  BY <1>5, <1>9, <2>1, <2>2 DEF Durable!Next, Durable!accept
<1> QED  BY <1>1, <1>8, <1>9

(* In both, what is queued afterwards has its dependencies done.           *)
LEMMA QueuedIsDue ==
    ASSUME StoreInv', hand' \in Task \cup {NoTask}, NEW r \in Task, work'[r] = "queued"
    PROVE  Durable!allDone(r)'
<1>1. workOf(r)' = "queued"
  BY WorkOfEach
<1>2. r \in queued' \cup {hand'}
  BY <1>1 DEF workOf
<1>3. r \in released'
  BY <1>2, DependenciesAssumption DEF released
<1>4. \A d \in Deps[r] : d \in Task /\ d \in finished'
  BY <1>3, DependenciesAssumption DEF StoreInv, OrderSurvives
<1>5. \A d \in Deps[r] : workOf(d)' = "done"
  BY <1>4 DEF workOf
<1>6. \A d \in Deps[r] : work'[d] = "done"
  BY <1>4, <1>5, WorkOfEach
<1> QED  BY <1>6 DEF Durable!allDone

LEMMA CompletionIsDurable ==
    ASSUME PlacesInv, StoreInv', TypeOK', NEW t \in Task, taskSucceeds(t), remove_task(t),
           finished' = finished \cup completed', UNCHANGED waitingRows
    PROVE  PlacedStored' /\ LateElsewhere' /\ Durable!Next
<1> DEFINE R == ready(t)
<1>1. /\ t \in running
      /\ completed' = completed \cup {t} /\ running' = running \ {t}
      /\ waiting' = waiting \ R /\ queued' = queued \cup R
      /\ overdue' = overdue \cup {t}
      /\ UNCHANGED <<submitted, hand>>
  BY DEF taskSucceeds, _on_dep_satisfied
<1>2. R \subseteq waiting /\ \A r \in R : r \in Task /\ t \in Deps[r]
  BY DEF ready, PlacesInv, HeldInv, TypeOK, Books, ListsHeld
<1>3. R \cap finished = {}
  BY <1>1, ReadyIsNew DEF PlacesInv
<1> HIDE DEF R
<1>4. finished' = finished \cup {t}
  BY <1>1 DEF PlacesInv, StoreInv, RowsApart
<1>5. t \notin waiting \cup finished \cup overdue \cup pending
  BY <1>1, PlacesApart DEF placed
<1>6. R \cap (overdue \cup placed) = {} /\ R \subseteq waitingRows /\ t \notin R
  BY <1>2, <1>5, PlacesApart DEF PlacesInv, HeldInv, Stages, StoreInv, RowsApart
<1>7. placed' = (placed \ {t}) \cup R
  BY <1>1, <1>5, <1>6 DEF placed, pending
<1>8. PlacedStored' /\ LateElsewhere'
  BY <1>1, <1>6, <1>7 DEF PlacesInv, PlacedStored, LateElsewhere, remove_task
<1>9. workOf(t) = "running" /\ workOf(t)' = "done"
  BY <1>1, <1>4, WorkOfPlace DEF workOf
<1>10. \A r \in R : workOf(r) = "held" /\ workOf(r)' = "queued"
  <2>1. SUFFICES ASSUME NEW r \in R PROVE workOf(r) = "held" /\ workOf(r)' = "queued"
    OBVIOUS
  <2>2. r \notin finished' /\ r \notin running' /\ r \in queued'
    BY <1>1, <1>3, <1>4, <1>6 DEF placed
  <2> QED  BY <1>2, <1>3, <2>2, WorkOfPlace DEF workOf
<1>11. \A u \in Task \ (R \cup {t}) : workOf(u)' = workOf(u)
  BY <1>1, <1>4 DEF workOf
<1>12. work' = [u \in Task |-> IF u = t THEN "done"
                               ELSE IF u \in R THEN "queued"
                               ELSE work[u]]
  BY <1>9, <1>10, <1>11, WorkOfEach
<1>13. R \in SUBSET {r \in Task : work[r] = "held" /\ t \in Deps[r]} /\ work[t] = "running"
  BY <1>2, <1>9, <1>10, WorkOfEach
<1>14. \A r \in Task : work'[r] = "queued" => Durable!allDone(r)'
  BY QueuedIsDue DEF TypeOK
<1>15. Durable!finish(t)
  BY <1>12, <1>13, <1>14, Zenon DEF Durable!finish
<1> QED  BY <1>8, <1>15 DEF Durable!Next

(* A restart when the tasks in "more", one at most, have just finished.    *)
LEMMA ResumeIsDurable ==
    ASSUME PlacesInv, StoreInv', TypeOK',
           NEW more, more \subseteq running, \A t, u \in more : t = u,
           resumeTasks(taskRows \ more), taskRows' = taskRows \ more, UNCHANGED waitingRows,
           finished' = finished \cup more
    PROVE  PlacedStored' /\ LateElsewhere' /\ Durable!Next
<1>1. /\ queued' = taskRows \ more /\ hand' = NoTask /\ waiting' = waitingRows
      /\ running' = {} /\ overdue' = {} /\ submitted' = submitted
  BY DEF resumeTasks, restart
<1>2. PlacedStored' /\ LateElsewhere'
  BY <1>1 DEF PlacedStored, LateElsewhere, placed, pending
<1>3. more \subseteq Task /\ more \cap finished = {}
  BY PlacesApart DEF placed
<1>4. ASSUME NEW u \in Task
      PROVE  /\ u \in more => workOf(u) = "running" /\ workOf(u)' = "done"
             /\ u \notin more =>
                  workOf(u)' = IF u \in finished THEN "done"
                               ELSE IF u \in taskRows THEN "queued"
                               ELSE IF u \in waitingRows THEN "held"
                               ELSE IF u \in submitted THEN "ended"
                               ELSE "new"
  BY <1>1, WorkOfPlace, DependenciesAssumption DEF workOf
<1>5. /\ waiting \subseteq waitingRows /\ taskRows \cap waitingRows = {}
      /\ taskRows \cup waitingRows \subseteq submitted
      /\ placed \subseteq taskRows \cup waitingRows
  BY DEF PlacesInv, StoreInv, RowsApart, PlacedStored
<1>6. ASSUME NEW u \in Task \ more
      PROVE  workOf(u)' \in Durable!Back[workOf(u)]
  <2>1. CASE u \in finished
    <3>1. workOf(u) = "done" /\ workOf(u)' = "done"
      BY <1>4, <2>1, WorkOfPlace
    <3> QED  BY <3>1 DEF Durable!Back
  <2>2. CASE u \in placed
    <3>1. workOf(u) \in {"queued", "running"} /\ workOf(u)' \in {"queued", "held"}
      BY <1>4, <1>5, <2>2, WorkOfPlace, PlacesApart DEF placed
    <3> QED  BY <3>1 DEF Durable!Back
  <2>3. CASE u \in waiting \ finished
    <3>1. workOf(u) = "held" /\ workOf(u)' = "held"
      BY <1>4, <1>5, <2>3, WorkOfPlace
    <3> QED  BY <3>1 DEF Durable!Back
  <2>4. CASE u \in submitted \ (finished \cup placed \cup waiting)
    <3>1. workOf(u) = "ended" /\ workOf(u)' \in {"ended", "queued", "held"}
      BY <1>4, <2>4, WorkOfPlace
    <3> QED  BY <3>1 DEF Durable!Back
  <2>5. CASE u \notin submitted
    <3>1. workOf(u) = "new" /\ workOf(u)' = "new"
      BY <1>4, <1>5, <2>5, WorkOfPlace, PlacesApart
    <3> QED  BY <3>1 DEF Durable!Back
  <2> QED  BY <2>1, <2>2, <2>3, <2>4, <2>5
<1>7. \A u \in Task : work'[u] \in IF u \in more THEN {"done"} ELSE Durable!Back[work[u]]
  BY <1>4, <1>6, WorkOfEach
<1>8. work' \in [Task -> Durable!Work]
  <2>1. \A u \in Task : workOf(u)' \in Durable!Work
    BY DEF workOf, Durable!Work
  <2> QED  BY <2>1, WorkOfEach
<1>9. \A u \in more : work[u] = "running"
  BY <1>3, <1>4, WorkOfEach
<1>10. \A r \in Task : work'[r] = "queued" => Durable!allDone(r)'
  BY QueuedIsDue DEF TypeOK
<1>11. Durable!restart
  BY <1>3, <1>7, <1>8, <1>9, <1>10, Zenon DEF Durable!restart
<1> QED  BY <1>2, <1>11 DEF Durable!Next

LEMMA DurableStep ==
    ASSUME PlacesInv, [CheckpointNext]_ckVars
    PROVE  PlacesInv' /\ [Durable!Next]_work
<1>1. StoreInv' /\ HeldInv'
  BY StoreStep, SurvivesStep DEF PlacesInv
<1>2. TypeOK'
  BY <1>1 DEF HeldInv
<1>3. SUFFICES PlacedStored' /\ LateElsewhere' /\ (Durable!Next \/ work' = work)
  BY <1>1 DEF PlacesInv
<1>4. ASSUME NEW t \in Task, live(submission(t))
      PROVE  PlacedStored' /\ LateElsewhere' /\ Durable!Next
  <2>1. submit_task(t) /\ saveSubmitted(t)
    BY <1>4 DEF live, submission, submitPhase, clientSubmits
  <2> QED  BY <1>4, <2>1, SubmissionIsDurable DEF live
<1>5. ASSUME NEW t \in Task, live(success(t))
      PROVE  PlacedStored' /\ LateElsewhere' /\ Durable!Next
  BY <1>1, <1>2, <1>5, CompletionIsDurable DEF live, success, resultSuccess
<1>6. ASSUME NEW t \in Task, live(failure(t))
      PROVE  PlacedStored' /\ LateElsewhere' /\ Durable!Next
  <2>1. /\ taskFails(t) \/ lateTimeout(t)
        /\ taskRows' = taskRows \ {t} /\ UNCHANGED waitingRows
    BY <1>6 DEF live, failure, resultFailure, remove_task
  <2>2. t \notin placed'
    <3>1. CASE taskFails(t)
      BY <3>1, PlacesApart DEF taskFails, placed, pending
    <3>2. CASE lateTimeout(t)
      BY <3>2, PlacesApart DEF lateTimeout, poolVars, placed, pending
    <3> QED  BY <2>1, <3>1, <3>2
  <2> QED  BY <1>2, <1>6, <2>1, <2>2, EndingLeaves, LeavesIsDurable DEF live
<1>7. ASSUME NEW t \in Task, live(retrying(t))
      PROVE  PlacedStored' /\ LateElsewhere' /\ Durable!Next
  BY <1>7, RetryIsDurable DEF live, retrying, resultRetry
<1>8. ASSUME NEW t \in Task, live(other(t))
      PROVE  PlacedStored' /\ LateElsewhere' /\ Durable!Next
  <2>1. UNCHANGED store
    BY <1>8 DEF live, other
  <2>2. \/ expire(t) \/ dropResult(t) \/ waitReturns(t)
        \/ get(t) \/ skipCancelled(t) \/ dead_letter(t) \/ cancelOrMiss(t)
        \/ dispatch(t)
    BY <1>8 DEF live, other, expiry, unobserved, scheduledCancel, cancelNext, cancelOrMiss
  <2>3. CASE dispatch(t)
    BY <1>8, <2>1, <2>3, DispatchIsDurable DEF live
  <2>4. CASE ~dispatch(t)
    BY <1>2, <1>8, <2>1, <2>2, <2>4, EndingLeaves, LeavesIsDurable DEF live, store
  <2> QED  BY <2>3, <2>4
<1>9. ASSUME NEW t \in Task, crashInSuccess(t)
      PROVE  PlacedStored' /\ LateElsewhere' /\ Durable!Next
  <2> DEFINE more == {t}
  <2>1. /\ more \subseteq running /\ \A u, v \in more : u = v
        /\ resumeTasks(taskRows \ more) /\ taskRows' = taskRows \ more
        /\ UNCHANGED waitingRows /\ finished' = finished \cup more
    BY <1>9 DEF crashInSuccess, resume, remove_task
  <2> HIDE DEF more
  <2> QED  BY <1>1, <1>2, <2>1, ResumeIsDurable
<1>10. CASE crash
  <2> DEFINE more == {}
  <2>1. taskRows \ more = taskRows /\ finished \cup more = finished
    OBVIOUS
  <2>2. /\ more \subseteq running /\ \A u, v \in more : u = v
        /\ resumeTasks(taskRows) /\ taskRows' = taskRows
        /\ UNCHANGED waitingRows /\ finished' = finished
    BY <1>10 DEF crash, resume, store, history
  <2> HIDE DEF more
  <2> QED  BY <1>1, <1>2, <2>1, <2>2, ResumeIsDurable
<1>11. CASE live(request) \/ UNCHANGED ckVars
  <2>1. UNCHANGED <<vars, store>> /\ finished' = finished
    BY <1>11 DEF live, request, register, cancel_workflow, cancelRun, ckVars, wfVars,
                 history, vars, endVars, PlacesInv, StoreInv, RowsApart
  <2>2. UNCHANGED <<submitted, waiting, queued, hand, running, overdue, taskRows, waitingRows>>
    BY <2>1 DEF vars, heldVars, poolVars, store
  <2>3. PlacedStored' /\ LateElsewhere'
    BY <2>2 DEF PlacesInv, PlacedStored, LateElsewhere, placed, pending
  <2>4. \A u \in Task : workOf(u)' = workOf(u)
    BY <2>1, <2>2 DEF workOf
  <2> QED  BY <2>3, <2>4, WorkOfEach
<1> QED
  BY <1>4, <1>5, <1>6, <1>7, <1>8, <1>9, <1>10, <1>11 DEF CheckpointNext

(* For any dependencies and any number of crashes, wherever they come, the *)
(* orchestrator with its store implements DurableWork.                     *)
THEOREM ImplementsDurableHolds == CheckpointSpec => ImplementsDurable
<1>1. CheckpointInit => PlacesInv /\ Durable!Init
  <2> SUFFICES ASSUME CheckpointInit PROVE PlacesInv /\ Durable!Init
    OBVIOUS
  <2>1. StoreInv /\ HeldInv
    BY StoreInitInv, InitInv DEF CheckpointInit, WorkflowInit, DependenciesInv, HeldInv, Books
  <2>2. /\ submitted = {} /\ queued = {} /\ running = {} /\ hand = NoTask /\ waiting = {}
        /\ overdue = {} /\ finished = {}
    BY DEF CheckpointInit, WorkflowInit, Init
  <2>3. PlacedStored /\ LateElsewhere
    BY <2>2 DEF PlacedStored, LateElsewhere, placed, pending
  <2>4. \A u \in Task : workOf(u) = "new"
    BY <2>2, DependenciesAssumption DEF workOf
  <2> QED  BY <2>1, <2>3, <2>4, WorkOfEach DEF PlacesInv, Durable!Init
<1> QED  BY <1>1, DurableStep, PTL DEF CheckpointSpec, ImplementsDurable, Durable!Spec

=============================================================================
