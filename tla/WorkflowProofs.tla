--------------------------- MODULE WorkflowProofs ---------------------------
(***************************************************************************)
(* A workflow run leaves the dependency engine in order: what the engine   *)
(* promises (DependenciesProofs) holds whatever the router, the manager    *)
(* and cancel_workflow do.                                                 *)
(***************************************************************************)
EXTENDS Workflow, DependenciesProofs

(* Every step of a workflow is one of the engine, or leaves it alone.      *)
LEMMA WorkflowStepIsAnyStep == [WorkflowNext]_wfVars => [AnyStep]_vars
<1>1. ASSUME NEW t \in Task, submitPhase(t)
      PROVE  AnyStep
  BY <1>1 DEF submitPhase, AnyStep, step
<1>2. ASSUME NEW t \in Task, handle(t)
      PROVE  [AnyStep]_vars
  <2>1. CASE resultSuccess(t)
    BY <2>1 DEF resultSuccess, AnyStep, step
  <2>2. CASE resultRetry(t)
    BY <2>2 DEF resultRetry, AnyStep, step
  <2>3. CASE resultFailure(t)
    BY <2>3 DEF resultFailure, AnyStep, step
  <2>4. CASE unobserved(t)
    BY <2>4 DEF unobserved, AnyStep, step
  <2>5. CASE scheduledCancel(t)
    BY <2>5 DEF scheduledCancel, cancelOrMiss, AnyStep
  <2>6. CASE cancelNext(t)
    BY <2>6 DEF cancelNext, cancelOrMiss, AnyStep
  <2>7. CASE clientSubmits(t)
    BY <2>7 DEF clientSubmits, AnyStep, step
  <2>8. CASE expiry(t)
    BY <2>8 DEF expiry, AnyStep, step
  <2>9. QED
    BY <1>2, <2>1, <2>2, <2>3, <2>4, <2>5, <2>6, <2>7, <2>8 DEF handle
<1>3. CASE register \/ cancel_workflow \/ cancelRun
  BY <1>3 DEF register, cancel_workflow, cancelRun
<1>4. CASE UNCHANGED wfVars
  BY <1>4 DEF wfVars
<1>5. QED
  BY <1>1, <1>2, <1>3, <1>4, Zenon DEF WorkflowNext

(* In a workflow run too, no wakeup of a held task is lost, no task starts *)
(* before its dependencies and none waits for one that failed.             *)
THEOREM WorkflowKeepsDependencies == WorkflowSpec => []DependenciesInv
<1>1. WorkflowInit => DependenciesInv
  BY InitInv DEF WorkflowInit
<1>2. DependenciesInv /\ [WorkflowNext]_wfVars => DependenciesInv'
  BY WorkflowStepIsAnyStep, InvStep
<1>3. QED
  BY <1>1, <1>2, PTL DEF WorkflowSpec

-----------------------------------------------------------------------------
(* The books of the manager, kept per run and per phase, agree with each   *)
(* other and with what has completed, but for the tasks a loop skipped.    *)

ManagerType ==
    /\ runCompleted \subseteq Wf /\ runFailed \subseteq Wf
    /\ phaseCompleted \subseteq Wf /\ phaseFailed \subseteq Wf
    /\ phaseTasks = Wf
    /\ phaseStatus \in [Phase -> {"pending", "running", "complete", "failed", "skipped"}]

CompletedOnly ==
    /\ phaseCompleted \subseteq completed
    /\ runCompleted \subseteq completed \cup skipped
    /\ \A p \in Phase : phaseStatus[p] = "complete" => tasksOf(p) \subseteq completed

BooksAgree ==
    \A t \in Wf \ skipped :
        /\ t \in runCompleted <=> t \in phaseCompleted
        /\ t \in runFailed <=> t \in phaseFailed

StatusRight ==
    /\ runStatus = "complete" => Wf \subseteq runCompleted /\ runFailed = {}
    /\ \A p \in Phase :
         /\ tasksOf(p) \cap skipped = {}
         /\ tasksOf(p) \subseteq phaseCompleted
         /\ tasksOf(p) \cap phaseFailed = {}
         => phaseStatus[p] = "complete"

ManagerInv == ManagerType /\ CompletedOnly /\ BooksAgree /\ StatusRight

LEMMA LaterSkipped ==
    \A i \in 1..Len(Iterations) :
        /\ laterTasks(i) \subseteq Wf
        /\ laterTasks(i) \subseteq UNION {Iterations[j] : j \in 2..Len(Iterations)}
<1>1. Iterations \in Seq(SUBSET Wf)
  BY WorkflowManagerAssumption
<1>2. ASSUME NEW i \in 1..Len(Iterations), NEW j \in i+1..Len(Iterations)
      PROVE  j \in 2..Len(Iterations) /\ Iterations[j] \subseteq Wf
  BY <1>1, <1>2
<1> QED  BY <1>2 DEF laterTasks

(* A call that leaves the manager's books alone.                           *)
LEMMA NotSeen ==
    ASSUME ManagerInv, completed \subseteq completed', UNCHANGED <<phaseVars, loopOpen>>,
           UNCHANGED <<runCompleted, runFailed>>, runStatus' \in {runStatus, "cancelled"}
    PROVE  ManagerInv'
<1>1. /\ UNCHANGED <<phaseCompleted, phaseFailed, phaseTasks, phaseStatus>>
      /\ skipped' = skipped
  BY DEF phaseVars, skipped
<1>2. ManagerType' /\ BooksAgree'
  BY <1>1 DEF ManagerInv, ManagerType, BooksAgree
<1>3. CompletedOnly'
  BY <1>1 DEF ManagerInv, CompletedOnly
<1>4. StatusRight'
  BY <1>1 DEF ManagerInv, StatusRight
<1> QED  BY <1>2, <1>3, <1>4 DEF ManagerInv

(* The status of a task's phase, once the sets of the phases are C and F.  *)
LEMMA PhaseAfter ==
    ASSUME ManagerType, NEW t \in Wf, NEW C, NEW F
    PROVE  LET p == PhaseOf[t] IN
           /\ p \in Phase /\ t \in tasksOf(p)
           /\ phaseAfter(t, C, F) \in {"pending", "running", "complete", "failed", "skipped"}
           /\ tasksOf(p) \subseteq C /\ tasksOf(p) \cap F = {} => phaseAfter(t, C, F) = "complete"
           /\ phaseAfter(t, C, F) = "complete" =>
                tasksOf(p) \subseteq C \/ phaseStatus[p] = "complete"
<1>1. PhaseOf[t] \in Phase
  BY WorkflowManagerAssumption
<1>2. phaseStatus[PhaseOf[t]] \in {"pending", "running", "complete", "failed", "skipped"}
  BY <1>1 DEF ManagerType
<1> QED  BY <1>1, <1>2 DEF phaseAfter, tasksOf, ManagerType

LEMMA TasksApart ==
    ASSUME NEW t \in Wf, NEW p \in Phase, p # PhaseOf[t]
    PROVE  t \notin tasksOf(p)
BY DEF tasksOf

LEMMA FailsOrRetries ==
    ASSUME ManagerInv, NEW t \in Wf, on_task_failed(t) \/ on_task_retrying(t),
           completed \subseteq completed'
    PROVE  ManagerInv'
<1>0. CASE UNCHANGED managerVars
  BY <1>0, NotSeen DEF managerVars, loopVars, runVars
<1>1. CASE ~UNCHANGED managerVars
  <2>1. PICK F \in {{}, {t}} :
          /\ phaseCompleted' = phaseCompleted \ {t}
          /\ phaseFailed' = (phaseFailed \ {t}) \cup F
          /\ phaseTasks' = phaseTasks /\ UNCHANGED loopVars
          /\ _update_status(runCompleted \ {t}, (runFailed \ {t}) \cup F)
          /\ \/ phaseStatus' = [phaseStatus EXCEPT ![PhaseOf[t]] =
                                  phaseAfter(t, phaseCompleted \ {t}, phaseFailed \cup {t})]
             \/ phaseStatus' = [phaseStatus EXCEPT ![PhaseOf[t]] =
                                  IF @ = "failed" THEN "running" ELSE @]
    <3>1. CASE on_task_failed(t)
      <4>1. /\ phaseFailed \cup ({t} \cap phaseTasks) = (phaseFailed \ {t}) \cup {t}
            /\ runFailed \cup {t} = (runFailed \ {t}) \cup {t}
        BY DEF ManagerInv, ManagerType
      <4> QED  BY <1>1, <3>1, <4>1 DEF on_task_failed
    <3>2. CASE on_task_retrying(t)
      <4>1. /\ (phaseFailed \ {t}) \cup {} = phaseFailed \ {t}
            /\ (runFailed \ {t}) \cup {} = runFailed \ {t}
        OBVIOUS
      <4> QED  BY <3>2, <4>1 DEF on_task_retrying
    <3> QED  BY <3>1, <3>2
  <2>2. skipped' = skipped
    BY <2>1 DEF loopVars, skipped
  <2>3. /\ runCompleted' = runCompleted \ {t} /\ runFailed' = (runFailed \ {t}) \cup F
        /\ runStatus' = "complete" => Wf \subseteq runCompleted' /\ runFailed' = {}
    BY <2>1 DEF _update_status
  <2>4. /\ PhaseOf[t] \in Phase /\ t \in tasksOf(PhaseOf[t])
        /\ phaseStatus'[PhaseOf[t]] \in {"pending", "running", "complete", "failed", "skipped"}
        /\ phaseStatus'[PhaseOf[t]] = "complete" => phaseStatus[PhaseOf[t]] = "complete"
        /\ \A p \in Phase : p # PhaseOf[t] => phaseStatus'[p] = phaseStatus[p]
    <3>1. ManagerType
      BY DEF ManagerInv
    <3>2. PhaseOf[t] \in Phase /\ t \in tasksOf(PhaseOf[t])
      BY <3>1, PhaseAfter
    <3>3. /\ phaseAfter(t, phaseCompleted \ {t}, phaseFailed \cup {t})
                \in {"pending", "running", "complete", "failed", "skipped"}
          /\ phaseAfter(t, phaseCompleted \ {t}, phaseFailed \cup {t}) = "complete"
                => phaseStatus[PhaseOf[t]] = "complete"
      BY <3>1, <3>2, PhaseAfter
    <3> QED  BY <2>1, <3>1, <3>2, <3>3 DEF ManagerType
  <2>5. ManagerType'
    <3>1. phaseStatus' \in [Phase -> {"pending", "running", "complete", "failed", "skipped"}]
      BY <2>1, <2>4 DEF ManagerInv, ManagerType
    <3> QED  BY <2>1, <2>3, <3>1 DEF ManagerInv, ManagerType
  <2>6. CompletedOnly' /\ BooksAgree'
    BY <2>1, <2>2, <2>3, <2>4 DEF ManagerInv, CompletedOnly, BooksAgree
  <2>7. StatusRight'
    <3> SUFFICES ASSUME NEW p \in Phase, tasksOf(p) \cap skipped = {},
                        tasksOf(p) \subseteq phaseCompleted', tasksOf(p) \cap phaseFailed' = {}
                 PROVE  phaseStatus'[p] = "complete"
      BY <2>2, <2>3 DEF StatusRight
    <3>1. t \notin tasksOf(p)
      BY <2>1
    <3>2. p # PhaseOf[t] /\ tasksOf(p) \subseteq phaseCompleted /\ tasksOf(p) \cap phaseFailed = {}
      BY <2>1, <2>4, <3>1
    <3> QED  BY <2>4, <3>2 DEF ManagerInv, StatusRight
  <2> QED  BY <2>5, <2>6, <2>7 DEF ManagerInv
<1> QED  BY <1>0, <1>1

LEMMA Completes ==
    ASSUME ManagerInv, NEW t \in Wf, on_task_complete(t), completed' = completed \cup {t}
    PROVE  ManagerInv'
<1>0. CASE UNCHANGED managerVars
  BY <1>0, NotSeen DEF managerVars, loopVars, runVars
<1>1. CASE ~UNCHANGED managerVars
  <2> DEFINE PC == phaseCompleted \cup ({t} \cap phaseTasks)
             PF == phaseFailed \ {t}
             st == [phaseStatus EXCEPT ![PhaseOf[t]] = phaseAfter(t, PC, PF)]
  <2>0. ManagerType /\ PC = phaseCompleted \cup {t}
    BY DEF ManagerInv, ManagerType
  <2>1. PICK L \in SUBSET Wf :
          /\ L \subseteq skipped' /\ skipped \subseteq skipped'
          /\ phaseCompleted' = PC /\ phaseFailed' = PF /\ phaseTasks' = phaseTasks
          /\ _update_status(runCompleted \cup {t} \cup L, (runFailed \ {t}) \ L)
          /\ phaseStatus' \in [Phase -> {"pending", "running", "complete", "failed", "skipped"}]
          /\ \A p \in Phase : \/ phaseStatus'[p] = st[p]
                              \/ phaseStatus'[p] = "skipped" /\ L \cap tasksOf(p) # {}
    <3>1. /\ st \in [Phase -> {"pending", "running", "complete", "failed", "skipped"}]
      BY <2>0, PhaseAfter DEF ManagerType
    <3>2. phaseCompleted' = PC /\ phaseFailed' = PF /\ phaseTasks' = phaseTasks
      BY <1>1 DEF on_task_complete
    <3> HIDE DEF st, PC, PF
    <3>3. CASE /\ _update_status(runCompleted \cup {t}, runFailed \ {t})
               /\ phaseStatus' = st /\ UNCHANGED <<loopOpen, toCancel>>
      <4>1. skipped' = skipped
        BY <3>3 DEF skipped
      <4>2. /\ runCompleted \cup {t} \cup {} = runCompleted \cup {t}
            /\ (runFailed \ {t}) \ {} = runFailed \ {t} /\ {} \in SUBSET Wf
        OBVIOUS
      <4>3. _update_status(runCompleted \cup {t} \cup {}, (runFailed \ {t}) \ {})
        BY <3>3, <4>2
      <4> QED  BY <3>1, <3>2, <3>3, <4>1, <4>2, <4>3
    <3>4. ASSUME NEW i \in 1..Len(Iterations), iterationEnds(t, i),
                 _update_status(runCompleted \cup {t} \cup laterTasks(i),
                                (runFailed \ {t}) \ laterTasks(i)),
                 phaseStatus' = [p \in Phase |->
                      IF /\ \E u \in laterTasks(i) : PhaseOf[u] = p
                         /\ st[p] \notin {"complete", "failed", "skipped"}
                      THEN "skipped" ELSE st[p]],
                 loopOpen' = FALSE
          PROVE  \E L \in SUBSET Wf :
                    /\ L \subseteq skipped' /\ skipped \subseteq skipped'
                    /\ _update_status(runCompleted \cup {t} \cup L, (runFailed \ {t}) \ L)
                    /\ phaseStatus' \in [Phase -> {"pending", "running", "complete", "failed",
                                                   "skipped"}]
                    /\ \A p \in Phase : \/ phaseStatus'[p] = st[p]
                                        \/ phaseStatus'[p] = "skipped" /\ L \cap tasksOf(p) # {}
      <4>1. /\ laterTasks(i) \in SUBSET Wf
            /\ laterTasks(i) \subseteq skipped' /\ skipped \subseteq skipped'
        BY <3>4, LaterSkipped DEF skipped
      <4>2. phaseStatus' \in [Phase -> {"pending", "running", "complete", "failed", "skipped"}]
        BY <3>1, <3>4
      <4>3. \A p \in Phase : \/ phaseStatus'[p] = st[p]
                             \/ phaseStatus'[p] = "skipped" /\ laterTasks(i) \cap tasksOf(p) # {}
        <5> SUFFICES ASSUME NEW p \in Phase, phaseStatus'[p] # st[p]
                     PROVE  phaseStatus'[p] = "skipped" /\ laterTasks(i) \cap tasksOf(p) # {}
          OBVIOUS
        <5>1. phaseStatus'[p] = "skipped" /\ \E u \in laterTasks(i) : PhaseOf[u] = p
          BY <3>4
        <5> QED  BY <4>1, <5>1 DEF tasksOf
      <4> QED  BY <3>4, <4>1, <4>2, <4>3
    <3>5. \/ /\ _update_status(runCompleted \cup {t}, runFailed \ {t})
             /\ phaseStatus' = st /\ UNCHANGED <<loopOpen, toCancel>>
          \/ \E i \in 1..Len(Iterations) :
                /\ iterationEnds(t, i)
                /\ _update_status(runCompleted \cup {t} \cup laterTasks(i),
                                  (runFailed \ {t}) \ laterTasks(i))
                /\ phaseStatus' = [p \in Phase |->
                      IF /\ \E u \in laterTasks(i) : PhaseOf[u] = p
                         /\ st[p] \notin {"complete", "failed", "skipped"}
                      THEN "skipped" ELSE st[p]]
                /\ loopOpen' = FALSE
      BY <1>1 DEF on_task_complete, st, PC, PF
    <3> QED  BY <3>2, <3>3, <3>4, <3>5
  <2>2. /\ runCompleted' = runCompleted \cup {t} \cup L /\ runFailed' = (runFailed \ {t}) \ L
        /\ runStatus' = "complete" => Wf \subseteq runCompleted' /\ runFailed' = {}
    BY <2>1 DEF _update_status
  <2>3. /\ PhaseOf[t] \in Phase /\ t \in tasksOf(PhaseOf[t])
        /\ tasksOf(PhaseOf[t]) \subseteq PC /\ tasksOf(PhaseOf[t]) \cap PF = {}
              => st[PhaseOf[t]] = "complete"
        /\ st[PhaseOf[t]] = "complete" =>
              tasksOf(PhaseOf[t]) \subseteq PC \/ phaseStatus[PhaseOf[t]] = "complete"
        /\ \A p \in Phase : p # PhaseOf[t] => st[p] = phaseStatus[p] /\ t \notin tasksOf(p)
    <3>1. PhaseOf[t] \in Phase /\ st[PhaseOf[t]] = phaseAfter(t, PC, PF)
      BY <2>0, PhaseAfter DEF ManagerType
    <3>2. \A p \in Phase : p # PhaseOf[t] => st[p] = phaseStatus[p] /\ t \notin tasksOf(p)
      BY <2>0, TasksApart DEF ManagerType
    <3> HIDE DEF st, PC, PF
    <3> QED  BY <2>0, <3>1, <3>2, PhaseAfter
  <2> HIDE DEF st
  <2>4. ManagerType'
    BY <2>0, <2>1, <2>2 DEF ManagerType
  <2>5. CompletedOnly'
    <3>1. /\ phaseCompleted' \subseteq completed'
          /\ runCompleted' \subseteq completed' \cup skipped'
      BY <2>0, <2>1, <2>2 DEF ManagerInv, CompletedOnly
    <3>2. ASSUME NEW p \in Phase, phaseStatus'[p] = "complete"
          PROVE  tasksOf(p) \subseteq completed'
      <4>1. st[p] = "complete"
        BY <2>1, <3>2
      <4>2. CASE p = PhaseOf[t]
        BY <2>0, <2>3, <4>1, <4>2 DEF ManagerInv, CompletedOnly
      <4>3. CASE p # PhaseOf[t]
        BY <2>3, <4>1, <4>3 DEF ManagerInv, CompletedOnly
      <4> QED  BY <4>2, <4>3
    <3> QED  BY <3>1, <3>2 DEF CompletedOnly
  <2>6. BooksAgree'
    <3> SUFFICES ASSUME NEW u \in Wf \ skipped'
                 PROVE  /\ u \in runCompleted' <=> u \in phaseCompleted'
                        /\ u \in runFailed' <=> u \in phaseFailed'
      BY DEF BooksAgree
    <3>1. u \notin L /\ u \in Wf \ skipped
      BY <2>1
    <3>2. /\ u \in runCompleted <=> u \in phaseCompleted
          /\ u \in runFailed <=> u \in phaseFailed
      BY <3>1 DEF ManagerInv, BooksAgree
    <3> QED  BY <2>0, <2>1, <2>2, <3>1, <3>2
  <2>7. StatusRight'
    <3> SUFFICES ASSUME NEW p \in Phase, tasksOf(p) \cap skipped' = {},
                        tasksOf(p) \subseteq PC, tasksOf(p) \cap PF = {}
                 PROVE  phaseStatus'[p] = "complete"
      BY <2>1, <2>2 DEF StatusRight
    <3>1. phaseStatus'[p] = st[p] /\ tasksOf(p) \cap skipped = {}
      BY <2>1
    <3>2. CASE p = PhaseOf[t]
      BY <2>3, <3>1, <3>2
    <3>3. CASE p # PhaseOf[t]
      BY <2>0, <2>3, <3>1, <3>3 DEF ManagerInv, StatusRight
    <3> QED  BY <3>2, <3>3
  <2> QED  BY <2>4, <2>5, <2>6, <2>7 DEF ManagerInv
<1> QED  BY <1>0, <1>1

(* completed only grows, and by the task whose RESULT is handled.          *)
LEMMA CompletedGrows ==
    ASSUME NEW t, step(t) \/ cancel_task(t)
    PROVE  completed \subseteq completed'
BY DEF step, submit_task, submitFailed, submitReady, submitWaiting, get, skipCancelled, dispatch,
       dead_letter, expire, expireQueued, expireWaiting, taskSucceeds, retry, taskFails,
       dropResult, lateTimeout, waitReturns, cancel_task, cancelActive, cancelWaiting,
       cancelQueued, endVars, _on_dep_failed, _on_dep_satisfied

LEMMA ManagerStep ==
    ASSUME ManagerInv, [WorkflowNext]_wfVars
    PROVE  ManagerInv'
<1>1. ASSUME UNCHANGED managerVars, completed \subseteq completed' PROVE ManagerInv'
  BY <1>1, NotSeen DEF managerVars, runVars, loopVars
<1>2. ASSUME NEW t \in Task, submitPhase(t) PROVE ManagerInv'
  BY <1>1, <1>2, CompletedGrows DEF submitPhase, step
<1>3. ASSUME NEW t \in Task, handle(t) PROVE ManagerInv'
  <2>1. CASE clientSubmits(t) \/ unobserved(t)
    BY <1>1, <2>1, CompletedGrows DEF clientSubmits, unobserved, unseen, step
  <2>2. CASE resultSuccess(t)
    <3>1. completed' = completed \cup {t}
      BY <2>2 DEF resultSuccess, taskSucceeds
    <3>2. CASE registered /\ t \in Wf
      BY <2>2, <3>1, <3>2, Completes DEF resultSuccess, observe
    <3>3. CASE ~(registered /\ t \in Wf)
      BY <1>1, <2>2, <3>1, <3>3 DEF resultSuccess, observe
    <3> QED  BY <3>2, <3>3
  <2>3. CASE resultRetry(t) \/ resultFailure(t) \/ expiry(t)
    <3>1. completed \subseteq completed'
      BY <2>3, CompletedGrows DEF resultRetry, resultFailure, expiry, step
    <3>2. CASE registered /\ t \in Wf
      BY <2>3, <3>1, <3>2, FailsOrRetries DEF resultRetry, resultFailure, expiry, observe
    <3>3. CASE ~(registered /\ t \in Wf)
      BY <1>1, <2>3, <3>1, <3>3 DEF resultRetry, resultFailure, expiry, observe
    <3> QED  BY <3>2, <3>3
  <2>4. CASE scheduledCancel(t)
    <3>1. completed \subseteq completed'
      BY <2>4, CompletedGrows DEF scheduledCancel, cancelOrMiss, vars, endVars
    <3> QED  BY <2>4, <3>1, NotSeen DEF scheduledCancel, runVars
  <2>5. CASE cancelNext(t)
    <3>1. completed \subseteq completed'
      BY <2>5, CompletedGrows DEF cancelNext, cancelOrMiss, vars, endVars
    <3> QED  BY <1>1, <2>5, <3>1 DEF cancelNext
  <2> QED  BY <1>3, <2>1, <2>2, <2>3, <2>4, <2>5 DEF handle
<1>4. CASE register \/ cancel_workflow \/ UNCHANGED wfVars
  BY <1>1, <1>4 DEF register, cancel_workflow, wfVars, vars, endVars
<1>5. CASE cancelRun
  BY <1>5, NotSeen DEF cancelRun, cancel, loopVars, vars, endVars
<1> QED  BY <1>2, <1>3, <1>4, <1>5, Zenon DEF WorkflowNext

(* For any workflow in which every phase has a task: the run is reported   *)
(* complete only if all of it was done or skipped, and so are the phases,  *)
(* whatever was retried, cancelled or late in between.                     *)
THEOREM CompleteMeansDoneHolds ==
    ASSUME \A p \in Phase : tasksOf(p) # {}
    PROVE  WorkflowSpec => []CompleteMeansDone
<1>1. WorkflowInit => ManagerInv
  <2> SUFFICES ASSUME WorkflowInit PROVE ManagerInv
    OBVIOUS
  <2>1. /\ runStatus = "pending" /\ runCompleted = {} /\ runFailed = {}
        /\ phaseCompleted = {} /\ phaseFailed = {} /\ phaseTasks = Wf
        /\ phaseStatus = [p \in Phase |-> "pending"]
    BY DEF WorkflowInit, ManagerInit
  <2>2. ManagerType /\ CompletedOnly /\ BooksAgree
    BY <2>1 DEF ManagerType, CompletedOnly, BooksAgree
  <2>3. StatusRight
    BY <2>1 DEF StatusRight
  <2> QED  BY <2>2, <2>3 DEF ManagerInv
<1>2. ManagerInv => CompleteMeansDone
  <2> SUFFICES ASSUME ManagerInv PROVE CompleteMeansDone
    OBVIOUS
  <2>1. \A p \in Phase : phaseStatus[p] = "complete" => tasksOf(p) \subseteq completed
    BY DEF ManagerInv, CompletedOnly
  <2>2. ASSUME runStatus = "complete" PROVE Wf \subseteq completed \cup skipped
    BY <2>2 DEF ManagerInv, CompletedOnly, StatusRight
  <2>3. ASSUME runStatus = "complete", NEW p \in Phase, tasksOf(p) \cap skipped = {}
        PROVE  phaseStatus[p] = "complete"
    <3>1. Wf \subseteq runCompleted /\ runFailed = {}
      BY <2>3 DEF ManagerInv, StatusRight
    <3>2. tasksOf(p) \subseteq Wf \ skipped
      BY <2>3 DEF tasksOf
    <3>3. tasksOf(p) \subseteq phaseCompleted /\ tasksOf(p) \cap phaseFailed = {}
      BY <3>1, <3>2 DEF ManagerInv, BooksAgree
    <3> QED  BY <2>3, <3>3 DEF ManagerInv, StatusRight
  <2> QED  BY <2>1, <2>2, <2>3 DEF CompleteMeansDone
<1> QED  BY <1>1, <1>2, ManagerStep, PTL DEF WorkflowSpec

-----------------------------------------------------------------------------
(* A failure is reported.                                                  *)

(* A task is in one place, and one that has failed is in none.             *)
OnePlace ==
    /\ queued \cap running = {} /\ queued \cap overdue = {} /\ running \cap overdue = {}
    /\ hand \notin queued \cup running \cup overdue
    /\ failed \cap (queued \cup running \cup overdue \cup {hand}) = {}

LEMMA OnePlaceStep ==
    ASSUME DependenciesInv, OnePlace, [AnyStep]_vars
    PROVE  OnePlace'
<1> USE DEF OnePlace
<1>0. /\ NoTask \notin Task /\ hand \in Task \cup {NoTask}
      /\ waiting \cap (queued \cup running \cup overdue \cup {hand} \cup failed) = {}
      /\ waiting \cup queued \cup running \cup overdue \cup failed \subseteq submitted
      /\ submitted \subseteq Task /\ (hand # NoTask => hand \in submitted)
  BY DependenciesAssumption DEF DependenciesInv, TypeOK, Stages, released
<1>2. ASSUME NEW t PROVE doomed(t) \subseteq waiting /\ ready(t) \subseteq waiting
  BY DEF doomed, ready
<1>3. ASSUME NEW t \in Task, submit_task(t) PROVE OnePlace'
  <2>1. /\ t \notin submitted /\ UNCHANGED <<running, overdue, hand>>
        /\ \/ queued' = queued /\ failed' \in {failed, failed \cup {t}}
           \/ queued' = queued \cup {t} /\ failed' = failed
    <3>1. CASE submitFailed(t)
      BY <3>1 DEF submitFailed, known, poolVars
    <3>2. CASE submitReady(t)
      BY <3>2 DEF submitReady, known, endVars
    <3>3. CASE submitWaiting(t)
      BY <3>3 DEF submitWaiting, known, poolVars, endVars
    <3> QED  BY <1>3, <3>1, <3>2, <3>3 DEF submit_task
  <2> QED  BY <1>0, <2>1
<1>4. ASSUME NEW t \in Task, get(t) \/ skipCancelled(t) \/ dispatch(t) \/ dead_letter(t)
      PROVE  OnePlace'
  BY <1>0, <1>4 DEF get, skipCancelled, dispatch, dead_letter, endVars
<1>5. ASSUME NEW t \in Task, expire(t) \/ taskFails(t) \/ lateTimeout(t) PROVE OnePlace'
  <2>1. /\ failed' \subseteq failed \cup {t} \cup waiting
        /\ queued' = queued
        /\ \/ hand = t /\ hand' = NoTask /\ UNCHANGED <<running, overdue>>
           \/ t \in waiting /\ UNCHANGED <<hand, running, overdue>>
           \/ t \in running /\ running' = running \ {t} /\ UNCHANGED <<hand, overdue>>
           \/ t \in overdue /\ overdue' = overdue \ {t} /\ UNCHANGED <<hand, running>>
    <3>1. CASE expireQueued(t)
      BY <1>2, <3>1 DEF expireQueued, _on_dep_failed
    <3>2. CASE expireWaiting(t)
      BY <1>2, <3>2 DEF expireWaiting, poolVars
    <3>3. CASE taskFails(t)
      BY <1>2, <3>3 DEF taskFails, _on_dep_failed
    <3>4. CASE lateTimeout(t)
      BY <1>2, <3>4 DEF lateTimeout, _on_dep_failed, poolVars
    <3> QED  BY <1>5, <3>1, <3>2, <3>3, <3>4 DEF expire
  <2> QED  BY <1>0, <2>1
<1>6. ASSUME NEW t \in Task, taskSucceeds(t) PROVE OnePlace'
  <2>1. /\ t \in running /\ running' = running \ {t} /\ overdue' = overdue \cup {t}
        /\ queued' = queued \cup ready(t) /\ UNCHANGED <<hand, failed>>
    BY <1>6 DEF taskSucceeds, _on_dep_satisfied
  <2> QED  BY <1>0, <1>2, <2>1
<1>7. ASSUME NEW t \in Task, retry(t) \/ dropResult(t) \/ waitReturns(t) \/ cancel_task(t)
      PROVE  OnePlace'
  BY <1>0, <1>7 DEF retry, dropResult, waitReturns, cancel_task, cancelActive, cancelWaiting,
                    cancelQueued, heldVars, poolVars, endVars
<1>8. CASE UNCHANGED vars
  BY <1>8 DEF vars, poolVars, endVars
<1> QED
  BY <1>3, <1>4, <1>5, <1>6, <1>7, <1>8, Zenon DEF AnyStep, step

(* The tasks of a workflow depend on tasks of it.                          *)
SelfContained == \A t \in Wf : Deps[t] \subseteq Wf

Reported ==
    registered /\ ~loopOver /\ stopping = "no" /\ Wf \cap failed # {}
        => runStatus = "failed" /\ runFailed # {}

FailInv ==
    /\ runFailed \subseteq failed
    /\ runStatus = "cancelled" => stopping = "done"
    /\ stopping # "no" => registered
    /\ ~registered => Wf \cap failed = {}
    /\ Reported

(* So what fails outside takes none of the workflow's with it.             *)
LEMMA OutsideDoomsOutside ==
    ASSUME DependenciesInv, SelfContained, NEW t \in Task, t \notin Wf
    PROVE  doomed(t) \cap Wf = {}
<1>1. Closed(t, waiting \ Wf)
  <2> SUFFICES ASSUME NEW d \in (waiting \ Wf) \cup {t}, NEW w \in dependents[d], w \in waiting
               PROVE  w \notin Wf
    BY DEF Closed
  <2>1. d \in Task /\ d \notin Wf
    BY DEF DependenciesInv, TypeOK
  <2>2. d \in Deps[w]
    BY <2>1 DEF DependenciesInv, ListsHeld
  <2> QED  BY <2>1, <2>2 DEF SelfContained
<1> QED  BY <1>1 DEF doomed

(* The manager is told of nothing, and none of the workflow's fails.       *)
LEMMA NothingFails ==
    ASSUME FailInv, failed \subseteq failed', Wf \cap failed' = Wf \cap failed,
           runFailed' = runFailed, loopOpen' = loopOpen, runStatus' = runStatus,
           registered' = registered, stopping' = stopping
    PROVE  FailInv'
BY DEF FailInv, Reported, loopOver

(* A task that is not failed has its RESULT handled.                       *)
LEMMA StillReported ==
    ASSUME FailInv, NEW t, t \notin failed, failed' = failed, UNCHANGED requestVars,
           on_task_complete(t) \/ on_task_retrying(t), registered
    PROVE  FailInv'
<1>1. CASE UNCHANGED managerVars
  BY <1>1, NothingFails DEF managerVars, runVars, loopVars, requestVars
<1>2. CASE ~UNCHANGED managerVars
  <2>1. /\ runFailed' \subseteq runFailed /\ runStatus' # "cancelled"
        /\ \/ loopOpen' = FALSE /\ Iterations # <<>>
           \/ /\ runFailed' = runFailed \ {t} /\ loopOpen' = loopOpen
              /\ runFailed' # {} => runStatus' = "failed"
    <3>1. CASE on_task_complete(t)
      BY <1>2, <3>1 DEF on_task_complete, _update_status
    <3>2. CASE on_task_retrying(t)
      BY <3>2 DEF on_task_retrying, _update_status, loopVars
    <3> QED  BY <3>1, <3>2
  <2>2. t \notin runFailed /\ registered' = registered /\ stopping' = stopping
    BY DEF FailInv, requestVars
  <2> QED  BY <2>1, <2>2 DEF FailInv, Reported, loopOver
<1> QED  BY <1>1, <1>2

LEMMA FailStep ==
    ASSUME DependenciesInv, OnePlace, FailInv, SelfContained, ~SpawnsAgents,
           [WorkflowNext]_wfVars
    PROVE  FailInv'
<1>0. DependenciesInv' /\ failed \subseteq submitted /\ failed' \subseteq submitted'
  <2>1. DependenciesInv'
    BY WorkflowStepIsAnyStep, InvStep
  <2> QED  BY <2>1 DEF DependenciesInv, Stages
<1>1. ASSUME UNCHANGED <<managerVars, requestVars>>, failed \subseteq failed',
             Wf \cap failed' = Wf \cap failed
      PROVE  FailInv'
  BY <1>1, NothingFails DEF managerVars, runVars, loopVars, requestVars
<1>2. ASSUME NEW t \in Task, submit_task(t), UNCHANGED <<managerVars, requestVars>>,
             t \in Wf => Wf \cap failed = {}
      PROVE  FailInv'
  <2>1. /\ failed' \in {failed, failed \cup {t}}
        /\ t \in Wf => failed' = failed
    BY <1>2 DEF submit_task, submitFailed, submitReady, submitWaiting, endVars, SelfContained
  <2> QED  BY <1>1, <1>2, <2>1
<1>3. ASSUME NEW t \in Task, submitPhase(t) PROVE FailInv'
  BY <1>2, <1>3 DEF submitPhase, FailInv
<1>4. ASSUME NEW t \in Task, handle(t) PROVE FailInv'
  <2>0. ~registered => Wf \cap submitted = {}
    BY <1>4 DEF handle, routerAway
  <2>1. CASE clientSubmits(t)
    BY <1>2, <2>1 DEF clientSubmits, unseen
  <2>2. CASE unobserved(t)
    <3>1. failed' = failed
      BY <2>2 DEF unobserved, get, skipCancelled, dispatch, dead_letter, dropResult, waitReturns,
                  cancel_task, cancelActive, cancelWaiting, cancelQueued, endVars
    <3> QED  BY <1>1, <2>2, <3>1 DEF unobserved, unseen
  <2>3. CASE resultSuccess(t) \/ resultRetry(t)
    <3>1. t \in running /\ failed' = failed /\ UNCHANGED requestVars
      BY <2>3 DEF resultSuccess, resultRetry, taskSucceeds, retry, endVars
    <3>2. t \notin failed
      BY <3>1 DEF OnePlace
    <3>3. CASE registered /\ t \in Wf
      BY <2>3, <3>1, <3>2, <3>3, StillReported DEF resultSuccess, resultRetry, observe
    <3>4. CASE ~(registered /\ t \in Wf)
      BY <1>1, <2>3, <3>1, <3>4 DEF resultSuccess, resultRetry, observe
    <3> QED  BY <3>3, <3>4
  <2>4. CASE resultFailure(t) \/ expiry(t)
    <3>1. /\ failed' = failed \cup {t} \cup doomed(t) /\ submitted' = submitted
          /\ UNCHANGED requestVars /\ observe(t, on_task_failed(t))
      <4>1. CASE expireWaiting(t)
        <5>1. failed' = failed \cup {t} \cup doomed(t) /\ submitted' = submitted
          BY <4>1 DEF expireWaiting
        <5> QED  BY <2>4, <4>1, <5>1 DEF resultFailure, expiry
      <4>2. CASE expireQueued(t)
        BY <2>4, <4>2 DEF expireQueued, resultFailure, expiry, _on_dep_failed
      <4>3. CASE taskFails(t) \/ lateTimeout(t)
        BY <2>4, <4>3 DEF taskFails, lateTimeout, resultFailure, expiry, _on_dep_failed
      <4> QED  BY <2>4, <4>1, <4>2, <4>3 DEF resultFailure, expiry, expire
    <3>2. CASE ~registered
      <4>1. Wf \cap failed' = {} /\ Wf \cap failed = {}
        BY <1>0, <2>0, <3>1, <3>2
      <4> QED  BY <1>1, <3>1, <3>2, <4>1 DEF observe
    <3>3. CASE registered /\ t \notin Wf
      BY <1>1, <3>1, <3>3, OutsideDoomsOutside DEF observe
    <3>4. CASE registered /\ t \in Wf
      <4>1. on_task_failed(t)
        BY <3>1, <3>4 DEF observe
      <4>2. CASE runStatus = "cancelled"
        <5>1. UNCHANGED <<runFailed, runStatus, loopOpen, registered, stopping>>
          BY <3>1, <4>1, <4>2 DEF on_task_failed, managerVars, runVars, loopVars, requestVars
        <5>2. stopping = "done"
          BY <4>2 DEF FailInv
        <5> QED  BY <3>1, <3>4, <5>1, <5>2 DEF FailInv, Reported, loopOver
      <4>3. CASE runStatus # "cancelled"
        <5>1. runFailed' = runFailed \cup {t} /\ runStatus' = "failed"
          BY <4>1, <4>3 DEF on_task_failed, _update_status
        <5> QED  BY <3>1, <3>4, <5>1 DEF FailInv, Reported, loopOver, requestVars
      <4> QED  BY <4>2, <4>3
    <3> QED  BY <3>2, <3>3, <3>4
  <2>5. CASE scheduledCancel(t) \/ cancelNext(t)
    <3>1. failed' = failed
      BY <2>5 DEF scheduledCancel, cancelNext, cancelOrMiss, cancel_task, cancelActive,
                  cancelWaiting, cancelQueued, vars, endVars
    <3>2. UNCHANGED <<runFailed, runStatus, loopOpen, registered, stopping>>
      BY <2>5 DEF scheduledCancel, cancelNext, managerVars, runVars, loopVars, requestVars
    <3> QED  BY <3>1, <3>2, NothingFails
  <2> QED  BY <1>4, <2>1, <2>2, <2>3, <2>4, <2>5 DEF handle
<1>5. CASE register
  BY <1>5 DEF register, FailInv, Reported, vars, endVars, managerVars, runVars
<1>6. CASE cancel_workflow
  BY <1>6 DEF cancel_workflow, FailInv, Reported, vars, endVars, managerVars, runVars
<1>7. CASE cancelRun
  <2>1. /\ stopping # "no" /\ stopping' = "done" /\ registered' = registered
        /\ failed' = failed /\ runFailed' = runFailed
    BY <1>7 DEF cancelRun, cancel, vars, endVars
  <2> QED  BY <2>1 DEF FailInv, Reported, loopOver
<1>8. CASE UNCHANGED wfVars
  BY <1>1, <1>8 DEF wfVars, vars, endVars
<1> QED  BY <1>3, <1>4, <1>5, <1>6, <1>7, <1>8, Zenon DEF WorkflowNext

(* A run with a failed task is reported failed, though of a cascade the    *)
(* manager hears the first task only: if the run's tasks depend on tasks   *)
(* of the run, and the router does not suspend between submitting and      *)
(* registering them.                                                       *)
THEOREM FailureReportedHolds ==
    ASSUME SelfContained, ~SpawnsAgents
    PROVE  WorkflowSpec => []FailureReported
<1>1. WorkflowInit => OnePlace /\ FailInv
  BY DEF WorkflowInit, Init, ManagerInit, OnePlace, FailInv, Reported
<1>2. DependenciesInv /\ OnePlace /\ FailInv /\ [WorkflowNext]_wfVars => (OnePlace /\ FailInv)'
  BY WorkflowStepIsAnyStep, OnePlaceStep, FailStep
<1>3. FailInv => FailureReported
  BY DEF FailInv, Reported, loopOver, FailureReported
<1> QED  BY <1>1, <1>2, <1>3, WorkflowKeepsDependencies, PTL DEF WorkflowSpec


=============================================================================
