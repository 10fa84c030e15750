------------------------- MODULE DependenciesProofs -------------------------
(***************************************************************************)
(* The dependency engine keeps its books: no wakeup of a held task is lost *)
(* and no task starts before its dependencies, for any set of tasks and    *)
(* any dependencies among them, cyclic ones too.                           *)
(***************************************************************************)
EXTENDS Dependencies, TLAPS

(* The books proper: what relates _waiting_tasks, _task_dependents,        *)
(* _completed_tasks and _failed_tasks.                                     *)
Books == WaitersRegistered /\ ListsHeld /\ NoDoomedWait

(* They keep themselves in order, even when it is not known any more what  *)
(* completed before the tasks that run now: that is so after a restart.    *)
HeldInv == TypeOK /\ Stages /\ Books

(* The cascade of _on_dep_failed goes all the way: a held dependent of the *)
(* failed task, or of a task that goes down with it, goes down too.        *)
LEMMA DoomedClosed ==
    ASSUME NEW t
    PROVE  doomed(t) \subseteq waiting /\ Closed(t, doomed(t))
<1>1. doomed(t) \subseteq waiting
  BY DEF doomed
<1>2. ASSUME NEW d \in doomed(t) \cup {t}, NEW w \in dependents[d] \cap waiting
      PROVE  w \in doomed(t)
  <2>1. ASSUME NEW D \in SUBSET waiting, Closed(t, D)
        PROVE  w \in D
    <3>1. d \in D \cup {t}
      BY <1>2, <2>1 DEF doomed
    <3>2. QED
      BY <1>2, <2>1, <3>1 DEF Closed
  <2>2. QED
    BY <1>2, <2>1 DEF doomed
<1>3. QED
  BY <1>1, <1>2 DEF Closed

(* Taking a set of tasks G off the books together with t keeps them in     *)
(* order, if G has every held dependent of its members and of t.           *)
LEMMA CascadeKeepsBooks ==
    ASSUME HeldInv,
           NEW t \in Task, NEW G \in SUBSET Task,
           \A d \in G \cup {t} : dependents[d] \cap waiting \subseteq G,
           waiting' = waiting \ G,
           failed' = failed \cup {t} \cup G,
           dependents' = [d \in Task |-> IF d \in G \cup {t} THEN {}
                                         ELSE dependents[d] \ G],
           completed' = completed
    PROVE  Books'
<1>0. /\ waiting \subseteq Task
      /\ \A d \in Task : dependents[d] \subseteq Task
  BY DEF HeldInv, TypeOK
<1>1. ASSUME NEW w \in waiting', NEW d \in Deps[w] \ completed
      PROVE  d \notin G \cup {t} /\ w \in dependents'[d]
  <2>1. w \in Task /\ d \in Task
    BY <1>0, DependenciesAssumption
  <2>2. w \in dependents[d]
    BY DEF HeldInv, Books, WaitersRegistered
  <2>3. d \notin G \cup {t}
    BY <2>2
  <2>4. QED
    BY <2>1, <2>2, <2>3
<1>2. WaitersRegistered'
  <2>1. \A w \in waiting' : ~(Deps[w] \subseteq completed)
    BY DEF HeldInv, Books, WaitersRegistered
  <2>2. QED
    BY <1>1, <2>1 DEF WaitersRegistered
<1>3. ListsHeld'
  BY <1>0 DEF HeldInv, Books, ListsHeld
<1>4. NoDoomedWait'
  BY <1>1 DEF HeldInv, Books, NoDoomedWait
<1>5. QED
  BY <1>2, <1>3, <1>4 DEF Books

LEMMA FailureKeepsBooks ==
    ASSUME HeldInv, NEW t \in Task, _on_dep_failed(t), completed' = completed
    PROVE  Books'
<1>1. doomed(t) \subseteq waiting /\ Closed(t, doomed(t))
  BY DoomedClosed
<1>2. doomed(t) \in SUBSET Task
  BY <1>1 DEF HeldInv, TypeOK
<1> DEFINE G == doomed(t)
<1>3. /\ \A d \in G \cup {t} : dependents[d] \cap waiting \subseteq G
      /\ waiting' = waiting \ G
      /\ failed' = failed \cup {t} \cup G
      /\ dependents' = [d \in Task |-> IF d \in G \cup {t} THEN {}
                                       ELSE dependents[d] \ G]
  BY <1>1 DEF Closed, _on_dep_failed
<1> HIDE DEF G
<1>4. G \in SUBSET Task
  BY <1>2 DEF G
<1>5. QED
  BY <1>3, <1>4, CascadeKeepsBooks


(* A completion releases exactly the held tasks it completes the list of.  *)
LEMMA CompletionKeepsBooks ==
    ASSUME HeldInv, NEW t \in Task, _on_dep_satisfied(t),
           completed' = completed \cup {t}, failed' = failed
    PROVE  Books'
<1>0. /\ waiting \subseteq Task
      /\ \A d \in Task : dependents[d] \subseteq Task
  BY DEF HeldInv, TypeOK
<1>1. ASSUME NEW w \in waiting'
      PROVE  /\ w \in waiting \ ready(t)
             /\ ~(Deps[w] \subseteq completed')
             /\ \A d \in Deps[w] \ completed' : w \in dependents'[d]
  <2>1. w \in waiting \ ready(t) /\ w \in Task
    BY <1>0 DEF _on_dep_satisfied
  <2>2. \A d \in Deps[w] \ completed : w \in dependents[d]
    BY <2>1 DEF HeldInv, Books, WaitersRegistered
  <2>3. ~(Deps[w] \subseteq completed')
    <3>1. CASE t \in Deps[w] \ completed
      BY <2>1, <2>2, <3>1 DEF ready
    <3>2. CASE t \notin Deps[w] \ completed
      BY <2>1, <3>2 DEF HeldInv, Books, WaitersRegistered
    <3>3. QED
      BY <3>1, <3>2
  <2>4. ASSUME NEW d \in Deps[w] \ completed'
        PROVE  w \in dependents'[d]
    <3>1. d \in Task /\ d # t /\ d \notin completed
      BY <2>1, DependenciesAssumption
    <3>2. w \in dependents[d]
      BY <2>2, <3>1
    <3>3. QED
      BY <2>1, <3>1, <3>2 DEF _on_dep_satisfied
  <2>5. QED
    BY <2>1, <2>3, <2>4
<1>2. WaitersRegistered'
  BY <1>1 DEF WaitersRegistered
<1>3. ListsHeld'
  <2>1. ASSUME NEW d \in Task, NEW w \in dependents'[d]
        PROVE  w \in waiting' /\ d \in Deps[w]
    <3>1. w \in dependents[d] /\ w \notin ready(t)
      BY <2>1 DEF _on_dep_satisfied
    <3>2. QED
      BY <3>1 DEF _on_dep_satisfied, HeldInv, Books, ListsHeld
  <2>2. QED
    BY <2>1 DEF ListsHeld
<1>4. NoDoomedWait'
  BY <1>1 DEF HeldInv, Books, NoDoomedWait
<1>5. QED
  BY <1>2, <1>3, <1>4 DEF Books

(* Taking one held task off all the lists.                                 *)
LEMMA UnholdKeepsBooks ==
    ASSUME HeldInv, NEW t \in Task, unhold(t),
           completed' = completed, failed' = failed
    PROVE  Books'
<1>0. /\ waiting \subseteq Task
      /\ \A d \in Task : dependents[d] \subseteq Task
  BY DEF HeldInv, TypeOK
<1>1. WaitersRegistered'
  BY <1>0, DependenciesAssumption
     DEF unhold, HeldInv, Books, WaitersRegistered
<1>2. ListsHeld'
  BY <1>0 DEF unhold, HeldInv, Books, ListsHeld
<1>3. NoDoomedWait'
  BY DEF unhold, HeldInv, Books, NoDoomedWait
<1>4. QED
  BY <1>1, <1>2, <1>3 DEF Books

(* A task is put on the list of every dependency it has still to wait for. *)
LEMMA SubmitKeepsBooks ==
    ASSUME HeldInv, NEW t \in Task, submit_task(t)
    PROVE  Books'
<1>0. /\ waiting \subseteq Task
      /\ \A d \in Task : dependents[d] \subseteq Task
      /\ Deps \in [Task -> SUBSET Task]
  BY DependenciesAssumption DEF HeldInv, TypeOK
<1>1. CASE submitFailed(t)
  <2>1. Batch = {} => \A w \in waiting : t \notin Deps[w]
    BY <1>1 DEF submitFailed, known, HeldInv, Stages
  <2>2. NoDoomedWait'
    BY <1>1, <2>1 DEF submitFailed, heldVars, HeldInv, Books, NoDoomedWait
  <2>3. WaitersRegistered' /\ ListsHeld'
    BY <1>1 DEF submitFailed, heldVars, HeldInv, Books, WaitersRegistered, ListsHeld
  <2>4. QED
    BY <2>2, <2>3 DEF Books
<1>2. CASE submitReady(t)
  BY <1>2 DEF submitReady, heldVars, endVars, Books, HeldInv,
              WaitersRegistered, ListsHeld, NoDoomedWait
<1>3. CASE submitWaiting(t)
  <2>1. /\ waiting' = waiting \cup {t}
        /\ completed' = completed /\ failed' = failed
        /\ \A d \in Task : dependents'[d] =
              IF d \in Deps[t] \ completed THEN dependents[d] \cup {t}
              ELSE dependents[d]
    BY <1>3 DEF submitWaiting, endVars
  <2>2. WaitersRegistered'
    <3>1. ~(Deps[t] \subseteq completed)
      BY <1>3 DEF submitWaiting
    <3>2. QED
      BY <1>0, <2>1, <3>1 DEF HeldInv, Books, WaitersRegistered
  <2>3. ListsHeld'
    BY <1>0, <2>1 DEF HeldInv, Books, ListsHeld
  <2>4. NoDoomedWait'
    <3>1. Deps[t] \cap failed = {}
      BY <1>3 DEF submitWaiting
    <3>2. QED
      BY <2>1, <3>1 DEF HeldInv, Books, NoDoomedWait
  <2>5. QED
    BY <2>2, <2>3, <2>4 DEF Books
<1>4. QED
  BY <1>1, <1>2, <1>3 DEF submit_task

LEMMA ExpiryKeepsBooks ==
    ASSUME HeldInv, NEW t \in Task, expireWaiting(t)
    PROVE  Books'
<1> DEFINE G == doomed(t) \cup {t}
<1>1. doomed(t) \subseteq waiting /\ Closed(t, doomed(t))
  BY DoomedClosed
<1>2. G \in SUBSET Task
  BY <1>1 DEF HeldInv, TypeOK
<1>3. \A d \in G \cup {t} : dependents[d] \cap waiting \subseteq G
  BY <1>1 DEF Closed
<1>4. /\ waiting' = waiting \ G
      /\ failed' = failed \cup {t} \cup G
      /\ dependents' = [d \in Task |-> IF d \in G \cup {t} THEN {}
                                       ELSE dependents[d] \ G]
      /\ completed' = completed
  <2>1. G \cup {t} = G /\ failed \cup {t} \cup G = failed \cup G
    OBVIOUS
  <2>2. QED
    BY <2>1 DEF expireWaiting
<1> HIDE DEF G
<1>5. QED
  BY <1>2, <1>3, <1>4, CascadeKeepsBooks

-----------------------------------------------------------------------------
(* The steps, with a cancellation of any task.                             *)

AnyStep == \E t \in Task : step(t) \/ cancel_task(t)

LEMMA BooksStep ==
    ASSUME HeldInv, [AnyStep]_vars
    PROVE  Books'
<1> USE DEF heldVars, poolVars, endVars, vars
<1>0. ASSUME UNCHANGED <<heldVars, completed, failed>>
      PROVE  Books'
  BY <1>0 DEF Books, HeldInv, WaitersRegistered, ListsHeld, NoDoomedWait
<1>1. CASE UNCHANGED vars
  BY <1>0, <1>1
<1>2. ASSUME NEW t \in Task, submit_task(t)
      PROVE  Books'
  BY <1>2, SubmitKeepsBooks
<1>3. ASSUME NEW t \in Task, get(t) \/ skipCancelled(t) \/ dispatch(t) \/ dead_letter(t)
      PROVE  Books'
  BY <1>0, <1>3 DEF get, skipCancelled, dispatch, dead_letter
<1>4. ASSUME NEW t \in Task, expire(t)
      PROVE  Books'
  BY <1>4, FailureKeepsBooks, ExpiryKeepsBooks DEF expire, expireQueued
<1>5. ASSUME NEW t \in Task, taskSucceeds(t)
      PROVE  Books'
  BY <1>5, CompletionKeepsBooks DEF taskSucceeds
<1>6. ASSUME NEW t \in Task, retry(t) \/ dropResult(t) \/ waitReturns(t)
      PROVE  Books'
  BY <1>0, <1>6 DEF retry, dropResult, waitReturns
<1>7. ASSUME NEW t \in Task, taskFails(t) \/ lateTimeout(t)
      PROVE  Books'
  BY <1>7, FailureKeepsBooks DEF taskFails, lateTimeout
<1>8. ASSUME NEW t \in Task, cancel_task(t)
      PROVE  Books'
  <2>1. CASE cancelActive(t) \/ cancelQueued(t)
    BY <1>0, <2>1 DEF cancelActive, cancelQueued
  <2>2. CASE cancelWaiting(t)
    BY <2>2, UnholdKeepsBooks DEF cancelWaiting
  <2>3. QED
    BY <1>8, <2>1, <2>2 DEF cancel_task
<1>9. QED
  BY <1>1, <1>2, <1>3, <1>4, <1>5, <1>6, <1>7, <1>8, Zenon DEF AnyStep, step

LEMMA TypeStep ==
    ASSUME HeldInv, [AnyStep]_vars
    PROVE  TypeOK'
<1> USE DEF heldVars, poolVars, endVars, vars
<1>0. TypeOK
  BY DEF HeldInv
<1>1. CASE UNCHANGED vars
  BY <1>0, <1>1 DEF TypeOK
<1>2. ASSUME NEW t \in Task, submit_task(t)
      PROVE  TypeOK'
  BY <1>0, <1>2 DEF TypeOK, submit_task, submitFailed, submitReady, submitWaiting
<1>3. ASSUME NEW t \in Task, get(t) \/ skipCancelled(t) \/ dispatch(t) \/ dead_letter(t)
      PROVE  TypeOK'
  BY <1>0, <1>3 DEF TypeOK, get, skipCancelled, dispatch, dead_letter
<1>4. ASSUME NEW t \in Task, expire(t)
      PROVE  TypeOK'
  <2>1. doomed(t) \subseteq Task
    BY <1>0 DEF doomed, TypeOK
  <2>2. QED
    BY <1>0, <1>4, <2>1 DEF TypeOK, expire, expireQueued, expireWaiting, _on_dep_failed
<1>5. ASSUME NEW t \in Task, taskSucceeds(t)
      PROVE  TypeOK'
  <2>1. ready(t) \subseteq Task
    BY <1>0 DEF ready, TypeOK
  <2>2. QED
    BY <1>0, <1>5, <2>1 DEF TypeOK, taskSucceeds, _on_dep_satisfied
<1>6. ASSUME NEW t \in Task, retry(t) \/ dropResult(t) \/ waitReturns(t)
      PROVE  TypeOK'
  BY <1>0, <1>6 DEF TypeOK, retry, dropResult, waitReturns
<1>7. ASSUME NEW t \in Task, taskFails(t) \/ lateTimeout(t)
      PROVE  TypeOK'
  <2>1. doomed(t) \subseteq Task
    BY <1>0 DEF doomed, TypeOK
  <2>2. QED
    BY <1>0, <1>7, <2>1 DEF TypeOK, taskFails, lateTimeout, _on_dep_failed
<1>8. ASSUME NEW t \in Task, cancel_task(t)
      PROVE  TypeOK'
  BY <1>0, <1>8 DEF TypeOK, cancel_task, cancelActive, cancelWaiting, cancelQueued, unhold
<1>9. QED
  BY <1>1, <1>2, <1>3, <1>4, <1>5, <1>6, <1>7, <1>8, Zenon DEF AnyStep, step

(* Who joins the released tasks: one that was ready.                       *)
LEMMA StartedStep ==
    ASSUME DependenciesInv, [AnyStep]_vars
    PROVE  StartedInOrder'
<1> USE DEF heldVars, poolVars, endVars, vars, StartedInOrder, released
<1>0. StartedInOrder
  BY DEF DependenciesInv
<1>1. CASE UNCHANGED vars
  BY <1>0, <1>1
<1>2. ASSUME NEW t \in Task, submit_task(t)
      PROVE  StartedInOrder'
  BY <1>0, <1>2 DEF submit_task, submitFailed, submitReady, submitWaiting
<1>3. ASSUME NEW t \in Task, get(t) \/ skipCancelled(t) \/ dispatch(t) \/ dead_letter(t)
      PROVE  StartedInOrder'
  <2>0. t # NoTask
    BY DependenciesAssumption
  <2>1. CASE get(t)
    BY <1>0, <2>0, <2>1 DEF get
  <2>2. CASE skipCancelled(t)
    BY <1>0, <2>0, <2>2 DEF skipCancelled
  <2>3. CASE dispatch(t)
    BY <1>0, <2>0, <2>3 DEF dispatch
  <2>4. CASE dead_letter(t)
    BY <1>0, <2>0, <2>4 DEF dead_letter
  <2>5. QED
    BY <1>3, <2>1, <2>2, <2>3, <2>4
<1>4. ASSUME NEW t \in Task, expire(t)
      PROVE  StartedInOrder'
  BY <1>0, <1>4 DEF expire, expireQueued, expireWaiting
<1>5. ASSUME NEW t \in Task, taskSucceeds(t)
      PROVE  StartedInOrder'
  <2>1. \A w \in ready(t) : Deps[w] \subseteq completed'
    BY <1>5 DEF ready, taskSucceeds
  <2>2. Deps[t] \subseteq completed
    BY <1>0, <1>5 DEF taskSucceeds
  <2>3. QED
    BY <1>0, <1>5, <2>1, <2>2 DEF taskSucceeds, _on_dep_satisfied
<1>6. ASSUME NEW t \in Task, retry(t) \/ dropResult(t) \/ waitReturns(t)
      PROVE  StartedInOrder'
  BY <1>0, <1>6 DEF retry, dropResult, waitReturns
<1>7. ASSUME NEW t \in Task, taskFails(t) \/ lateTimeout(t)
      PROVE  StartedInOrder'
  BY <1>0, <1>7 DEF taskFails, lateTimeout
<1>8. ASSUME NEW t \in Task, cancel_task(t)
      PROVE  StartedInOrder'
  BY <1>0, <1>8 DEF cancel_task, cancelActive, cancelWaiting, cancelQueued
<1>9. QED
  BY <1>1, <1>2, <1>3, <1>4, <1>5, <1>6, <1>7, <1>8, Zenon DEF AnyStep, step

LEMMA StagesStep ==
    ASSUME HeldInv, [AnyStep]_vars
    PROVE  Stages'
<1> USE DEF heldVars, poolVars, endVars, vars, Stages, released
<1>0. Stages
  BY DEF HeldInv
<1>1. CASE UNCHANGED vars
  BY <1>0, <1>1
<1>2. ASSUME NEW t \in Task, submit_task(t)
      PROVE  Stages'
  BY <1>0, <1>2 DEF submit_task, submitFailed, submitReady, submitWaiting, known
<1>3. ASSUME NEW t \in Task, get(t) \/ skipCancelled(t) \/ dispatch(t) \/ dead_letter(t)
      PROVE  Stages'
  <2>0. t # NoTask
    BY DependenciesAssumption
  <2>1. CASE get(t)
    BY <1>0, <2>0, <2>1 DEF get
  <2>2. CASE skipCancelled(t)
    BY <1>0, <2>0, <2>2 DEF skipCancelled
  <2>3. CASE dispatch(t)
    BY <1>0, <2>0, <2>3 DEF dispatch
  <2>4. CASE dead_letter(t)
    BY <1>0, <2>0, <2>4 DEF dead_letter
  <2>5. QED
    BY <1>3, <2>1, <2>2, <2>3, <2>4
<1>4. ASSUME NEW t \in Task, expire(t)
      PROVE  Stages'
  <2>1. doomed(t) \subseteq waiting
    BY DEF doomed
  <2>2. QED
    <3>0. t # NoTask
      BY DependenciesAssumption
    <3>1. CASE expireQueued(t)
      BY <1>0, <2>1, <3>0, <3>1 DEF expireQueued, _on_dep_failed
    <3>2. CASE expireWaiting(t)
      BY <1>0, <2>1, <3>2 DEF expireWaiting
    <3>3. QED
      BY <1>4, <3>1, <3>2 DEF expire
<1>5. ASSUME NEW t \in Task, taskSucceeds(t)
      PROVE  Stages'
  <2>1. ready(t) \subseteq waiting
    BY DEF ready
  <2>2. QED
    BY <1>0, <1>5, <2>1 DEF taskSucceeds, _on_dep_satisfied
<1>6. ASSUME NEW t \in Task, retry(t) \/ dropResult(t) \/ waitReturns(t)
      PROVE  Stages'
  BY <1>0, <1>6 DEF retry, dropResult, waitReturns
<1>7. ASSUME NEW t \in Task, taskFails(t) \/ lateTimeout(t)
      PROVE  Stages'
  <2>1. doomed(t) \subseteq waiting
    BY DEF doomed
  <2>2. QED
    BY <1>0, <1>7, <2>1 DEF taskFails, lateTimeout, _on_dep_failed
<1>8. ASSUME NEW t \in Task, cancel_task(t)
      PROVE  Stages'
  <2>1. CASE cancelActive(t)
    BY <1>0, <2>1 DEF cancelActive
  <2>2. CASE cancelWaiting(t)
    BY <1>0, <2>2 DEF cancelWaiting, unhold
  <2>3. CASE cancelQueued(t)
    BY <1>0, <2>3 DEF cancelQueued
  <2>4. QED
    BY <1>8, <2>1, <2>2, <2>3 DEF cancel_task
<1>9. QED
  BY <1>1, <1>2, <1>3, <1>4, <1>5, <1>6, <1>7, <1>8, Zenon DEF AnyStep, step

LEMMA HeldStep ==
    ASSUME HeldInv, [AnyStep]_vars
    PROVE  HeldInv'
BY BooksStep, TypeStep, StagesStep DEF HeldInv

LEMMA InvStep ==
    ASSUME DependenciesInv, [AnyStep]_vars
    PROVE  DependenciesInv'
BY HeldStep, StartedStep DEF HeldInv, Books, DependenciesInv

LEMMA InitInv == Init => DependenciesInv
BY DependenciesAssumption
   DEF Init, DependenciesInv, TypeOK, Stages, WaitersRegistered, ListsHeld,
       StartedInOrder, NoDoomedWait, released

(* The dependency engine keeps its books in order: _waiting_tasks,         *)
(* _task_dependents and the sets of ended tasks always agree, whatever is  *)
(* submitted, cancelled, retried, expired or timed out too late.           *)
THEOREM DependenciesInvHolds == Spec => []DependenciesInv
<1>1. [Next]_vars => [AnyStep]_vars
  BY DEF Next, AnyStep
<1>2. DependenciesInv /\ [Next]_vars => DependenciesInv'
  BY <1>1, InvStep
<1>3. QED
  BY <1>2, InitInv, PTL DEF Spec

(* No wakeup is lost: a held task is always on the list of every           *)
(* dependency that has not completed, and has one.                         *)
THEOREM WaitersRegisteredHolds == Spec => []WaitersRegistered
<1>1. DependenciesInv => WaitersRegistered
  BY DEF DependenciesInv
<1>2. QED
  BY <1>1, DependenciesInvHolds, PTL

(* No task is queued, dispatched or run before all its dependencies have   *)
(* completed.                                                              *)
THEOREM StartedInOrderHolds == Spec => []StartedInOrder
<1>1. DependenciesInv => StartedInOrder
  BY DEF DependenciesInv
<1>2. QED
  BY <1>1, DependenciesInvHolds, PTL

(* No held task waits for one that failed, unless batches are submitted.   *)
THEOREM NoDoomedWaitHolds == Spec => []NoDoomedWait
<1>1. DependenciesInv => NoDoomedWait
  BY DEF DependenciesInv
<1>2. QED
  BY <1>1, DependenciesInvHolds, PTL

=============================================================================
