--------------------------- MODULE DispatchProofs ---------------------------
(***************************************************************************)
(* What Dispatch promises for every set of tasks and agents and every      *)
(* limit on retries and escalations, with the watchdog, failing agents and *)
(* draining at work; what the rate limiter in front of submit_task         *)
(* promises for every rate and burst and any attempts; and how a broadcast *)
(* group ends, whatever its tasks report.                                  *)
(***************************************************************************)
EXTENDS Dispatch, FiniteSetTheorems, WellFoundedInduction, TLAPS

(* Taking the head off a sequence leaves a sequence.                       *)
LEMMA HeadTail ==
    ASSUME NEW S, NEW s \in Seq(S), s # <<>>
    PROVE  Head(s) \in S /\ Tail(s) \in Seq(S)
  OBVIOUS

(* Appending to one sequence of a function keeps its type.                 *)
LEMMA AppendAt ==
    ASSUME NEW S, NEW T, NEW f \in [S -> Seq(T)], NEW x \in S, NEW e \in T
    PROVE  [f EXCEPT ![x] = Append(@, e)] \in [S -> Seq(T)]
  OBVIOUS

(* Raising one count keeps the type of the counts.                         *)
LEMMA CountUp ==
    ASSUME NEW S, NEW f \in [S -> Nat], NEW x \in S
    PROVE  [f EXCEPT ![x] = @ + 1] \in [S -> Nat]
  OBVIOUS

(* The clients keep the types.                                             *)
LEMMA ClientTypes ==
    ASSUME TypeOK,
           \/ \E t \in Task : submit_task(t) \/ cancel_task(t)
           \/ \E a \in Agent : drain_agent(a)
    PROVE  TypeOK'
<1>1. ASSUME NEW t \in Task, submit_task(t) PROVE TypeOK'
  <2>1. /\ queue' = [queue EXCEPT ![t] = @ + 1] /\ submitted' = submitted \cup {t}
        /\ UNCHANGED <<hand, active, tombstones, completed, failed, dlq, countVars,
                       registryVars, bus, agentVars, cancelled, dispatched, dropped>>
    BY <1>1 DEF submit_task
  <2>2. queue' \in [Task -> Nat] /\ submitted' \subseteq Task
    BY <2>1, CountUp DEF TypeOK
  <2>3. QED
    BY <2>1, <2>2 DEF TypeOK, countVars, registryVars, agentVars
<1>2. ASSUME NEW t \in Task, cancel_task(t) PROVE TypeOK'
  <2>1. /\ queue' \in {queue, [queue EXCEPT ![t] = 0]}
        /\ tombstones' \in {tombstones, tombstones \cup {t}}
        /\ cancelled' \in {cancelled, cancelled \cup {t}}
        /\ UNCHANGED <<hand, active, completed, failed, dlq, countVars, registryVars,
                       bus, agentVars, submitted, dispatched, dropped>>
    BY <1>2 DEF cancel_task
  <2>2. queue' \in [Task -> Nat]
    <3>1. queue \in [Task -> Nat]
      BY DEF TypeOK
    <3>2. [queue EXCEPT ![t] = 0] \in [Task -> Nat]
      BY <3>1
    <3> QED  BY <2>1, <3>1, <3>2
  <2>3. tombstones' \subseteq Task /\ cancelled' \subseteq Task
    <3>1. tombstones \subseteq Task /\ cancelled \subseteq Task
      BY DEF TypeOK
    <3> QED  BY <2>1, <3>1
  <2>4. QED
    BY <2>1, <2>2, <2>3 DEF TypeOK, countVars, registryVars, agentVars
<1>3. ASSUME NEW a \in Agent, drain_agent(a) PROVE TypeOK'
  <2>1. UNCHANGED <<taskVars, countVars, busySince, bus, current, inbox, historyVars>>
    BY <1>3 DEF drain_agent
  <2>2. /\ status' \in {[status EXCEPT ![a] = "STOPPED"], [status EXCEPT ![a] = "DRAINING"]}
        /\ running' \in {running, [running EXCEPT ![a] = NoTask]}
        /\ registered' \subseteq registered
        /\ draining' \subseteq draining \cup {a}
    BY <1>3 DEF drain_agent, stopAndUnregister
  <2>3. QED
    BY <2>1, <2>2 DEF TypeOK, Status, taskVars, countVars, historyVars
<1>4. QED
  BY <1>1, <1>2, <1>3

(* The dispatch loop keeps the types.                                      *)
LEMMA DispatcherTypes ==
    ASSUME TypeOK, get \/ settle
    PROVE  TypeOK'
<1>1. CASE get
  <2>1. PICK t \in Task : /\ queue[t] > 0 /\ hand' = t
                          /\ queue' = [queue EXCEPT ![t] = @ - 1]
    BY <1>1 DEF get
  <2>2. UNCHANGED <<active, tombstones, completed, failed, dlq, countVars,
                   registryVars, bus, agentVars, historyVars>>
    BY <1>1 DEF get
  <2>3. QED
    BY <2>1, <2>2 DEF TypeOK, countVars, registryVars, agentVars, historyVars
<1>2. CASE skipCancelled
  BY <1>2 DEF skipCancelled, TypeOK, countVars, registryVars, agentVars, historyVars
<1>3. CASE expire
  BY <1>3 DEF expire, TypeOK, countVars, registryVars, agentVars, historyVars
<1>4. ASSUME NEW a \in Agent, sendTask(a) PROVE TypeOK'
  <2>1. hand \in Task
    BY <1>4 DEF sendTask, TypeOK
  <2>2. inbox' \in [Agent -> Seq(Task)]
    BY <1>4, <2>1, AppendAt DEF sendTask, TypeOK
  <2>3. QED
    BY <1>4, <2>1, <2>2 DEF sendTask, TypeOK, countVars
<1>5. CASE noAgent
  <2>1. hand \in Task
    BY <1>5 DEF noAgent, TypeOK
  <2>2. /\ attempts' \in {attempts, [attempts EXCEPT ![hand] = @ + 1]}
        /\ dlq' \in {dlq, dlq \cup {hand}}
        /\ queue' \in {queue, [queue EXCEPT ![hand] = @ + 1]}
        /\ hand' = NoTask
    BY <1>5 DEF noAgent
  <2>3. UNCHANGED <<active, tombstones, completed, failed, retries, escalations,
                   excluded, registryVars, bus, agentVars, historyVars>>
    BY <1>5 DEF noAgent
  <2>4. /\ queue' \in [Task -> Nat] /\ attempts' \in [Task -> Nat]
        /\ dlq' \subseteq Task
    <3>1. queue \in [Task -> Nat] /\ attempts \in [Task -> Nat] /\ dlq \subseteq Task
      BY DEF TypeOK
    <3>2. QED
      BY <2>1, <2>2, <3>1, CountUp
  <2>5. QED
    BY <2>2, <2>3, <2>4 DEF TypeOK, registryVars, agentVars, historyVars
<1>6. QED
  BY <1>1, <1>2, <1>3, <1>4, <1>5 DEF settle

(* The agents and the watchdog keep the types.                             *)
LEMMA AgentTypes ==
    ASSUME TypeOK, NEW a \in Agent,
           runLoop(a) \/ taskComplete(a) \/ dispatchTaskRaises(a) \/ recover(a)
           \/ watchdog(a)
    PROVE  TypeOK'
<1>p. ASSUME NEW t \in Task \cup {NoTask}, NEW e \in Error, publish(a, t, e)
      PROVE  bus' \in Seq(Result)
  <2>1. [agent |-> a, task |-> t, error |-> e] \in Result
    BY DEF Result
  <2>2. QED
    BY <1>p, <2>1 DEF publish, TypeOK
<1>i. ASSUME set_idle(a)
      PROVE  current' \in [Agent -> Task \cup {NoTask}] /\ status' \in [Agent -> Status]
  BY <1>i DEF set_idle, TypeOK, Status
<1>1. CASE takeTask(a)
  <2>1. Head(inbox[a]) \in Task /\ Tail(inbox[a]) \in Seq(Task)
    BY <1>1, HeadTail DEF takeTask, TypeOK
  <2>2. inbox' \in [Agent -> Seq(Task)]
    BY <1>1, <2>1 DEF takeTask, TypeOK
  <2>3. QED
    BY <1>1, <2>1, <2>2
       DEF takeTask, TypeOK, Status, taskVars, countVars, registryVars, historyVars
<1>2. CASE waitReturns(a)
  BY <1>2 DEF waitReturns, TypeOK, taskVars, countVars, registryVars, historyVars
<1>3. CASE handle_task_timeout(a)
  <2>1. bus' \in Seq(Result)
    BY <1>3, <1>p DEF handle_task_timeout, TypeOK, Error
  <2>2. QED
    BY <1>3, <1>i, <2>1
       DEF handle_task_timeout, TypeOK, taskVars, countVars, registryVars, historyVars
<1>4. CASE taskComplete(a)
  <2>1. bus' \in Seq(Result)
    BY <1>4, <1>p DEF taskComplete, TypeOK, Error
  <2>2. QED
    BY <1>4, <1>i, <2>1
       DEF taskComplete, TypeOK, taskVars, countVars, registryVars, historyVars
<1>5. CASE dispatchTaskRaises(a)
  BY <1>5
     DEF dispatchTaskRaises, TypeOK, Status, taskVars, countVars, registryVars, historyVars
<1>6. CASE recover(a)
  BY <1>6 DEF recover, TypeOK, Status, taskVars, countVars, registryVars, historyVars
<1>7. CASE watchdog(a)
  <2>1. bus' \in Seq(Result)
    BY <1>7, <1>p DEF watchdog, TypeOK, Error
  <2>2. QED
    BY <1>7, <2>1
       DEF watchdog, TypeOK, agentVars, taskVars, countVars, registryVars, historyVars
<1>8. QED
  BY <1>1, <1>2, <1>3, <1>4, <1>5, <1>6, <1>7 DEF runLoop

(* The route loop keeps the types.                                         *)
LEMMA RouteTypes ==
    ASSUME TypeOK, route
    PROVE  TypeOK'
<1>1. bus # <<>> /\ bus' = Tail(bus)
  BY DEF route, dropResult, taskSucceeds, escalate, retry, taskFails
<1>2. result \in Result /\ bus' \in Seq(Result)
  BY <1>1, HeadTail DEF TypeOK, result
<1>3. result.task \in Task \cup {NoTask} /\ result.agent \in Agent
  BY <1>2 DEF Result
<1> DEFINE r == result
<1>4. r.task \in Task \cup {NoTask} /\ r.agent \in Agent
  BY <1>3
<1>d. ASSUME drainStop(r.agent)
      PROVE  /\ status' \in [Agent -> Status] /\ registered' \subseteq Agent
             /\ draining' \subseteq Agent
             /\ running' \in [Agent -> Task \cup {NoTask}]
             /\ UNCHANGED <<current, inbox>>
  <2> HIDE DEF r
  <2>1. QED
    BY <1>4, <1>d DEF drainStop, stopAndUnregister, TypeOK, Status
<1>5. CASE dropResult
  BY <1>2, <1>5, DispatchAssumption
     DEF dropResult, TypeOK, countVars, registryVars, agentVars
<1>6. CASE taskSucceeds
  BY <1>2, <1>3, <1>6, <1>d DEF taskSucceeds, TypeOK, countVars, historyVars
<1>7. CASE escalate
  <2>1. result.task \in Task
    BY <1>7 DEF escalate, escalates, TypeOK
  <2>2. /\ queue' \in [Task -> Nat] /\ escalations' \in [Task -> Nat]
    BY <1>7, <2>1, CountUp DEF escalate, TypeOK
  <2>3. excluded' \in [Task -> SUBSET Agent] /\ busySince' \subseteq Agent
    BY <1>3, <1>7, <2>1 DEF escalate, TypeOK
  <2>4. UNCHANGED <<hand, active, tombstones, completed, failed, dlq, retries,
                   attempts, registered, draining, agentVars, historyVars>>
    BY <1>7 DEF escalate
  <2>5. QED
    BY <1>2, <2>2, <2>3, <2>4 DEF TypeOK, agentVars, historyVars
<1>8. CASE retry
  <2>1. result.task \in Task
    BY <1>8 DEF retry, retries_left, TypeOK
  <2>2. /\ queue' \in [Task -> Nat] /\ retries' \in [Task -> Nat]
        /\ busySince' \subseteq Agent
    BY <1>8, <2>1, CountUp DEF retry, TypeOK
  <2>3. UNCHANGED <<hand, active, tombstones, completed, failed, dlq, attempts,
                   escalations, excluded, registered, draining, agentVars,
                   historyVars>>
    BY <1>8 DEF retry
  <2>4. QED
    BY <1>2, <2>2, <2>3 DEF TypeOK, agentVars, historyVars
<1>9. CASE taskFails
  BY <1>2, <1>3, <1>9, <1>d DEF taskFails, TypeOK, countVars, historyVars
<1>10. QED
  BY <1>5, <1>6, <1>7, <1>8, <1>9 DEF route

(* Every step keeps the types of the variables.                            *)
LEMMA TypeStep ==
    ASSUME TypeOK, [Next]_vars
    PROVE  TypeOK'
<1>1. CASE Next
  BY <1>1, ClientTypes, DispatcherTypes, AgentTypes, RouteTypes, Zenon DEF Next
<1>2. CASE UNCHANGED vars
  BY <1>2 DEF vars, taskVars, countVars, registryVars, agentVars, historyVars, TypeOK
<1>3. QED
  BY <1>1, <1>2

-----------------------------------------------------------------------------
(* The account of dispatches.                                              *)

(* The counts are numbers, before and after a step.                        *)
Counts ==
    \A t \in Task :
        /\ dispatched[t] \in Nat /\ queue[t] \in Nat
        /\ retries[t] \in Nat /\ escalations[t] \in Nat

LEMMA CountsAreNumbers ==
    ASSUME TypeOK, TypeOK'
    PROVE  Counts /\ Counts'
<1>1. Counts
  BY DEF TypeOK, Counts
<1>2. Counts'
  BY DEF TypeOK, Counts
<1>3. QED
  BY <1>1, <1>2

(* A step that spends no more than it adds keeps the account.              *)
LEMMA Balanced ==
    ASSUME DispatchInv, TypeOK',
           \A t \in Task : spent(t)' - spent(t) <= allowed(t)' - allowed(t),
           \A t \in Task : retries'[t] <= MaxRetries /\ escalations'[t] <= MaxEscalations
    PROVE  EntriesAccounted'
<1> SUFFICES ASSUME NEW t \in Task
             PROVE  spent(t)' <= allowed(t)'
  BY DEF EntriesAccounted
<1>1. spent(t) <= allowed(t)
  BY DEF DispatchInv, EntriesAccounted
<1>2. Counts /\ Counts'
  BY CountsAreNumbers DEF DispatchInv
<1>3. spent(t) \in Int /\ allowed(t) \in Int
  BY <1>2 DEF Counts, spent, allowed
<1>4. spent(t)' \in Int /\ allowed(t)' \in Int
  BY <1>2 DEF Counts, spent, allowed
<1>5. QED
  BY <1>1, <1>3, <1>4

(* A step that leaves the counts alone keeps the account.                  *)
LEMMA Untouched ==
    ASSUME DispatchInv, TypeOK', UNCHANGED <<dispatched, submitted, retries, escalations>>,
           \A t \in Task : queue'[t] + (IF hand' = t THEN 1 ELSE 0)
                             <= queue[t] + (IF hand = t THEN 1 ELSE 0)
    PROVE  EntriesAccounted'
<1>1. Counts /\ Counts'
  BY CountsAreNumbers DEF DispatchInv
<1>2. \A t \in Task : spent(t)' - spent(t) <= allowed(t)' - allowed(t)
  BY <1>1 DEF Counts, spent, allowed
<1>3. QED
  BY <1>2, Balanced DEF DispatchInv, EntriesAccounted

(* Submission, retry and escalation allow one more entry and put it.       *)
LEMMA OneMore ==
    ASSUME DispatchInv, TypeOK', NEW t \in Task,
           queue' = [queue EXCEPT ![t] = @ + 1], hand' = hand, dispatched' = dispatched,
           \/ /\ t \notin submitted /\ submitted' = submitted \cup {t}
              /\ UNCHANGED <<retries, escalations>>
           \/ /\ retries[t] < MaxRetries /\ retries' = [retries EXCEPT ![t] = @ + 1]
              /\ UNCHANGED <<submitted, escalations>>
           \/ /\ escalations[t] < MaxEscalations
              /\ escalations' = [escalations EXCEPT ![t] = @ + 1]
              /\ UNCHANGED <<submitted, retries>>
    PROVE  EntriesAccounted'
<1>1. Counts /\ Counts'
  BY CountsAreNumbers DEF DispatchInv
<1>2. DOMAIN queue = Task /\ DOMAIN retries = Task /\ DOMAIN escalations = Task
  BY DEF DispatchInv, TypeOK
<1>3. \A u \in Task : spent(u)' - spent(u) = IF u = t THEN 1 ELSE 0
  BY <1>1, <1>2 DEF Counts, spent
<1>4. \A u \in Task : allowed(u)' - allowed(u) = IF u = t THEN 1 ELSE 0
  BY <1>1, <1>2 DEF Counts, allowed
<1>5. \A u \in Task : retries[u] <= MaxRetries /\ escalations[u] <= MaxEscalations
  BY DEF DispatchInv, EntriesAccounted
<1>6. \A u \in Task : retries'[u] <= MaxRetries /\ escalations'[u] <= MaxEscalations
  BY <1>1, <1>2, <1>5, DispatchAssumption DEF Counts
<1>7. QED
  BY <1>1, <1>3, <1>4, <1>6, Balanced DEF Counts

(* Every step keeps the account.                                           *)
LEMMA AccountStep ==
    ASSUME DispatchInv, [Next]_vars
    PROVE  EntriesAccounted'
<1> USE DEF DispatchInv
<1>0. TypeOK'
  BY TypeStep
<1>n. Counts /\ Counts'
  BY <1>0, CountsAreNumbers
<1>1. ASSUME NEW t \in Task, submit_task(t) PROVE EntriesAccounted'
  BY <1>0, <1>1, OneMore DEF submit_task, countVars
<1>2. ASSUME NEW t \in Task, cancel_task(t) PROVE EntriesAccounted'
  <2>1. UNCHANGED <<hand, countVars, submitted, dispatched>>
        /\ queue' \in {queue, [queue EXCEPT ![t] = 0]}
    BY <1>2 DEF cancel_task
  <2>2. DOMAIN queue = Task
    BY DEF TypeOK
  <2>3. \A u \in Task : queue'[u] + (IF hand' = u THEN 1 ELSE 0)
                          <= queue[u] + (IF hand = u THEN 1 ELSE 0)
    BY <1>n, <2>1, <2>2 DEF Counts
  <2>4. QED
    BY <1>0, <2>1, <2>3, Untouched DEF countVars
<1>3. CASE get
  <2>1. PICK t \in Task : /\ queue[t] > 0 /\ hand' = t /\ hand = NoTask
                          /\ queue' = [queue EXCEPT ![t] = @ - 1]
    BY <1>3 DEF get
  <2>2. \A u \in Task : queue'[u] + (IF hand' = u THEN 1 ELSE 0)
                          <= queue[u] + (IF hand = u THEN 1 ELSE 0)
    BY <2>1, DispatchAssumption DEF TypeOK
  <2>3. UNCHANGED <<dispatched, submitted, retries, escalations>>
    BY <1>3 DEF get, countVars, historyVars
  <2>4. QED
    BY <1>0, <2>2, <2>3, Untouched
<1>4. CASE skipCancelled \/ expire
  <2>1. UNCHANGED <<queue, countVars, submitted, dispatched>> /\ hand' = NoTask
    BY <1>4 DEF skipCancelled, expire, historyVars
  <2>2. \A u \in Task : queue'[u] + (IF hand' = u THEN 1 ELSE 0)
                          <= queue[u] + (IF hand = u THEN 1 ELSE 0)
    BY <2>1, DispatchAssumption DEF TypeOK
  <2>3. QED
    BY <1>0, <2>1, <2>2, Untouched DEF countVars
<1>5. ASSUME NEW a \in Agent, sendTask(a) PROVE EntriesAccounted'
  <2>1. /\ hand \in Task /\ hand' = NoTask
        /\ dispatched' = [dispatched EXCEPT ![hand] = @ + 1]
        /\ UNCHANGED <<queue, submitted, retries, escalations>>
    BY <1>5 DEF sendTask, TypeOK, countVars
  <2>2. ASSUME NEW u \in Task PROVE spent(u)' - spent(u) <= 0
    <3>1. queue[u] \in Nat /\ dispatched[u] \in Nat /\ dispatched \in [Task -> Nat]
      BY DEF TypeOK
    <3>2. queue'[u] = queue[u] /\ hand' # u
      BY <2>1, DispatchAssumption
    <3>3. dispatched'[u] = dispatched[u] + (IF hand = u THEN 1 ELSE 0)
      BY <2>1, <3>1
    <3> QED  BY <3>1, <3>2, <3>3 DEF spent
  <2>3. \A u \in Task : allowed(u)' - allowed(u) = 0
    BY <2>1 DEF TypeOK, allowed
  <2>4. \A u \in Task : retries'[u] <= MaxRetries /\ escalations'[u] <= MaxEscalations
    BY <2>1 DEF EntriesAccounted
  <2>5. QED
    BY <1>0, <2>2, <2>3, <2>4, Balanced
<1>6. CASE noAgent
  <2>1. /\ hand \in Task /\ hand' = NoTask
        /\ queue' \in {queue, [queue EXCEPT ![hand] = @ + 1]}
        /\ UNCHANGED <<dispatched, submitted, retries, escalations>>
    BY <1>6 DEF noAgent, TypeOK, historyVars
  <2>2. \A u \in Task : queue'[u] + (IF hand' = u THEN 1 ELSE 0)
                          <= queue[u] + (IF hand = u THEN 1 ELSE 0)
    BY <2>1, DispatchAssumption DEF TypeOK
  <2>3. QED
    BY <1>0, <2>1, <2>2, Untouched
<1>7. CASE escalate
  <2>1. result.task \in Task /\ escalations[result.task] < MaxEscalations
    BY <1>7 DEF escalate, escalates, TypeOK
  <2>2. QED
    BY <1>0, <1>7, <2>1, OneMore DEF escalate, historyVars
<1>8. CASE retry
  <2>1. result.task \in Task /\ retries[result.task] < MaxRetries
    BY <1>8 DEF retry, retries_left, TypeOK
  <2>2. QED
    BY <1>0, <1>8, <2>1, OneMore DEF retry, historyVars
<1>9. ASSUME UNCHANGED <<queue, hand, countVars, submitted, dispatched>>
      PROVE  EntriesAccounted'
  BY <1>9 DEF EntriesAccounted, spent, allowed, countVars
<1>10. CASE dropResult \/ taskSucceeds \/ taskFails
  BY <1>9, <1>10 DEF dropResult, taskSucceeds, taskFails, historyVars
<1>11. ASSUME NEW a \in Agent,
              drain_agent(a) \/ runLoop(a) \/ taskComplete(a)
              \/ dispatchTaskRaises(a) \/ recover(a) \/ watchdog(a)
       PROVE  EntriesAccounted'
  BY <1>9, <1>11
     DEF drain_agent, runLoop, takeTask, waitReturns, handle_task_timeout, taskComplete,
         dispatchTaskRaises, recover, watchdog, taskVars, historyVars
<1>12. CASE UNCHANGED vars
  BY <1>9, <1>12 DEF vars, taskVars, historyVars
<1>13. QED
  BY <1>1, <1>2, <1>3, <1>4, <1>5, <1>6, <1>7, <1>8, <1>10, <1>11, <1>12, Zenon
     DEF Next, settle, route

(* The types and the account are invariants.                               *)
THEOREM DispatchInvHolds == Spec => []DispatchInv
<1>1. Init => DispatchInv
  <2> SUFFICES ASSUME Init PROVE DispatchInv
    OBVIOUS
  <2>1. TypeOK
    BY DEF Init, TypeOK, Status
  <2>2. EntriesAccounted
    BY DispatchAssumption DEF Init, EntriesAccounted, spent, allowed
  <2>3. QED
    BY <2>1, <2>2 DEF DispatchInv
<1>2. ASSUME DispatchInv, [Next]_vars PROVE DispatchInv'
  BY <1>2, TypeStep, AccountStep DEF DispatchInv
<1>3. QED
  BY <1>1, <1>2, PTL DEF Spec

(* A task goes to an agent at most once, and once more for each retry and  *)
(* each escalation it is allowed, whatever the watchdog, cancellations,    *)
(* failing agents and draining do.                                         *)
THEOREM DispatchesBoundedHolds == Spec => []DispatchesBounded
<1>1. DispatchInv => DispatchesBounded
  <2> SUFFICES ASSUME DispatchInv, NEW t \in Task
               PROVE  dispatched[t] <= 1 + MaxRetries + MaxEscalations
    BY DEF DispatchesBounded
  <2>1. /\ dispatched[t] \in Nat /\ queue[t] \in Nat
        /\ retries[t] \in Nat /\ escalations[t] \in Nat
    BY DEF DispatchInv, TypeOK
  <2>2. QED
    BY <2>1, DispatchAssumption DEF DispatchInv, EntriesAccounted, spent, allowed
<1>2. QED
  BY <1>1, DispatchInvHolds, PTL

-----------------------------------------------------------------------------
(* Without the watchdog: a task is in one place, and ends once.  The late  *)
(* timeout of a task that was completed is the difficulty.                 *)

works(t, a) == running[a] = t /\ current[a] = t
atAgent(t, a) == inInbox(t, a) \/ works(t, a)

gone(t) == queue[t] = 0 /\ hand # t /\ \A a \in Agent : ~atAgent(t, a)

(* The task was completed; the run loop has not seen it yet.               *)
late(t) == \E a \in Agent : running[a] = t /\ current[a] # t

reported(t) == \E i \in 1..Len(bus) : bus[i].task = t
success(t) == \E i \in 1..Len(bus) : bus[i].task = t /\ bus[i].error = "none"
silent(t) == ~reported(t) /\ ~late(t)

ended(t) == t \in completed \cup failed \cup dlq

Apart(t) ==
    \A a \in Agent : \A i, j \in 1..Len(inbox[a]) :
        inbox[a][i] = t /\ inbox[a][j] = t => i = j

Alone(t) ==
    /\ queue[t] <= 1
    /\ hand = t => queue[t] = 0
    /\ \A a \in Agent : atAgent(t, a) =>
         /\ queue[t] = 0 /\ hand # t
         /\ \A b \in Agent : atAgent(t, b) => a = b
         /\ ~(inInbox(t, a) /\ works(t, a))
    /\ Apart(t)

(* Of two RESULTs of a task the first is its success, and while the task   *)
(* is active that has not been handled.                                    *)
InTurn(t) ==
    \A i, j \in 1..Len(bus) : i < j /\ bus[i].task = t /\ bus[j].task = t =>
        bus[j].error # "none" /\ (t \in active => success(t))

Reports(t) ==
    /\ ~silent(t) => gone(t)
    /\ t \in active /\ late(t) => success(t)
    /\ InTurn(t)

(* What has ended is in no place, and no RESULT will bring it back.        *)
Ends(t) ==
    /\ ended(t) => gone(t) /\ ~success(t) /\ (t \in active => silent(t))
    /\ t \in dlq => silent(t)
    /\ t \in cancelled =>
         \/ gone(t) /\ (t \in active => silent(t))
         \/ t \in active /\ t \in tombstones
    /\ t \in tombstones => resolved(t)
    /\ t \notin submitted => gone(t) /\ silent(t) /\ t \notin active /\ ~resolved(t)

TaskInv(t) == Alone(t) /\ Reports(t) /\ Ends(t)

BusyWorks == \A a \in Agent : status[a] = "BUSY" => running[a] = current[a] /\ running[a] # NoTask
NoWatchdog == \A i \in 1..Len(bus) : bus[i].error # "watchdog_timeout" /\ bus[i].task # NoTask

OnceInv == TypeOK /\ BusyWorks /\ NoWatchdog /\ \A t \in Task : TaskInv(t)

LEMMA OnceInvType == OnceInv => TypeOK
BY DEF OnceInv

LEMMA Appended ==
    ASSUME TypeOK, NEW m \in Result, bus' = Append(bus, m), NEW t \in Task
    PROVE  /\ reported(t)' <=> reported(t) \/ m.task = t
           /\ success(t)' <=> success(t) \/ (m.task = t /\ m.error = "none")
           /\ /\ InTurn(t) /\ active' = active
              /\ m.task = t => ~reported(t) \/ (m.error # "none" /\ (t \in active => success(t)))
              => InTurn(t)'
<1>1. /\ Len(bus') = Len(bus) + 1 /\ Len(bus) \in Nat
      /\ \A i \in 1..Len(bus) : bus'[i] = bus[i]
      /\ bus'[Len(bus) + 1] = m
  BY DEF TypeOK
<1>2. reported(t)' <=> reported(t) \/ m.task = t
  BY <1>1 DEF reported
<1>3. success(t)' <=> success(t) \/ (m.task = t /\ m.error = "none")
  BY <1>1 DEF success
<1>4. ASSUME InTurn(t), active' = active,
             m.task = t => ~reported(t) \/ (m.error # "none" /\ (t \in active => success(t))),
             NEW i \in 1..Len(bus'), NEW j \in 1..Len(bus'), i < j,
             bus'[i].task = t, bus'[j].task = t
      PROVE  bus'[j].error # "none" /\ (t \in active' => success(t)')
  <2>1. i \in 1..Len(bus) /\ bus[i].task = t
    BY <1>1, <1>4
  <2>2. CASE j \in 1..Len(bus)
    BY <1>1, <1>3, <1>4, <2>1, <2>2 DEF InTurn
  <2>3. CASE j = Len(bus) + 1
    BY <1>1, <1>3, <1>4, <2>1, <2>3 DEF reported
  <2> QED  BY <1>1, <2>2, <2>3
<1> QED  BY <1>2, <1>3, <1>4 DEF InTurn

LEMMA Popped ==
    ASSUME TypeOK, bus # <<>>, bus' = Tail(bus), NEW t \in Task, InTurn(t)
    PROVE  /\ reported(t)' => reported(t)
           /\ success(t)' => success(t)
           /\ result.task = t => reported(t) /\ ~success(t)'
           /\ result.task # t => (reported(t)' <=> reported(t)) /\ (success(t)' <=> success(t))
           /\ result.task = t /\ result.error # "none" /\ t \in active =>
                ~success(t) /\ ~reported(t)' /\ (Reports(t) => ~late(t))
           /\ result.task = t /\ result.error = "none" => success(t)
           /\ (t \in active' => t \in active /\ (result.task = t => ~reported(t)')) => InTurn(t)'
<1>1. /\ Len(bus) \in Nat \ {0} /\ Len(bus') = Len(bus) - 1 /\ result = bus[1]
      /\ \A i \in 1..Len(bus') : bus'[i] = bus[i + 1]
  BY DEF TypeOK, result
<1>2. (reported(t)' => reported(t)) /\ (success(t)' => success(t))
  BY <1>1 DEF reported, success
<1>3. ASSUME result.task = t PROVE reported(t) /\ ~success(t)'
  BY <1>1, <1>3 DEF reported, success, InTurn
<1>4. ASSUME result.task # t
      PROVE  (reported(t) => reported(t)') /\ (success(t) => success(t)')
  <2>1. ASSUME NEW i \in 1..Len(bus), bus[i].task = t
        PROVE  i - 1 \in 1..Len(bus') /\ bus'[i - 1] = bus[i]
    <3>1. i # 1
      BY <1>1, <1>4, <2>1
    <3>2. i - 1 \in 1..Len(bus') /\ (i - 1) + 1 = i
      BY <1>1, <3>1
    <3> QED  BY <1>1, <3>2
  <2> QED  BY <2>1 DEF reported, success
<1>5. ASSUME result.task = t, result.error # "none", t \in active
      PROVE  ~success(t) /\ ~reported(t)'
  <2>1. ~success(t)
    BY <1>1, <1>5 DEF success, InTurn
  <2>2. ~reported(t)'
    BY <1>1, <1>5, <2>1 DEF reported, InTurn
  <2> QED  BY <2>1, <2>2
<1>6. ASSUME result.task = t, result.error = "none" PROVE success(t)
  BY <1>1, <1>6 DEF success
<1>7. ASSUME t \in active' => t \in active /\ (result.task = t => ~reported(t)'),
             NEW i \in 1..Len(bus'), NEW j \in 1..Len(bus'), i < j,
             bus'[i].task = t, bus'[j].task = t
      PROVE  bus'[j].error # "none" /\ (t \in active' => success(t)')
  <2>1. /\ i + 1 \in 1..Len(bus) /\ j + 1 \in 1..Len(bus) /\ i + 1 < j + 1
        /\ bus[i + 1].task = t /\ bus[j + 1].task = t /\ bus[j + 1] = bus'[j]
    BY <1>1, <1>7
  <2>2. reported(t)'
    BY <1>7 DEF reported
  <2> QED  BY <1>4, <1>7, <2>1, <2>2 DEF InTurn
<1>8. ASSUME result.task = t, result.error # "none", t \in active, Reports(t)
      PROVE  ~success(t) /\ ~late(t)
  BY <1>5, <1>8 DEF Reports
<1>9. (t \in active' => t \in active /\ (result.task = t => ~reported(t)')) => InTurn(t)'
  BY <1>7 DEF InTurn
<1> QED  BY <1>2, <1>3, <1>4, <1>5, <1>6, <1>8, <1>9

(* A step that at most takes a task from the queue, the hand or a run loop *)
(* keeps what is said of it.                                               *)
LEMMA Fewer ==
    ASSUME NEW t \in Task, TypeOK, TaskInv(t),
           queue'[t] \in {0, queue[t]}, hand' = t => hand = t,
           \A a \in Agent : /\ inInbox(t, a)' <=> inInbox(t, a)
                            /\ works(t, a)' => works(t, a),
           Apart(t)', InTurn(t)', late(t)' => late(t),
           reported(t)' <=> reported(t), success(t)' <=> success(t),
           t \in active' <=> t \in active, t \in tombstones' <=> t \in tombstones,
           t \in completed' <=> t \in completed, t \in failed' <=> t \in failed,
           t \in dlq' <=> t \in dlq, t \in cancelled' <=> t \in cancelled,
           t \in submitted' <=> t \in submitted
    PROVE  TaskInv(t)'
<1>1. queue[t] \in Nat
  BY DEF TypeOK
<1>2. \A a \in Agent : atAgent(t, a)' => atAgent(t, a)
  BY DEF atAgent
<1>3. (gone(t) => gone(t)') /\ (silent(t) => silent(t)')
  BY <1>2 DEF gone, silent
<1>4. (ended(t)' <=> ended(t)) /\ (resolved(t)' <=> resolved(t))
  BY DEF ended, resolved
<1>5. Alone(t)'
  BY <1>1, <1>2 DEF TaskInv, Alone
<1>6. Reports(t)'
  BY <1>3 DEF TaskInv, Reports
<1>7. Ends(t)'
  BY <1>3, <1>4 DEF TaskInv, Ends
<1> QED  BY <1>5, <1>6, <1>7 DEF TaskInv

(* What it says of inboxes and RESULTs, when they stay as they are.        *)
LEMMA SameMail ==
    ASSUME NEW t \in Task, TaskInv(t), inbox' = inbox, bus' = bus, active' = active
    PROVE  /\ \A a \in Agent : inInbox(t, a)' <=> inInbox(t, a)
           /\ Apart(t)' /\ InTurn(t)'
           /\ reported(t)' <=> reported(t)
           /\ success(t)' <=> success(t)
BY DEF TaskInv, Alone, Reports, Apart, InTurn, inInbox, reported, success

(* What a stop of the run loop does.                                       *)
LEMMA LoopGone ==
    ASSUME TypeOK, NEW a \in Agent, current' = current,
           running' \in {running, [running EXCEPT ![a] = NoTask]}, NEW t \in Task
    PROVE  /\ \A b \in Agent : works(t, b)' => works(t, b)
           /\ late(t)' => late(t)
<1>1. \A b \in Agent : running'[b] \in {running[b], NoTask}
  BY DEF TypeOK
<1>2. \A b \in Agent : running'[b] = t => running[b] = t
  BY <1>1, DispatchAssumption
<1> QED  BY <1>2 DEF works, late

LEMMA QuietSteps ==
    ASSUME OnceInv, ~WatchdogOn, NEW a \in Agent,
           drain_agent(a) \/ waitReturns(a) \/ dispatchTaskRaises(a) \/ recover(a) \/ watchdog(a)
    PROVE  BusyWorks' /\ NoWatchdog' /\ \A t \in Task : TaskInv(t)'
<1>1. ~watchdog(a)
  BY DEF watchdog
<1>2. /\ UNCHANGED <<queue, hand, inbox, bus, current, active, tombstones, completed, failed,
                     dlq, cancelled, submitted>>
      /\ running' \in {running, [running EXCEPT ![a] = NoTask]}
  BY <1>1 DEF drain_agent, stopAndUnregister, waitReturns, dispatchTaskRaises, recover,
              taskVars, historyVars, agentVars
<1>3. ASSUME NEW t \in Task PROVE TaskInv(t)'
  <2>1. TypeOK /\ TaskInv(t)
    BY DEF OnceInv
  <2>2. /\ \A b \in Agent : works(t, b)' => works(t, b)
        /\ late(t)' => late(t)
    BY <1>2, <2>1, LoopGone
  <2>3. queue'[t] \in {0, queue[t]} /\ (hand' = t => hand = t)
    BY <1>2
  <2> QED  BY <1>2, <2>1, <2>2, <2>3, SameMail, Fewer
<1>4. ASSUME NEW b \in Agent, status'[b] = "BUSY"
      PROVE  running'[b] = current'[b] /\ running'[b] # NoTask
  <2>1. TypeOK /\ BusyWorks
    BY DEF OnceInv
  <2>2. status[b] = "BUSY" /\ (b = a => running' = running)
    <3>1. CASE drain_agent(a)
      BY <1>4, <2>1, <3>1 DEF drain_agent, stopAndUnregister, TypeOK
    <3>2. CASE waitReturns(a)
      BY <1>4, <2>1, <3>2 DEF waitReturns, TypeOK, BusyWorks
    <3>3. CASE dispatchTaskRaises(a)
      BY <1>4, <2>1, <3>3 DEF dispatchTaskRaises, TypeOK
    <3>4. CASE recover(a)
      BY <1>4, <2>1, <3>4 DEF recover, TypeOK
    <3> QED  BY <1>1, <3>1, <3>2, <3>3, <3>4
  <2>3. running'[b] = running[b] /\ current'[b] = current[b]
    BY <1>2, <2>1, <2>2 DEF TypeOK
  <2> QED  BY <2>1, <2>2, <2>3 DEF BusyWorks
<1>5. NoWatchdog'
  BY <1>2 DEF OnceInv, NoWatchdog
<1> QED  BY <1>3, <1>4, <1>5 DEF BusyWorks

LEMMA TakesTask ==
    ASSUME OnceInv, NEW a \in Agent, takeTask(a)
    PROVE  BusyWorks' /\ NoWatchdog' /\ \A t \in Task : TaskInv(t)'
<1> DEFINE u == Head(inbox[a])
<1>1. /\ running[a] = NoTask /\ inbox[a] # <<>>
      /\ running' = [running EXCEPT ![a] = u] /\ current' = [current EXCEPT ![a] = u]
      /\ status' = [status EXCEPT ![a] = "BUSY"]
      /\ inbox' = [inbox EXCEPT ![a] = Tail(inbox[a])]
      /\ UNCHANGED <<taskVars, bus, historyVars>>
  BY DEF takeTask, atInbox
<1>2. /\ running \in [Agent -> Task \cup {NoTask}] /\ current \in [Agent -> Task \cup {NoTask}]
      /\ inbox \in [Agent -> Seq(Task)] /\ status \in [Agent -> Status]
      /\ BusyWorks /\ NoWatchdog /\ \A t \in Task : TaskInv(t)
  BY DEF OnceInv, TypeOK
<1>3. /\ inbox[a] \in Seq(Task) /\ Len(inbox[a]) \in Nat \ {0} /\ u = inbox[a][1] /\ u \in Task
      /\ inbox'[a] = Tail(inbox[a]) /\ Len(inbox'[a]) = Len(inbox[a]) - 1
      /\ \A i \in 1..Len(inbox'[a]) : inbox'[a][i] = inbox[a][i + 1]
  BY <1>1, <1>2
<1> HIDE DEF u
<1>4. \A b \in Agent \ {a} :
        running'[b] = running[b] /\ current'[b] = current[b] /\ inbox'[b] = inbox[b]
  BY <1>1, <1>2
<1>5. running'[a] = u /\ current'[a] = u
  BY <1>1, <1>2
<1>6. ASSUME NEW t \in Task PROVE TaskInv(t)'
  <2>1. TaskInv(t)
    BY <1>2
  <2>2. \A b \in Agent \ {a} :
          (works(t, b)' <=> works(t, b)) /\ (inInbox(t, b)' <=> inInbox(t, b))
    BY <1>4 DEF works, inInbox
  <2>3. ~works(t, a) /\ (works(t, a)' <=> t = u)
    BY <1>1, <1>5, DispatchAssumption DEF works
  <2>4. /\ inInbox(t, a)' => inInbox(t, a)
        /\ t = u => inInbox(t, a) /\ ~inInbox(t, a)'
        /\ t # u => (inInbox(t, a) => inInbox(t, a)')
    <3>1. inInbox(t, a)' => inInbox(t, a)
      BY <1>3 DEF inInbox
    <3>2. ASSUME t = u PROVE inInbox(t, a) /\ ~inInbox(t, a)'
      <4>1. \A i, j \in 1..Len(inbox[a]) : inbox[a][i] = t /\ inbox[a][j] = t => i = j
        BY <2>1 DEF TaskInv, Alone, Apart
      <4>2. 1 \in 1..Len(inbox[a])
        BY <1>3
      <4>3. ASSUME NEW i \in 1..Len(inbox'[a]), inbox'[a][i] = t PROVE FALSE
        <5>1. i + 1 \in 1..Len(inbox[a]) /\ inbox[a][i + 1] = t /\ i + 1 # 1
          BY <1>3, <4>3
        <5> QED  BY <1>3, <3>2, <4>1, <4>2, <5>1
      <4> QED  BY <1>3, <3>2, <4>2, <4>3 DEF inInbox
    <3>3. ASSUME t # u, NEW i \in 1..Len(inbox[a]), inbox[a][i] = t PROVE inInbox(t, a)'
      <4>1. i # 1
        BY <1>3, <3>3
      <4>2. i - 1 \in 1..Len(inbox'[a]) /\ (i - 1) + 1 = i
        BY <1>3, <4>1
      <4>3. inbox'[a][i - 1] = t
        BY <1>3, <3>3, <4>2
      <4> QED  BY <4>2, <4>3 DEF inInbox
    <3>4. t # u /\ inInbox(t, a) => inInbox(t, a)'
      BY <3>3 DEF inInbox
    <3> QED  BY <3>1, <3>2, <3>4
  <2>5. \A b \in Agent : atAgent(t, b)' <=> atAgent(t, b)
    BY <2>2, <2>3, <2>4 DEF atAgent
  <2>6. \A b \in Agent : inInbox(t, b)' /\ works(t, b)' => inInbox(t, b) /\ works(t, b)
    BY <2>2, <2>3, <2>4
  <2>7. \A b \in Agent : \A i, j \in 1..Len(inbox'[b]) :
          inbox'[b][i] = t /\ inbox'[b][j] = t => i = j
    <3>1. \A b \in Agent : \A i, j \in 1..Len(inbox[b]) :
            inbox[b][i] = t /\ inbox[b][j] = t => i = j
      BY <2>1 DEF TaskInv, Alone, Apart
    <3>2. ASSUME NEW i \in 1..Len(inbox'[a]), NEW j \in 1..Len(inbox'[a]),
                 inbox'[a][i] = t, inbox'[a][j] = t
          PROVE  i = j
      <4>1. /\ i + 1 \in 1..Len(inbox[a]) /\ j + 1 \in 1..Len(inbox[a])
            /\ inbox[a][i + 1] = t /\ inbox[a][j + 1] = t
        BY <1>3, <3>2
      <4>2. i + 1 = j + 1
        BY <3>1, <4>1
      <4> QED  BY <4>2
    <3> QED  BY <1>4, <3>1, <3>2
  <2>8. late(t)' <=> late(t)
    BY <1>1, <1>4, <1>5, DispatchAssumption DEF late
  <2>9. UNCHANGED <<queue, hand, bus, active, tombstones, completed, failed, dlq, cancelled,
                    submitted>>
    BY <1>1 DEF taskVars, historyVars
  <2>10. (reported(t)' <=> reported(t)) /\ (success(t)' <=> success(t))
    BY <2>9 DEF reported, success
  <2>11. (gone(t)' <=> gone(t)) /\ (silent(t)' <=> silent(t))
    BY <2>5, <2>8, <2>9, <2>10 DEF gone, silent
  <2>12. Alone(t)'
    BY <2>1, <2>5, <2>6, <2>7, <2>9 DEF TaskInv, Alone, Apart
  <2>13. Reports(t)'
    BY <2>1, <2>8, <2>9, <2>10, <2>11 DEF TaskInv, Reports, InTurn
  <2>14. Ends(t)'
    BY <2>1, <2>9, <2>10, <2>11 DEF TaskInv, Ends, ended, resolved
  <2> QED  BY <2>12, <2>13, <2>14 DEF TaskInv
<1>7. BusyWorks'
  BY <1>1, <1>2, <1>3, <1>4, <1>5, DispatchAssumption DEF BusyWorks
<1>8. NoWatchdog'
  BY <1>1, <1>2 DEF NoWatchdog
<1> QED  BY <1>6, <1>7, <1>8

(* The RESULT of the task an agent has, or had.                            *)
LEMMA Reporting ==
    ASSUME OnceInv, NEW a \in Agent, NEW u \in Task, NEW e \in {"none", "timeout"},
           running[a] = u, publish(a, u, e), set_idle(a),
           \/ e = "none" /\ current[a] = u /\ running' = running
           \/ e = "timeout" /\ running' = [running EXCEPT ![a] = NoTask],
           UNCHANGED <<taskVars, inbox, historyVars>>
    PROVE  BusyWorks' /\ NoWatchdog' /\ \A t \in Task : TaskInv(t)'
<1> DEFINE m == [agent |-> a, task |-> u, error |-> e]
<1>1. /\ running \in [Agent -> Task \cup {NoTask}] /\ current \in [Agent -> Task \cup {NoTask}]
      /\ status \in [Agent -> Status] /\ bus \in Seq(Result)
      /\ TypeOK /\ BusyWorks /\ NoWatchdog /\ \A t \in Task : TaskInv(t)
  BY DEF OnceInv, TypeOK
<1>2. m \in Result /\ bus' = Append(bus, m) /\ m.task = u /\ m.error = e
  BY DEF publish, Result, Error
<1> HIDE DEF m
<1>3. /\ current' = [current EXCEPT ![a] = NoTask]
      /\ \A b \in Agent \ {a} :
           running'[b] = running[b] /\ current'[b] = current[b] /\ status'[b] = status[b]
      /\ current'[a] = NoTask /\ running'[a] \in {u, NoTask} /\ status'[a] # "BUSY"
  BY <1>1 DEF set_idle
<1>4. UNCHANGED <<queue, hand, active, tombstones, completed, failed, dlq, cancelled, submitted>>
  BY DEF taskVars, historyVars
<1>5. ASSUME NEW t \in Task
      PROVE  /\ \A b \in Agent : inInbox(t, b)' <=> inInbox(t, b)
             /\ \A b \in Agent \ {a} : works(t, b)' <=> works(t, b)
             /\ ~works(t, a)'
             /\ TaskInv(t) /\ Apart(t)'
  <2>1. TaskInv(t) /\ Apart(t)'
    BY <1>1 DEF TaskInv, Alone, Apart
  <2>2. \A b \in Agent : inInbox(t, b)' <=> inInbox(t, b)
    BY DEF inInbox
  <2>3. (\A b \in Agent \ {a} : works(t, b)' <=> works(t, b)) /\ ~works(t, a)'
    BY <1>3, DispatchAssumption DEF works
  <2> QED  BY <2>1, <2>2, <2>3
<1>6. ASSUME NEW t \in Task, t # u PROVE TaskInv(t)'
  <2>1. ~works(t, a)
    BY <1>6 DEF works
  <2>2. late(t)' <=> late(t)
    BY <1>3, <1>6, DispatchAssumption DEF late
  <2>3. /\ reported(t)' <=> reported(t)
        /\ success(t)' <=> success(t)
        /\ InTurn(t) => InTurn(t)'
    BY <1>1, <1>2, <1>4, <1>6, Appended
  <2>4. InTurn(t)
    BY <1>5 DEF TaskInv, Reports
  <2> QED  BY <1>4, <1>5, <2>1, <2>2, <2>3, <2>4, OnceInvType, Fewer
<1>7. TaskInv(u)'
  <2>1. TaskInv(u) /\ Alone(u) /\ Reports(u) /\ Ends(u) /\ InTurn(u)
    BY <1>5 DEF TaskInv, Reports
  <2>2. /\ \A b \in Agent : atAgent(u, b)' => atAgent(u, b)
        /\ \A b \in Agent : ~(inInbox(u, b)' /\ works(u, b)')
    BY <1>5, <2>1 DEF atAgent, Alone
  <2>3. CASE current[a] = u
    <3>1. works(u, a) /\ atAgent(u, a)
      BY <2>3 DEF works, atAgent
    <3>2. /\ queue[u] = 0 /\ hand # u /\ \A b \in Agent : atAgent(u, b) => a = b
          /\ ~inInbox(u, a)
      BY <2>1, <3>1 DEF Alone
    <3>3. ~atAgent(u, a)'
      BY <1>5, <3>2 DEF atAgent
    <3>4. gone(u)'
      BY <1>4, <2>2, <3>2, <3>3 DEF gone
    <3>5. ~gone(u)
      BY <3>1 DEF gone
    <3>6. ~reported(u) /\ ~late(u) /\ ~success(u)
      BY <2>1, <3>5 DEF Reports, silent, reported, success
    <3>7. /\ success(u)' <=> e = "none"
          /\ InTurn(u)'
      BY <1>1, <1>2, <1>4, <2>1, <3>6, Appended
    <3>8. e # "none" => ~late(u)'
      <4>1. e # "none" => running'[a] = NoTask
        BY <1>1
      <4> QED  BY <1>3, <3>6, <4>1, DispatchAssumption DEF late
    <3>9. Alone(u)'
      BY <1>4, <1>5, <2>1, <3>4 DEF Alone, gone
    <3>10. Reports(u)'
      BY <1>4, <3>4, <3>7, <3>8 DEF Reports
    <3>11. Ends(u)'
      BY <1>4, <2>1, <3>4, <3>5 DEF Ends, ended, resolved
    <3> QED  BY <3>9, <3>10, <3>11 DEF TaskInv
  <2>4. CASE current[a] # u
    <3>1. e = "timeout" /\ late(u)
      BY <2>4 DEF late
    <3>2. gone(u) /\ ~silent(u)
      BY <2>1, <3>1 DEF Reports, silent
    <3>3. gone(u)'
      BY <1>4, <2>2, <3>2 DEF gone
    <3>4. /\ success(u)' <=> success(u)
          /\ InTurn(u)'
      BY <1>1, <1>2, <1>4, <2>1, <3>1, Appended DEF Reports
    <3>5. Alone(u)'
      BY <1>4, <1>5, <3>3 DEF Alone, gone
    <3>6. Reports(u)'
      BY <1>4, <2>1, <3>1, <3>3, <3>4 DEF Reports
    <3>7. Ends(u)'
      BY <1>4, <2>1, <3>2, <3>3, <3>4 DEF Ends, ended, resolved
    <3> QED  BY <3>5, <3>6, <3>7 DEF TaskInv
  <2> QED  BY <2>3, <2>4
<1>8. BusyWorks'
  BY <1>1, <1>3 DEF BusyWorks
<1>9. NoWatchdog'
  <2>1. /\ Len(bus') = Len(bus) + 1 /\ Len(bus) \in Nat
        /\ \A i \in 1..Len(bus) : bus'[i] = bus[i]
        /\ bus'[Len(bus) + 1] = m
    BY <1>1, <1>2
  <2> QED  BY <1>1, <1>2, <2>1, DispatchAssumption DEF NoWatchdog
<1> QED  BY <1>6, <1>7, <1>8, <1>9

LEMMA ReportingSteps ==
    ASSUME OnceInv, NEW a \in Agent, taskComplete(a) \/ handle_task_timeout(a)
    PROVE  BusyWorks' /\ NoWatchdog' /\ \A t \in Task : TaskInv(t)'
<1>1. running[a] \in Task
  BY DEF OnceInv, TypeOK, BusyWorks, taskComplete, handle_task_timeout
<1>2. CASE taskComplete(a)
  <2>1. current[a] = running[a]
    BY <1>2 DEF OnceInv, BusyWorks, taskComplete
  <2> QED  BY <1>1, <1>2, <2>1, Reporting DEF taskComplete
<1>3. CASE handle_task_timeout(a)
  BY <1>1, <1>3, Reporting DEF handle_task_timeout
<1> QED  BY <1>2, <1>3

(* The dispatch loop takes a task from the queue, and puts it back.        *)
LEMMA GetsTask ==
    ASSUME OnceInv, get
    PROVE  BusyWorks' /\ NoWatchdog' /\ \A t \in Task : TaskInv(t)'
<1>1. PICK u \in Task : /\ hand = NoTask /\ queue[u] > 0
                        /\ queue' = [queue EXCEPT ![u] = @ - 1] /\ hand' = u
  BY DEF get
<1>2. UNCHANGED <<active, tombstones, completed, failed, dlq, bus, agentVars, historyVars>>
  BY DEF get
<1>3. /\ queue \in [Task -> Nat]
      /\ \A t \in Task : TaskInv(t)
  BY DEF OnceInv, TypeOK
<1>4. ASSUME NEW t \in Task, t # u PROVE TaskInv(t)'
  <2>1. TaskInv(t) /\ queue'[t] = queue[t] /\ (hand' = t <=> hand = t)
    BY <1>1, <1>3, <1>4, DispatchAssumption
  <2>2. /\ \A a \in Agent : /\ inInbox(t, a)' <=> inInbox(t, a)
                            /\ works(t, a)' <=> works(t, a)
        /\ Apart(t)' /\ InTurn(t)'
        /\ (late(t)' <=> late(t)) /\ (reported(t)' <=> reported(t))
        /\ (success(t)' <=> success(t))
    BY <1>2, <2>1 DEF agentVars, inInbox, works, Apart, InTurn, late, reported, success,
                      TaskInv, Alone, Reports
  <2> QED  BY <1>2, <2>1, <2>2, OnceInvType, Fewer DEF historyVars
<1>5. TaskInv(u)'
  <2>1. Alone(u) /\ Reports(u) /\ Ends(u) /\ ~gone(u)
    BY <1>1, <1>3 DEF TaskInv, gone
  <2>2. queue[u] = 1 /\ queue'[u] = 0 /\ hand' = u
    BY <1>1, <1>3, <2>1 DEF Alone
  <2>3. /\ \A a \in Agent : atAgent(u, a)' <=> atAgent(u, a)
        /\ silent(u)' <=> silent(u)
    BY <1>2 DEF agentVars, atAgent, inInbox, works, silent, late, reported
  <2>4. \A a \in Agent : ~atAgent(u, a)
    BY <2>1, <2>2 DEF Alone
  <2>5. Alone(u)'
    BY <1>2, <2>1, <2>2, <2>3, <2>4 DEF Alone, Apart, agentVars
  <2>6. Reports(u)'
    <3>1. silent(u)
      BY <2>1 DEF Reports
    <3> QED  BY <2>3, <3>1 DEF Reports, silent, InTurn, reported
  <2>7. Ends(u)'
    <3>1. /\ ~ended(u) /\ u \in submitted /\ (u \in tombstones => resolved(u))
          /\ u \in cancelled => u \in active /\ u \in tombstones
      BY <2>1 DEF Ends
    <3> QED  BY <1>2, <3>1 DEF Ends, ended, resolved, historyVars
  <2> QED  BY <2>5, <2>6, <2>7 DEF TaskInv
<1>6. BusyWorks' /\ NoWatchdog'
  BY <1>2 DEF OnceInv, BusyWorks, NoWatchdog, agentVars
<1> QED  BY <1>4, <1>5, <1>6

LEMMA InHand ==
    ASSUME OnceInv, hand # NoTask
    PROVE  /\ hand \in Task /\ TaskInv(hand) /\ hand \in submitted
           /\ queue[hand] = 0 /\ \A a \in Agent : ~atAgent(hand, a)
           /\ silent(hand) /\ ~ended(hand)
           /\ hand \in cancelled => hand \in active /\ hand \in tombstones
<1>1. hand \in Task /\ TaskInv(hand)
  BY DEF OnceInv, TypeOK
<1>2. ~gone(hand)
  BY DEF gone
<1>3. queue[hand] = 0 /\ \A a \in Agent : ~atAgent(hand, a)
  BY <1>1 DEF TaskInv, Alone
<1> QED  BY <1>1, <1>2, <1>3 DEF TaskInv, Reports, Ends

(* It settles it: the task goes back, or it ends.                          *)
LEMMA Settles ==
    ASSUME OnceInv, skipCancelled \/ expire \/ noAgent
    PROVE  BusyWorks' /\ NoWatchdog' /\ \A t \in Task : TaskInv(t)'
<1>0. PICK u : u = hand
  OBVIOUS
<1>1. hand # NoTask
  BY DispatchAssumption DEF skipCancelled, expire, noAgent, OnceInv, TypeOK
<1>2. /\ u \in Task /\ TaskInv(u) /\ u \in submitted
      /\ queue[u] = 0 /\ \A a \in Agent : ~atAgent(u, a)
      /\ silent(u) /\ ~ended(u)
      /\ u \in cancelled => u \in active /\ u \in tombstones
  BY <1>0, <1>1, InHand
<1>3. /\ queue \in [Task -> Nat]
      /\ \A t \in Task : TaskInv(t)
  BY DEF OnceInv, TypeOK
<1>4. /\ hand' = NoTask
      /\ UNCHANGED <<active, completed, bus, agentVars, historyVars>>
      /\ \A t \in Task : t # u =>
           /\ queue'[t] = queue[t]
           /\ t \in tombstones' <=> t \in tombstones
           /\ t \in failed' <=> t \in failed
           /\ t \in dlq' <=> t \in dlq
      /\ queue'[u] \in {0, 1}
      /\ u \in cancelled => queue'[u] = 0 /\ u \notin failed' \cup dlq'
      /\ u \in failed' \cup dlq' => queue'[u] = 0
      /\ u \in tombstones' => u \in tombstones
  <2>1. CASE skipCancelled
    BY <1>0, <1>2, <2>1 DEF skipCancelled, ended
  <2>2. CASE expire
    BY <1>0, <1>2, <2>2 DEF expire, ended
  <2>3. CASE noAgent
    <3>1. queue' \in {queue, [queue EXCEPT ![u] = @ + 1]} /\ dlq' \in {dlq, dlq \cup {u}}
      BY <1>0, <2>3 DEF noAgent
    <3>2. (dlq' = dlq \/ queue' = queue) /\ u \notin tombstones
      BY <1>0, <2>3 DEF noAgent
    <3>3. /\ hand' = NoTask
          /\ UNCHANGED <<active, tombstones, completed, failed, bus, agentVars, historyVars>>
      BY <1>0, <2>3 DEF noAgent
    <3>4. u \notin failed \cup dlq
      BY <1>2 DEF ended
    <3> QED  BY <1>2, <1>3, <3>1, <3>2, <3>3, <3>4
  <2> QED  BY <2>1, <2>2, <2>3
<1>5. ASSUME NEW t \in Task
      PROVE  /\ \A a \in Agent : /\ inInbox(t, a)' <=> inInbox(t, a)
                                 /\ works(t, a)' <=> works(t, a)
             /\ Apart(t)' /\ InTurn(t)'
             /\ (late(t)' <=> late(t)) /\ (reported(t)' <=> reported(t))
             /\ (success(t)' <=> success(t))
  BY <1>3, <1>4 DEF agentVars, inInbox, works, Apart, InTurn, late, reported, success,
                    TaskInv, Alone, Reports
<1>6. ASSUME NEW t \in Task, t # u PROVE TaskInv(t)'
  <2>1. TaskInv(t) /\ queue'[t] = queue[t] /\ (hand' = t <=> hand = t)
    BY <1>0, <1>3, <1>4, <1>6, DispatchAssumption
  <2> QED  BY <1>4, <1>5, <1>6, <2>1, OnceInvType, Fewer DEF historyVars
<1>7. TaskInv(u)'
  <2>1. hand' # u
    BY <1>2, <1>4, DispatchAssumption
  <2>2. /\ \A a \in Agent : ~atAgent(u, a)'
        /\ silent(u)'
    BY <1>2, <1>5 DEF atAgent, silent
  <2>3. Alone(u)'
    BY <1>2, <1>4, <1>5, <2>1, <2>2 DEF Alone
  <2>4. Reports(u)'
    BY <1>2, <1>5, <2>2 DEF Reports, silent
  <2>5. queue'[u] = 0 => gone(u)'
    BY <2>1, <2>2 DEF gone
  <2>6. /\ ~success(u)'
        /\ u \in tombstones' => u \in cancelled
    <3>1. ~success(u)'
      BY <2>2 DEF silent, reported, success
    <3>2. u \in tombstones => resolved(u)
      BY <1>2 DEF TaskInv, Ends
    <3> QED  BY <1>2, <1>4, <3>1, <3>2 DEF resolved, ended
  <2>7. Ends(u)'
    BY <1>2, <1>4, <2>2, <2>5, <2>6 DEF Ends, ended, resolved, historyVars
  <2> QED  BY <2>3, <2>4, <2>7 DEF TaskInv
<1>8. BusyWorks' /\ NoWatchdog'
  BY <1>4 DEF OnceInv, BusyWorks, NoWatchdog, agentVars
<1> QED  BY <1>6, <1>7, <1>8

LEMMA SendsTask ==
    ASSUME OnceInv, NEW a \in Agent, sendTask(a)
    PROVE  BusyWorks' /\ NoWatchdog' /\ \A t \in Task : TaskInv(t)'
<1>0. PICK u : u = hand
  OBVIOUS
<1>1. hand # NoTask
  BY DEF sendTask
<1>2. /\ u \in Task /\ TaskInv(u) /\ u \in submitted
      /\ queue[u] = 0 /\ \A b \in Agent : ~atAgent(u, b)
      /\ silent(u) /\ ~ended(u)
      /\ u \in cancelled => u \in active /\ u \in tombstones
  BY <1>0, <1>1, InHand
<1>3. /\ hand' = NoTask /\ u \notin tombstones
      /\ inbox' = [inbox EXCEPT ![a] = Append(inbox[a], u)] /\ active' = active \cup {u}
      /\ UNCHANGED <<queue, tombstones, completed, failed, dlq, bus, status, current, running,
                     submitted, cancelled>>
  BY <1>0 DEF sendTask
<1>4. inbox \in [Agent -> Seq(Task)] /\ \A t \in Task : TaskInv(t)
  BY DEF OnceInv, TypeOK
<1>5. /\ \A b \in Agent \ {a} : inbox'[b] = inbox[b]
      /\ Len(inbox'[a]) = Len(inbox[a]) + 1 /\ Len(inbox[a]) \in Nat
      /\ \A i \in 1..Len(inbox[a]) : inbox'[a][i] = inbox[a][i]
      /\ inbox'[a][Len(inbox[a]) + 1] = u
  BY <1>2, <1>3, <1>4
<1>6. ASSUME NEW t \in Task
      PROVE  /\ \A b \in Agent : works(t, b)' <=> works(t, b)
             /\ \A b \in Agent : inInbox(t, b)' <=> inInbox(t, b) \/ (t = u /\ b = a)
             /\ InTurn(t) /\ t # u => InTurn(t)'
             /\ (late(t)' <=> late(t)) /\ (reported(t)' <=> reported(t))
             /\ (success(t)' <=> success(t))
  <2>1. \A b \in Agent : works(t, b)' <=> works(t, b)
    BY <1>3 DEF works
  <2>2. \A b \in Agent : inInbox(t, b)' <=> inInbox(t, b) \/ (t = u /\ b = a)
    <3>1. ASSUME NEW b \in Agent, b # a PROVE inInbox(t, b)' <=> inInbox(t, b)
      BY <1>5, <3>1 DEF inInbox
    <3>2. ASSUME t = u PROVE inInbox(t, a)'
      <4>1. Len(inbox[a]) + 1 \in 1..Len(inbox'[a])
        BY <1>5
      <4> QED  BY <1>5, <3>2, <4>1 DEF inInbox
    <3>3. ASSUME t # u PROVE inInbox(t, a)' <=> inInbox(t, a)
      <4>1. \A i \in 1..Len(inbox'[a]) : i \in 1..Len(inbox[a]) \/ i = Len(inbox[a]) + 1
        BY <1>5
      <4>2. \A i \in 1..Len(inbox[a]) : i \in 1..Len(inbox'[a])
        BY <1>5
      <4> QED  BY <1>5, <3>3, <4>1, <4>2 DEF inInbox
    <3> QED  BY <3>1, <3>2, <3>3
  <2>3. (late(t)' <=> late(t)) /\ (reported(t)' <=> reported(t)) /\ (success(t)' <=> success(t))
    BY <1>3 DEF late, reported, success
  <2>4. InTurn(t) /\ t # u => InTurn(t)'
    BY <1>3, <2>3, Zenon DEF InTurn
  <2> QED  BY <2>1, <2>2, <2>3, <2>4
<1>7. ASSUME NEW t \in Task PROVE Apart(t)'
  <2>1. Apart(t) /\ (t = u => ~inInbox(u, a))
    BY <1>2, <1>4 DEF TaskInv, Alone, atAgent
  <2>2. ASSUME NEW b \in Agent, NEW i \in 1..Len(inbox'[b]), NEW j \in 1..Len(inbox'[b]),
               inbox'[b][i] = t, inbox'[b][j] = t
        PROVE  i = j
    <3>1. CASE b # a
      BY <1>5, <2>1, <2>2, <3>1 DEF Apart
    <3>2. CASE b = a /\ t # u
      <4>1. i \in 1..Len(inbox[a]) /\ j \in 1..Len(inbox[a])
        BY <1>5, <2>2, <3>2
      <4>2. inbox[a][i] = t /\ inbox[a][j] = t
        BY <1>5, <2>2, <3>2, <4>1
      <4> QED  BY <2>1, <4>1, <4>2 DEF Apart
    <3>3. CASE b = a /\ t = u
      <4>1. \A n \in 1..Len(inbox[a]) : inbox[a][n] # u
        BY <2>1, <3>3 DEF inInbox
      <4>2. i \notin 1..Len(inbox[a]) /\ j \notin 1..Len(inbox[a])
        BY <1>5, <2>2, <3>3, <4>1
      <4> QED  BY <1>5, <2>2, <3>3, <4>2
    <3> QED  BY <3>1, <3>2, <3>3
  <2> QED  BY <2>2 DEF Apart
<1>8. ASSUME NEW t \in Task, t # u PROVE TaskInv(t)'
  <2>1. TaskInv(t) /\ InTurn(t) /\ (hand' = t <=> hand = t)
    BY <1>0, <1>3, <1>4, <1>8, DispatchAssumption DEF TaskInv, Reports
  <2>2. t \in active' <=> t \in active
    BY <1>3, <1>8
  <2> QED  BY <1>3, <1>6, <1>7, <1>8, <2>1, <2>2, OnceInvType, Fewer
<1>9. TaskInv(u)'
  <2>1. hand' # u
    BY <1>2, <1>3, DispatchAssumption
  <2>2. /\ \A b \in Agent : ~works(u, b)'
        /\ \A b \in Agent : inInbox(u, b)' <=> b = a
    BY <1>2, <1>6 DEF atAgent
  <2>3. silent(u)'
    BY <1>2, <1>6 DEF silent
  <2>4. Alone(u)'
    BY <1>2, <1>3, <1>7, <2>1, <2>2 DEF Alone, atAgent
  <2>5. Reports(u)'
    BY <2>3 DEF Reports, silent, InTurn, reported
  <2>6. Ends(u)'
    <3>1. u \notin cancelled
      BY <1>2, <1>3
    <3> QED  BY <1>2, <1>3, <3>1 DEF Ends, ended, resolved
  <2> QED  BY <2>4, <2>5, <2>6 DEF TaskInv
<1>10. BusyWorks' /\ NoWatchdog'
  BY <1>3 DEF OnceInv, BusyWorks, NoWatchdog
<1> QED  BY <1>8, <1>9, <1>10

(* The clients.                                                            *)
LEMMA Submits ==
    ASSUME OnceInv, NEW u \in Task, submit_task(u)
    PROVE  BusyWorks' /\ NoWatchdog' /\ \A t \in Task : TaskInv(t)'
<1>1. /\ u \notin submitted /\ submitted' = submitted \cup {u}
      /\ queue' = [queue EXCEPT ![u] = @ + 1]
      /\ UNCHANGED <<hand, active, tombstones, completed, failed, dlq, bus, inbox, status, current,
                     running, cancelled>>
  BY DEF submit_task, agentVars
<1>2. queue \in [Task -> Nat] /\ \A t \in Task : TaskInv(t)
  BY DEF OnceInv, TypeOK
<1>3. ASSUME NEW t \in Task
      PROVE  /\ \A a \in Agent : works(t, a)' <=> works(t, a)
             /\ late(t)' <=> late(t)
  BY <1>1 DEF works, late
<1>4. ASSUME NEW t \in Task, t # u PROVE TaskInv(t)'
  <2>1. TaskInv(t) /\ queue'[t] = queue[t] /\ (t \in submitted' <=> t \in submitted)
    BY <1>1, <1>2, <1>4
  <2> QED  BY <1>1, <1>3, <2>1, OnceInvType, SameMail, Fewer
<1>5. TaskInv(u)'
  <2>1. /\ TaskInv(u) /\ gone(u) /\ silent(u) /\ u \notin active /\ ~resolved(u)
        /\ queue'[u] = 1
    BY <1>1, <1>2 DEF TaskInv, Ends, gone
  <2>2. /\ silent(u)' /\ Apart(u)' /\ InTurn(u)'
        /\ \A a \in Agent : ~atAgent(u, a)'
    BY <1>1, <1>3, <2>1, SameMail DEF silent, gone, atAgent
  <2>3. hand' # u
    BY <1>1, <2>1 DEF gone
  <2>4. Alone(u)' /\ Reports(u)'
    BY <2>1, <2>2, <2>3 DEF Alone, Reports, silent
  <2>5. Ends(u)'
    <3>1. ~resolved(u)' /\ u \in submitted' /\ u \notin tombstones'
      BY <1>1, <2>1 DEF resolved, TaskInv, Ends
    <3> QED  BY <3>1 DEF Ends, resolved, ended
  <2> QED  BY <2>4, <2>5 DEF TaskInv
<1>6. BusyWorks' /\ NoWatchdog'
  BY <1>1 DEF OnceInv, BusyWorks, NoWatchdog
<1> QED  BY <1>4, <1>5, <1>6

LEMMA Cancels ==
    ASSUME OnceInv, NEW u \in Task, cancel_task(u)
    PROVE  BusyWorks' /\ NoWatchdog' /\ \A t \in Task : TaskInv(t)'
<1>1. /\ \/ u \in active /\ tombstones' = tombstones \cup {u} /\ queue' = queue
         \/ /\ u \notin active /\ queue[u] > 0
            /\ queue' = [queue EXCEPT ![u] = 0] /\ tombstones' = tombstones
      /\ cancelled' = IF resolved(u) THEN cancelled ELSE cancelled \cup {u}
      /\ UNCHANGED <<hand, active, completed, failed, dlq, bus, inbox, status, current,
                     running, submitted>>
  BY DEF cancel_task, agentVars
<1>2. queue \in [Task -> Nat] /\ \A t \in Task : TaskInv(t)
  BY DEF OnceInv, TypeOK
<1>3. ASSUME NEW t \in Task
      PROVE  /\ \A a \in Agent : works(t, a)' <=> works(t, a)
             /\ late(t)' <=> late(t)
             /\ queue'[t] \in {0, queue[t]}
             /\ TaskInv(t)
  BY <1>1, <1>2 DEF works, late
<1>4. ASSUME NEW t \in Task, t # u PROVE TaskInv(t)'
  <2>1. /\ t \in tombstones' <=> t \in tombstones
        /\ t \in cancelled' <=> t \in cancelled
    BY <1>1, <1>4
  <2> QED  BY <1>1, <1>3, <2>1, OnceInvType, SameMail, Fewer
<1>5. TaskInv(u)'
  <2>1. /\ Apart(u)' /\ InTurn(u)'
        /\ success(u)' <=> success(u)
        /\ silent(u)' <=> silent(u)
        /\ \A a \in Agent : /\ atAgent(u, a)' <=> atAgent(u, a)
                            /\ inInbox(u, a)' <=> inInbox(u, a)
    BY <1>1, <1>3, SameMail DEF silent, atAgent
  <2>2. gone(u) => gone(u)'
    BY <1>1, <1>3, <2>1 DEF gone
  <2>3. Alone(u)'
    BY <1>1, <1>2, <1>3, <2>1 DEF TaskInv, Alone
  <2>4. Reports(u)'
    BY <1>1, <1>3, <2>1, <2>2 DEF TaskInv, Reports
  <2>5. u \in submitted
    BY <1>1, <1>3 DEF TaskInv, Ends, gone
  <2>6. /\ ended(u)' <=> ended(u)
        /\ resolved(u)'
    BY <1>1 DEF ended, resolved
  <2>7. u \in cancelled' =>
          \/ gone(u)' /\ (u \in active => silent(u))
          \/ u \in active /\ u \in tombstones'
    <3>1. CASE u \in active
      BY <1>1, <3>1
    <3>2. CASE u \notin active
      <4>1. queue[u] > 0 /\ queue'[u] = 0
        BY <1>1, <1>2, <3>2
      <4>2. hand # u /\ \A a \in Agent : ~atAgent(u, a)
        BY <1>2, <1>3, <4>1 DEF TaskInv, Alone
      <4> QED  BY <1>1, <2>1, <3>2, <4>1, <4>2 DEF gone
    <3> QED  BY <3>1, <3>2
  <2>8. Ends(u)'
    BY <1>1, <1>3, <2>1, <2>2, <2>5, <2>6, <2>7 DEF TaskInv, Ends
  <2> QED  BY <2>3, <2>4, <2>8 DEF TaskInv
<1>6. BusyWorks' /\ NoWatchdog'
  BY <1>1 DEF OnceInv, BusyWorks, NoWatchdog
<1> QED  BY <1>4, <1>5, <1>6

-----------------------------------------------------------------------------
(* The route loop.                                                         *)

LEMMA AtHead ==
    ASSUME OnceInv, bus # <<>>
    PROVE  /\ result \in Result /\ result.task \in Task /\ result.error # "watchdog_timeout"
           /\ bus' = Tail(bus) => NoWatchdog'
<1>1. /\ Len(bus) \in Nat \ {0} /\ result = bus[1] /\ bus[1] \in Result
  BY DEF OnceInv, TypeOK, result
<1>2. result.task \in Task /\ result.error # "watchdog_timeout"
  BY <1>1 DEF OnceInv, NoWatchdog, Result
<1>3. ASSUME bus' = Tail(bus) PROVE NoWatchdog'
  <2>1. Len(bus') = Len(bus) - 1 /\ \A i \in 1..Len(bus') : bus'[i] = bus[i + 1]
    BY <1>1, <1>3 DEF OnceInv, TypeOK
  <2> QED  BY <1>1, <2>1 DEF OnceInv, NoWatchdog
<1> QED  BY <1>1, <1>2, <1>3

(* A draining agent is stopped at most.                                    *)
LEMMA DrainsOnly ==
    ASSUME TypeOK, NEW a \in Agent, drainStop(a)
    PROVE  /\ running' \in {running, [running EXCEPT ![a] = NoTask]}
           /\ current' = current /\ inbox' = inbox
           /\ BusyWorks => BusyWorks'
<1>1. /\ running' \in {running, [running EXCEPT ![a] = NoTask]}
      /\ current' = current /\ inbox' = inbox
      /\ \/ status' = status /\ running' = running
         \/ /\ status' = [status EXCEPT ![a] = "STOPPED"]
            /\ running' = [running EXCEPT ![a] = NoTask]
  BY DEF drainStop, stopAndUnregister
<1>2. ASSUME BusyWorks, NEW b \in Agent, status'[b] = "BUSY"
      PROVE  running'[b] = current'[b] /\ running'[b] # NoTask
  <2>1. CASE status' = status /\ running' = running
    BY <1>1, <1>2, <2>1 DEF BusyWorks
  <2>2. CASE /\ status' = [status EXCEPT ![a] = "STOPPED"]
             /\ running' = [running EXCEPT ![a] = NoTask]
    <3>1. b # a /\ status[b] = "BUSY" /\ running'[b] = running[b]
      BY <1>2, <2>2 DEF TypeOK
    <3> QED  BY <1>1, <1>2, <3>1 DEF BusyWorks
  <2> QED  BY <1>1, <2>1, <2>2
<1> QED  BY <1>1, <1>2 DEF BusyWorks

(* A RESULT that ends its task, or comes too late.                         *)
LEMMA EndsTask ==
    ASSUME OnceInv, dropResult \/ taskSucceeds \/ taskFails
    PROVE  BusyWorks' /\ NoWatchdog' /\ \A t \in Task : TaskInv(t)'
<1>0. PICK u : u = result.task
  OBVIOUS
<1>1. /\ bus # <<>> /\ bus' = Tail(bus) /\ active' = active \ {u}
      /\ tombstones' = tombstones \ {u}
      /\ completed' \in {completed, completed \cup {u}} /\ failed' \in {failed, failed \cup {u}}
      /\ UNCHANGED <<queue, hand, dlq, submitted, cancelled>>
  BY <1>0 DEF dropResult, taskSucceeds, taskFails, historyVars
<1>2. /\ TypeOK /\ BusyWorks /\ bus' = Tail(bus)
      /\ \A t \in Task : TaskInv(t) /\ InTurn(t)
  BY <1>1 DEF OnceInv, TaskInv, Reports
<1>3. u \in Task /\ result \in Result /\ NoWatchdog'
  BY <1>0, <1>1, AtHead
<1>4. result.agent \in Agent
  BY <1>3 DEF Result
<1>5. /\ \E a \in Agent : running' \in {running, [running EXCEPT ![a] = NoTask]}
      /\ current' = current /\ inbox' = inbox /\ BusyWorks'
  <2>1. CASE dropResult
    BY <1>2, <1>4, <2>1 DEF dropResult, agentVars, BusyWorks
  <2>2. CASE taskSucceeds \/ taskFails
    <3>1. drainStop(result.agent)
      BY <2>2 DEF taskSucceeds, taskFails
    <3> QED  BY <1>2, <1>4, <3>1, DrainsOnly
  <2> QED  BY <2>1, <2>2
<1>6. ASSUME NEW t \in Task
      PROVE  /\ \A b \in Agent : works(t, b)' => works(t, b)
             /\ late(t)' => late(t)
             /\ \A b \in Agent : inInbox(t, b)' <=> inInbox(t, b)
             /\ Apart(t)'
  <2>1. /\ \A b \in Agent : works(t, b)' => works(t, b)
        /\ late(t)' => late(t)
    BY <1>2, <1>5, LoopGone
  <2>2. (\A b \in Agent : inInbox(t, b)' <=> inInbox(t, b)) /\ Apart(t)'
    BY <1>2, <1>5 DEF inInbox, Apart, TaskInv, Alone
  <2> QED  BY <2>1, <2>2
<1>7. ASSUME NEW t \in Task, t # u PROVE TaskInv(t)'
  <2>1. /\ t \in active' <=> t \in active
        /\ t \in tombstones' <=> t \in tombstones
        /\ t \in completed' <=> t \in completed
        /\ t \in failed' <=> t \in failed
    BY <1>1, <1>7
  <2>2. /\ InTurn(t)'
        /\ reported(t)' <=> reported(t)
        /\ success(t)' <=> success(t)
    BY <1>0, <1>1, <1>2, <1>7, <2>1, Popped
  <2> QED  BY <1>1, <1>2, <1>6, <2>1, <2>2, Fewer
<1>8. TaskInv(u)'
  <2>1. TaskInv(u) /\ u \notin active' /\ u \notin tombstones'
    BY <1>1, <1>2, <1>3
  <2>2. reported(u) /\ ~success(u)' /\ InTurn(u)'
    BY <1>0, <1>1, <1>2, <1>3, <2>1, Popped
  <2>3. gone(u) /\ u \notin dlq /\ u \in submitted
    BY <2>1, <2>2 DEF TaskInv, Reports, Ends, silent
  <2>4. gone(u)'
    BY <1>1, <1>3, <1>6, <2>3 DEF gone, atAgent
  <2>5. Alone(u)'
    BY <1>1, <1>3, <1>6, <2>3, <2>4 DEF Alone, gone
  <2>6. Reports(u)'
    BY <2>1, <2>2, <2>4 DEF Reports
  <2>7. Ends(u)'
    BY <1>1, <2>1, <2>2, <2>3, <2>4 DEF Ends
  <2> QED  BY <2>5, <2>6, <2>7 DEF TaskInv
<1> QED  BY <1>3, <1>5, <1>7, <1>8

(* What retry brings back is nowhere else, has not ended, and has no other *)
(* RESULT on its way.                                                      *)
LEMMA Retried ==
    ASSUME OnceInv, retry, NEW u, u = result.task
    PROVE  /\ u \in Task /\ gone(u) /\ ~ended(u) /\ u \in active /\ u \notin tombstones
           /\ u \notin cancelled /\ u \in submitted /\ ~late(u) /\ ~reported(u)'
<1>2. /\ bus # <<>> /\ bus' = Tail(bus) /\ result.error # "none"
      /\ u \in active /\ u \notin tombstones
  BY DEF retry, retries_left
<1>3. u \in Task /\ TypeOK /\ TaskInv(u)
  BY <1>2, AtHead DEF OnceInv
<1>4. InTurn(u) /\ Reports(u)
  BY <1>3 DEF TaskInv, Reports
<1>5. reported(u) /\ ~reported(u)' /\ ~late(u)
  BY <1>2, <1>3, <1>4, Popped
<1>6. gone(u) /\ ~ended(u) /\ u \notin cancelled /\ u \in submitted
  BY <1>2, <1>3, <1>5 DEF TaskInv, Reports, Ends, silent
<1> QED  BY <1>2, <1>3, <1>5, <1>6

LEMMA Retries ==
    ASSUME OnceInv, retry
    PROVE  BusyWorks' /\ NoWatchdog' /\ \A t \in Task : TaskInv(t)'
<1>0. PICK u : u = result.task
  OBVIOUS
<1>1. /\ u \in Task /\ gone(u) /\ ~ended(u) /\ u \in active /\ u \notin tombstones
      /\ u \notin cancelled /\ u \in submitted /\ ~late(u) /\ ~reported(u)'
  BY <1>0, Retried
<1>2. /\ bus # <<>> /\ bus' = Tail(bus) /\ queue' = [queue EXCEPT ![u] = @ + 1]
      /\ UNCHANGED <<hand, active, tombstones, completed, failed, dlq, inbox, status, current,
                     running, submitted, cancelled>>
  BY <1>0 DEF retry, agentVars, historyVars
<1>3. /\ TypeOK /\ queue \in [Task -> Nat] /\ BusyWorks'
      /\ \A t \in Task : TaskInv(t) /\ InTurn(t)
  BY <1>2 DEF OnceInv, TypeOK, BusyWorks, TaskInv, Reports
<1>4. ASSUME NEW t \in Task
      PROVE  /\ \A b \in Agent : works(t, b)' <=> works(t, b)
             /\ late(t)' <=> late(t)
             /\ \A b \in Agent : inInbox(t, b)' <=> inInbox(t, b)
             /\ Apart(t)'
  BY <1>2, <1>3 DEF works, late, inInbox, Apart, TaskInv, Alone
<1>5. ASSUME NEW t \in Task, t # u PROVE TaskInv(t)'
  <2>1. /\ InTurn(t)'
        /\ reported(t)' <=> reported(t)
        /\ success(t)' <=> success(t)
    BY <1>0, <1>2, <1>3, <1>5, Popped
  <2>2. queue'[t] = queue[t]
    BY <1>2, <1>3, <1>5
  <2> QED  BY <1>2, <1>3, <1>4, <2>1, <2>2, Fewer
<1>6. TaskInv(u)'
  <2>1. silent(u)' /\ hand' # u /\ queue'[u] = 1 /\ \A b \in Agent : ~atAgent(u, b)'
    BY <1>1, <1>2, <1>3, <1>4 DEF silent, gone, atAgent
  <2>2. Alone(u)' /\ Reports(u)'
    BY <1>1, <1>4, <2>1 DEF Alone, Reports, silent, InTurn, reported
  <2>3. Ends(u)'
    BY <1>1, <1>2 DEF Ends, ended
  <2> QED  BY <2>2, <2>3 DEF TaskInv
<1>7. NoWatchdog'
  BY <1>2, AtHead
<1> QED  BY <1>3, <1>5, <1>6, <1>7

LEMMA OnceStep ==
    ASSUME OnceInv, ~WatchdogOn, [Next]_vars
    PROVE  OnceInv'
<1>1. TypeOK'
  BY TypeStep DEF OnceInv
<1>2. ~escalate
  BY AtHead DEF escalate, escalates
<1>3. CASE Next
  BY <1>1, <1>2, <1>3, Submits, Cancels, QuietSteps, TakesTask, ReportingSteps, GetsTask, Settles,
     SendsTask, EndsTask, Retries, Zenon DEF Next, runLoop, settle, route, OnceInv
<1>4. CASE UNCHANGED vars
  <2>1. /\ UNCHANGED <<queue, hand, active, tombstones, completed, failed, dlq, bus, inbox,
                       status, current, running, submitted, cancelled>>
    BY <1>4 DEF vars, taskVars, agentVars, historyVars
  <2>2. ASSUME NEW t \in Task PROVE TaskInv(t)'
    <3>1. TaskInv(t)
      BY DEF OnceInv
    <3>2. (\A a \in Agent : works(t, a)' <=> works(t, a)) /\ (late(t)' <=> late(t))
      BY <2>1 DEF works, late
    <3> QED  BY <2>1, <3>1, <3>2, OnceInvType, SameMail, Fewer
  <2>3. BusyWorks' /\ NoWatchdog'
    BY <2>1 DEF OnceInv, BusyWorks, NoWatchdog
  <2> QED  BY <1>1, <2>2, <2>3 DEF OnceInv
<1> QED  BY <1>3, <1>4

(* Holds without the watchdog.                                             *)
LEMMA Once == ASSUME ~WatchdogOn PROVE Spec => []OnceInv
<1>1. Init => OnceInv
  <2> SUFFICES ASSUME Init PROVE OnceInv
    OBVIOUS
  <2>1. TypeOK
    BY DEF Init, TypeOK, Status
  <2>2. BusyWorks /\ NoWatchdog
    BY DEF Init, BusyWorks, NoWatchdog
  <2>3. ASSUME NEW t \in Task PROVE TaskInv(t)
    <3>1. /\ \A a \in Agent : ~inInbox(t, a) /\ ~works(t, a)
          /\ ~late(t) /\ ~reported(t) /\ ~success(t) /\ Apart(t) /\ InTurn(t)
      BY DispatchAssumption
         DEF Init, inInbox, works, late, reported, success, Apart, InTurn
    <3>2. gone(t) /\ silent(t) /\ ~resolved(t) /\ ~ended(t)
      BY <3>1, DispatchAssumption DEF Init, gone, atAgent, silent, resolved, ended
    <3> QED  BY <3>1, <3>2 DEF Init, TaskInv, Alone, Reports, Ends, resolved, ended, gone
  <2> QED  BY <2>1, <2>2, <2>3 DEF OnceInv
<1>2. OnceInv /\ [Next]_vars => OnceInv'
  BY OnceStep
<1> QED  BY <1>1, <1>2, PTL DEF Spec

LEMMA AtMostOne ==
    ASSUME NEW S, \A x, y \in S : x = y
    PROVE  Cardinality(S) \in {0, 1} /\ (S = {} => Cardinality(S) = 0)
<1>1. CASE S = {}
  BY <1>1, FS_EmptySet
<1>2. CASE S # {}
  <2>1. PICK x : S = {x}
    BY <1>2
  <2> QED  BY <2>1, FS_Singleton
<1> QED  BY <1>1, <1>2

LEMMA Copies ==
    ASSUME IsFiniteSet(Task), TypeOK, NEW t \in Task, Alone(t)
    PROVE  copies(t) <= 1 /\ (gone(t) => copies(t) = 0)
<1> DEFINE I == {p \in Agent \X (1..Cardinality(Task)) :
                   p[2] <= Len(inbox[p[1]]) /\ inbox[p[1]][p[2]] = t}
           W == {a \in Agent : running[a] = t /\ current[a] = t}
           H == IF hand = t THEN 1 ELSE 0
<1>1. queue[t] \in {0, 1} /\ (hand = t => queue[t] = 0)
  BY DEF Alone, TypeOK
<1>2. Cardinality(Task) \in Nat
  BY FS_CardinalityType
<1>3. \A p \in I : p[1] \in Agent /\ p[2] \in 1..Len(inbox[p[1]]) /\ inbox[p[1]][p[2]] = t
  BY <1>2 DEF TypeOK
<1>4. \A p \in I : inInbox(t, p[1])
  BY <1>3 DEF inInbox
<1>5. \A a \in W : works(t, a)
  BY DEF works
<1>6. \A x, y \in I : x = y
  <2> SUFFICES ASSUME NEW x \in I, NEW y \in I PROVE x = y
    OBVIOUS
  <2>1. x[1] = y[1]
    BY <1>3, <1>4 DEF Alone, atAgent
  <2>2. x[2] = y[2]
    BY <1>3, <2>1 DEF Alone, Apart
  <2> QED  BY <2>1, <2>2
<1>7. \A x, y \in W : x = y
  BY <1>5 DEF Alone, atAgent
<1>8. I = {} \/ W = {}
  BY <1>3, <1>4, <1>5 DEF Alone, atAgent
<1>9. I # {} \/ W # {} => queue[t] = 0 /\ hand # t
  BY <1>3, <1>4, <1>5 DEF Alone, atAgent
<1>10. gone(t) => I = {} /\ W = {} /\ queue[t] = 0 /\ hand # t
  BY <1>3, <1>4, <1>5 DEF gone, atAgent
<1>11. copies(t) = queue[t] + H + Cardinality(I) + Cardinality(W)
  BY DEF copies
<1>12. /\ Cardinality(I) \in {0, 1} /\ (I = {} => Cardinality(I) = 0)
  BY <1>6, AtMostOne
<1>13. /\ Cardinality(W) \in {0, 1} /\ (W = {} => Cardinality(W) = 0)
  BY <1>7, AtMostOne
<1> HIDE DEF I, W
<1> QED  BY <1>1, <1>8, <1>9, <1>10, <1>11, <1>12, <1>13

(* Without the watchdog no task is in two places: queue, hand, inbox and   *)
(* run loops together have it once, whatever agents time out, fail, are    *)
(* drained or answer late.                                                 *)
THEOREM OneCopyHolds ==
    ASSUME ~WatchdogOn, IsFiniteSet(Task) PROVE Spec => []OneCopy
<1>1. OnceInv => OneCopy
  BY Copies DEF OnceInv, OneCopy, TaskInv
<1> QED  BY <1>1, Once, PTL

(* And no task that has completed, failed or gone to the dead letters is   *)
(* in any of these places again, although late RESULTs may follow.         *)
THEOREM EndedStaysEndedHolds ==
    ASSUME ~WatchdogOn, IsFiniteSet(Task) PROVE Spec => []EndedStaysEnded
<1>1. ASSUME OnceInv, NEW t \in completed \cup failed \cup dlq, t # NoTask
      PROVE  copies(t) = 0
  <2>1. t \in Task /\ TaskInv(t) /\ ended(t) /\ TypeOK
    BY <1>1 DEF OnceInv, TypeOK, ended
  <2>2. gone(t) /\ Alone(t)
    BY <2>1 DEF TaskInv, Ends
  <2> QED  BY <2>1, <2>2, Copies
<1>2. OnceInv => EndedStaysEnded
  BY <1>1 DEF EndedStaysEnded
<1> QED  BY <1>2, Once, PTL

-----------------------------------------------------------------------------
(* Nothing is forgotten, if no agent fails or is drained.                  *)

Calm == registered = Agent /\ draining = {} /\ \A a \in Agent : status[a] \in {"IDLE", "BUSY"}

LEMMA CalmStep ==
    ASSUME TypeOK, Calm, Fallible = {}, Drainable = {}, [Next]_vars
    PROVE  Calm'
<1>1. CASE UNCHANGED <<registered, draining, status>>
  BY <1>1 DEF Calm
<1>2. ASSUME NEW a \in Agent, set_idle(a), UNCHANGED <<registered, draining>> PROVE Calm'
  BY <1>2 DEF Calm, set_idle, TypeOK
<1>3. ASSUME NEW a \in Agent,
             drain_agent(a) \/ runLoop(a) \/ taskComplete(a)
             \/ dispatchTaskRaises(a) \/ recover(a) \/ watchdog(a)
      PROVE  Calm'
  <2>1. ~drain_agent(a) /\ ~dispatchTaskRaises(a) /\ ~recover(a)
    BY DEF drain_agent, dispatchTaskRaises, recover, Calm
  <2>2. CASE takeTask(a)
    BY <2>2 DEF takeTask, Calm, TypeOK, registryVars
  <2>3. CASE waitReturns(a) \/ watchdog(a)
    BY <1>1, <2>3 DEF waitReturns, watchdog, registryVars, agentVars
  <2>4. CASE handle_task_timeout(a) \/ taskComplete(a)
    BY <1>2, <2>4 DEF handle_task_timeout, taskComplete, registryVars
  <2> QED  BY <1>3, <2>1, <2>2, <2>3, <2>4 DEF runLoop
<1>4. CASE \E t \in Task : submit_task(t) \/ cancel_task(t)
  BY <1>1, <1>4 DEF submit_task, cancel_task, registryVars, agentVars
<1>5. CASE get \/ settle
  BY <1>1, <1>5 DEF get, settle, skipCancelled, expire, sendTask, noAgent, registryVars, agentVars
<1>6. CASE route
  <2>1. ASSUME NEW a, drainStop(a) PROVE UNCHANGED <<registered, draining, status>>
    BY <2>1 DEF drainStop, Calm
  <2> QED  BY <1>1, <1>6, <2>1 DEF route, dropResult, taskSucceeds, escalate, retry, taskFails,
                                  registryVars, agentVars
<1>7. CASE UNCHANGED vars
  BY <1>1, <1>7 DEF vars, registryVars, agentVars
<1> QED  BY <1>3, <1>4, <1>5, <1>6, <1>7, Zenon DEF Next

(* Who has it, when all agents are registered.                             *)
LEMMA InFlight ==
    ASSUME registered = Agent, NEW t \in Task
    PROVE  inFlight(t) <=>
             queue[t] > 0 \/ hand = t \/ (\E a \in Agent : atAgent(t, a)) \/ reported(t)
BY DEF inFlight, atAgent, works, reported

LEMMA LostStep ==
    ASSUME OnceInv, ~WatchdogOn, Fallible = {}, Drainable = {}, Calm, Calm', NoTaskLost,
           [Next]_vars
    PROVE  NoTaskLost'
<1>1. /\ OnceInv' /\ registered = Agent /\ registered' = Agent
      /\ \A t \in Task : t \in submitted /\ ~resolved(t) => inFlight(t)
      /\ queue \in [Task -> Nat] /\ bus \in Seq(Result) /\ inbox \in [Agent -> Seq(Task)]
      /\ running \in [Agent -> Task \cup {NoTask}] /\ current \in [Agent -> Task \cup {NoTask}]
      /\ TypeOK /\ \A t \in Task : TaskInv(t) /\ InTurn(t)
  BY OnceStep DEF Calm, OnceInv, TypeOK, NoTaskLost, TaskInv, Reports
<1>2. SUFFICES ASSUME NEW t \in Task, t \in submitted', ~resolved(t)'
               PROVE  \/ queue'[t] > 0 \/ hand' = t
                      \/ \E a \in Agent : atAgent(t, a)'
                      \/ reported(t)'
  <2>1. \A t \in Task : inFlight(t)' <=>
           queue'[t] > 0 \/ hand' = t \/ (\E a \in Agent : atAgent(t, a)') \/ reported(t)'
    BY <1>1 DEF inFlight, atAgent, works, reported
  <2>2. submitted' \subseteq Task
    BY <1>1 DEF OnceInv, TypeOK
  <2> QED  BY <2>1, <2>2 DEF NoTaskLost
<1>3. ~resolved(t) => ~(t \in submitted) \/ queue[t] > 0 \/ hand = t
                      \/ (\E a \in Agent : atAgent(t, a)) \/ reported(t)
  BY <1>1, InFlight
<1>4. ASSUME bus' = bus PROVE reported(t)' <=> reported(t)
  BY <1>4 DEF reported
<1>5. ASSUME UNCHANGED <<inbox, running, current>>, NEW a \in Agent
      PROVE  atAgent(t, a)' <=> atAgent(t, a)
  BY <1>5 DEF atAgent, inInbox, works
<1>6. ASSUME NEW u \in Task, submit_task(u) \/ cancel_task(u)
      PROVE  queue'[t] > 0 \/ hand' = t \/ (\E a \in Agent : atAgent(t, a)') \/ reported(t)'
  <2>1. UNCHANGED <<hand, bus, inbox, running, current, completed, failed, dlq>>
    BY <1>6 DEF submit_task, cancel_task, agentVars
  <2>2. CASE submit_task(u)
    <3>1. queue' = [queue EXCEPT ![u] = @ + 1] /\ submitted' = submitted \cup {u}
          /\ cancelled' = cancelled
      BY <2>2 DEF submit_task
    <3>2. ~resolved(t) /\ (t # u => t \in submitted)
      BY <1>2, <2>1, <3>1 DEF resolved
    <3> QED  BY <1>1, <1>3, <1>4, <1>5, <2>1, <3>1, <3>2
  <2>3. CASE cancel_task(u)
    <3>1. queue' \in {queue, [queue EXCEPT ![u] = 0]} /\ submitted' = submitted
          /\ cancelled' = IF resolved(u) THEN cancelled ELSE cancelled \cup {u}
      BY <2>3 DEF cancel_task
    <3>2. ~resolved(t) /\ t # u /\ t \in submitted
      BY <1>2, <2>1, <3>1 DEF resolved
    <3> QED  BY <1>1, <1>3, <1>4, <1>5, <2>1, <3>1, <3>2
  <2> QED  BY <1>6, <2>2, <2>3
<1>7. ASSUME get \/ settle
      PROVE  queue'[t] > 0 \/ hand' = t \/ (\E a \in Agent : atAgent(t, a)') \/ reported(t)'
  <2>1. UNCHANGED <<bus, running, current, completed, cancelled, submitted>>
    BY <1>7 DEF get, settle, skipCancelled, expire, sendTask, noAgent, agentVars, historyVars
  <2>2. CASE get
    <3>1. PICK u \in Task : hand = NoTask /\ hand' = u /\ queue' = [queue EXCEPT ![u] = @ - 1]
      BY <2>2 DEF get
    <3>2. ~resolved(t) /\ t \in submitted /\ UNCHANGED <<inbox, running, current>>
      BY <1>2, <2>2 DEF get, resolved, agentVars, historyVars
    <3> QED  BY <1>1, <1>3, <1>4, <1>5, <2>1, <3>1, <3>2, DispatchAssumption
  <2>3. CASE skipCancelled \/ expire \/ noAgent
    <3>1. hand \in tombstones \/ hand \in failed' \/ hand \in dlq'
             \/ queue' = [queue EXCEPT ![hand] = @ + 1]
      BY <2>3 DEF skipCancelled, expire, noAgent
    <3>2. /\ \A u \in Task : u # hand => queue'[u] = queue[u]
          /\ failed \subseteq failed' /\ dlq \subseteq dlq' /\ UNCHANGED <<inbox, running, current>>
      BY <1>1, <2>3 DEF skipCancelled, expire, noAgent, agentVars
    <3>3. ~resolved(t) /\ t \in submitted /\ t \notin tombstones
      BY <1>1, <1>2, <2>1, <3>2 DEF resolved, TaskInv, Ends
    <3>4. CASE t = hand
      BY <1>1, <1>2, <3>1, <3>3, <3>4 DEF resolved
    <3>5. CASE t # hand
      BY <1>3, <1>4, <1>5, <2>1, <3>2, <3>3, <3>5
    <3> QED  BY <3>4, <3>5
  <2>4. ASSUME NEW a \in Agent, sendTask(a)
        PROVE  queue'[t] > 0 \/ (\E b \in Agent : atAgent(t, b)') \/ reported(t)'
    <3>1. /\ hand \in Task /\ inbox' = [inbox EXCEPT ![a] = Append(@, hand)]
          /\ UNCHANGED <<queue, failed, dlq>>
      BY <1>1, <2>4 DEF sendTask, TypeOK
    <3>2. \A b \in Agent : inInbox(t, b)' <=> inInbox(t, b) \/ (t = hand /\ b = a)
      BY <1>1, <3>1 DEF inInbox
    <3>3. \A b \in Agent : atAgent(t, b)' <=> atAgent(t, b) \/ (t = hand /\ b = a)
      BY <2>1, <3>2 DEF atAgent, works
    <3>4. ~resolved(t) /\ t \in submitted
      BY <1>2, <2>1, <3>1 DEF resolved
    <3> QED  BY <1>3, <1>4, <2>1, <3>1, <3>3, <3>4
  <2> QED  BY <1>7, <2>2, <2>3, <2>4 DEF settle
<1>8. ASSUME NEW a \in Agent,
             drain_agent(a) \/ runLoop(a) \/ taskComplete(a)
             \/ dispatchTaskRaises(a) \/ recover(a) \/ watchdog(a)
      PROVE  queue'[t] > 0 \/ hand' = t \/ (\E b \in Agent : atAgent(t, b)') \/ reported(t)'
  <2>1. UNCHANGED <<queue, hand, completed, failed, dlq, cancelled, submitted>>
    BY <1>8 DEF drain_agent, runLoop, takeTask, waitReturns, handle_task_timeout, taskComplete,
                dispatchTaskRaises, recover, watchdog, taskVars, historyVars
  <2>2. ~resolved(t) /\ t \in submitted /\ t \in Task
    BY <1>1, <1>2, <2>1 DEF resolved, TypeOK
  <2>3. ~watchdog(a) /\ ~drain_agent(a) /\ ~dispatchTaskRaises(a) /\ ~recover(a)
    BY DEF watchdog, drain_agent, dispatchTaskRaises, recover, Calm
  <2>4. CASE takeTask(a)
    <3>1. /\ inbox[a] # <<>> /\ inbox' = [inbox EXCEPT ![a] = Tail(inbox[a])] /\ bus' = bus
          /\ running' = [running EXCEPT ![a] = Head(inbox[a])]
          /\ current' = [current EXCEPT ![a] = Head(inbox[a])]
          /\ running[a] = NoTask
      BY <2>4 DEF takeTask, atInbox
    <3>2. /\ inbox[a] \in Seq(Task) /\ Len(inbox[a]) \in Nat \ {0} /\ Head(inbox[a]) = inbox[a][1]
          /\ inbox'[a] = Tail(inbox[a]) /\ Len(inbox'[a]) = Len(inbox[a]) - 1
          /\ \A i \in 1..Len(inbox'[a]) : inbox'[a][i] = inbox[a][i + 1]
      BY <1>1, <3>1
    <3>3. inInbox(t, a) => works(t, a)' \/ inInbox(t, a)'
      <4> SUFFICES ASSUME NEW i \in 1..Len(inbox[a]), inbox[a][i] = t
                   PROVE  works(t, a)' \/ inInbox(t, a)'
        BY DEF inInbox
      <4>1. CASE i = 1
        BY <1>1, <3>1, <3>2, <4>1 DEF works
      <4>2. CASE i # 1
        <5>1. i - 1 \in 1..Len(inbox'[a]) /\ inbox'[a][i - 1] = t
          BY <3>2, <4>2
        <5> QED  BY <5>1 DEF inInbox
      <4> QED  BY <4>1, <4>2
    <3>4. ~works(t, a)
      BY <2>2, <3>1, DispatchAssumption DEF works
    <3>5. \A b \in Agent \ {a} : atAgent(t, b)' <=> atAgent(t, b)
      BY <1>1, <3>1 DEF atAgent, inInbox, works
    <3> QED  BY <1>3, <1>4, <2>1, <2>2, <3>1, <3>3, <3>4, <3>5 DEF atAgent
  <2>5. CASE waitReturns(a)
    <3>1. /\ current[a] # running[a] /\ running' = [running EXCEPT ![a] = NoTask]
          /\ UNCHANGED <<bus, inbox, current>>
      BY <2>5 DEF waitReturns
    <3>2. \A b \in Agent : atAgent(t, b) => atAgent(t, b)'
      BY <1>1, <3>1 DEF atAgent, inInbox, works
    <3> QED  BY <1>3, <1>4, <2>1, <2>2, <3>1, <3>2
  <2>6. CASE handle_task_timeout(a) \/ taskComplete(a)
    <3>1. PICK m \in Result :
             /\ bus' = Append(bus, m)
             /\ works(t, a) => m.task = t
      <4>1. CASE handle_task_timeout(a)
        <5>1. [agent |-> a, task |-> running[a], error |-> "timeout"] \in Result
          BY <1>1 DEF Result, Error
        <5> QED  BY <4>1, <5>1 DEF handle_task_timeout, publish, works
      <4>2. CASE taskComplete(a)
        <5>1. [agent |-> a, task |-> current[a], error |-> "none"] \in Result
          BY <1>1 DEF Result, Error
        <5> QED  BY <4>2, <5>1 DEF taskComplete, publish, works
      <4> QED  BY <2>6, <4>1, <4>2
    <3>2. bus \in Seq(Result)
      BY <1>1 DEF TypeOK
    <3>3. /\ Len(bus') = Len(bus) + 1 /\ Len(bus) \in Nat /\ bus'[Len(bus) + 1] = m
          /\ \A i \in 1..Len(bus) : bus'[i] = bus[i]
      BY <3>1, <3>2
    <3>4. (reported(t) => reported(t)') /\ (works(t, a) => reported(t)')
      BY <3>1, <3>3 DEF reported
    <3>5. /\ inbox' = inbox
          /\ \A b \in Agent \ {a} : running'[b] = running[b] /\ current'[b] = current[b]
      BY <1>1, <2>6 DEF handle_task_timeout, taskComplete, set_idle
    <3>6. \A b \in Agent : atAgent(t, b) => atAgent(t, b)' \/ works(t, a)
      BY <3>5 DEF atAgent, inInbox, works
    <3> QED  BY <1>3, <2>1, <2>2, <3>4, <3>6
  <2> QED  BY <1>8, <2>3, <2>4, <2>5, <2>6 DEF runLoop
<1>9. ASSUME route
      PROVE  queue'[t] > 0 \/ hand' = t \/ (\E b \in Agent : atAgent(t, b)') \/ reported(t)'
  <2>0. PICK u : u = result.task
    OBVIOUS
  <2>1. ~escalate
    BY <1>1, AtHead DEF escalate, escalates
  <2>2. /\ bus # <<>> /\ bus' = Tail(bus) /\ submitted' = submitted /\ hand' = hand
        /\ cancelled' = cancelled /\ dlq' = dlq
        /\ completed \subseteq completed' /\ failed \subseteq failed'
        /\ queue' \in {queue, [queue EXCEPT ![u] = @ + 1]}
    BY <1>9, <2>0, <2>1 DEF route, dropResult, taskSucceeds, retry, taskFails, historyVars
  <2>3. /\ u \in Task /\ u \in tombstones => resolved(u)
    BY <1>1, <2>0, <2>2, AtHead DEF TaskInv, Ends
  <2>4. UNCHANGED <<inbox, running, current>>
    <3>1. ASSUME NEW a, drainStop(a) PROVE UNCHANGED <<inbox, running, current>>
      BY <3>1 DEF drainStop, Calm
    <3> QED  BY <1>9, <2>1, <3>1 DEF route, dropResult, taskSucceeds, retry, taskFails, agentVars
  <2>5. ~resolved(t) /\ t \in submitted /\ t \in Task
    BY <1>1, <1>2, <2>2 DEF resolved, TypeOK
  <2>6. CASE t = u
    <3>1. ~dropResult
      BY <2>0, <2>3, <2>5, <2>6 DEF dropResult
    <3>2. ~taskSucceeds /\ ~taskFails
      BY <1>2, <2>0, <2>6 DEF taskSucceeds, taskFails, resolved
    <3>3. queue' = [queue EXCEPT ![u] = @ + 1]
      BY <1>9, <2>0, <2>1, <3>1, <3>2 DEF route, retry
    <3> QED  BY <1>1, <2>5, <2>6, <3>3
  <2>7. CASE t # u
    <3>1. reported(t) => reported(t)'
      <4> SUFFICES ASSUME NEW i \in 1..Len(bus), bus[i].task = t
                   PROVE  reported(t)'
        BY DEF reported
      <4>1. bus \in Seq(Result) /\ Len(bus) \in Nat \ {0} /\ result = bus[1]
        BY <1>1, <2>2 DEF result
      <4>2. /\ i # 1 /\ i - 1 \in 1..Len(bus') /\ bus'[i - 1] = bus[i]
        BY <2>0, <2>2, <2>7, <4>1
      <4> QED  BY <4>2 DEF reported
    <3>2. queue'[t] = queue[t]
      BY <1>1, <2>2, <2>5, <2>7
    <3> QED  BY <1>3, <1>5, <2>2, <2>4, <2>5, <3>1, <3>2
  <2> QED  BY <2>6, <2>7
<1>10. CASE UNCHANGED vars
  <2>1. UNCHANGED <<queue, hand, bus, inbox, running, current, submitted, completed, failed, dlq,
                    cancelled>>
    BY <1>10 DEF vars, taskVars, agentVars, historyVars
  <2>2. ~resolved(t) /\ t \in submitted
    BY <1>2, <2>1 DEF resolved
  <2> QED  BY <1>3, <1>4, <1>5, <2>1, <2>2
<1> QED  BY <1>6, <1>7, <1>8, <1>9, <1>10, Zenon DEF Next

(* Without the watchdog, and if no agent fails or is drained, some         *)
(* coroutine holds every task until it has ended.                          *)
THEOREM NoTaskLostHolds ==
    ASSUME ~WatchdogOn, Fallible = {}, Drainable = {}
    PROVE  Spec => []NoTaskLost
<1>1. Init => Calm /\ NoTaskLost
  BY DEF Init, Calm, NoTaskLost
<1>2. OnceInv /\ Calm /\ NoTaskLost /\ [Next]_vars => (Calm /\ NoTaskLost)'
  <2> SUFFICES ASSUME OnceInv, Calm, NoTaskLost, [Next]_vars PROVE (Calm /\ NoTaskLost)'
    OBVIOUS
  <2>1. Calm'
    BY CalmStep DEF OnceInv
  <2> QED  BY <2>1, LostStep
<1>3. Spec => []OnceInv
  BY Once
<1> QED  BY <1>1, <1>2, <1>3, PTL DEF Spec

-----------------------------------------------------------------------------
(* The life of a task.                                                     *)

life(t) ==
    IF t \notin submitted THEN "new"
    ELSE IF t \in cancelled THEN "cancelled"
    ELSE IF t \in completed THEN "completed"
    ELSE IF t \in failed THEN "failed"
    ELSE IF t \in dlq THEN "dead"
    ELSE IF queue[t] > 0 \/ hand = t THEN "queued"
    ELSE "dispatched"

returned(t) == retries[t] + escalations[t]

LEMMA LifeStutters ==
    ASSUME \A t \in Task : life(t)' = life(t) /\ returned(t)' = returned(t)
    PROVE  UNCHANGED Life!vars
BY DEF Life!vars, life, returned

LEMMA LifeStays ==
    ASSUME UNCHANGED <<submitted, cancelled, completed, failed, dlq, queue, hand, retries,
                       escalations>>
    PROVE  UNCHANGED Life!vars
BY DEF Life!vars

(* One task moves, and what it moves through are edges of the abstract     *)
(* machine.                                                                *)
LEMMA LifeMoves ==
    ASSUME NEW u \in Task,
           \A t \in Task \ {u} : life(t)' = life(t),
           \A t \in Task : returned(t)' = returned(t),
           \/ life(u)' = life(u)
           \/ life(u) = "new" /\ life(u)' = "queued"
           \/ life(u) = "queued" /\ life(u)' = "dispatched"
           \/ life(u) = "dispatched" /\ life(u)' = "completed"
           \/ life(u) \in {"queued", "dispatched"} /\ life(u)' \in {"failed", "cancelled"}
           \/ life(u) = "queued" /\ life(u)' = "dead"
    PROVE  Life!Next \/ UNCHANGED Life!vars
<1>1. CASE life(u)' = life(u)
  BY <1>1, LifeStutters
<1>2. CASE life(u)' # life(u)
  <2>1. UNCHANGED [t \in Task |-> retries[t] + escalations[t]]
    BY DEF returned
  <2>2. ASSUME NEW from, NEW to, life(u) \in from, life(u)' = to
        PROVE  Life!move(u, from, to)
    BY <2>2 DEF Life!move, life
  <2>3. Life!submit(u) \/ Life!dispatch(u) \/ Life!end(u)
    BY <1>2, <2>1, <2>2 DEF Life!submit, Life!dispatch, Life!end
  <2> QED  BY <2>3 DEF Life!Next
<1> QED  BY <1>1, <1>2

(* What is in the dispatch loop's hand, uncancelled, is queued.            *)
LEMMA InHandQueued ==
    ASSUME OnceInv, hand # NoTask, hand \notin tombstones
    PROVE  /\ hand \in Task /\ hand \in submitted /\ ~resolved(hand) /\ queue[hand] = 0
           /\ life(hand) = "queued"
<1>1. PICK u : u = hand
  OBVIOUS
<1>2. u \in Task /\ TaskInv(u) /\ ~gone(u)
  BY <1>1 DEF OnceInv, TypeOK, gone
<1>3. u \in submitted /\ ~ended(u) /\ u \notin cancelled /\ queue[u] = 0
  BY <1>1, <1>2 DEF TaskInv, Ends, Alone
<1> QED  BY <1>1, <1>2, <1>3 DEF life, resolved, ended

LEMMA LifeOfClients ==
    ASSUME OnceInv, NEW u \in Task, submit_task(u) \/ cancel_task(u)
    PROVE  Life!Next \/ UNCHANGED Life!vars
<1>1. /\ UNCHANGED <<hand, completed, failed, dlq, retries, escalations>>
      /\ submitted' \in {submitted, submitted \cup {u}}
      /\ cancelled' \in {cancelled, cancelled \cup {u}}
      /\ \E n : queue' = [queue EXCEPT ![u] = n]
  <2>1. CASE submit_task(u)
    BY <2>1 DEF submit_task, countVars
  <2>2. CASE cancel_task(u)
    <3>1. queue = [queue EXCEPT ![u] = queue[u]]
      BY DEF OnceInv, TypeOK
    <3> QED  BY <2>2, <3>1 DEF cancel_task, countVars
  <2> QED  BY <2>1, <2>2
<1>2. queue \in [Task -> Nat] /\ TaskInv(u)
  BY DEF OnceInv, TypeOK
<1>3. \A t \in Task \ {u} : life(t)' = life(t)
  BY <1>1, <1>2 DEF life
<1>4. \A t \in Task : returned(t)' = returned(t)
  BY <1>1 DEF returned
<1>5. CASE submit_task(u)
  <2>1. u \notin submitted /\ queue'[u] > 0 /\ u \in submitted' /\ cancelled' = cancelled
    BY <1>2, <1>5 DEF submit_task
  <2>2. ~resolved(u)
    BY <1>2, <2>1 DEF TaskInv, Ends
  <2>3. life(u) = "new" /\ life(u)' = "queued"
    BY <1>1, <2>1, <2>2 DEF life, resolved
  <2> QED  BY <1>3, <1>4, <2>3, LifeMoves
<1>6. CASE cancel_task(u)
  <2>1. /\ u \in active \/ queue[u] > 0
        /\ cancelled' = IF resolved(u) THEN cancelled ELSE cancelled \cup {u}
    BY <1>6 DEF cancel_task
  <2>2. u \in submitted /\ submitted' = submitted
    BY <1>2, <1>6, <2>1 DEF TaskInv, Ends, gone, cancel_task
  <2>3. CASE resolved(u)
    <3>1. life(u)' = life(u)
      BY <1>1, <2>1, <2>2, <2>3 DEF life, resolved
    <3> QED  BY <1>3, <1>4, <3>1, LifeMoves
  <2>4. CASE ~resolved(u)
    <3>1. life(u) \in {"queued", "dispatched"} /\ life(u)' = "cancelled"
      BY <1>1, <2>1, <2>2, <2>4 DEF life, resolved
    <3> QED  BY <1>3, <1>4, <3>1, LifeMoves
  <2> QED  BY <2>3, <2>4
<1> QED  BY <1>5, <1>6

LEMMA LifeOfDispatcher ==
    ASSUME OnceInv, get \/ settle
    PROVE  Life!Next \/ UNCHANGED Life!vars
<1>1. UNCHANGED <<submitted, cancelled, completed, retries, escalations>>
  BY DEF get, settle, skipCancelled, expire, sendTask, noAgent, countVars, historyVars
<1>2. \A t \in Task : returned(t)' = returned(t)
  BY <1>1 DEF returned
<1>3. queue \in [Task -> Nat] /\ hand \in Task \cup {NoTask} /\ tombstones \subseteq Task
  BY DEF OnceInv, TypeOK
<1>4. CASE get
  <2>1. PICK u \in Task : /\ hand = NoTask /\ hand' = u /\ queue[u] > 0
                          /\ queue' = [queue EXCEPT ![u] = @ - 1]
                          /\ failed' = failed /\ dlq' = dlq
    BY <1>4 DEF get
  <2>2. \A t \in Task : life(t)' = life(t)
    BY <1>1, <1>3, <2>1, DispatchAssumption DEF life
  <2> QED  BY <1>2, <2>2, LifeStutters
<1>5. CASE skipCancelled
  <2>1. hand \in tombstones /\ hand' = NoTask /\ UNCHANGED <<queue, failed, dlq>>
    BY <1>5 DEF skipCancelled
  <2>2. resolved(hand)
    BY <1>3, <2>1 DEF OnceInv, TaskInv, Ends
  <2>3. \A t \in Task : life(t)' = life(t)
    BY <1>1, <2>1, <2>2, DispatchAssumption DEF life, resolved
  <2> QED  BY <1>2, <2>3, LifeStutters
<1>6. CASE expire \/ noAgent \/ \E a \in Agent : sendTask(a)
  <2>0. PICK u : u = hand
    OBVIOUS
  <2>1. u # NoTask /\ u \notin tombstones
    BY <1>6, <2>0, DispatchAssumption DEF expire, noAgent, sendTask
  <2>2. /\ u \in Task /\ u \in submitted /\ ~resolved(u) /\ queue[u] = 0
        /\ life(u) = "queued"
    BY <2>0, <2>1, InHandQueued
  <2>3. /\ hand' = NoTask
        /\ \/ queue' = queue /\ failed' = failed \cup {u} /\ dlq' = dlq
           \/ queue' = queue /\ failed' = failed /\ dlq' = dlq \cup {u}
           \/ queue' = queue /\ failed' = failed /\ dlq' = dlq
           \/ queue' = [queue EXCEPT ![u] = @ + 1] /\ failed' = failed /\ dlq' = dlq
    BY <1>6, <2>0 DEF expire, noAgent, sendTask
  <2>4. \A t \in Task \ {u} : life(t)' = life(t)
    BY <1>1, <1>3, <2>0, <2>3, DispatchAssumption DEF life
  <2>5. life(u)' \in {"failed", "dead", "dispatched", "queued"}
    BY <1>1, <1>3, <2>2, <2>3, DispatchAssumption DEF life, resolved
  <2> QED  BY <1>2, <2>2, <2>4, <2>5, LifeMoves
<1> QED  BY <1>4, <1>5, <1>6 DEF settle

LEMMA LifeOfAgents ==
    ASSUME NEW a \in Agent,
           \/ drain_agent(a) \/ runLoop(a) \/ taskComplete(a)
           \/ dispatchTaskRaises(a) \/ recover(a) \/ watchdog(a)
    PROVE  UNCHANGED Life!vars
BY LifeStays DEF drain_agent, runLoop, takeTask, waitReturns, handle_task_timeout, taskComplete,
                 dispatchTaskRaises, recover, watchdog, taskVars, countVars, historyVars

LEMMA LifeOfRoute ==
    ASSUME OnceInv, DispatchInv, route
    PROVE  Life!Next \/ UNCHANGED Life!vars
<1>0. PICK u : u = result.task
  OBVIOUS
<1>1. ~escalate
  BY AtHead DEF escalate, escalates
<1>2. /\ bus # <<>> /\ bus' = Tail(bus)
      /\ UNCHANGED <<hand, submitted, cancelled, dlq, escalations>>
  BY <1>1 DEF route, dropResult, taskSucceeds, retry, taskFails, countVars, historyVars
<1>3. u \in Task /\ result.error # "watchdog_timeout" /\ TaskInv(u)
  BY <1>0, <1>2, AtHead DEF OnceInv
<1>4. CASE dropResult
  BY <1>4, LifeStays DEF dropResult, countVars
<1>5. CASE retry
  <2>1. /\ u \in active /\ u \notin cancelled /\ u \in submitted /\ gone(u) /\ ~ended(u)
    BY <1>0, <1>5, Retried
  <2>2. /\ retries[u] < MaxRetries /\ retries' = [retries EXCEPT ![u] = @ + 1]
        /\ queue' = [queue EXCEPT ![u] = @ + 1] /\ UNCHANGED <<completed, failed>>
    BY <1>0, <1>5 DEF retry, retries_left
  <2>3. /\ queue \in [Task -> Nat] /\ retries \in [Task -> Nat] /\ escalations \in [Task -> Nat]
        /\ escalations[u] <= MaxEscalations
    BY <1>3 DEF DispatchInv, TypeOK, EntriesAccounted
  <2>4. life(u) = "dispatched" /\ life(u)' = "queued"
    BY <1>2, <1>3, <2>1, <2>2, <2>3 DEF life, gone, ended
  <2>5. \A t \in Task \ {u} : life(t)' = life(t) /\ returned(t)' = returned(t)
    BY <1>2, <2>2, <2>3 DEF life, returned
  <2>6. returned(u)' = returned(u) + 1 /\ returned(u) < MaxRetries + MaxEscalations
    BY <1>2, <1>3, <2>2, <2>3, DispatchAssumption DEF returned
  <2>7. Life!move(u, {"dispatched"}, "queued")
    BY <1>3, <2>4, <2>5 DEF Life!move, life
  <2>8. /\ [t \in Task |-> retries[t] + escalations[t]]'
             = [[t \in Task |-> retries[t] + escalations[t]] EXCEPT ![u] = @ + 1]
        /\ [t \in Task |-> retries[t] + escalations[t]][u] < MaxRetries + MaxEscalations
    BY <1>3, <2>5, <2>6 DEF returned
  <2>9. Life!return(u)
    BY <2>7, <2>8 DEF Life!return
  <2> QED  BY <1>3, <2>9 DEF Life!Next
<1>6. CASE taskSucceeds \/ taskFails
  <2>1. /\ \/ /\ completed' = completed \cup {u} /\ failed' = failed /\ result.error = "none"
           \/ completed' = completed /\ failed' = failed \cup {u}
        /\ UNCHANGED <<queue, retries>>
    BY <1>0, <1>6 DEF taskSucceeds, taskFails, countVars
  <2>2. \A t \in Task : returned(t)' = returned(t)
    BY <1>2, <2>1 DEF returned
  <2>3. \A t \in Task \ {u} : life(t)' = life(t)
    BY <1>2, <2>1 DEF life
  <2>4. reported(u) /\ (result.error = "none" => success(u))
    <3>1. Len(bus) \in Nat \ {0} /\ result = bus[1]
      BY <1>2 DEF OnceInv, TypeOK, result
    <3>2. 1 \in 1..Len(bus)
      BY <3>1
    <3> QED  BY <1>0, <3>1, <3>2 DEF reported, success
  <2>5. gone(u) /\ u \notin dlq /\ (result.error = "none" => ~ended(u)) /\ u \in submitted
    BY <1>3, <2>4 DEF TaskInv, Reports, Ends, silent
  <2>6. \/ life(u)' = life(u)
        \/ life(u) = "dispatched" /\ life(u)' \in {"completed", "failed"}
    BY <1>2, <1>3, <2>1, <2>5 DEF life, gone, ended
  <2> QED  BY <1>3, <2>2, <2>3, <2>6, LifeMoves
<1> QED  BY <1>1, <1>4, <1>5, <1>6 DEF route

(* Without the watchdog, the two loops and the agents give every task the  *)
(* life TaskLifecycle describes.                                           *)
THEOREM ImplementsLifecycleHolds ==
    ASSUME ~WatchdogOn
    PROVE  Spec => ImplementsLifecycle
<1>1. Init => Life!Init
  BY DEF Init, Life!Init
<1>2. OnceInv /\ DispatchInv /\ [Next]_vars => [Life!Next]_Life!vars
  <2> SUFFICES ASSUME OnceInv, DispatchInv, [Next]_vars PROVE Life!Next \/ UNCHANGED Life!vars
    OBVIOUS
  <2>1. CASE UNCHANGED vars
    BY <2>1, LifeStays DEF vars, taskVars, countVars, historyVars
  <2> QED  BY <2>1, LifeOfClients, LifeOfDispatcher, LifeOfAgents, LifeOfRoute, Zenon DEF Next
<1>3. Spec => []OnceInv
  BY Once
<1> QED  BY <1>1, <1>2, <1>3, DispatchInvHolds, PTL DEF Spec, ImplementsLifecycle, Life!Spec

-----------------------------------------------------------------------------
(* The rate limiter, whose bucket submit_task takes a token from.          *)
Limiter == INSTANCE RateLimiter

(* Of some numbers one is the least.                                       *)
LEMMA LeastNumber ==
    ASSUME NEW S, S \subseteq Nat, S # {}
    PROVE  \E n \in S : \A m \in S : n <= m
<1>1. PICK R : R = OpToRel(<, Nat)
  OBVIOUS
<1>2. IsWellFoundedOn(R, Nat)
  BY <1>1, NatLessThanWellFounded
<1>3. PICK n \in S : \A m \in S : ~(<<m, n>> \in R)
  BY <1>2, WFMin
<1>4. ASSUME NEW m \in S PROVE n <= m
  <2>1. m \in Nat /\ n \in Nat
    OBVIOUS
  <2>2. ~(<<m, n>> \in OpToRel(<, Nat))
    BY <1>1, <1>3
  <2>3. ~(m < n)
    BY <2>1, <2>2 DEF OpToRel
  <2> QED  BY <2>1, <2>3
<1> QED  BY <1>4

(* Induction on numbers, over a set.                                       *)
LEMMA EveryNumber ==
    ASSUME NEW S, 0 \in S, \A n \in Nat : n \in S => n + 1 \in S
    PROVE  Nat \subseteq S
<1>1. PICK Bad : Bad = Nat \ S
  OBVIOUS
<1>2. ASSUME Bad # {} PROVE FALSE
  <2>1. PICK n \in Bad : \A m \in Bad : n <= m
    BY <1>1, <1>2, LeastNumber
  <2>2. n \in Nat /\ n # 0 /\ n \notin S
    BY <1>1, <2>1
  <2>3. n - 1 \in Nat /\ n - 1 \notin Bad
    BY <2>1, <2>2
  <2>4. n - 1 \in S
    BY <1>1, <2>3
  <2>5. (n - 1) + 1 \in S
    BY <2>3, <2>4
  <2> QED  BY <2>2, <2>5
<1> QED  BY <1>1, <1>2

(* The smaller of two numbers.                                             *)
LEMMA Smaller ==
    ASSUME NEW a \in Int, NEW b \in Int
    PROVE  Limiter!Min({a, b}) = IF a <= b THEN a ELSE b
<1>1. PICK m : m = IF a <= b THEN a ELSE b
  OBVIOUS
<1>2. m \in {a, b} /\ \A y \in {a, b} : m =< y
  BY <1>1
<1>3. \A x \in {a, b} : (\A y \in {a, b} : x =< y) => x = m
  BY <1>1
<1> QED  BY <1>1, <1>2, <1>3 DEF Limiter!Min

(* Attempts to take a token, each at its time.                             *)
Attempts(rate, burst, time, bucket) ==
    /\ rate \in Nat \ {0} /\ burst \in Nat
    /\ time \in [Nat -> Nat] /\ \A i \in Nat : time[i] <= time[i + 1]
    /\ bucket[0] = Limiter!TokenBucketRateLimiter(rate, burst, time[0])
    /\ \A i \in Nat : bucket[i + 1] = Limiter!try_acquire(bucket[i], time[i + 1])

(* Those that get one.                                                     *)
admitted(time, bucket) ==
    {i \in Nat \ {0} : Limiter!has_token(bucket[i - 1], time[i])}

(* A bucket that is in use.                                                *)
InUse(b, rate, burst, now) ==
    /\ b = [rate |-> rate, burst |-> burst, last_refill |-> now, tokens |-> b.tokens]
    /\ b.tokens \in Nat

(* One attempt.                                                            *)
LEMMA OneAttempt ==
    ASSUME NEW rate \in Nat \ {0}, NEW burst \in Nat, NEW now \in Nat, NEW then \in Nat,
           now <= then, NEW b, InUse(b, rate, burst, now)
    PROVE  LET gained == b.tokens + (then - now) * rate
               full == IF burst * Limiter!Token <= gained THEN burst * Limiter!Token ELSE gained
               c == Limiter!try_acquire(b, then)
           IN  /\ full \in Nat
               /\ Limiter!has_token(b, then) <=> full >= Limiter!Token
               /\ InUse(c, rate, burst, then)
               /\ c.tokens = IF full >= Limiter!Token THEN full - Limiter!Token ELSE full
<1>1. PICK gained, most, full : /\ gained = b.tokens + (then - now) * rate
                                /\ most = burst * Limiter!Token
                                /\ full = IF most <= gained THEN most ELSE gained
  OBVIOUS
<1>2. Limiter!Token = 3
  BY DEF Limiter!Token
<1>3. b.tokens \in Nat /\ b.rate = rate /\ b.burst = burst /\ b.last_refill = now
  BY DEF InUse
<1>4. gained \in Nat /\ most \in Nat /\ full \in Nat
  <2>1. then - now \in Nat
    OBVIOUS
  <2>2. (then - now) * rate \in Nat
    BY <2>1
  <2> QED  BY <1>1, <1>2, <1>3, <2>2
<1>5. Limiter!Min({most, gained}) = full
  BY <1>1, <1>4, Smaller
<1>6. Limiter!_refill(b, then) = [rate |-> rate, burst |-> burst, last_refill |-> then, tokens |-> full]
  <2>1. PICK held : b = [rate |-> rate, burst |-> burst, last_refill |-> now, tokens |-> held]
    BY DEF InUse
  <2>2. Limiter!enabled(b)
    BY <1>3 DEF Limiter!enabled
  <2>3. Limiter!_refill(b, then) = [b EXCEPT !.tokens = full, !.last_refill = then]
    BY <1>1, <1>3, <1>5, <2>2 DEF Limiter!_refill
  <2> QED  BY <2>1, <2>3
<1>7. Limiter!enabled(b)
  BY <1>3 DEF Limiter!enabled
<1>8. Limiter!has_token(b, then) <=> full >= 3
  BY <1>2, <1>6, <1>7 DEF Limiter!has_token
<1>9. Limiter!try_acquire(b, then) =
        [rate |-> rate, burst |-> burst, last_refill |-> then,
         tokens |-> IF full >= 3 THEN full - 3 ELSE full]
  BY <1>2, <1>6, <1>7 DEF Limiter!try_acquire
<1> QED  BY <1>1, <1>2, <1>4, <1>8, <1>9 DEF InUse

(* How many tokens there are after each attempt, and when.                 *)
LEMMA BucketsInUse ==
    ASSUME NEW rate, NEW burst, NEW time, NEW bucket, Attempts(rate, burst, time, bucket)
    PROVE  \A i \in Nat : InUse(bucket[i], rate, burst, time[i])
<1>1. PICK S : S = {i \in Nat : InUse(bucket[i], rate, burst, time[i])}
  OBVIOUS
<1>2. 0 \in S
  <2>1. burst * Limiter!Token \in Nat
    BY DEF Attempts, Limiter!Token
  <2>2. bucket[0] = [rate |-> rate, burst |-> burst, last_refill |-> time[0],
                     tokens |-> burst * Limiter!Token]
    BY DEF Attempts, Limiter!TokenBucketRateLimiter
  <2> QED  BY <1>1, <2>1, <2>2 DEF InUse
<1>3. ASSUME NEW i \in Nat, i \in S PROVE i + 1 \in S
  <2>1. PICK b, now, then : b = bucket[i] /\ now = time[i] /\ then = time[i + 1]
    OBVIOUS
  <2>2. now \in Nat /\ then \in Nat /\ now <= then /\ rate \in Nat \ {0} /\ burst \in Nat
    BY <2>1 DEF Attempts
  <2>3. InUse(Limiter!try_acquire(b, then), rate, burst, then)
    BY <1>1, <1>3, <2>1, <2>2, OneAttempt
  <2>4. bucket[i + 1] = Limiter!try_acquire(b, then)
    BY <2>1 DEF Attempts
  <2> QED  BY <1>1, <2>1, <2>3, <2>4
<1> QED  BY <1>1, <1>2, <1>3, EveryNumber

(* What attempt i + 1 does to the tokens.                                  *)
LEMMA NextAttempt ==
    ASSUME NEW rate, NEW burst, NEW time, NEW bucket, Attempts(rate, burst, time, bucket),
           NEW i \in Nat
    PROVE  LET gained == bucket[i].tokens + (time[i + 1] - time[i]) * rate
               full == IF burst * Limiter!Token <= gained THEN burst * Limiter!Token ELSE gained
           IN  /\ full \in Nat /\ gained \in Nat
               /\ i + 1 \in admitted(time, bucket) <=> full >= Limiter!Token
               /\ bucket[i + 1].tokens =
                    IF i + 1 \in admitted(time, bucket) THEN full - Limiter!Token ELSE full
<1>1. PICK b, now, then : b = bucket[i] /\ now = time[i] /\ then = time[i + 1]
  OBVIOUS
<1>2. now \in Nat /\ then \in Nat /\ now <= then /\ rate \in Nat \ {0} /\ burst \in Nat
  BY <1>1 DEF Attempts
<1>3. InUse(b, rate, burst, now)
  BY <1>1, BucketsInUse
<1>4. PICK gained, full, c :
        /\ gained = b.tokens + (then - now) * rate
        /\ full = IF burst * Limiter!Token <= gained THEN burst * Limiter!Token ELSE gained
        /\ c = Limiter!try_acquire(b, then)
  OBVIOUS
<1>5. /\ full \in Nat
      /\ Limiter!has_token(b, then) <=> full >= Limiter!Token
      /\ c.tokens = IF full >= Limiter!Token THEN full - Limiter!Token ELSE full
  BY <1>2, <1>3, <1>4, OneAttempt
<1>6. gained \in Nat
  <2>1. b.tokens \in Nat
    BY <1>3 DEF InUse
  <2>2. then - now \in Nat
    BY <1>2
  <2>3. (then - now) * rate \in Nat
    BY <1>2, <2>2
  <2> QED  BY <1>4, <2>1, <2>3
<1>7. i + 1 \in admitted(time, bucket) <=> Limiter!has_token(b, then)
  <2>1. i + 1 \in Nat \ {0} /\ (i + 1) - 1 = i
    OBVIOUS
  <2> QED  BY <1>1, <2>1 DEF admitted
<1>8. bucket[i + 1] = c
  BY <1>1, <1>4 DEF Attempts
<1> QED  BY <1>1, <1>4, <1>5, <1>6, <1>7, <1>8

(* The attempts that get a token, counted.                                 *)
LEMMA Counted ==
    ASSUME NEW A, NEW i \in Nat, NEW j \in Nat, i <= j + 1
    PROVE  /\ Cardinality(A \cap (i..j)) \in Nat
           /\ Cardinality(A \cap (i..(j + 1))) =
                Cardinality(A \cap (i..j)) + IF j + 1 \in A THEN 1 ELSE 0
<1>1. PICK X : X = A \cap (i..j)
  OBVIOUS
<1>2. IsFiniteSet(i..j)
  BY FS_Interval
<1>3. IsFiniteSet(X)
  BY <1>1, <1>2, FS_Subset
<1>4. Cardinality(X) \in Nat
  BY <1>3, FS_CardinalityType
<1>5. j + 1 \notin X
  BY <1>1
<1>6. CASE j + 1 \in A
  <2>1. A \cap (i..(j + 1)) = X \cup {j + 1}
    BY <1>1, <1>6
  <2>2. Cardinality(X \cup {j + 1}) = Cardinality(X) + 1
    BY <1>3, <1>5, FS_AddElement
  <2> QED  BY <1>1, <1>4, <1>6, <2>1, <2>2
<1>7. CASE j + 1 \notin A
  <2>1. A \cap (i..(j + 1)) = X
    BY <1>1, <1>7
  <2>2. Cardinality(X) + 0 = Cardinality(X)
    BY <1>4
  <2> QED  BY <1>1, <1>4, <1>7, <2>1, <2>2
<1> QED  BY <1>6, <1>7


(* Between two attempts no more can be taken than the bucket holds and     *)
(* gets in the time between (Room).  What has been taken and what is left  *)
(* (Spent) never exceeds it, and is all of it from some attempt on: from   *)
(* the last one that found the bucket full.                                *)
Room(rate, burst, time, i, j) == burst * Limiter!Token + rate * (time[j] - time[i])
Spent(time, bucket, i, j) ==
    Cardinality(admitted(time, bucket) \cap (i..j)) * Limiter!Token + bucket[j].tokens

(* From attempt to attempt.                                                *)
LEMMA SpentStep ==
    ASSUME NEW rate, NEW burst, NEW time, NEW bucket, Attempts(rate, burst, time, bucket),
           NEW i \in Nat, NEW j \in Nat, i <= j + 1
    PROVE  LET C == Cardinality(admitted(time, bucket) \cap (i..j))
               gained == bucket[j].tokens + (time[j + 1] - time[j]) * rate
               full == IF burst * Limiter!Token <= gained THEN burst * Limiter!Token ELSE gained
           IN  /\ Spent(time, bucket, i, j + 1) = C * Limiter!Token + full
               /\ C \in Nat /\ full \in Nat /\ gained \in Nat
<1>1. PICK A, C, D, gained, full :
        /\ A = admitted(time, bucket)
        /\ C = Cardinality(A \cap (i..j)) /\ D = Cardinality(A \cap (i..(j + 1)))
        /\ gained = bucket[j].tokens + (time[j + 1] - time[j]) * rate
        /\ full = IF burst * Limiter!Token <= gained THEN burst * Limiter!Token ELSE gained
  OBVIOUS
<1>2. C \in Nat /\ D = C + IF j + 1 \in A THEN 1 ELSE 0
  BY <1>1, Counted
<1>3. /\ full \in Nat /\ gained \in Nat
      /\ bucket[j + 1].tokens = IF j + 1 \in A THEN full - Limiter!Token ELSE full
  <2>1. /\ full \in Nat /\ gained \in Nat
        /\ bucket[j + 1].tokens =
             IF j + 1 \in admitted(time, bucket) THEN full - Limiter!Token ELSE full
    <3>1. PICK g, f : /\ g = bucket[j].tokens + (time[j + 1] - time[j]) * rate
                      /\ f = IF burst * Limiter!Token <= g THEN burst * Limiter!Token ELSE g
      OBVIOUS
    <3>2. /\ f \in Nat /\ g \in Nat
          /\ bucket[j + 1].tokens =
               IF j + 1 \in admitted(time, bucket) THEN f - Limiter!Token ELSE f
      BY <3>1, NextAttempt
    <3>3. g = gained /\ f = full
      BY <1>1, <3>1
    <3> QED  BY <3>2, <3>3
  <2> QED  BY <1>1, <2>1
<1>4. Limiter!Token \in Nat
  BY DEF Limiter!Token
<1>5. Spent(time, bucket, i, j + 1) = D * Limiter!Token + bucket[j + 1].tokens
  BY <1>1 DEF Spent
<1>6. D * Limiter!Token + bucket[j + 1].tokens = C * Limiter!Token + full
  <2>1. CASE j + 1 \in A
    <3>1. D = C + 1 /\ bucket[j + 1].tokens = full - Limiter!Token
      BY <1>2, <1>3, <2>1
    <3>2. (C + 1) * Limiter!Token = C * Limiter!Token + Limiter!Token
      BY <1>2, <1>4
    <3>3. C * Limiter!Token \in Nat
      BY <1>2, <1>4
    <3> QED  BY <1>3, <1>4, <3>1, <3>2, <3>3
  <2>2. CASE j + 1 \notin A
    BY <1>2, <1>3, <2>2
  <2> QED  BY <2>1, <2>2
<1> QED  BY <1>1, <1>2, <1>3, <1>5, <1>6

(* From attempt i on no more is spent and left than the bucket held at most *)
(* and what came in.                                                       *)
LEMMA SpentInRoom ==
    ASSUME NEW rate, NEW burst, NEW time, NEW bucket, Attempts(rate, burst, time, bucket),
           NEW i \in Nat \ {0}, NEW n \in Nat
    PROVE  Spent(time, bucket, i, i + n) <= Room(rate, burst, time, i, i + n)
<1>1. rate \in Nat /\ burst \in Nat /\ \A m \in Nat : time[m] \in Nat
  BY DEF Attempts
<1>2. PICK most : most = burst * Limiter!Token
  OBVIOUS
<1>3. Limiter!Token \in Nat /\ most \in Nat
  BY <1>1, <1>2 DEF Limiter!Token
<1>4. PICK S : S = {m \in Nat : Spent(time, bucket, i, i + m) <= Room(rate, burst, time, i, i + m)}
  OBVIOUS
<1>5. 0 \in S
  <2>1. PICK j \in Nat : j = i - 1
    OBVIOUS
  <2>2. PICK C, full :
          /\ Spent(time, bucket, i, j + 1) = C * Limiter!Token + full
          /\ C = Cardinality(admitted(time, bucket) \cap (i..j))
          /\ full \in Nat /\ full <= most
    BY <1>2, <1>3, <2>1, SpentStep
  <2>3. C = 0
    <3>1. i..j = {}
      BY <2>1
    <3> QED  BY <2>2, <3>1, FS_EmptySet
  <2>4. Spent(time, bucket, i, i + 0) <= most
    BY <1>3, <2>1, <2>2, <2>3
  <2>5. Room(rate, burst, time, i, i + 0) = most
    BY <1>1, <1>2, <1>3 DEF Room
  <2> QED  BY <1>4, <2>4, <2>5
<1>6. ASSUME NEW m \in Nat, m \in S PROVE m + 1 \in S
  <2>1. PICK j \in Nat : j = i + m /\ j + 1 = i + (m + 1)
    OBVIOUS
  <2>2. PICK C, gained, full :
          /\ C = Cardinality(admitted(time, bucket) \cap (i..j))
          /\ gained = bucket[j].tokens + (time[j + 1] - time[j]) * rate
          /\ full = IF burst * Limiter!Token <= gained THEN burst * Limiter!Token ELSE gained
    OBVIOUS
  <2>3. i \in Nat /\ i <= j + 1
    BY <2>1
  <2>4. /\ Spent(time, bucket, i, j + 1) = C * Limiter!Token + full
        /\ C \in Nat /\ full \in Nat /\ gained \in Nat
    BY <2>2, <2>3, SpentStep
  <2>5. full <= gained
    BY <1>2, <1>3, <2>2, <2>4
  <2>6. PICK held : held = bucket[j].tokens /\ held \in Nat
    BY BucketsInUse DEF InUse
  <2>7. C * Limiter!Token + held <= most + rate * (time[j] - time[i])
    BY <1>2, <1>4, <1>6, <2>1, <2>2, <2>6 DEF Spent, Room
  <2>8. PICK s, t, u : s = time[i] /\ t = time[j] /\ u = time[j + 1]
    OBVIOUS
  <2>9. s \in Nat /\ t \in Nat /\ u \in Nat
    BY <1>1, <2>8
  <2>10. rate * (t - s) + (u - t) * rate = rate * (u - s)
    BY <1>1, <2>9
  <2>11. C * Limiter!Token \in Nat /\ rate * (t - s) \in Int /\ (u - t) * rate \in Int
    BY <1>1, <1>3, <2>4, <2>9
  <2>12. C * Limiter!Token + full <= most + rate * (u - s)
    BY <1>3, <2>2, <2>4, <2>5, <2>6, <2>7, <2>8, <2>10, <2>11
  <2> QED  BY <1>2, <1>4, <2>1, <2>4, <2>8, <2>12 DEF Room
<1>7. n \in S
  BY <1>5, <1>6, EveryNumber
<1> QED  BY <1>4, <1>7

(* An attempt that finds the bucket full starts with all the room there is. *)
LEMMA FullThen ==
    ASSUME NEW rate, NEW burst, NEW time, NEW bucket, Attempts(rate, burst, time, bucket),
           NEW j \in Nat,
           burst * Limiter!Token <= bucket[j].tokens + (time[j + 1] - time[j]) * rate
    PROVE  Spent(time, bucket, j + 1, j + 1) = Room(rate, burst, time, j + 1, j + 1)
<1>1. PICK C, gained, most :
        /\ C = Cardinality(admitted(time, bucket) \cap ((j + 1)..j))
        /\ gained = bucket[j].tokens + (time[j + 1] - time[j]) * rate
        /\ most = burst * Limiter!Token
  OBVIOUS
<1>2. Spent(time, bucket, j + 1, j + 1) = C * Limiter!Token + most
  <2>1. j + 1 \in Nat /\ j + 1 <= j + 1
    OBVIOUS
  <2> QED  BY <1>1, <2>1, SpentStep
<1>3. C = 0
  <2>1. (j + 1)..j = {}
    OBVIOUS
  <2> QED  BY <1>1, <2>1, FS_EmptySet
<1>4. /\ rate \in Nat /\ burst \in Nat /\ time[j + 1] \in Nat
      /\ Limiter!Token \in Nat /\ most \in Nat
  BY <1>1 DEF Attempts, Limiter!Token
<1>5. Room(rate, burst, time, j + 1, j + 1) = most
  <2>1. time[j + 1] - time[j + 1] = 0 /\ rate * 0 = 0 /\ most + 0 = most
    BY <1>4
  <2> QED  BY <1>1, <2>1 DEF Room
<1> QED  BY <1>2, <1>3, <1>4, <1>5

(* ... and it is just that much from some attempt on.                      *)
LEMMA RoomIsUsed ==
    ASSUME NEW rate, NEW burst, NEW time, NEW bucket, Attempts(rate, burst, time, bucket),
           NEW n \in Nat
    PROVE  \E i \in 1..(n + 1) :
              Spent(time, bucket, i, n + 1) = Room(rate, burst, time, i, n + 1)
<1>1. /\ rate \in Nat /\ burst \in Nat /\ Limiter!Token \in Nat
      /\ \A m \in Nat : time[m] \in Nat /\ time[m] <= time[m + 1]
  BY DEF Attempts, Limiter!Token
<1>2. PICK most : most = burst * Limiter!Token /\ most \in Nat
  BY <1>1
<1>3. PICK S : S = {m \in Nat : \E i \in 1..(m + 1) :
                      Spent(time, bucket, i, m + 1) = Room(rate, burst, time, i, m + 1)}
  OBVIOUS
<1>4. 0 \in S
  <2>1. bucket[0].tokens = most
    BY <1>2 DEF Attempts, Limiter!TokenBucketRateLimiter
  <2>2. time[0] \in Nat /\ time[0 + 1] \in Nat /\ time[0] <= time[0 + 1]
    BY <1>1
  <2>3. (time[0 + 1] - time[0]) * rate \in Nat
    BY <1>1, <2>2
  <2>4. most <= bucket[0].tokens + (time[0 + 1] - time[0]) * rate
    BY <1>2, <2>1, <2>3
  <2>5. Spent(time, bucket, 0 + 1, 0 + 1) = Room(rate, burst, time, 0 + 1, 0 + 1)
    BY <1>2, <2>4, FullThen
  <2>6. 0 + 1 \in 1..(0 + 1)
    OBVIOUS
  <2> QED  BY <1>3, <2>5, <2>6
<1>5. ASSUME NEW m \in Nat, m \in S PROVE m + 1 \in S
  <2>1. PICK j : j \in Nat /\ j = m + 1
    OBVIOUS
  <2>2. PICK i \in 1..j : Spent(time, bucket, i, j) = Room(rate, burst, time, i, j)
    BY <1>3, <1>5, <2>1
  <2>3. PICK C, gained, full, held :
          /\ C = Cardinality(admitted(time, bucket) \cap (i..j))
          /\ gained = bucket[j].tokens + (time[j + 1] - time[j]) * rate
          /\ full = IF burst * Limiter!Token <= gained THEN burst * Limiter!Token ELSE gained
          /\ held = bucket[j].tokens
    OBVIOUS
  <2>4. i \in Nat /\ i <= j + 1 /\ i \in 1..(j + 1)
    BY <2>1
  <2>5. /\ Spent(time, bucket, i, j + 1) = C * Limiter!Token + full
        /\ C \in Nat /\ full \in Nat /\ gained \in Nat
    BY <2>1, <2>3, <2>4, SpentStep
  <2>6. held \in Nat
    BY <2>1, <2>3, BucketsInUse DEF InUse
  <2>7. CASE most <= gained
    <3>1. Spent(time, bucket, j + 1, j + 1) = Room(rate, burst, time, j + 1, j + 1)
      BY <1>2, <2>1, <2>3, <2>7, FullThen
    <3>2. j + 1 \in 1..(j + 1)
      BY <2>1
    <3> QED  BY <1>3, <2>1, <3>1, <3>2
  <2>8. CASE ~(most <= gained)
    <3>1. full = gained
      BY <1>2, <2>3, <2>8
    <3>2. PICK s, t, u : s = time[i] /\ t = time[j] /\ u = time[j + 1]
      OBVIOUS
    <3>3. s \in Nat /\ t \in Nat /\ u \in Nat
      BY <1>1, <2>1, <2>4, <3>2
    <3>4. rate * (t - s) + (u - t) * rate = rate * (u - s)
      BY <1>1, <3>3
    <3>5. C * Limiter!Token \in Nat /\ rate * (t - s) \in Int /\ (u - t) * rate \in Int
      BY <1>1, <2>5, <3>3
    <3>6. C * Limiter!Token + held = most + rate * (t - s)
      BY <1>2, <2>2, <2>3, <3>2 DEF Spent, Room
    <3>7. gained = held + (u - t) * rate
      BY <2>3, <3>2
    <3>8. C * Limiter!Token + full = most + rate * (u - s)
      BY <1>2, <2>6, <3>1, <3>4, <3>5, <3>6, <3>7
    <3>9. Spent(time, bucket, i, j + 1) = Room(rate, burst, time, i, j + 1)
      BY <1>2, <2>5, <3>2, <3>8 DEF Room
    <3> QED  BY <1>3, <2>1, <2>4, <3>9
  <2> QED  BY <2>7, <2>8
<1>6. n \in S
  BY <1>4, <1>5, EveryNumber
<1> QED  BY <1>3, <1>6

(* For every rate, burst and times of the attempts: between any two        *)
(* attempts try_acquire lets no more through than the bucket holds and     *)
(* gets in the time between, and one that it turns away would be one too   *)
(* many, counted from an attempt before: the bucket forgets no time that   *)
(* has passed and loses no token it could have kept.                       *)
THEOREM RateIsKept ==
    ASSUME NEW rate, NEW burst, NEW time, NEW bucket, Attempts(rate, burst, time, bucket)
    PROVE  /\ \A i, j \in Nat \ {0} : i <= j =>
                 Cardinality(admitted(time, bucket) \cap (i..j)) * Limiter!Token
                   <= burst * Limiter!Token + rate * (time[j] - time[i])
           /\ \A j \in Nat \ {0} : j \notin admitted(time, bucket) => \E i \in 1..j :
                 (Cardinality(admitted(time, bucket) \cap (i..j)) + 1) * Limiter!Token
                   > burst * Limiter!Token + rate * (time[j] - time[i])
<1>1. /\ rate \in Nat /\ burst \in Nat /\ Limiter!Token = 3
      /\ \A m \in Nat : time[m] \in Nat
  BY DEF Attempts, Limiter!Token
<1>2. ASSUME NEW i \in Nat \ {0}, NEW j \in Nat \ {0}, i <= j
      PROVE  Cardinality(admitted(time, bucket) \cap (i..j)) * Limiter!Token
               <= Room(rate, burst, time, i, j)
  <2>1. PICK n \in Nat : j = i + n
    <3>1. j - i \in Nat /\ j = i + (j - i)
      BY <1>2
    <3> QED  BY <3>1
  <2>2. Spent(time, bucket, i, j) <= Room(rate, burst, time, i, j)
    BY <2>1, SpentInRoom
  <2>3. bucket[j].tokens \in Nat
    BY BucketsInUse DEF InUse
  <2>4. PICK C : C = Cardinality(admitted(time, bucket) \cap (i..j)) /\ C \in Nat
    <3>1. i \in Nat /\ i <= j + 1 /\ j \in Nat
      BY <1>2
    <3> QED  BY Counted, <3>1
  <2>5. PICK room : room = Room(rate, burst, time, i, j)
    OBVIOUS
  <2>6. room \in Int
    <3>1. time[i] \in Nat /\ time[j] \in Nat
      BY <1>1
    <3> QED  BY <1>1, <2>5, <3>1 DEF Room
  <2>7. C * 3 + bucket[j].tokens <= room
    BY <1>1, <2>2, <2>4, <2>5 DEF Spent
  <2>8. C * 3 <= room
    BY <2>3, <2>4, <2>6, <2>7
  <2> QED  BY <1>1, <2>4, <2>5, <2>8
<1>3. ASSUME NEW j \in Nat \ {0}, j \notin admitted(time, bucket)
      PROVE  \E i \in 1..j :
                (Cardinality(admitted(time, bucket) \cap (i..j)) + 1) * Limiter!Token
                  > Room(rate, burst, time, i, j)
  <2>1. PICK n \in Nat : j = n + 1
    <3>1. j - 1 \in Nat /\ j = (j - 1) + 1
      OBVIOUS
    <3> QED  BY <3>1
  <2>2. PICK i \in 1..j : Spent(time, bucket, i, j) = Room(rate, burst, time, i, j)
    BY <2>1, RoomIsUsed
  <2>3. PICK held : held = bucket[j].tokens
    OBVIOUS
  <2>4. held \in Nat /\ held < 3
    <3>1. PICK gained, full :
            /\ gained = bucket[n].tokens + (time[n + 1] - time[n]) * rate
            /\ full = IF burst * Limiter!Token <= gained THEN burst * Limiter!Token ELSE gained
      OBVIOUS
    <3>2. /\ full \in Nat
          /\ n + 1 \in admitted(time, bucket) <=> full >= Limiter!Token
          /\ bucket[n + 1].tokens =
               IF n + 1 \in admitted(time, bucket) THEN full - Limiter!Token ELSE full
      BY <3>1, NextAttempt
    <3> QED  BY <1>1, <1>3, <2>1, <2>3, <3>2
  <2>5. PICK C : C = Cardinality(admitted(time, bucket) \cap (i..j)) /\ C \in Nat
    <3>1. i \in Nat /\ i <= j + 1 /\ j \in Nat
      OBVIOUS
    <3> QED  BY Counted, <3>1
  <2>6. PICK room : room = Room(rate, burst, time, i, j)
    OBVIOUS
  <2>7. C * 3 + held = room
    BY <1>1, <2>2, <2>3, <2>5, <2>6 DEF Spent
  <2>8. (C + 1) * 3 > room
    BY <2>4, <2>5, <2>7
  <2> QED  BY <1>1, <2>5, <2>6, <2>8
<1> QED  BY <1>2, <1>3 DEF Room

(* What is left of a division is less than the divisor.                    *)
LEMMA Quotient ==
    ASSUME NEW n \in Nat, NEW d \in Nat \ {0}
    PROVE  /\ n \div d \in Nat
           /\ (n \div d) * d <= n /\ n < (n \div d) * d + d
<1>1. n = d * (n \div d) + (n % d) /\ n % d \in 0..(d - 1) /\ n \div d \in Int
  OBVIOUS
<1> QED  BY <1>1

(* acquire() that found no token sleeps for some time, at the end of which *)
(* the token it lacked has come in and no tick before, unless somebody     *)
(* else takes it meanwhile.  With burst 0 no sleep is long enough, and the *)
(* caller waits for ever.                                                  *)
THEOREM SleepIsEnough ==
    ASSUME NEW rate \in Nat \ {0}, NEW burst \in Nat, NEW last \in Nat, NEW now \in Nat,
           last <= now, NEW b, InUse(b, rate, burst, last), ~Limiter!has_token(b, now)
    PROVE  LET then == now + Limiter!acquire_wait(b, now)
           IN  /\ then \in Nat /\ now < then
               /\ \A t \in Nat : now <= t =>
                    (Limiter!has_token(b, t) <=> t >= then /\ burst > 0)
<1>1. PICK most, held, missing, k :
        /\ most = burst * Limiter!Token
        /\ held = b.tokens + (now - last) * rate
        /\ missing = Limiter!Token - IF most <= held THEN most ELSE held
        /\ k = (missing + rate - 1) \div rate
  OBVIOUS
<1>2. Limiter!Token = 3
  BY DEF Limiter!Token
<1>3. b.tokens \in Nat /\ b.rate = rate /\ b.burst = burst /\ b.last_refill = last
  BY DEF InUse
<1>4. most \in Nat /\ held \in Nat
  <2>1. now - last \in Nat
    OBVIOUS
  <2>2. (now - last) * rate \in Nat
    BY <2>1
  <2> QED  BY <1>1, <1>2, <1>3, <2>2
<1>5. Limiter!Min({most, held}) = IF most <= held THEN most ELSE held
  BY <1>4, Smaller
<1>6. Limiter!acquire_wait(b, now) = k
  <2>1. Limiter!enabled(b)
    BY <1>3 DEF Limiter!enabled
  <2>2. PICK full : full = IF most <= held THEN most ELSE held
    OBVIOUS
  <2>3. Limiter!_refill(b, now) = [b EXCEPT !.tokens = full, !.last_refill = now]
    BY <1>1, <1>3, <1>5, <2>1, <2>2 DEF Limiter!_refill
  <2>4. Limiter!_refill(b, now).tokens = full
    <3>1. PICK n : b = [rate |-> rate, burst |-> burst, last_refill |-> last, tokens |-> n]
      BY DEF InUse
    <3> QED  BY <2>3, <3>1
  <2> QED  BY <1>1, <1>3, <2>2, <2>4 DEF Limiter!acquire_wait
<1>7. ASSUME NEW t \in Nat, now <= t
      PROVE  Limiter!has_token(b, t) <=> burst > 0 /\ held + (t - now) * rate >= 3
  <2>1. PICK full, gained :
          /\ gained = b.tokens + (t - last) * rate
          /\ full = IF burst * Limiter!Token <= gained THEN burst * Limiter!Token ELSE gained
    OBVIOUS
  <2>2. last <= t
    BY <1>7
  <2>3. full \in Nat /\ (Limiter!has_token(b, t) <=> full >= Limiter!Token)
    BY <2>1, <2>2, OneAttempt
  <2>4. (t - last) * rate = (now - last) * rate + (t - now) * rate
    OBVIOUS
  <2>5. (t - last) * rate \in Int /\ (now - last) * rate \in Int /\ (t - now) * rate \in Int
    OBVIOUS
  <2>6. gained = held + (t - now) * rate
    BY <1>1, <1>3, <2>1, <2>4, <2>5
  <2>7. burst > 0 => burst * 3 >= 3
    OBVIOUS
  <2> QED  BY <1>2, <1>4, <2>1, <2>3, <2>5, <2>6, <2>7
<1>8. missing \in Nat \ {0} /\ (burst > 0 => missing = 3 - held)
  <2>1. now - now = 0 /\ 0 * rate = 0
    OBVIOUS
  <2>2. ~(burst > 0 /\ held >= 3)
    BY <1>4, <1>7, <2>1
  <2>3. burst > 0 => most >= 3
    BY <1>1, <1>2
  <2>4. ~(burst > 0) => most = 0
    BY <1>1, <1>2
  <2> QED  BY <1>1, <1>2, <1>4, <2>2, <2>3, <2>4
<1>9. k \in Nat \ {0} /\ k * rate >= missing /\ (k - 1) * rate < missing
  <2>1. PICK n : n \in Nat /\ n = missing + rate - 1 /\ n >= rate
    BY <1>8
  <2>2. k \in Nat /\ k * rate <= n /\ n < k * rate + rate
    BY <1>1, <2>1, Quotient
  <2>3. k # 0
    BY <2>1, <2>2
  <2>4. (k - 1) * rate = k * rate - rate /\ k * rate \in Nat
    BY <2>2
  <2> QED  BY <1>8, <2>1, <2>2, <2>3, <2>4
<1>10. ASSUME NEW t \in Nat, now <= t
       PROVE  (t - now) * rate >= missing <=> t >= now + k
  <2>1. PICK d : d \in Nat /\ d = t - now
    BY <1>10
  <2>2. ASSUME d >= k PROVE d * rate >= missing
    <3>1. PICK e : e \in Nat /\ d = k + e
      <4>1. d - k \in Nat /\ d = k + (d - k)
        BY <1>9, <2>1, <2>2
      <4> QED  BY <4>1
    <3>2. d * rate = k * rate + e * rate /\ e * rate \in Nat /\ k * rate \in Nat
      BY <1>9, <3>1
    <3> QED  BY <1>8, <1>9, <3>2
  <2>3. ASSUME d < k PROVE d * rate < missing
    <3>1. PICK e : e \in Nat /\ k - 1 = d + e
      <4>1. (k - 1) - d \in Nat /\ k - 1 = d + ((k - 1) - d)
        BY <1>9, <2>1, <2>3
      <4> QED  BY <4>1
    <3>2. (k - 1) * rate = d * rate + e * rate /\ e * rate \in Nat /\ d * rate \in Nat
      BY <2>1, <3>1
    <3> QED  BY <1>8, <1>9, <3>2
  <2>4. d * rate \in Nat
    BY <2>1
  <2> QED  BY <1>8, <1>9, <2>1, <2>2, <2>3, <2>4
<1>11. ASSUME NEW t \in Nat, now <= t
       PROVE  Limiter!has_token(b, t) <=> t >= now + k /\ burst > 0
  <2>1. (t - now) * rate \in Int
    OBVIOUS
  <2> QED  BY <1>4, <1>7, <1>8, <1>10, <1>11, <2>1
<1> QED  BY <1>6, <1>9, <1>11

-----------------------------------------------------------------------------
(* Broadcast groups, which the route loop brings up to date.               *)
Groups == INSTANCE Broadcast

(* A group g[0] as broadcast_task stores it, and g[i] after the RESULT     *)
(* r[i] of one of its tasks.                                               *)
BroadcastTo(mode, members, r, g) ==
    /\ mode \in {"gather", "race"} /\ members # {} /\ Groups!NoWinner \notin members
    /\ \A i \in Nat \ {0} : r[i].task \in members /\ r[i].ok \in BOOLEAN
    /\ g[0] = Groups!broadcast_task(mode, members)
    /\ \A i \in Nat : g[i + 1] = Groups!result(g[i], r[i + 1])

(* The tasks that have had a RESULT, and the first RESULTs of their tasks  *)
(* that are successes; a second one of a task, a timeout reported late,    *)
(* does not count.                                                         *)
heardOf(r, n) == {r[i].task : i \in 1..n}

wins(r, n) == {i \in 1..n : r[i].ok /\ r[i].task \notin heardOf(r, i - 1)}

winners(r, n) == {r[i].task : i \in wins(r, n)}

Group(members) ==
    [mode : {"gather", "race"}, task_ids : {members},
     completed : SUBSET members, failed : SUBSET members, cancelled : SUBSET members,
     winner : members \cup {Groups!NoWinner},
     status : {"pending", "running", "complete", "failed"}]

(* A group that waits for RESULTs, or has had the last of them: those of  *)
(* the tasks in H, of which those in C succeeded.                          *)
Waits(g, C, H) ==
    /\ C \subseteq H /\ (g.mode = "race" => C = {})
    /\ g.completed = C /\ g.failed = H \ C
    /\ g.winner = Groups!NoWinner /\ g.cancelled = {}
    /\ g.status = IF H = g.task_ids THEN IF C = {} THEN "failed" ELSE "complete"
                  ELSE IF H = {} THEN "pending" ELSE "running"

(* A race that t has won, when the tasks in H had failed.                 *)
WonBy(g, t, H) ==
    /\ g.completed = {t} /\ g.failed = H
    /\ g.winner = t /\ g.cancelled = g.task_ids \ (H \cup {t})
    /\ g.status = "complete"

(* One RESULT of a group that waits.                                       *)
LEMMA ResultHeard ==
    ASSUME NEW members, Groups!NoWinner \notin members,
           NEW g \in Group(members), NEW C, NEW H, Waits(g, C, H), H \subseteq members,
           NEW e, e.task \in members,
           NEW after, after = Groups!result(g, e)
    PROVE  /\ after \in Group(members) /\ after.mode = g.mode
           /\ e.task \in H => after = g
           /\ e.task \notin H /\ ~e.ok => Waits(after, C, H \cup {e.task})
           /\ e.task \notin H /\ e.ok /\ g.mode = "gather" =>
                 Waits(after, C \cup {e.task}, H \cup {e.task})
           /\ e.task \notin H /\ e.ok /\ g.mode = "race" => WonBy(after, e.task, H)
<1>1. PICK t : t = e.task /\ t \in members
  OBVIOUS
<1>2. /\ g.task_ids = members /\ g.mode \in {"gather", "race"}
      /\ g.completed = C /\ g.failed = H \ C /\ g.winner = Groups!NoWinner
      /\ Groups!resolved(g) = H /\ C \subseteq H /\ g.cancelled = {}
      /\ g.mode = "race" => C = {}
  BY DEF Group, Waits, Groups!resolved
<1>3. CASE t \in H
  <2>1. Groups!result(g, e) = g
    BY <1>1, <1>2, <1>3 DEF Groups!result
  <2> QED  BY <1>1, <1>3, <2>1
<1>4. CASE t \notin H /\ ~e.ok
  <2>1. PICK h, k, s :
          /\ h = [g EXCEPT !.failed = @ \cup {t}]
          /\ s = IF H \cup {t} # members THEN "running"
                 ELSE IF C = {} THEN "failed" ELSE "complete"
          /\ k = [h EXCEPT !.status = s]
    OBVIOUS
  <2>2. /\ h \in Group(members) /\ h.failed = g.failed \cup {t}
        /\ h.completed = g.completed /\ h.mode = g.mode /\ h.task_ids = members
        /\ h.winner = g.winner /\ h.cancelled = g.cancelled
    BY <1>1, <2>1 DEF Group
  <2>3. /\ k \in Group(members) /\ k.status = s
        /\ k.completed = h.completed /\ k.failed = h.failed
        /\ k.mode = h.mode /\ k.task_ids = members
        /\ k.winner = h.winner /\ k.cancelled = h.cancelled
    <3>1. s \in {"pending", "running", "complete", "failed"}
      BY <2>1
    <3>2. h \in Group(members)
      BY <2>2
    <3> QED  BY <2>1, <3>1, <3>2 DEF Group
  <2>4. Groups!resolved(h) = H \cup {t} /\ h.completed = C
    BY <1>2, <2>2 DEF Groups!resolved
  <2>5. Groups!failure(g, t) = k
    BY <1>2, <2>1, <2>4 DEF Groups!failure
  <2>6. Groups!result(g, e) = k
    BY <1>1, <1>2, <1>4, <2>5 DEF Groups!result
  <2>7. Waits(k, C, H \cup {t})
    BY <1>2, <1>4, <2>1, <2>2, <2>3 DEF Waits
  <2> QED  BY <1>1, <1>4, <2>2, <2>3, <2>6, <2>7
<1>5. CASE t \notin H /\ e.ok
  <2>1. PICK h : h = [g EXCEPT !.completed = @ \cup {t}]
    OBVIOUS
  <2>2. /\ h \in Group(members) /\ h.completed = g.completed \cup {t}
        /\ h.failed = g.failed /\ h.mode = g.mode /\ h.task_ids = members
        /\ h.winner = g.winner /\ h.cancelled = g.cancelled
    BY <1>1, <2>1 DEF Group
  <2>3. Groups!resolved(h) = H \cup {t} /\ H \ C = (H \cup {t}) \ (C \cup {t})
    BY <1>2, <1>5, <2>2 DEF Groups!resolved
  <2>4. Groups!result(g, e) = Groups!success(g, t)
    BY <1>1, <1>2, <1>5 DEF Groups!result
  <2>5. CASE g.mode = "gather"
    <3>1. PICK k, s : /\ s = IF H \cup {t} = members THEN "complete" ELSE "running"
                      /\ k = [h EXCEPT !.status = s]
      OBVIOUS
    <3>2. /\ k \in Group(members) /\ k.status = s
          /\ k.completed = h.completed /\ k.failed = h.failed
          /\ k.mode = h.mode /\ k.task_ids = members
          /\ k.winner = h.winner /\ k.cancelled = h.cancelled
      <4>1. s \in {"pending", "running", "complete", "failed"}
        BY <3>1
      <4>2. h \in Group(members)
        BY <2>2
      <4> QED  BY <3>1, <4>1, <4>2 DEF Group
    <3>3. Groups!success(g, t) = k
      BY <1>2, <2>1, <2>3, <2>5, <3>1 DEF Groups!success
    <3>4. Waits(k, C \cup {t}, H \cup {t})
      BY <1>2, <2>2, <2>3, <3>1, <3>2 DEF Waits
    <3> QED  BY <1>1, <1>5, <2>2, <2>4, <2>5, <3>2, <3>3, <3>4
  <2>6. CASE g.mode = "race"
    <3>1. PICK k, X : /\ X = members \ (H \cup {t})
                      /\ k = [h EXCEPT !.winner = t, !.status = "complete", !.cancelled = X]
      OBVIOUS
    <3>2. /\ k \in Group(members) /\ k.status = "complete"
          /\ k.completed = h.completed /\ k.failed = h.failed
          /\ k.mode = h.mode /\ k.task_ids = members
          /\ k.winner = t /\ k.cancelled = X
      <4>1. X \in SUBSET members /\ h \in Group(members)
        BY <2>2, <3>1
      <4> QED  BY <1>1, <3>1, <4>1 DEF Group
    <3>3. Groups!success(g, t) = k
      BY <1>2, <2>1, <2>3, <2>6, <3>1 DEF Groups!success
    <3>4. WonBy(k, t, H)
      BY <1>2, <2>2, <2>6, <3>1, <3>2 DEF WonBy
    <3> QED  BY <1>1, <1>5, <2>2, <2>4, <2>6, <3>2, <3>3, <3>4
  <2> QED  BY <1>2, <2>5, <2>6
<1> QED  BY <1>1, <1>3, <1>4, <1>5

(* A race that is won hears nothing more.                                  *)
LEMMA WonStaysWon ==
    ASSUME NEW g, NEW e, g.winner # Groups!NoWinner
    PROVE  Groups!result(g, e) = g
BY DEF Groups!result

LEMMA NextResult ==
    ASSUME NEW r, NEW n \in Nat, NEW e, e = r[n + 1], NEW H, H = heardOf(r, n)
    PROVE  /\ heardOf(r, n + 1) = H \cup {e.task}
           /\ e.ok /\ e.task \notin H => /\ wins(r, n + 1) = wins(r, n) \cup {n + 1}
                                         /\ winners(r, n + 1) = winners(r, n) \cup {e.task}
           /\ ~(e.ok /\ e.task \notin H) => /\ wins(r, n + 1) = wins(r, n)
                                            /\ winners(r, n + 1) = winners(r, n)
<1>1. 1..(n + 1) = (1..n) \cup {n + 1} /\ (n + 1) - 1 = n /\ n + 1 \notin 1..n
  OBVIOUS
<1>2. \A i : i \in wins(r, n + 1) <=> \/ i \in wins(r, n)
                                      \/ i = n + 1 /\ e.ok /\ e.task \notin H
  BY <1>1, Zenon DEF wins
<1>3. heardOf(r, n + 1) = H \cup {e.task}
  BY <1>1 DEF heardOf
<1>4. CASE e.ok /\ e.task \notin H
  <2>1. wins(r, n + 1) = wins(r, n) \cup {n + 1}
    BY <1>2, <1>4
  <2>2. winners(r, n + 1) = winners(r, n) \cup {e.task}
    BY <2>1 DEF winners
  <2> QED  BY <1>3, <1>4, <2>1, <2>2
<1>5. CASE ~(e.ok /\ e.task \notin H)
  <2>1. wins(r, n + 1) = wins(r, n)
    BY <1>2, <1>5
  <2> QED  BY <1>3, <1>5, <2>1 DEF winners
<1> QED  BY <1>4, <1>5

(* What a group is after n RESULTs.                                        *)
Settled(mode, members, r, g, n) ==
    /\ g[n] \in Group(members) /\ g[n].mode = mode
    /\ heardOf(r, n) \subseteq members
    /\ mode = "gather" => Waits(g[n], winners(r, n), heardOf(r, n))
    /\ mode = "race" /\ wins(r, n) = {} => Waits(g[n], {}, heardOf(r, n))
    /\ mode = "race" /\ wins(r, n) # {} =>
         \E w \in wins(r, n) : /\ \A v \in wins(r, n) : w <= v
                               /\ WonBy(g[n], r[w].task, heardOf(r, w - 1))

LEMMA GroupSettles ==
    ASSUME NEW mode, NEW members, NEW r, NEW g, BroadcastTo(mode, members, r, g),
           NEW n \in Nat, Settled(mode, members, r, g, n)
    PROVE  Settled(mode, members, r, g, n + 1)
<1>1. PICK e, H, G, h :
        e = r[n + 1] /\ H = heardOf(r, n) /\ G = g[n] /\ h = g[n + 1]
  OBVIOUS
<1>2. /\ n + 1 \in Nat \ {0}
      /\ mode \in {"gather", "race"} /\ Groups!NoWinner \notin members
      /\ e.task \in members /\ h = Groups!result(G, e)
  BY <1>1 DEF BroadcastTo
<1>3. G \in Group(members) /\ G.mode = mode /\ H \subseteq members
  BY <1>1 DEF Settled
<1>4. /\ heardOf(r, n + 1) = H \cup {e.task} /\ H \cup {e.task} \subseteq members
      /\ e.ok /\ e.task \notin H => wins(r, n + 1) = wins(r, n) \cup {n + 1}
                                 /\ winners(r, n + 1) = winners(r, n) \cup {e.task}
      /\ ~(e.ok /\ e.task \notin H) => wins(r, n + 1) = wins(r, n)
                                    /\ winners(r, n + 1) = winners(r, n)
  BY <1>1, <1>2, <1>3, NextResult
<1>5. CASE mode = "gather"
  <2>1. PICK C : C = winners(r, n)
    OBVIOUS
  <2>2. Waits(G, C, H)
    BY <1>1, <1>5, <2>1 DEF Settled
  <2>3. /\ h \in Group(members) /\ h.mode = mode
        /\ e.task \in H => h = G
        /\ e.task \notin H /\ ~e.ok => Waits(h, C, H \cup {e.task})
        /\ e.task \notin H /\ e.ok => Waits(h, C \cup {e.task}, H \cup {e.task})
    <3>1. /\ Groups!NoWinner \notin members
          /\ G \in Group(members) /\ H \subseteq members
          /\ Waits(G, C, H) /\ e.task \in members /\ h = Groups!result(G, e)
      BY <1>2, <1>3, <2>2
    <3>2. /\ h \in Group(members) /\ h.mode = G.mode
          /\ e.task \in H => h = G
          /\ e.task \notin H /\ ~e.ok => Waits(h, C, H \cup {e.task})
          /\ e.task \notin H /\ e.ok /\ G.mode = "gather" =>
                Waits(h, C \cup {e.task}, H \cup {e.task})
          /\ e.task \notin H /\ e.ok /\ G.mode = "race" => WonBy(h, e.task, H)
      BY <3>1, ResultHeard
    <3> QED  BY <1>3, <1>5, <3>2
  <2>4. e.task \in H => H \cup {e.task} = H
    OBVIOUS
  <2>5. Waits(h, winners(r, n + 1), heardOf(r, n + 1))
    <3>1. CASE e.task \in H
      BY <1>4, <2>1, <2>2, <2>3, <2>4, <3>1
    <3>2. CASE e.task \notin H
      BY <1>4, <2>1, <2>3, <3>2
    <3> QED  BY <3>1, <3>2
  <2> QED  BY <1>1, <1>4, <1>5, <2>3, <2>5 DEF Settled
<1>6. CASE mode = "race" /\ wins(r, n) = {}
  <2>1. Waits(G, {}, H)
    BY <1>1, <1>6 DEF Settled
  <2>2. /\ h \in Group(members) /\ h.mode = mode
        /\ e.task \in H => h = G
        /\ e.task \notin H /\ ~e.ok => Waits(h, {}, H \cup {e.task})
        /\ e.task \notin H /\ e.ok => WonBy(h, e.task, H)
    <3>1. /\ Groups!NoWinner \notin members
          /\ G \in Group(members) /\ H \subseteq members
          /\ Waits(G, {}, H) /\ e.task \in members /\ h = Groups!result(G, e)
      BY <1>2, <1>3, <2>1
    <3>2. /\ h \in Group(members) /\ h.mode = G.mode
          /\ e.task \in H => h = G
          /\ e.task \notin H /\ ~e.ok => Waits(h, {}, H \cup {e.task})
          /\ e.task \notin H /\ e.ok /\ G.mode = "gather" =>
                Waits(h, {} \cup {e.task}, H \cup {e.task})
          /\ e.task \notin H /\ e.ok /\ G.mode = "race" => WonBy(h, e.task, H)
      BY <3>1, ResultHeard
    <3> QED  BY <1>3, <1>6, <3>2
  <2>3. CASE e.task \in H
    <3>1. H \cup {e.task} = H
      BY <2>3
    <3>2. Waits(h, {}, heardOf(r, n + 1)) /\ wins(r, n + 1) = {}
      BY <1>4, <1>6, <2>1, <2>2, <2>3, <3>1
    <3> QED  BY <1>1, <1>4, <1>6, <2>2, <3>2 DEF Settled
  <2>4. CASE e.task \notin H /\ ~e.ok
    <3>1. Waits(h, {}, heardOf(r, n + 1)) /\ wins(r, n + 1) = {}
      BY <1>4, <1>6, <2>2, <2>4
    <3> QED  BY <1>1, <1>4, <1>6, <2>2, <3>1 DEF Settled
  <2>5. CASE e.task \notin H /\ e.ok
    <3>1. wins(r, n + 1) = {n + 1} /\ (n + 1) - 1 = n
      BY <1>4, <1>6, <2>5
    <3>2. WonBy(h, r[n + 1].task, heardOf(r, (n + 1) - 1))
      BY <1>1, <2>2, <2>5, <3>1
    <3>3. \A v \in wins(r, n + 1) : n + 1 <= v
      BY <3>1
    <3> QED  BY <1>1, <1>4, <1>6, <2>2, <3>1, <3>2, <3>3 DEF Settled
  <2> QED  BY <2>3, <2>4, <2>5
<1>7. CASE mode = "race" /\ wins(r, n) # {}
  <2>1. PICK w \in wins(r, n) : /\ \A v \in wins(r, n) : w <= v
                                /\ WonBy(G, r[w].task, heardOf(r, w - 1))
    BY <1>1, <1>7 DEF Settled
  <2>2. w \in 1..n /\ w \in Nat \ {0} /\ w <= n + 1
    BY <2>1 DEF wins
  <2>3. G.winner # Groups!NoWinner
    <3>1. r[w].task \in members
      BY <2>2 DEF BroadcastTo
    <3> QED  BY <1>2, <2>1, <3>1 DEF WonBy
  <2>4. h = G
    BY <1>2, <2>3, WonStaysWon
  <2>5. w \in wins(r, n + 1) /\ \A v \in wins(r, n + 1) : w <= v
    BY <1>4, <2>1, <2>2
  <2> QED  BY <1>1, <1>3, <1>4, <1>7, <2>1, <2>4, <2>5 DEF Settled
<1> QED  BY <1>2, <1>5, <1>6, <1>7

(* A group of any tasks and any RESULTs of them.  A gather is over when    *)
(* each task has had a RESULT and not before, with the tasks whose first   *)
(* RESULT was a success, and has failed if there is none.  A race is won   *)
(* by the first success for good, which cancels just the tasks that have   *)
(* had no RESULT by then, and is lost when all tasks have failed.          *)
THEOREM GroupsAreSettled ==
    ASSUME NEW mode, NEW members, NEW r, NEW g, BroadcastTo(mode, members, r, g),
           NEW n \in Nat
    PROVE  LET over == g[n].status \in {"complete", "failed"}
           IN  /\ mode = "gather" =>
                    /\ over <=> heardOf(r, n) = members
                    /\ over => (g[n].status = "failed" <=> winners(r, n) = {})
                    /\ g[n].completed = winners(r, n)
                    /\ g[n].failed = heardOf(r, n) \ winners(r, n)
                    /\ g[n].cancelled = {}
               /\ mode = "race" /\ wins(r, n) = {} =>
                    /\ over <=> heardOf(r, n) = members
                    /\ g[n].winner = Groups!NoWinner /\ g[n].cancelled = {}
               /\ mode = "race" =>
                    \A w \in wins(r, n) : (\A v \in wins(r, n) : w <= v) =>
                        /\ g[n].winner = r[w].task /\ g[n].status = "complete"
                        /\ g[n].cancelled = members \ heardOf(r, w)
<1>1. members # {} /\ Groups!NoWinner \notin members
  BY DEF BroadcastTo
<1>2. Settled(mode, members, r, g, 0)
  <2>1. 1..0 = {}
    OBVIOUS
  <2>2. heardOf(r, 0) = {} /\ wins(r, 0) = {} /\ winners(r, 0) = {}
    BY <2>1 DEF heardOf, wins, winners
  <2>3. g[0] = Groups!broadcast_task(mode, members) /\ mode \in {"gather", "race"}
    BY DEF BroadcastTo
  <2>4. g[0] \in Group(members) /\ g[0].mode = mode /\ Waits(g[0], {}, {})
    BY <1>1, <2>3 DEF Groups!broadcast_task, Group, Waits
  <2> QED  BY <2>2, <2>4 DEF Settled
<1>3. \A k \in Nat : Settled(mode, members, r, g, k)
  <2>1. PICK S : S = {k \in Nat : Settled(mode, members, r, g, k)}
    OBVIOUS
  <2>2. 0 \in S /\ \A k \in Nat : k \in S => k + 1 \in S
    BY <1>2, <2>1, GroupSettles
  <2>3. Nat \subseteq S
    BY <2>2, EveryNumber
  <2> QED  BY <2>1, <2>3
<1>4. PICK h : h = g[n] /\ Settled(mode, members, r, g, n) /\ h.task_ids = members
  BY <1>3 DEF Settled, Group
<1>5. ASSUME NEW C, Waits(h, C, heardOf(r, n))
      PROVE  /\ h.status \in {"complete", "failed"} <=> heardOf(r, n) = members
             /\ h.status \in {"complete", "failed"} => (h.status = "failed" <=> C = {})
             /\ h.completed = C /\ h.failed = heardOf(r, n) \ C
             /\ h.winner = Groups!NoWinner /\ h.cancelled = {}
  BY <1>1, <1>4, <1>5 DEF Waits
<1>6. CASE mode = "gather"
  BY <1>4, <1>5, <1>6 DEF Settled
<1>7. CASE mode = "race" /\ wins(r, n) = {}
  BY <1>4, <1>5, <1>7 DEF Settled
<1>8. CASE mode = "race" /\ wins(r, n) # {}
  <2>1. SUFFICES ASSUME NEW w \in wins(r, n), \A v \in wins(r, n) : w <= v
                 PROVE  /\ h.winner = r[w].task /\ h.status = "complete"
                        /\ h.cancelled = members \ heardOf(r, w)
    BY <1>4, <1>8
  <2>2. PICK u \in wins(r, n) : /\ \A v \in wins(r, n) : u <= v
                                /\ WonBy(h, r[u].task, heardOf(r, u - 1))
    BY <1>4, <1>8 DEF Settled
  <2>3. u \in Nat \ {0} /\ w \in Nat \ {0}
    BY <2>1, <2>2 DEF wins
  <2>4. u = w
    <3>1. u <= w /\ w <= u
      BY <2>1, <2>2
    <3> QED  BY <2>3, <3>1
  <2>5. heardOf(r, w) = heardOf(r, w - 1) \cup {r[w].task}
    <3>1. 1..w = (1..(w - 1)) \cup {w}
      BY <2>3
    <3> QED  BY <3>1 DEF heardOf
  <2> QED  BY <1>4, <2>2, <2>4, <2>5 DEF WonBy
<1> QED
  <2>1. mode \in {"gather", "race"}
    BY DEF BroadcastTo
  <2> QED  BY <1>4, <1>6, <1>7, <1>8, <2>1

=============================================================================
