------------------------------ MODULE Dispatch ------------------------------
(***************************************************************************)
(* How a task travels from submit_task to an agent and its RESULT back:    *)
(* the dispatch loop, the route loop, the watchdog and cancel_task and     *)
(* drain_agent of application/orchestrator.py, with the run loop of        *)
(* agents/base.py and the /task-complete endpoint of web/routers.          *)
(*                                                                         *)
(* An agent's run loop takes a task from the agent's inbox and waits for   *)
(* its end; the end comes from outside, by the endpoint, and the loop sees *)
(* it at its next poll, half a second later.  Until then the agent is IDLE *)
(* for the dispatch loop while its run loop is not back at the inbox.      *)
(*                                                                         *)
(* Everything runs on one event loop: an action is the code between two    *)
(* awaits that suspend.  The queue is a bag: TaskQueue models its order.   *)
(* find_idle_worker takes the first IDLE worker whose breaker lets it, so  *)
(* which one it is stays open here; CircuitBreaker models the breaker.     *)
(***************************************************************************)
EXTENDS Integers, Sequences, FiniteSets

CONSTANTS
    Task, Agent,
    NoTask, NoAgent,
    Capable,         \* agents with the tags and in the group a task asks for
    Target,          \* task.target_agent, or NoAgent
    MaxRetries,      \* task.max_retries
    DlqMaxRetries,   \* config.dlq_max_retries
    MaxEscalations,  \* config.max_task_escalations; 0 when not enabled
    WatchdogOn,      \* whether the watchdog may find an agent overdue
    Cancellable,     \* tasks a client may cancel
    Expirable,       \* tasks with a TTL
    Drainable,       \* agents a client may drain
    Fallible         \* agents whose _dispatch_task may raise

ASSUME DispatchAssumption ==
    /\ NoTask \notin Task
    /\ NoAgent \notin Agent
    /\ Capable \in [Task -> SUBSET Agent]
    /\ Target \in [Task -> Agent \cup {NoAgent}]
    /\ MaxRetries \in Nat
    /\ DlqMaxRetries \in Nat \ {0}
    /\ MaxEscalations \in Nat
    /\ WatchdogOn \in BOOLEAN
    /\ Expirable \subseteq Task

VARIABLES
    \* the orchestrator
    queue,        \* how many entries of each task the queue holds
    hand,         \* the task the dispatch loop got and has not settled
    active,       \* _active_tasks
    tombstones,   \* _cancelled_task_ids
    completed,    \* _completed_tasks
    failed,       \* _failed_tasks
    dlq,          \* _dlq
    retries,      \* task.retry_count
    attempts,     \* task.metadata["_retry_count"]
    escalations,  \* task.escalation_count
    excluded,     \* task.excluded_agents
    registered,   \* registry._agents
    busySince,    \* registry._busy_since: agents with a watchdog timestamp
    draining,     \* _draining_agents
    bus,          \* RESULTs on their way to the route loop
    \* the agents
    status,       \* agent.status
    current,      \* agent._current_task
    inbox,        \* agent._task_queue
    running,      \* the task the run loop is in the middle of
    \* history
    submitted,    \* tasks given to submit_task
    cancelled,    \* tasks cancel_task ended, before anything else did
    dispatched,   \* how often each task was sent to an agent
    dropped       \* tasks whose RESULT was discarded as cancelled

taskVars == <<queue, hand, active, tombstones, completed, failed, dlq>>
countVars == <<retries, attempts, escalations, excluded>>
agentVars == <<status, current, inbox, running>>
registryVars == <<registered, busySince, draining>>
historyVars == <<submitted, cancelled, dispatched, dropped>>
vars == <<taskVars, countVars, registryVars, bus, agentVars, historyVars>>

Status == {"IDLE", "BUSY", "ERROR", "STOPPED", "DRAINING"}

Error == {"none", "timeout", "watchdog_timeout"}

Result == [agent : Agent, task : Task \cup {NoTask}, error : Error]

(* The run loop waits at the agent's inbox.                                *)
atInbox(a) == running[a] = NoTask /\ status[a] \notin {"STOPPED", "ERROR"}

publish(a, t, e) == bus' = Append(bus, [agent |-> a, task |-> t, error |-> e])

resolved(t) == t \in completed \cup failed \cup dlq \cup cancelled

-----------------------------------------------------------------------------

Init ==
    /\ queue = [t \in Task |-> 0]
    /\ hand = NoTask
    /\ active = {} /\ tombstones = {} /\ completed = {} /\ failed = {} /\ dlq = {}
    /\ retries = [t \in Task |-> 0]
    /\ attempts = [t \in Task |-> 0]
    /\ escalations = [t \in Task |-> 0]
    /\ excluded = [t \in Task |-> {}]
    /\ registered = Agent
    /\ busySince = {} /\ draining = {}
    /\ bus = <<>>
    /\ status = [a \in Agent |-> "IDLE"]
    /\ current = [a \in Agent |-> NoTask]
    /\ inbox = [a \in Agent |-> <<>>]
    /\ running = [a \in Agent |-> NoTask]
    /\ submitted = {} /\ cancelled = {} /\ dropped = {}
    /\ dispatched = [t \in Task |-> 0]

-----------------------------------------------------------------------------
(* The clients.                                                            *)

submit_task(t) ==
    /\ t \notin submitted
    /\ submitted' = submitted \cup {t}
    /\ queue' = [queue EXCEPT ![t] = @ + 1]
    /\ UNCHANGED <<hand, active, tombstones, completed, failed, dlq, countVars,
                   registryVars, bus, agentVars, cancelled, dispatched, dropped>>

(* An active task gets a tombstone for its RESULT (interrupting the agent  *)
(* changes nothing the orchestrator sees); any other leaves the queue.  A  *)
(* task in the dispatch loop's hand is in neither place: the call finds    *)
(* nothing and changes nothing.                                            *)
cancel_task(t) ==
    /\ t \in Cancellable
    /\ \/ /\ t \in active
          /\ tombstones' = tombstones \cup {t}
          /\ UNCHANGED queue
       \/ /\ t \notin active
          /\ queue[t] > 0
          /\ queue' = [queue EXCEPT ![t] = 0]
          /\ UNCHANGED tombstones
    /\ cancelled' = IF resolved(t) THEN cancelled ELSE cancelled \cup {t}
    /\ UNCHANGED <<hand, active, completed, failed, dlq, countVars, registryVars,
                   bus, agentVars, submitted, dispatched, dropped>>

(* stop() of an agent, followed by its removal from the registry.          *)
stopAndUnregister(a) ==
    /\ status' = [status EXCEPT ![a] = "STOPPED"]
    /\ running' = [running EXCEPT ![a] = NoTask]
    /\ registered' = registered \ {a}
    /\ draining' = draining \ {a}

drain_agent(a) ==
    /\ a \in Drainable \cap registered
    /\ \/ /\ status[a] = "IDLE"
          /\ stopAndUnregister(a)
       \/ /\ status[a] = "BUSY"
          /\ status' = [status EXCEPT ![a] = "DRAINING"]
          /\ draining' = draining \cup {a}
          /\ UNCHANGED <<running, registered>>
    /\ UNCHANGED <<taskVars, countVars, busySince, bus, current, inbox, historyVars>>

-----------------------------------------------------------------------------
(* The dispatch loop.                                                      *)

(* The loop yields after each dispatch, so a run loop that waits at its    *)
(* inbox has taken the task before the dispatch loop looks again.          *)
get ==
    /\ hand = NoTask
    /\ \A a \in Agent : atInbox(a) => inbox[a] = <<>>
    /\ \E t \in Task :
        /\ queue[t] > 0
        /\ queue' = [queue EXCEPT ![t] = @ - 1]
        /\ hand' = t
    /\ UNCHANGED <<active, tombstones, completed, failed, dlq, countVars,
                   registryVars, bus, agentVars, historyVars>>

skipCancelled ==
    /\ hand \in tombstones
    /\ tombstones' = tombstones \ {hand}
    /\ hand' = NoTask
    /\ UNCHANGED <<queue, active, completed, failed, dlq, countVars, registryVars,
                   bus, agentVars, historyVars>>

(* The TTL of a queued task is looked at when the dispatch loop meets it.  *)
expire ==
    /\ hand \in Expirable \ tombstones
    /\ failed' = failed \cup {hand}
    /\ hand' = NoTask
    /\ UNCHANGED <<queue, active, tombstones, completed, dlq, countVars,
                   registryVars, bus, agentVars, historyVars>>

(* The agents the task in hand may go to now.                              *)
idleAgents(t) ==
    {a \in registered :
        /\ status[a] = "IDLE"
        /\ IF Target[t] # NoAgent
           THEN a = Target[t]
           ELSE a \in Capable[t] \ excluded[t]}

sendTask(a) ==
    /\ hand # NoTask /\ hand \notin tombstones
    /\ a \in idleAgents(hand)
    /\ busySince' = busySince \cup {a}
    /\ active' = active \cup {hand}
    /\ inbox' = [inbox EXCEPT ![a] = Append(@, hand)]
    /\ dispatched' = [dispatched EXCEPT ![hand] = @ + 1]
    /\ hand' = NoTask
    /\ UNCHANGED <<queue, tombstones, completed, failed, dlq, countVars, registered,
                   draining, bus, status, current, running, submitted, cancelled,
                   dropped>>

(* Mutants: a task without an agent is not put back; a dead-lettered task  *)
(* is put back all the same.                                               *)
noAgent_drops ==
    /\ hand # NoTask /\ hand \notin tombstones
    /\ idleAgents(hand) = {}
    /\ attempts' = [attempts EXCEPT ![hand] = @ + 1]
    /\ dlq' = IF attempts[hand] + 1 >= DlqMaxRetries THEN dlq \cup {hand} ELSE dlq
    /\ hand' = NoTask
    /\ UNCHANGED <<queue, active, tombstones, completed, failed, retries, escalations,
                   excluded, registryVars, bus, agentVars, historyVars>>

noAgent_dead_and_back ==
    /\ hand # NoTask /\ hand \notin tombstones
    /\ idleAgents(hand) = {}
    /\ attempts' = [attempts EXCEPT ![hand] = @ + 1]
    /\ dlq' = IF attempts[hand] + 1 >= DlqMaxRetries THEN dlq \cup {hand} ELSE dlq
    /\ queue' = [queue EXCEPT ![hand] = @ + 1]
    /\ hand' = NoTask
    /\ UNCHANGED <<active, tombstones, completed, failed, retries, escalations,
                   excluded, registryVars, bus, agentVars, historyVars>>

(* A task for an agent that is gone, or that has waited too often for an   *)
(* agent, goes to the dead letter queue; any other is put back.            *)
noAgent ==
    /\ hand # NoTask /\ hand \notin tombstones
    /\ idleAgents(hand) = {}
    /\ LET gone == Target[hand] # NoAgent /\ Target[hand] \notin registered
           last == attempts[hand] + 1 >= DlqMaxRetries
       IN  /\ attempts' = IF gone THEN attempts
                                  ELSE [attempts EXCEPT ![hand] = @ + 1]
           /\ dlq' = IF gone \/ last THEN dlq \cup {hand} ELSE dlq
           /\ queue' = IF gone \/ last THEN queue
                                       ELSE [queue EXCEPT ![hand] = @ + 1]
    /\ hand' = NoTask
    /\ UNCHANGED <<active, tombstones, completed, failed, retries, escalations,
                   excluded, registryVars, bus, agentVars, historyVars>>

-----------------------------------------------------------------------------
(* The agents.                                                             *)

(* _run_loop: get() from the inbox and _set_busy, whatever the status was. *)
takeTask(a) ==
    /\ atInbox(a)
    /\ inbox[a] # <<>>
    /\ running' = [running EXCEPT ![a] = Head(inbox[a])]
    /\ current' = [current EXCEPT ![a] = Head(inbox[a])]
    /\ status' = [status EXCEPT ![a] = "BUSY"]
    /\ inbox' = [inbox EXCEPT ![a] = Tail(@)]
    /\ UNCHANGED <<taskVars, countVars, registryVars, bus, historyVars>>

(* _set_idle leaves STOPPED, ERROR and DRAINING as they are.               *)
set_idle(a) ==
    /\ current' = [current EXCEPT ![a] = NoTask]
    /\ status' = [status EXCEPT ![a] =
                    IF @ \in {"STOPPED", "ERROR", "DRAINING"} THEN @ ELSE "IDLE"]

(* POST /agents/{a}/task-complete: handle_output, for a BUSY agent only.   *)
taskComplete(a) ==
    /\ a \in registered
    /\ status[a] = "BUSY"
    /\ publish(a, current[a], "none")
    /\ set_idle(a)
    /\ UNCHANGED <<taskVars, countVars, registryVars, inbox, running, historyVars>>

(* The run loop polls and finds that its task is no longer the current one.*)
waitReturns(a) ==
    /\ running[a] # NoTask
    /\ current[a] # running[a]
    /\ running' = [running EXCEPT ![a] = NoTask]
    /\ UNCHANGED <<taskVars, countVars, registryVars, bus, status, current, inbox,
                   historyVars>>

(* Mutants: the timeout is not reported; it is reported but the run loop   *)
(* goes on with the task.                                                  *)
handle_task_timeout_silent(a) ==
    /\ running[a] # NoTask
    /\ set_idle(a)
    /\ running' = [running EXCEPT ![a] = NoTask]
    /\ UNCHANGED <<taskVars, countVars, registryVars, bus, inbox, historyVars>>

handle_task_timeout_goes_on(a) ==
    /\ running[a] # NoTask
    /\ bus = <<>>
    /\ publish(a, running[a], "timeout")
    /\ UNCHANGED <<taskVars, countVars, registryVars, agentVars, historyVars>>

(* The run loop's wait_for runs out, which it can until the poll.          *)
handle_task_timeout(a) ==
    /\ running[a] # NoTask
    /\ publish(a, running[a], "timeout")
    /\ set_idle(a)
    /\ running' = [running EXCEPT ![a] = NoTask]
    /\ UNCHANGED <<taskVars, countVars, registryVars, inbox, historyVars>>

(* _dispatch_task raises: the run loop ends without a RESULT.              *)
dispatchTaskRaises(a) ==
    /\ a \in Fallible
    /\ running[a] # NoTask /\ running[a] = current[a]
    /\ status' = [status EXCEPT ![a] = "ERROR"]
    /\ running' = [running EXCEPT ![a] = NoTask]
    /\ UNCHANGED <<taskVars, countVars, registryVars, bus, current, inbox, historyVars>>

(* _recovery_loop stops and starts an agent in ERROR: a new run loop, the  *)
(* old inbox and the old _current_task.                                    *)
recover(a) ==
    /\ a \in registered
    /\ status[a] = "ERROR"
    /\ status' = [status EXCEPT ![a] = "IDLE"]
    /\ UNCHANGED <<taskVars, countVars, registryVars, bus, current, inbox, running,
                   historyVars>>

(* _watchdog_loop reports an agent whose timestamp is too old.  Bound of   *)
(* the model: one such RESULT of an agent at a time is on its way.         *)
watchdog(a) ==
    /\ WatchdogOn
    /\ a \in busySince \cap registered
    /\ \A i \in 1..Len(bus) : bus[i].agent = a => bus[i].error # "watchdog_timeout"
    /\ publish(a, current[a], "watchdog_timeout")
    /\ UNCHANGED <<taskVars, countVars, registryVars, agentVars, historyVars>>

-----------------------------------------------------------------------------
(* The route loop, on the RESULT at the head of its bus queue.             *)

result == Head(bus)

escalates(t) ==
    /\ result.error = "watchdog_timeout"
    /\ t \in active
    /\ escalations[t] < MaxEscalations

(* Mutants: one retry too many; a task that is no longer active is retried. *)
retries_left_one_more(t) == t \in active /\ retries[t] <= MaxRetries

retries_left_inactive(t) == t # NoTask /\ retries[t] < MaxRetries

retries_left(t) == t \in active /\ retries[t] < MaxRetries

(* A RESULT of a cancelled task is dropped: nothing else is looked at.     *)
dropResult ==
    /\ bus # <<>> /\ result.task \in tombstones
    /\ tombstones' = tombstones \ {result.task}
    /\ active' = active \ {result.task}
    /\ dropped' = dropped \cup {result.task}
    /\ bus' = Tail(bus)
    /\ UNCHANGED <<queue, hand, completed, failed, dlq, countVars, registryVars,
                   agentVars, submitted, cancelled, dispatched>>

(* A draining agent is stopped once a RESULT of it was seen through.       *)
drainStop(a) ==
    /\ IF a \in draining
       THEN \/ a \in registered /\ stopAndUnregister(a)
            \/ /\ a \notin registered
               /\ draining' = draining \ {a}
               /\ UNCHANGED <<status, running, registered>>
       ELSE UNCHANGED <<status, running, registered, draining>>
    /\ UNCHANGED <<current, inbox>>

taskSucceeds ==
    /\ bus # <<>> /\ result.task \notin tombstones
    /\ result.error = "none"
    /\ completed' = completed \cup {result.task}
    /\ active' = active \ {result.task}
    /\ busySince' = busySince \ {result.agent}
    /\ drainStop(result.agent)
    /\ bus' = Tail(bus)
    /\ UNCHANGED <<queue, hand, tombstones, failed, dlq, countVars, historyVars>>

escalate ==
    /\ bus # <<>> /\ result.task \notin tombstones
    /\ escalates(result.task)
    /\ escalations' = [escalations EXCEPT ![result.task] = @ + 1]
    /\ excluded' = [excluded EXCEPT ![result.task] = @ \cup {result.agent}]
    /\ queue' = [queue EXCEPT ![result.task] = @ + 1]
    /\ busySince' = busySince \ {result.agent}
    /\ bus' = Tail(bus)
    /\ UNCHANGED <<hand, active, tombstones, completed, failed, dlq, retries,
                   attempts, registered, draining, agentVars, historyVars>>

(* Mutant: retry_count is not raised.                                      *)
retry_uncounted ==
    /\ bus # <<>> /\ result.task \notin tombstones
    /\ result.error # "none"
    /\ ~escalates(result.task)
    /\ retries_left(result.task)
    /\ queue' = [queue EXCEPT ![result.task] = @ + 1]
    /\ busySince' = busySince \ {result.agent}
    /\ bus' = Tail(bus)
    /\ UNCHANGED <<hand, active, tombstones, completed, failed, dlq, countVars,
                   registered, draining, agentVars, historyVars>>

retry ==
    /\ bus # <<>> /\ result.task \notin tombstones
    /\ result.error # "none"
    /\ ~escalates(result.task)
    /\ retries_left(result.task)
    /\ retries' = [retries EXCEPT ![result.task] = @ + 1]
    /\ queue' = [queue EXCEPT ![result.task] = @ + 1]
    /\ busySince' = busySince \ {result.agent}
    /\ bus' = Tail(bus)
    /\ UNCHANGED <<hand, active, tombstones, completed, failed, dlq, attempts,
                   escalations, excluded, registered, draining, agentVars,
                   historyVars>>

(* Any other error is final, for a task nobody has heard of too.           *)
taskFails ==
    /\ bus # <<>> /\ result.task \notin tombstones
    /\ result.error # "none"
    /\ ~escalates(result.task) /\ ~retries_left(result.task)
    /\ failed' = failed \cup {result.task}
    /\ active' = active \ {result.task}
    /\ busySince' = busySince \ {result.agent}
    /\ drainStop(result.agent)
    /\ bus' = Tail(bus)
    /\ UNCHANGED <<queue, hand, tombstones, completed, dlq, countVars, historyVars>>

route == dropResult \/ taskSucceeds \/ escalate \/ retry \/ taskFails

-----------------------------------------------------------------------------

settle == skipCancelled \/ expire \/ (\E a \in Agent : sendTask(a)) \/ noAgent

runLoop(a) == takeTask(a) \/ waitReturns(a) \/ handle_task_timeout(a)

Next ==
    \/ \E t \in Task : submit_task(t) \/ cancel_task(t)
    \/ \E a \in Agent :
          \/ drain_agent(a) \/ runLoop(a) \/ taskComplete(a)
          \/ dispatchTaskRaises(a) \/ recover(a) \/ watchdog(a)
    \/ get \/ settle \/ route

Spec == Init /\ [][Next]_vars

(* The loops keep running.  A run loop that waits is ended by its timeout  *)
(* if by nothing else; no client has to do anything.                       *)
Fairness ==
    /\ WF_vars(get) /\ WF_vars(settle) /\ WF_vars(route)
    /\ \A a \in Agent :
         /\ WF_vars(takeTask(a))
         /\ WF_vars(waitReturns(a) \/ handle_task_timeout(a))

FairSpec == Spec /\ Fairness

-----------------------------------------------------------------------------
(* Properties.                                                             *)

TypeOK ==
    /\ queue \in [Task -> Nat]
    /\ hand \in Task \cup {NoTask}
    /\ active \subseteq Task /\ tombstones \subseteq Task
    /\ completed \subseteq Task \cup {NoTask}
    /\ failed \subseteq Task \cup {NoTask}
    /\ dlq \subseteq Task
    /\ retries \in [Task -> Nat]
    /\ attempts \in [Task -> Nat]
    /\ escalations \in [Task -> Nat]
    /\ excluded \in [Task -> SUBSET Agent]
    /\ registered \subseteq Agent /\ busySince \subseteq Agent
    /\ draining \subseteq Agent
    /\ bus \in Seq(Result)
    /\ status \in [Agent -> Status]
    /\ current \in [Agent -> Task \cup {NoTask}]
    /\ inbox \in [Agent -> Seq(Task)]
    /\ running \in [Agent -> Task \cup {NoTask}]
    /\ submitted \subseteq Task /\ cancelled \subseteq Task /\ dropped \subseteq Task
    /\ dispatched \in [Task -> Nat]

inInbox(t, a) == \E i \in 1..Len(inbox[a]) : inbox[a][i] = t

(* Somewhere a step is still to come that moves the task on.               *)
inFlight(t) ==
    \/ queue[t] > 0
    \/ hand = t
    \/ \E a \in registered : inInbox(t, a) \/ (running[a] = t /\ current[a] = t)
    \/ \E i \in 1..Len(bus) : bus[i].task = t

(* No task is forgotten: until it has ended one way or another, some       *)
(* coroutine holds it.  The retry, the requeue and the cancellation of a   *)
(* task about to be retried each move it between two holders.              *)
NoTaskLost == \A t \in submitted : resolved(t) \/ inFlight(t)

copies(t) ==
    queue[t] + (IF hand = t THEN 1 ELSE 0)
    + Cardinality({p \in Agent \X (1..Cardinality(Task)) :
                      p[2] <= Len(inbox[p[1]]) /\ inbox[p[1]][p[2]] = t})
    + Cardinality({a \in Agent : running[a] = t /\ current[a] = t})

(* A task is in one place at a time: no two agents work on it at once.     *)
(* The window in which a finished task can still time out does not change  *)
(* that; a RESULT of the watchdog would.                                   *)
OneCopy == \A t \in Task : copies(t) <= 1

(* A task that has ended does not run again.                               *)
EndedStaysEnded ==
    \A t \in completed \cup failed \cup dlq : t # NoTask => copies(t) = 0

(* However retries, requeues, escalations, cancellations and watchdog      *)
(* RESULTs interleave, a task goes to an agent at most once, and once more *)
(* for each retry and each escalation it is allowed.                       *)
DispatchesBounded ==
    \A t \in Task : dispatched[t] <= 1 + MaxRetries + MaxEscalations

(* Why: every dispatch used up an entry of the queue, and what put an      *)
(* entry there was the submission, a retry or an escalation.               *)
spent(t) == dispatched[t] + queue[t] + (IF hand = t THEN 1 ELSE 0)

allowed(t) == (IF t \in submitted THEN 1 ELSE 0) + retries[t] + escalations[t]

EntriesAccounted ==
    \A t \in Task :
        /\ spent(t) <= allowed(t)
        /\ retries[t] <= MaxRetries
        /\ escalations[t] <= MaxEscalations

DispatchInv == TypeOK /\ EntriesAccounted

(* Every task that is submitted ends: it completes, fails, is dead-        *)
(* lettered or is cancelled, whether or not any agent ever answers.        *)
EveryTaskEnds ==
    \A t \in Task : t \in submitted ~> resolved(t)

(* The abstract life of a task.                                            *)
Life == INSTANCE TaskLifecycle WITH
    MaxReturns <- MaxRetries + MaxEscalations,
    returns <- [t \in Task |-> retries[t] + escalations[t]],
    state <- [t \in Task |->
        IF t \notin submitted THEN "new"
        ELSE IF t \in cancelled THEN "cancelled"
        ELSE IF t \in completed THEN "completed"
        ELSE IF t \in failed THEN "failed"
        ELSE IF t \in dlq THEN "dead"
        ELSE IF queue[t] > 0 \/ hand = t THEN "queued"
        ELSE "dispatched"]

(* The two loops and the agents give every task the life TaskLifecycle     *)
(* describes.                                                              *)
ImplementsLifecycle == Life!Spec

=============================================================================
