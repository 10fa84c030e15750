---------------------------- MODULE Supervision ----------------------------
(***************************************************************************)
(* Who stops and starts an agent.  Four do: the recovery loop, when it is  *)
(* in ERROR; _restart_agent, after too many failures; and a client, with   *)
(* reset and DELETE.  None knows of the others, and each is suspended      *)
(* while tmux works.  (drain_agent is in Dispatch.)                        *)
(*                                                                         *)
(* Agents meet here only in the recovery loop's sweep, so the module       *)
(* follows one.  _restart_agent replaces it by a new object with the same  *)
(* id: objects are numbered, and the registry says which the id means.     *)
(* Tasks are only counted: Dispatch models what becomes of them.           *)
(***************************************************************************)
EXTENDS CircuitBreaker, Sequences, FiniteSets

CONSTANTS
    MaxRecoveryAttempts,     \* max_attempts of _recovery_loop
    MaxConsecutiveFailures,  \* config of the agent
    FinalFailures,           \* bound of the model: RESULTs that fail for good
    MaxResets,               \* bound of the model: resets by a client
    MaxResults,              \* bound of the model: RESULTs on their way
    MaxLoops,                \* bound of the model: run loops of an object
    MaxJobs                  \* bound of the model: coroutines at a time

ASSUME SupervisionAssumption ==
    /\ MaxRecoveryAttempts \in Nat
    /\ MaxConsecutiveFailures \in Nat \ {0}
    /\ FinalFailures \in Nat /\ MaxResets \in Nat
    /\ MaxResults \in Nat \ {0} /\ MaxLoops \in Nat \ {0} /\ MaxJobs \in Nat \ {0}

Object == 1..FinalFailures + 1

(* An object has a run loop more if start() is called while one lives.     *)
Loop == 1..MaxLoops

Job == 1..MaxJobs

VARIABLES
    registered, \* registry._agents: the object the id means
    breaker,    \* registry._breakers
    busySince,  \* registry._busy_since: whether there is a time
    status,     \* object.status
    current,    \* object._current_task: the run loop that took it, 0 for none
    inbox,      \* how many tasks object._task_queue holds
    loop,       \* run loops: none, at the inbox, or with a task
    runTask,    \* object._run_task: the run loop stop() cancels, 0 for none
    streak,     \* _consecutive_failures
    attempts,   \* _recovery_attempts
    givenUp,    \* _permanently_failed
    bus,        \* RESULTs on their way to the route loop
    job,        \* coroutines of _restart_agent and reset_agent
    recovery,   \* where the recovery loop is, and with which object
    final,      \* how many RESULTs that fail for good there have been
    resets      \* how many resets there have been

objectVars == <<status, current, inbox, loop, runTask>>
registryVars == <<registered, breaker, busySince>>
countVars == <<streak, attempts, givenUp>>
boundVars == <<final, resets>>
vars == <<registryVars, objectVars, countVars, bus, job, recovery, boundVars>>

Status == {"IDLE", "BUSY", "ERROR", "STOPPED"}

NoJob == [what |-> "none", at |-> "end", object |-> 0]
Asleep == [at |-> "asleep", object |-> 0]

Init ==
    /\ registered = 1 /\ breaker = fresh /\ busySince = FALSE
    /\ status = [o \in Object |-> IF o = 1 THEN "IDLE" ELSE "STOPPED"]
    /\ current = [o \in Object |-> 0] /\ inbox = current
    /\ runTask = [o \in Object |-> IF o = 1 THEN 1 ELSE 0]
    /\ loop = [o \in Object |-> [l \in Loop |-> IF runTask[o] = l THEN "inbox" ELSE "none"]]
    /\ streak = 0 /\ attempts = 0 /\ givenUp = FALSE
    /\ bus = <<>> /\ job = [j \in Job |-> NoJob] /\ recovery = Asleep
    /\ final = 0 /\ resets = 0

(* The type of every variable.                                             *)
ObjectTypes ==
    /\ status \in [Object -> Status]
    /\ current \in [Object -> Loop \cup {0}]
    /\ inbox \in [Object -> 0..1]
    /\ loop \in [Object -> [Loop -> {"none", "inbox", "task"}]]
    /\ runTask \in [Object -> Loop \cup {0}]

CountTypes ==
    /\ registered \in Object /\ breaker \in Breaker /\ busySince \in BOOLEAN
    /\ streak \in Nat /\ attempts \in Nat /\ givenUp \in BOOLEAN
    /\ bus \in Seq({"success", "retried", "failed"}) /\ Len(bus) <= MaxResults
    /\ final \in 0..FinalFailures /\ resets \in 0..MaxResets

CoroutineTypes ==
    /\ job \in [Job -> [what : {"none", "restart", "reset"},
                        at : {"scheduled", "stopping", "starting", "end"},
                        object : Object \cup {0}]]
    /\ recovery \in [at : {"asleep", "sweep", "backoff", "watch"}, object : Object \cup {0}]

TypeOK == ObjectTypes /\ CountTypes /\ CoroutineTypes

-----------------------------------------------------------------------------
(* stop() acts before it suspends, start() after.                          *)

(* Mutant: the status is left to the run loop.                             *)
stop_loop_only(o) ==
    /\ loop' = [loop EXCEPT ![o] = [l \in Loop |-> IF l = runTask[o] THEN "none" ELSE @[l]]]
    /\ runTask' = [runTask EXCEPT ![o] = 0]
    /\ UNCHANGED <<status, current, inbox>>

stop(o) ==
    /\ status' = [status EXCEPT ![o] = "STOPPED"]
    /\ loop' = [loop EXCEPT ![o] = [l \in Loop |-> IF l = runTask[o] THEN "none" ELSE @[l]]]
    /\ runTask' = [runTask EXCEPT ![o] = 0]
    /\ UNCHANGED <<current, inbox>>

start(o) ==
    \E l \in Loop :
        /\ loop[o][l] = "none" /\ \A k \in 1..l - 1 : loop[o][k] # "none"
        /\ status' = [status EXCEPT ![o] = "IDLE"]
        /\ loop' = [loop EXCEPT ![o][l] = "inbox"]
        /\ runTask' = [runTask EXCEPT ![o] = l]
        /\ UNCHANGED <<current, inbox>>

(* Mutant: start() says IDLE before it waits, and nobody takes it back.    *)
startRaises_idle(o, s) ==
    /\ status' = [status EXCEPT ![o] = "IDLE"]
    /\ UNCHANGED <<current, inbox, loop, runTask>>

startRaises(o, s) ==
    /\ status' = [status EXCEPT ![o] = s]
    /\ UNCHANGED <<current, inbox, loop, runTask>>

-----------------------------------------------------------------------------
(* Work: the dispatch loop, the run loops and the endpoint.                *)

(* find_idle_worker asks the breaker before it looks at what the task      *)
(* needs, and may then pass the agent over.                                *)
find_idle_worker ==
    /\ status[registered] = "IDLE"
    /\ is_allowed(breaker)
    /\ breaker' = asked(breaker)

passOver ==
    /\ find_idle_worker
    /\ UNCHANGED <<registered, busySince, objectVars, countVars, bus, job, recovery, boundVars>>

(* A task with a target_agent asks no breaker.  Bound of the model: one    *)
(* task in an inbox.                                                       *)
dispatch ==
    /\ \/ find_idle_worker
       \/ status[registered] = "IDLE" /\ UNCHANGED breaker
    /\ inbox[registered] = 0
    /\ inbox' = [inbox EXCEPT ![registered] = 1]
    /\ busySince' = TRUE
    /\ UNCHANGED <<registered, status, current, loop, runTask, countVars, bus, job,
                   recovery, boundVars>>

_set_idle(o) ==
    /\ current' = [current EXCEPT ![o] = 0]
    /\ status' = [status EXCEPT ![o] = IF @ \in {"STOPPED", "ERROR"} THEN @ ELSE "IDLE"]

publish(result) == Len(bus) < MaxResults /\ bus' = Append(bus, result)

(* An error is final if the task has no retry left, or is not known.       *)
publishError(known) ==
    \/ known /\ publish("retried") /\ UNCHANGED final
    \/ final < FinalFailures /\ publish("failed") /\ final' = final + 1

takeTask(o, l) ==
    /\ loop[o][l] = "inbox" /\ inbox[o] > 0
    /\ inbox' = [inbox EXCEPT ![o] = @ - 1]
    /\ loop' = [loop EXCEPT ![o][l] = "task"]
    /\ current' = [current EXCEPT ![o] = l]
    /\ status' = [status EXCEPT ![o] = "BUSY"]
    /\ UNCHANGED <<runTask, registryVars, countVars, bus, job, recovery, boundVars>>

(* A run loop looks at the status before it goes back to the inbox.        *)
goesBack(o, l) ==
    LET on == status'[o] \notin {"STOPPED", "ERROR"}
    IN  /\ loop' = [loop EXCEPT ![o][l] = IF on THEN "inbox" ELSE "none"]
        /\ runTask' = [runTask EXCEPT ![o] = IF ~on /\ @ = l THEN 0 ELSE @]

taskComplete ==
    /\ status[registered] = "BUSY"
    /\ publish("success")
    /\ _set_idle(registered)
    /\ UNCHANGED <<registryVars, inbox, loop, runTask, countVars, job, recovery, boundVars>>

waitReturns(o, l) ==
    /\ loop[o][l] = "task" /\ current[o] # l
    /\ UNCHANGED <<status, current>>
    /\ goesBack(o, l)
    /\ UNCHANGED <<registryVars, inbox, countVars, bus, job, recovery, boundVars>>

timesOut(o, l) ==
    /\ loop[o][l] = "task"
    /\ publishError(TRUE)
    /\ _set_idle(o)
    /\ goesBack(o, l)
    /\ UNCHANGED <<registryVars, inbox, countVars, job, recovery, resets>>

dispatchRaises(o, l) ==
    /\ loop[o][l] = "task"
    /\ status' = [status EXCEPT ![o] = "ERROR"]
    /\ goesBack(o, l)
    /\ UNCHANGED <<current, inbox, registryVars, countVars, bus, job, recovery, boundVars>>

watchdog ==
    /\ busySince
    /\ publishError(current[registered] # 0)
    /\ UNCHANGED <<registryVars, objectVars, countVars, job, recovery, resets>>

recovery_timeout ==
    /\ breaker.state = "OPEN" /\ ~breaker.cooled
    /\ breaker' = [breaker EXCEPT !.cooled = TRUE]
    /\ UNCHANGED <<registered, busySince, objectVars, countVars, bus, job, recovery, boundVars>>

-----------------------------------------------------------------------------
(* The route loop: record_result and the count of failures.                *)

begin(what, at, o) ==
    \E j \in Job :
        /\ job[j] = NoJob /\ \A i \in 1..j - 1 : job[i] # NoJob
        /\ job' = [job EXCEPT ![j] = [what |-> what, at |-> at, object |-> o]]

record_result(error) ==
    /\ busySince' = FALSE
    /\ breaker' = IF error THEN record_failure(breaker) ELSE record_success(breaker)

route ==
    /\ bus # <<>> /\ bus' = Tail(bus)
    /\ record_result(Head(bus) # "success")
    /\ streak' = CASE Head(bus) = "success" -> 0
                   [] Head(bus) = "retried" -> streak
                   [] Head(bus) = "failed"  -> streak + 1
    /\ IF Head(bus) = "failed" /\ streak' >= MaxConsecutiveFailures
       THEN begin("restart", "scheduled", 0)
       ELSE UNCHANGED job
    /\ UNCHANGED <<registered, objectVars, attempts, givenUp, recovery, boundVars>>

(* The RESULT of a task cancelled while it ran.                            *)
routeCancelled ==
    /\ bus # <<>> /\ bus' = Tail(bus)
    /\ UNCHANGED <<registryVars, objectVars, countVars, job, recovery, boundVars>>

-----------------------------------------------------------------------------
(* _restart_agent.                                                         *)

goesOn(j, at, o) == job' = [job EXCEPT ![j].at = at, ![j].object = o]

ends(j) == job' = [job EXCEPT ![j] = NoJob]

restartStops(j) ==
    /\ job[j].what = "restart" /\ job[j].at = "scheduled"
    /\ stop(registered)
    /\ goesOn(j, "stopping", 0)
    /\ UNCHANGED <<registryVars, countVars, bus, recovery, boundVars>>

(* Whatever the id means by now is unregistered; the new object gets a     *)
(* breaker of its own, but the watchdog's clock runs on.  (There is an     *)
(* object for every RESULT that failed for good: the bound never bites.)   *)
restartRegisters(j) ==
    /\ job[j].what = "restart" /\ job[j].at = "stopping"
    /\ registered' = registered + 1 /\ registered' \in Object
    /\ breaker' = fresh
    /\ streak' = 0
    /\ goesOn(j, "starting", registered')
    /\ UNCHANGED <<busySince, objectVars, attempts, givenUp, bus, recovery, boundVars>>

(* A new object whose start() raises stays as it is, STOPPED.              *)
restartStarts(j) ==
    /\ job[j].what = "restart" /\ job[j].at = "starting"
    /\ start(job[j].object) \/ UNCHANGED objectVars
    /\ ends(j)
    /\ UNCHANGED <<registryVars, countVars, bus, recovery, boundVars>>

-----------------------------------------------------------------------------
(* The clients.                                                            *)

reset_agent ==
    /\ resets < MaxResets /\ resets' = resets + 1
    /\ givenUp' = FALSE /\ attempts' = 0
    /\ stop(registered)
    /\ begin("reset", "starting", registered)
    /\ UNCHANGED <<registryVars, streak, bus, recovery, final>>

resetStarts(j) ==
    /\ job[j].what = "reset"
    /\ start(job[j].object) \/ startRaises(job[j].object, "ERROR")
    /\ ends(j)
    /\ UNCHANGED <<registryVars, countVars, bus, recovery, boundVars>>

stop_agent ==
    /\ stop(registered)
    /\ UNCHANGED <<registryVars, countVars, bus, job, recovery, boundVars>>

-----------------------------------------------------------------------------
(* _recovery_loop.  It takes the objects registered when the sweep begins, *)
(* and other agents may keep it busy before it comes to this one.          *)

sweep ==
    /\ recovery = Asleep
    /\ recovery' = [at |-> "sweep", object |-> registered]
    /\ UNCHANGED <<registryVars, objectVars, countVars, bus, job, boundVars>>

toRecover == recovery.at = "sweep" /\ status[recovery.object] = "ERROR" /\ ~givenUp

skip ==
    /\ recovery.at = "sweep" /\ ~toRecover
    /\ recovery' = Asleep
    /\ UNCHANGED <<registryVars, objectVars, countVars, bus, job, boundVars>>

(* Mutant: the attempt is not counted.                                     *)
recover_uncounted ==
    /\ toRecover
    /\ attempts + 1 <= MaxRecoveryAttempts
    /\ stop(recovery.object)
    /\ recovery' = [recovery EXCEPT !.at = "backoff"]
    /\ UNCHANGED <<registryVars, countVars, bus, job, boundVars>>

recover ==
    /\ toRecover
    /\ attempts' = attempts + 1
    /\ attempts' <= MaxRecoveryAttempts
    /\ stop(recovery.object)
    /\ recovery' = [recovery EXCEPT !.at = "backoff"]
    /\ UNCHANGED <<registryVars, streak, givenUp, bus, job, boundVars>>

giveUp ==
    /\ toRecover
    /\ attempts' = attempts + 1
    /\ attempts' > MaxRecoveryAttempts
    /\ givenUp' = TRUE
    /\ recovery' = Asleep
    /\ UNCHANGED <<registryVars, objectVars, streak, bus, job, boundVars>>

(* After the backoff the object is started, whatever became of it.         *)
recoveryStarts ==
    /\ recovery.at = "backoff"
    /\ \/ start(recovery.object) /\ recovery' = [recovery EXCEPT !.at = "watch"]
       \/ startRaises(recovery.object, "ERROR") /\ recovery' = Asleep
    /\ UNCHANGED <<registryVars, countVars, bus, job, boundVars>>

(* It is forgiven if it is IDLE at one of the polls.                       *)
recoveryWatched ==
    /\ recovery.at = "watch"
    /\ recovery' = Asleep
    /\ attempts' = IF status[recovery.object] = "IDLE" THEN 0 ELSE attempts
    /\ UNCHANGED <<registryVars, objectVars, streak, givenUp, bus, job, boundVars>>

-----------------------------------------------------------------------------

_recovery_loop == sweep \/ skip \/ recover \/ giveUp \/ recoveryStarts \/ recoveryWatched

coroutine(j) == restartStops(j) \/ restartRegisters(j) \/ restartStarts(j) \/ resetStarts(j)

_run_loop(o, l) == takeTask(o, l) \/ waitReturns(o, l) \/ timesOut(o, l)

_route_loop == route \/ routeCancelled

Next ==
    \/ passOver \/ dispatch \/ taskComplete \/ watchdog \/ recovery_timeout
    \/ reset_agent \/ stop_agent
    \/ \E o \in Object, l \in Loop : _run_loop(o, l) \/ dispatchRaises(o, l)
    \/ \E j \in Job : coroutine(j)
    \/ _route_loop \/ _recovery_loop

Spec == Init /\ [][Next]_vars

(* The loops, and the coroutines that have begun, go on; time passes.  No  *)
(* start() need succeed, and nobody need send or answer anything.          *)
Fairness ==
    /\ WF_vars(_route_loop) /\ WF_vars(_recovery_loop) /\ WF_vars(recovery_timeout)
    /\ \A j \in Job : WF_vars(coroutine(j))
    /\ \A o \in Object, l \in Loop : WF_vars(_run_loop(o, l))

FairSpec == Spec /\ Fairness

-----------------------------------------------------------------------------
(* Properties.                                                             *)

loops(o) == {l \in Loop : loop[o][l] # "none"}

(* An object that is at work has a run loop.                               *)
LiveHasLoop == \A o \in Object : status[o] \in {"IDLE", "BUSY"} => loops(o) # {}

(* The inductive invariant: the types, and that IDLE and BUSY are only     *)
(* said of an object whose run loop has not ended.                         *)
SupervisionInv == TypeOK /\ LiveHasLoop

(* The dispatch loop trusts "IDLE": however recovery, restart, reset and   *)
(* DELETE interleave, the object the id means then has a run loop that     *)
(* will take what is sent to it.                                           *)
IdleHasLoop == status[registered] = "IDLE" => loops(registered) # {}

(* _recovery_loop does not retry for ever: an agent in ERROR comes back or *)
(* is given up, unless somebody else takes it in hand.                     *)
inOtherHands ==
    \/ \E j \in Job : job[j] # NoJob
    \/ status[registered] = "STOPPED" /\ recovery # [at |-> "backoff", object |-> registered]

ErrorSettles ==
    status[registered] = "ERROR" ~>
        givenUp \/ status[registered] \in {"IDLE", "BUSY"} \/ inOtherHands

(* A breaker lets go in the end: an IDLE agent is not refused for ever, in *)
(* particular not by HALF_OPEN, which no clock ends.                       *)
refused == status[registered] = "IDLE" /\ ~is_allowed(breaker)

BreakerLetsGo == refused ~> ~refused

=============================================================================
