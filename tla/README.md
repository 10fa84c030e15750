# TmuxAgentOrchestrator in TLA+

TmuxAgentOrchestrator runs Claude Code agents in tmux panes and hands them
tasks.  A FastAPI application takes tasks and workflows; one `Orchestrator`
keeps them in a priority queue, gives each to an idle agent, takes the agent's
RESULT off a message bus, and completes, retries, escalates or fails the task.
A workflow is expanded into tasks that depend on each other, whose agents pass
their work on by a shared scratchpad or by git branches.
This directory models that program: TLA+ modules, TLC configurations, proofs
that TLAPS checks, and `PROJECT.json`, which maps every definition to the lines
it stands for.

Paths below are under `src/src/tmux_orchestrator/`; `O` is
`application/orchestrator.py`, `WR` is `web/routers/workflows.py`.

## The system

Everything runs on one asyncio event loop.  Between two awaits that really
suspend, a coroutine runs alone; so an action of a model is the code between
two such awaits, and the first thing to know is which awaits suspend:

- `bus.publish` never does (it uses `put_nowait` on each subscriber's queue);
- `queue.put` does only when `task_queue_maxsize` is set and the heap is full;
- `queue.get` does when nothing is live; and on Python 3.11 and later
  `asyncio.wait_for(queue.get(), ...)` runs `get` in a task of its own, so an
  entry has left the heap before the dispatch loop goes on with it (the "hand"
  of the models);
- `agent.stop`, `agent.start` and `agent.interrupt` (threads that talk to tmux),
  `sleep`, spawning an agent, and I/O do.

### Components

| Component | State | Operations | Talks to |
|---|---|---|---|
| Task queue (`application/task_queue.py`) | heap, `_pending`, `_deleted_seqs`, `_update_seq`, the `_unfinished_tasks` of `asyncio.Queue` | put, get, update_priority, full; `cancel_task` edits the heap from outside | used by submit, dispatch loop, route loop |
| Dispatch loop (`O` 1772-2056) | the entry in hand; `_active_tasks`, `_dlq`, `metadata["_retry_count"]` | get, skip cancelled, expire, dispatch, spawn, requeue, dead-letter | queue, registry, agents |
| Route loop (`O` 2377-2666) | `_completed_tasks`, `_failed_tasks`, `_cancelled_task_ids`, `retry_count`, `escalation_count` | drop, complete, escalate, retry, fail, stop a drained or ephemeral agent | bus, queue, dependency engine, workflow manager, checkpoint, breaker |
| Agent (`agents/base.py`, `completion.py`) | `status`, `_current_task`, inbox | run loop, timeout, completion seen by polling | bus, the completion endpoint |
| Agent endpoints (`web/routers/agents.py`) | none | task-complete, drain, start, stop, ... | agent, orchestrator |
| Registry and breaker (`application/registry.py`, `circuit_breaker.py`) | `_agents`, `_busy_since`, breaker state and failure count | find_idle_worker, record_busy, record_result, find_timed_out | dispatch loop, route loop, watchdog |
| Watchdog and recovery loops (`O` 2066-2290) | attempts, `_permanently_failed` | inject a RESULT; stop, wait, start | bus, agents |
| Dependency engine (`O` 1133-1206, 2732-2831) | `_waiting_tasks`, `_task_dependents` | hold, release, cascade, reap, cancel | submit, route loop, checkpoint |
| Workflow manager (`application/workflow_manager.py`) | runs, phases, loop iterations | submit, register, on_task_complete/failed/retrying, cancel | called by the route loop; calls back cancel_task and the scratchpad |
| Workflow endpoints (`web/routers/workflows.py`) | none | turn a body (22 ready-made workflows, `phases=`, `tasks=`, or a YAML template) into tasks; spawn agents, submit each task, register the run; show the DAG | submit_task, spawn, workflow manager |
| Phase expansion (`domain/phase_strategy.py`, `phase_executor.py`, `workflow_defaults.py`, `infrastructure/workflow_loader.py`) | none | expand phases, blocks and loops into tasks with `depends_on`; fill in a template | workflow endpoint |
| Scratchpad (`web/routers/scratchpad.py`) | keys and values | PUT, GET by the agents | named in the prompts |
| Ephemeral agents (`O` spawn_ephemeral_agent, route loop, cleanup_workflow_branches) and worktrees (`infrastructure/worktree.py`) | `_ephemeral_agents`, `_task_ephemeral_agent`, `_workflow_branches`; branches and working trees | spawn, chain, stop after the task, merge, clean up | workflow endpoint, dispatch loop, route loop, workflow manager, git |
| Checkpoint (`infrastructure/checkpoint_store.py`) | SQLite tables of tasks, waiting tasks, workflows | save, remove, load | submit, route loop, resume at start |
| Broadcast groups (`O` 1545-1611, 2535-2631) | race and gather groups | submit one task per agent, collect, cancel losers | route loop |
| Rate limiter (`application/rate_limiter.py`) | tokens, time of the last refill | acquire, reconfigure | submit_task |
| Bus, autoscaler, groups | subscriber queues; cooldown; membership | publish; poll; add and remove | all of the above |

`PROJECT.json` lists every component, those that are not modelled too, each
with the reason.

### What is hard

1. *Two views of one agent.*  The completion endpoint ends a task at once; the
   agent's run loop sees it at its next poll, 0.5 s later.  In between the
   agent is IDLE to the dispatch loop, may be sent another task, and the old
   wait may still time out and report a second RESULT.
2. *A task in nobody's collection.*  Between `get` and the dispatch, a task is
   neither queued nor active; `cancel_task` then finds nothing.
3. *One tombstone, any number of RESULTs.*  `cancel_task` of an active task
   relies on exactly one RESULT to come; a retried task has none on its way, a
   late timeout makes two.
4. *A consumer that produces.*  The dispatch loop puts tasks back into the
   queue that only it empties.
5. *Lazy deletion.*  `update_priority` leaves the old heap entry behind while
   `cancel_task` rebuilds the heap and a `put` may be suspended halfway.
6. *Held tasks.*  Each is on one list per unmet dependency; completions,
   cascades, expiry and cancellation all edit the lists, and whoever is missed
   waits for ever.
7. *An observer that is told part of it.*  The workflow manager hears of the
   task whose RESULT is handled, not of the cascade behind it, nor of
   dead-lettering or cancellation; loops it ends early are known to it alone.
8. *Restart.*  The checkpoint is written at submission and erased at the end
   of a task, but not on every way a task can end.
9. *Many hands on one agent.*  The recovery loop, `_restart_agent`,
   `reset_agent` and DELETE stop and start the same agent without knowing of each
   other, and each is suspended for seconds in between.
10. *Prompts and dependencies said twice.*  An endpoint writes `depends_on` for
   the orchestrator and, in another place, the scratchpad keys of each prompt for
   the agent.  Nothing compares the two: a key that is read by a task which does
   not come after its writer, or that two unordered tasks write, is lost work
   that looks like success.  Nor does anything compare the tasks submitted with
   those the manager is told of.
11. *Branches handed on by agents that are gone.*  The agent of a chained phase
   starts from the branch of an agent that was stopped before; the branches are
   known to a list that the dispatch loop and the endpoint both append to, and
   that cleanup empties when the manager says the run is over.
12. *One callback for all runs.*  What is to be done with the branches at the
   end of a run is bound into a function that each request replaces.

The list with its lines is `hazards` in `PROJECT.json`; each entry names the
properties that would catch it going wrong, or says why there is none.

### What makes each component correct

- *Queue*: the dispatch loop gets each live entry once, with the priority last
  asked for; a cancelled task never comes off it; `task_done` is never called
  too often (it would raise, and end the loop).
- *Dispatch and route*: a task is somewhere until it has ended; it is in one
  place at a time; it does not run again once it has ended; it is dispatched
  no more often than its retries and escalations allow; it ends.
- *Dependencies*: no wakeup is lost; nothing starts before what it depends on;
  nothing waits for a task that failed; waiting ends.
- *Workflows*: a run is reported complete only if its tasks are, failed if one
  failed, and it ends.
- *Breaker and recovery*: an agent said to be IDLE works; one in ERROR is
  brought back or given up; a breaker lets its agent go in the end.
- *Checkpoint*: what had not ended before a crash is there after the restart,
  what had completed does not run again, the order of dependencies survives, and
  every restored task ends.
- *Workflow endpoints*: what an agent is told to read is there, written by a task of
  its own run that has completed; nothing written is lost to a sibling or to
  a run with another prefix; phases keep the order their blocks give them, and no more; the
  run is reported, and the reply comes last.
- *Ephemeral agents*: the agent of a chained phase has the work of the phases
  before it; a branch is not deleted while it is needed, and is in the end; a run
  that asked for it has its work on main.
- *Broadcast*: a gather ends with the last RESULT, a race with the first success.
- *Rate limiter*: no more than the rate and the burst allow, and no less.

## Modules

### TaskQueue, PriorityPool

`application/task_queue.py` with the coroutines that use it.  The heap is a set
of entries `[prio, seq, task]` (sequence numbers are unique, so a set loses
nothing), `_pending` a function to entries, `_deleted_seqs` a set of numbers,
`_unfinished_tasks` a counter.  `get` takes the first live entry and drops the
superseded ones ahead of it, `put` writes `_pending` and then the heap; a put
into a full heap is a state of its own (`putting`), ended by `resumePut` after a
`get` has woken it (`woken`).  The dispatch loop's entry is `hand`; `requeue`,
`retry` and `settle` are what the two loops do with it.  What the module needs of
the rest, which tasks are active, is one set.

`PriorityPool` is what the callers are promised, with none of that: the entries that
can be served, those that have not been let in yet, and the one being served.  A
task is in one place; what is taken is first in priority and arrival; what is put or put
back goes behind its equals, and a task whose priority changes goes ahead of them.
`TaskQueue` implements it under the mapping `Pool` (property `ImplementsPool`): the
queue is `Live`, the heap without its superseded entries, so a `get` that drops
five stale entries is one `Take` and a `get` that only drops is no step at all.

### Dispatch, TaskLifecycle

The life of a task without the order of the queue: `submit_task`, the dispatch
loop (`get`, `skipCancelled`, `expire`, `sendTask`, `noAgent`), the agents'
run loop (`takeTask`, `waitReturns`, `handle_task_timeout`,
`dispatchTaskRaises`), the endpoint (`taskComplete`), the route loop
(`dropResult`, `taskSucceeds`, `escalate`, `retry`, `taskFails`), `cancel_task`,
`drain_agent`, the watchdog and recovery.  A run loop that is waiting has
`running[a]` set; the endpoint resets `current[a]` alone, and the difference
between the two is the window of point 1 above.

`TaskLifecycle` is the abstract specification: a task is new, queued,
dispatched, and ends once; it comes back a bounded number of times.  `Dispatch`
implements it under the mapping `Life` (property `ImplementsLifecycle`).

### Dependencies

`depends_on`.  `submit_task` in its three outcomes, `_on_dep_satisfied`,
`_on_dep_failed` and the TTL reaper.  The code's cascade calls itself; what it
removes is defined without recursion, as the least set of held tasks closed
under `dependents` (`doomed`), which also makes it something to prove about.
What happens to a released task is reduced to queued, in hand, active, running,
so that the module has the same ways for a task to end as `Dispatch`, late
timeouts and tombstones included.

### WorkflowManager, Workflow

`WorkflowManager` has no actions of its own: the code's methods are called from
the orchestrator's handlers, so they are operators on the manager's primed
variables.  `Workflow` extends it and `Dependencies`, and makes each handler one
action: the step of the dependency engine and the manager call it makes, or
does not make (`unobserved`).  It adds `POST /workflows` (submit every task,
then register the run), `cancel_workflow` (which suspends between tasks) and the
cancellations a loop schedules when its `until` condition holds.

### Checkpoint, DurableWork

Crash and restart with `--resume` on top of `Workflow`.  The three tables of
`infrastructure/checkpoint_store.py` are variables; each handler of `Workflow`
that commits to them is conjoined with its writes (`submission`, `success`,
`failure`), all others with `UNCHANGED store` (`retrying`, `other`, `request`).
A crash keeps the tables and nothing else, and `resume` rebuilds the rest as
`_resume_from_checkpoint` does: every task row is queued, every waiting row held
behind *all* its dependencies, a run restored without its phases and loops.
Since each commit is on disk before the handler goes on, a crash between two
handlers and a crash in the middle of one differ only where a handler commits
twice: `crashInSuccess` is that one.  `finished` and `ended` are history
variables that outlive the crash; the properties compare the two lives by them.

`DurableWork` is the abstract specification: a task is new, held, queued, running,
done or ended, and a restart may move it back but not off the board: what was
queued or running is queued or held again, what was held is held, what is done is
done, and nothing gets into the queue before its dependencies are done.
`Checkpoint` implements it under the mapping `workOf` (property
`ImplementsDurable`).  Two things `DurableWork` leaves open are what the code does: a
task that was released may come back as held (nobody removes its waiting row), and
one that expired or was cancelled may come back (nobody removes its row).

### CircuitBreaker, Supervision

`CircuitBreaker` is the breaker as operators on its record; the clock is reduced
to whether `recovery_timeout` has passed.  `Supervision` is everything that stops
and starts an agent: the recovery loop (`sweep`, `recover`, `giveUp`,
`recoveryStarts`, `recoveryWatched`), `_restart_agent` (`restartStops`,
`restartRegisters`, `restartStarts`, as many at a time as RESULTs ask for),
`reset_agent` and DELETE; and, as far as these can tell tasks apart, the work
in between: dispatch, the run loops, the endpoint, timeouts, the watchdog and
the route loop's counts.  Agents meet only in the order the recovery loop visits
them, so the module follows one agent.  Its objects are numbered: `_restart_agent`
makes a new one with the old id, and what other coroutines hold is still the old
one.  An object may have several run loops, of which `stop()` cancels the last
started.  A task with a `target_agent` does not ask the breaker.

### Templates, Phases, WorkflowLoader, Blackboard

`Templates` has one operator per ready-made endpoint (`tdd`, `debate(rounds)`,
`competition(names)` ...).  Its value is the plan of the request: whom each task
comes after (`after`), which keys its prompt says to read and to write, of
which tasks the manager is told (`members`) and which has `reply_to` (`replies`).
Tasks are numbered in the order of their submission; keys are numbers or names,
without the prefix of the run.  All plans are built in layers, each waiting for the
one before: a `chain`, a `diamond`, or rounds of one size (`inRounds`).  `Phases` is the expansion of `phases=`: a strategy
per pattern, sequence, parallel and loop blocks, skip conditions, `validate_dag`
(Kahn's algorithm over the ids, as the code runs it) and the view that
`GET /workflows/{id}/dag` gives.  `WorkflowLoader` fills in a YAML template (its
variables, defaults and timeouts) and submits what comes out.  These three have
functions only; none of them is recursive except over the tree of the request,
and `Blackboard`, which has the behaviour, does not depend on them.

`Blackboard` runs any plans side by side: `submit`, then for each task `start`,
`readAll`, `put`, `finish` or `fail`.  The scratchpad is a set of entries with the
slot (prefix and key), the run and the task that wrote it last.  A prefix that the
endpoint makes has a fresh uuid in it and is, in the model, the run.  Seven
endpoints (`takesPrefix`: adr, agentmesh, paircoder, peer-review, mutation-test,
code-audit, refactor; e.g. `WR` 985-990, 4433-4436) take the `scratchpad_prefix` of
the body as it is; then it is `Custom`, and several runs may have the same, which
makes them share every key of the same name.  redblue and pdca put theirs before
the uuid.  Keys in `Unprefixed` go without a prefix; a prefix with a `/` (the one of
`phases=`, or one that a client gave; `Slashed`) makes keys that the routes of the
scratchpad do not match: nothing is `kept` of what such a run writes.
What a plan has to be for its runs to go well is `WellFormed`, a condition on
data; that well-formed plans do go well is proved, and that each ready-made
endpoint's plan is well formed is proved for any number of rounds, cycles, experts
and names; `max_cycles` of pdca and the contexts of ddd have no upper limit in
`web/schemas.py`.  The plans of `phases=` are checked.

### Worktree, Ephemeral

`Worktree` has what `infrastructure/worktree.py` does to the branches, the working
trees, the work on each branch (a set of tasks) and on main.  `Ephemeral` is
`agent_template`: the endpoint (`spawn`, `spawnRaises`, `submit_task`, `register`), the
dispatch loop (`dispatchChained` spawns and sends in one turn, `dispatch`,
`dead_letter`), the agents (`completes`, `fails`, `sync`), the route loop (`route`
stops every ephemeral agent whose RESULT it has handled and is suspended until
`stopped`) and `cleanup_workflow_branches` (`popBranches`, `mergeFinal`,
`deleteBranches`).  A task may depend on several others (`Deps`, in their order), as it
does behind a phase of several agents: the dispatch loop goes through
`_chain_pred_task_ids` and starts the new agent's branch from the first that has one
(`firstIn`, `O` 1829-1836); what the others have committed is not handed on.  `Suspends` says whether the endpoint gives way between two
tasks when it does not spawn.  An untargeted task of a client (`Stranger`) may be
given to an ephemeral agent that is idle, because `find_idle_worker` does not look
at what an agent is for.

### Broadcast, RateLimiter

Both are values with functions from one state to the next: the route loop brings
a group up to date without suspending, and `submit_task` takes a token without.
`MCDispatch` checks what they promise for every sequence of RESULTs of three tasks,
and every sequence of five attempts to submit (`RateKept`, `SleepEnough`,
`Reconfigured`); `DispatchProofs` proves what they say of a group for any RESULTs and the first
two of the limiter's for any number of attempts.

## Runs

| Run | Bounds | Shows |
|---|---|---|
| `TaskQueue` | 2 tasks, 2 priorities, `maxsize` 1, sequence numbers to 4 | `QueueInv`, `CounterCoversQueue`, `CancelledStaysOffQueue`, `LatestPriorityServed`, `ImplementsPool` |
| `TaskQueue_requeue` | the same with one priority | violation: the dispatch loop can wait for itself |
| `Dispatch` | 2 tasks, one with a target agent, one with a TTL, both cancellable; 2 agents; 1 retry; dead letter after 2 | `NoTaskLost`, `OneCopy`, `EndedStaysEnded`, `ImplementsLifecycle`, `EveryTaskEnds` |
| `Dispatch_faults` | 1 task, 2 agents; watchdog, 1 escalation, an agent that crashes, one that is drained | `DispatchInv`, `DispatchesBounded` |
| `Workflow` | a loop of 2 iterations and a task that joins it with a task of a client; 1 retry, expiry, dead-lettering, cancellation, `cancel_workflow` | `DependenciesInv` and its parts, `CompleteMeansDone`, `FailureReported`, `WaitingEnds`, `RunEnds` |
| `Workflow_loop` | the loop and a phase behind it | violation: the phase behind a loop that ends early waits for ever |
| `Checkpoint` | a run of 2 tasks, one behind the other, and a task behind both; retries, expiry, dead-lettering, cancellation, `cancel_workflow`; 2 crashes | `ImplementsDurable`, `FinishedStaysFinished`, `OrderSurvives`, `BooksSurvive`, `RestoredRunHonest`, `QueuedSurvives` |
| `Checkpoint_held` | the same with 1 crash, nothing cancelled or expired | violation: a held task does not survive |
| `Supervision` | 1 agent, 2 objects with up to 2 run loops each; breaker threshold 1, 1 recovery attempt, restart after 1 failure, 1 reset | `SupervisionInv`, `IdleHasLoop`, `ErrorSettles`, `BreakerLetsGo` |
| `Templates` | two runs; one a pair workflow, the other any of 29 requests: each of the 22 endpoints, six trees of phases, one list of tasks; or each any of four requests with a prefix: two endpoints that take the same one, one with a `/`, one that adds a uuid | `BlackboardInv`, `InputsReady`, `NothingLost`, `RunReported`, `ReplyLast`, `PhaseOrder`, `RunEnds` |
| `Ephemeral` | a run of three chained phases, the middle one of two tasks, a run of two phases whose first is not chained, one task of a client; two of the agents may fail to start, one branch may be synced; both runs ask for the merge | `ChainInv` (`EphemeralInv` and `MergeInv`), `HandedOver`, `MergedWhenAsked`, `BranchesGo` |
| `Ephemeral_merge` | the same, only the first run asks for the merge | violation: the second request takes the merge from the first |

Some things are values, not behaviours, and are checked as `ASSUME`s that TLC
evaluates before a run.

| Module (run) | Assumptions | Over |
|---|---|---|
| `MCDispatch` (`Dispatch`) | `GatherEnds`, `RaceWon`, `EarlyResultForgotten` | all orders of up to 3 RESULTs |
| | `RateKept`, `SleepEnough`, `Reconfigured` | 5 attempts up to 3 ticks apart, rates 1 and 2 (a token is 3 parts), bursts 0 to 2 |
| `MCTemplates` (`Templates`) | `PlansWellFormed`, `AcceptedWellFormed` | the 33 requests of the run, and every number of rounds, experts, names and contexts that `web/schemas.py` accepts, up to ten where it sets no limit |
| | `DagOrdered`, `IdsRefused` | all graphs of 3 tasks, a repeated and an unknown id |
| | `FastPathAgrees` | flat lists of phases: the two expansions of `phase_executor` give the same |
| | `DagShown` | all requests of the run |
| | `IllFormed`, `JudgeMisled` | the requests whose plans are not well formed, or whose agents are told to read what the scratchpad refuses |
| | `TemplateFilledIn`, `TimeoutsFilledIn`, `TemplateSubmitted` | one template, all ways to give its variables |

*Why these bounds are enough.*  In `TaskQueue`, one place in the heap is what
makes puts suspend; an entry in hand, a dispatch-loop put and a route-loop put
need two tasks; four numbers are enough to supersede an entry twice while an
older copy is still in the heap.  In `Dispatch`, two tasks are needed for one to
overtake the other on an agent within the polling window, two agents for
a task to be in two places; one retry is enough for a retried task to be
cancelled, to expire, to be dead-lettered and to fail for good.  The faults
multiply the states, so they have a run of their own with one task, on which
`DispatchesBounded` is a claim about; the theorem covers the rest.  In
`Workflow`, a task behind two others (one of them behind a third) gives every
kind of list: a held task on two lists, a cascade over two levels, a release
that needs both.  Two iterations are what a loop needs to be ended early.
In `Checkpoint`, a chain of three gives a task that is queued, one that is held,
and one that is released or finished with its waiting row still there, at once;
the second crash restarts from tables that a restored orchestrator has written.
In `Supervision`, one restart or one reset meets a recovery and DELETE in any order,
and two run loops on one object are enough for one of them to be out of `stop()`'s reach; with
one coroutine at a time (`MaxJobs` 1) a restart and a reset follow each other but do
not overlap, which only `IdleAgentsHaveLoops` covers.
In `Templates`, two runs are what it takes for one to overwrite the other's key;
the second is a pair workflow, since the theorems cover any two, and it
may be of the same kind as the first; or both were given a prefix.  Two or three rounds, names or experts give
a round in the middle.  In `Ephemeral`, a chain that begins at HEAD and one that
follows an agent the endpoint spawned are the two ways a branch begins, and a
parallel phase in the middle has a task before it, one behind it, and a sibling; with two runs one may
be cleaned up while the other works; the client's task may be given to either's
agents.

`CHECK_DEADLOCK FALSE` is set in each run: when all tasks have ended the system
waits for clients, and the models' clients do not ask twice.  That no task is
stuck is what the liveness properties say.

*Bounds in the guards.*  `SeqLimit` (`TaskQueue`) ends the sequence numbers.  The
watchdog of `Dispatch` has one RESULT per agent on its way at a time.  All other
counters are bounded by the code itself.  `MaxCrashes` (`Checkpoint`) bounds the
crashes.  In `Supervision`, `FinalFailures` (RESULTs that fail for good, and so
restarts) and `MaxResets` bound events, `MaxResults` the bus, `MaxLoops` the run
loops of an object, `MaxJobs` the coroutines at a time; a step that would pass one of
the last three waits, and an inbox holds one task.  A breaker's failures stop at the
threshold.  `Blackboard` and `Ephemeral` have no bound beyond their constants.

### Properties worth a word

- `OneCopy` and `EndedStaysEnded` are not true by design but by one line: a
  RESULT is retried only if its task is in `_active_tasks`, which is why a late
  timeout after a completion does not run the task again.  It is a final failure
  instead, so a task can be in `_completed_tasks` and in `_failed_tasks`.
- They hold without the watchdog.  A RESULT of the watchdog is retried while the
  agent still works on the task, so with the watchdog on two agents can
  have the same task; what remains is the bound on dispatches.
- `CancelledStaysOffQueue` speaks of a cancellation that took the live entry off the
  queue.  `cancel_task` also returns true when all it finds is a superseded entry
  of a task that is already in hand; that task is dispatched all the same.
- `CounterCoversQueue` is an inequality: `_unfinished_tasks` drifts up, since
  `requeue` puts the entry back without a `task_done` for the `get`.  Nothing
  waits on `join()`, so only the other direction would hurt.
- `LatestPriorityServed` needs one failing RESULT per dispatch
  (`DuplicateResults = FALSE`).  With two, the second puts a second entry of the
  task into the heap and `_pending` knows one of them.
- `NoDoomedWait` is stated for tasks submitted one by one (`Batch = {}`).  In a
  batch, ids exist before the tasks, a task may be waited for before it is
  submitted, and `submit_task` of a task whose dependency has failed adds it to
  `_failed_tasks` without a cascade: its dependents then wait for ever.
- `WaitingEnds` and `RunEnds` except cancelled and dead-lettered tasks: neither is
  reported to the dependency engine or to the manager, so their dependents wait
  for ever and the run does not end.  `RunEnds` also excepts failure: the
  run is then reported failed at once (`FailureReported`), but the cascade is
  not reported, so `completed_at` may never be set.
- `FinishedStaysFinished` needs more than the removal of the row: a task that was
  held keeps its row in `waiting_checkpoints` when it is released, so it comes
  back as held after it has finished.  It does not run again only because its
  dependencies have no row left to complete from a second time.  The same
  defect in the opposite direction is `Checkpoint_held`: a task whose
  dependencies completed before the crash is held for ever.
- `QueuedSurvives` says that a stored task ends, not that it stays ended:
  expiry, dead-lettering and cancellation leave the row, so a task that ended in
  one of these ways is queued again by the next restart.
- `RestoredRunHonest` allows for what a restart forgets (failures are not saved,
  a run that has had no success has no row) and still refuses a run reported
  complete with a task that is not.
- `FailureReported` holds until `cancel_workflow` starts, of a run without a loop and
  of one whose loop is not over (skipping a task erases its failure), and if the router does not suspend
  between submitting and registering (`SpawnsAgents = FALSE`).  With
  `SpawnsAgents = TRUE` a RESULT that comes before the registration is lost to
  the manager.

- `IdleHasLoop` is what the dispatch loop relies on when it puts a task into an
  agent's inbox.  It holds although `_set_idle` may be called by a run loop that
  `stop()` never reached: such a loop is then the one that takes the task.
- `ErrorSettles` allows for "somebody else": while a restart or reset is under
  way, or after DELETE, the recovery loop does nothing.  An agent that was given
  up stays so after `_restart_agent` replaced it (`_permanently_failed` goes by
  id), so the replacement is never recovered.
- `BreakerLetsGo` holds because `_to_half_open` resets the count.  The test "only if
  no prior probe is in flight" (`application/circuit_breaker.py` 67) is always
  true (`BreakerKeepsCount` proves it); what keeps a second task away during a probe is
  the status of the agent.
- `InputsReady` is two claims in one: the dependencies are enough for the reads of
  the prompts, and the prefix keeps runs apart.  It leaves out what an agent
  reads without being told.  Both it and `NothingLost` allow for the runs that were given
  the same prefix (`sharing`), and for no other: such runs do overwrite each other.
  Of runs whose prefix has a `/` they say nothing, since nothing is kept.
- `PhaseOrder` has both directions: a task at work comes after all its block says,
  and a waiting task waits for nothing else.  What the blocks say (`promised`) is
  defined on the tree of the request, without the terminals that the expansion
  hands from block to block.
- `HandedOver` is what the code does hand on: of a task's dependencies the first, of
  that one's the first, and so on (`chain`).  `SeesAllFiles` is what the comment on
  `chain_branch` says: all that was committed before, as far back as the phases
  have the flag (`upstream`).  The two are the same when no task depends on two.
  `MergedWhenAsked` is about `chain` too: what the siblings in a parallel phase committed is
  on no branch that is merged, and goes when the branches are deleted.  A run that
  ends in a parallel phase is not a chain (`isChain`).
- `HandedOver` holds although the agents whose branches are taken over have been
  stopped, since `_task_ephemeral_agent` keeps the stopped ones.  It speaks of an
  unbroken chain of `chain_branch` phases: the agent of a phase without the flag is
  spawned by the endpoint and is not in that map, so the phase after it starts
  from HEAD even if it has the flag.
- `BranchesGo` holds of runs of which the manager hears every end.  The run with a
  failed phase that is not the last is not one of them: the tasks that fail behind
  it are not heard of, `completed_at` is never set, and cleanup never starts.
  `orderly` leaves out runs in which the endpoint suspends between two tasks: a
  chained task may then be dispatched before the run is registered, and its
  branch is not tracked.

### Fairness

`Dispatch` and `Workflow` assume that the loops keep running, each handler that
stays enabled is executed in the end, and that a run loop's wait ends: it is an
`asyncio.wait_for` with the task's timeout, so it does whether or not the agent
ever answers.  A scheduled `cancel_task` (an asyncio task) is carried out.  The
workflow router, once it has begun, goes on (until a crash).  `Checkpoint` makes
the same assumptions of each life of the process; crashes are never assumed.  Nothing is assumed of clients, of
agents that answer, of the watchdog or, in `Dispatch`, of recovery.  `Supervision`
assumes that the recovery loop, the route loop, the run loops and each coroutine that
has begun go on, and that time passes; not that `start()` ever succeeds.  `TaskQueue_requeue` assumes
the same of the queue's coroutines, and that agents become idle.  `Blackboard`
assumes that a request is handled and that a run with a task to work on works on
it; a task may fail at any time, and nothing is assumed of that.  `Ephemeral`
assumes that endpoint, dispatch, route loop and cleanup go on and that an agent
ends its task one way or the other, as its timeout makes it.

### Where the code does something else than it says

| Run | The repository says | The code does |
|---|---|---|
| `TaskQueue_requeue` | "re-queue and wait" (`O` 1882) | waits for itself when the queue is full |
| `Checkpoint_held` | "Waiting tasks are restored ... with their dependency chains" (`O` 621) | the chain is restored without what had completed before the crash |
| `Workflow_loop` | phases may "wait for the entire loop to complete" (`domain/phase_strategy.py` 967) | the skipped tasks are completed for the manager only |
| `Ephemeral_merge` | the run's last branch is merged "before deleting all worktree branches" (`schemas.py` 815-817) | a later request without the flag takes the merge away; the branches are deleted all the same |

Others were met on the way and have no run of their own.  The first three are steps
of the models; no property is stated that they break.

- A cancelled task's RESULT "must be silently dropped" (`O` 2378-2382): one is, a
  second one (a timeout after the endpoint's completion) is a final failure.
- A drained agent is "auto-stopped when current task completes" (`O` 1661): the
  endpoint refuses a DRAINING agent (`web/routers/agents.py` 438), and a timeout
  that is retried leaves the route loop before the check (`O` 2508, 2652).
- `_restart_agent` means to "start a fresh replacement" (`O` 3433): the recovery
  loop, in its backoff, starts the old object again (`O` 2262), and both run.
- The judge of a competitive phase and the agents of `phases=` are pointed at keys
  with a `/` (`WR` 257-258, 551-553; `domain/phase_strategy.py` 597-601), which
  `PUT /scratchpad/{key}` answers with 404 (`Judge` in `IllFormed`).
- `from-template` puts `reply_to` and the priority into the last phase; the phase's
  model has no such fields, so no task has them (`TemplateSubmitted`).  The
  phases wait for each other whatever `depends_on` the file has.
- `GET /workflows/{id}/dag` shows no edge for a ready-made workflow (`DagShown`):
  the endpoints register ids and say nothing of what depends on what.
- Two runs whose clients gave them one `scratchpad_prefix` overwrite each other's keys
  (`WR` 985-990), and one with a `/` in it keeps nothing; `web/schemas.py` refuses
  neither.
- `ddd` without contexts: the integration designer is told to read a key nobody
  writes (`WR` 2727-2730, 3045-3047).  Names that are equal when cleaned share a
  key, and the later task takes the earlier one's place among the members
  (`IllFormed`).
- `pdca`: the loop is never registered with the manager, so the `quality_approved`
  key that should end it is honoured by nobody (`WR` 4708-4711); the key also goes without
  the prefix.  `reply_to` is ignored by `pdca` and `paircoder`.
- A broadcast with a member that is cancelled, expires or is dead-lettered never
  ends (`GatherEnds` says so of a member without a RESULT), nor does one whose
  RESULT comes while `broadcast_task` still submits (`EarlyResultForgotten`, `O` 1592).
- The limiter with burst 0 and a positive rate lets nobody through
  (`SleepEnough`); set to rate 0 while a caller sleeps, it makes another bucket
  and the caller goes on waiting at the old one.
- `chain_branch` is described as a flag of phase N that makes phase N+1 start from
  its branch (`domain/phase_strategy.py` 322-339); both phases need it.  "Phase N+1 sees
  all files committed by phase N" (329-330), but behind a parallel phase, which has a
  branch per agent (686-702), it starts from the branch of the first agent that has
  one (`O` 1829-1836): it sees that agent's files, and those of the others are never
  merged (`SeesAllFiles` is false of the run `Ephemeral`, where `p2` is such an agent).

## Proofs

Each theorem holds for every value of the constants that satisfies the module's
`ASSUME`: any number of tasks, agents, priorities, any dependency graph.

- `TaskQueueProofs`: `QueueInvHolds`, `TypeHolds`, `PendingIsLiveHolds`,
  `LiveIsPendingHolds`, `CounterHolds`, `LatestPriorityHolds`.  `QueueInv` is the
  inductive invariant: sequence numbers are unique over the heap, the hand and
  the suspended puts; a number in `deleted` belongs to an entry still in the
  heap or being put; `_pending` and the live entries agree.  Without the part on
  suspended puts it is not inductive: `update_priority` may supersede an entry
  that is not in the heap yet.  `CounterHolds` goes over cardinalities of the
  heap, which a `get` shrinks by any number of entries at once.

  `CancelledHolds` (one failing RESULT per dispatch) rests on `CancelInv`: nothing of
  a cancelled task is left in the heap, the hand, `_pending` or `_active_tasks`, and
  (by `QueueInv`) a put of it in which the dispatch loop may be suspended is never
  let through.

  `ImplementsPoolHolds` (one failing RESULT per dispatch) takes each action to its
  abstract one.  Two facts carry it: a number of `_task_seq` is above, one
  of `_update_seq` below, every number in use (`NewestIsLast`, `UpdatedIsFirst`), and an
  entry that waits is the one `_pending` holds (`WaitingIsPending`).  The one exception
  to the latter needed an invariant of its own, `DispatcherPut`: the put in which the
  dispatch loop is suspended may be of a task that `cancel_task` has just taken out of
  `_pending`, because it met a superseded entry of it in the heap.  Such a put
  counts as waiting, and nothing can put the task a second time.
- `DispatchProofs`: with all faults, `DispatchInvHolds`, `DispatchesBoundedHolds`.  The bound on
  dispatches is not inductive by itself; `EntriesAccounted` is: dispatches so
  far, queue entries and the hand together never exceed one submission plus the
  retries and escalations so far, and these are bounded.

  `OneCopyHolds`, `EndedStaysEndedHolds`, `ImplementsLifecycleHolds` (no watchdog:
  its RESULT puts a task back into the queue while the agent still works on it) and
  `NoTaskLostHolds` (also no failing or
  drained agents, whose inboxes are lost with them) rest on `OnceInv`.  `OneCopy` is not
  inductive because of the half second after `/task-complete`: the run loop still has
  the task and may report its timeout behind its success (`late`).  `OnceInv` says that
  of two RESULTs of a task the first is the success, that the second is never
  looked at while the task is active (`InTurn`), that a task with a RESULT on its way
  is nowhere else (`Reports`), and what a tombstone and the three final sets leave of
  a task (`Ends`).  A retry then only brings back a task that is nowhere (`Retried`).
  The refinement is one lemma per actor (`LifeOfClients`, `LifeOfDispatcher`,
  `LifeOfAgents`, `LifeOfRoute`), each a move of one task along an edge
  (`LifeMoves`) or a stutter.

  The limiter in front of `submit_task` has two theorems, for any rate and burst and
  any attempts, at times that do not go back (the code reads `time.monotonic`):
  `RateIsKept` and `SleepIsEnough`.  The induction is over the attempts (`EveryNumber`): what has
  been taken since attempt `i` and what is left (`Spent`) never exceeds the burst and
  what came in since (`SpentInRoom`), and equals it from the last attempt on that found the
  bucket full (`RoomIsUsed`).  So an attempt that is turned away would have been one too many.

  `GroupsAreSettled` says how a broadcast ends, for any number of tasks and any RESULTs
  of them, a second one of the same task included (a late timeout), which the bounded
  check leaves out.  By induction over the RESULTs a group waits with just the tasks it has
  heard of (`Waits`), or is a race somebody has won (`WonBy`), and then hears nothing more
  (`WonStaysWon`).  The RESULTs are those after `broadcast_task` has stored the group;
  earlier ones are forgotten (`EarlyResultForgotten`).
- `DependenciesProofs`: `DependenciesInvHolds`, `WaitersRegisteredHolds`,
  `StartedInOrderHolds`, `NoDoomedWaitHolds`.  The four depend on each other:
  a release empties lists, so `WaitersRegistered` needs `ListsHeld` (the lists
  hold nothing else), `NoDoomedWait` needs both and `Stages` (what a task
  depends on was submitted before it), and the cascade needs that the least
  closed set is closed (`DoomedClosed`).  One lemma for each way a step touches
  the books, then one step per action.
- `WorkflowProofs`: `WorkflowKeepsDependencies`.  Every step of `Workflow` is a
  step of the dependency engine or leaves it alone (`WorkflowStepIsAnyStep`), so
  its invariant holds of workflows too, with loops and `cancel_workflow`.

  `CompleteMeansDoneHolds` (every phase has a task) rests on `ManagerInv`: the books
  the manager keeps per run and per phase agree with each other and with what has
  completed, but for skipped tasks, and each phase whose books are full says so.
  `FailureReportedHolds` (`SelfContained`: the run's tasks depend on tasks of the run;
  the router does not suspend before it registers the run) rests on `FailInv` and on
  `OnePlace` of the engine: a failed task is nowhere, so no RESULT of it takes it off
  the books again.  A cascade tells the manager nothing; that what fails outside
  dooms none of the run's tasks (`OutsideDoomsOutside`) is a property of the least
  closed set.
- `CheckpointProofs`: `StoreInvHolds`, `FinishedStaysFinishedHolds`,
  `OrderSurvivesHolds`, `AcceptedIsStoredHolds`, `BooksSurviveHolds`,
  `RestoredRunHonestHolds`, `ImplementsDurableHolds`.  `FinishedStaysFinished` alone
  is not inductive.  `StoreInv` adds that a row is of one table only and that
  what has a task row has nothing left to wait for (`RowsApart`, `RowsRight`), and
  the fact the code rests on without saying so (`FinishedHeldForEver`): a
  finished task that comes back as held waits only for tasks that completed in
  an earlier life, and those cannot complete again.  One lemma per kind of
  handler (`MovesOnKeeps`, `SubmissionKeeps`, `CompletionKeeps`, `ResumeKeeps`);
  a crash is then a step like any other.

  After a restart the engine no longer knows what completed before the tasks that run,
  so `DependenciesInv` does not survive; the rest of it, `HeldInv`, is inductive by
  itself (`HeldStep`), and `StoreInv` has what `ResumeInOrder` needs to put it down
  anew.  `RunInv` says of the run and of its row alike that what they count finished
  or was skipped.

  `ImplementsDurableHolds` takes each step to one of `DurableWork`, for any
  dependencies and any crashes.  `AcceptedIsStored` is not enough for it, as it asks for
  no row of a task that once ended: the refinement needs that whatever has a place in
  the queue or at an agent has a row now (`PlacedStored`).  That is inductive only with
  `LateElsewhere`: a late timeout removes the row of its task, which must not be placed
  again by then.  Most steps only take tasks from their places (`Leaves`), and so give
  up (`LeavesGivesUp`); a submission, a dispatch, a retry, a completion and a restart
  have a lemma each (`SubmissionIsDurable` ... `ResumeIsDurable`).

- `SupervisionProofs`: `SupervisionInvariant`, `IdleAgentsHaveLoops`, `BreakerKeepsCount`.  `IdleHasLoop`
  speaks of the registered object and of IDLE; inductive is that every object, the
  replaced ones too, has a run loop while it is IDLE or BUSY.  The lemmas say so of
  `stop`, `start` and a run loop that goes back (`Stops`, `Starts`, `GoesBack`), and
  each action is one of these and a change of counts.

  `BreakerKeepsCount` is about the breaker alone, over any sequence of RESULTs, questions
  and waits (`Told`): while it is closed its count is the number of failures since the last
  success, and below the threshold (`Counting`); so it opens with exactly the failure that
  reaches it.  While it is half open the count is zero, so the last line of `is_allowed`,
  which should hold back a second probe, never does.

- `BlackboardProofs`: `StepsInOrder` (`BlackboardInv`, for any plans), and for plans
  that are well formed `NothingIsLost`, `InputsAreReady`, `RunsAreReported`,
  `RepliesComeLast`; `PhasesInOrder` for plans whose tables are exactly what the
  phases promise.  The hypotheses (`Orderly`, `Exact`) are conditions on constants;
  `PlansWellFormed` and `AcceptedWellFormed` evaluate them for this program's
  plans, those of `phases=` and `tasks=` too.  Nothing is assumed of prefixes: what
  `NothingIsLost` and `InputsAreReady` say of a run excepts those that share its prefix, by
  name, and is about runs that keep what they write.  `BlackboardInv` says, besides order, that every value in the pad was
  written by a task of its run that was told to (`PadHonest`) and that a task
  which was given up comes after one that failed (`DoomedByFailure`).
  `NothingLost` is then inductive relative to it: whoever overwrites a key is, by
  `WellFormed`, before or after its writer, and a task before it has ended.

  `TemplatesAreOrderly` proves `WellFormed` of the plans of the ready-made endpoints for
  every request (`FromTemplate`), and `TemplateRunsGoWell` puts it together with
  the others.  Its hypothesis, `Ready`, asks that names stay apart when they are
  cleaned (`Apart`; two that do not are in `IllFormed`), that the templates' keys carry the
  prefix of the run (`Filed`; `quality_approved`, which nobody reads, is
  excepted), and that other plans beside them are well formed.  `LowerLayersFirst`
  is the induction: a task comes after every task of a lower layer.  It takes a
  least counterexample (`LeastNumber`, from `WFMin` of the library, whose parameter
  is a set, not an operator).  `PlanWellFormed` then asks of a template only that a
  task reads what a lower layer writes and that one layer shares no key; it remains
  to say where the tasks of a round are (`InRounds`, with `Quotient` and `Remainder`), or of a
  chain or diamond (`ChainWellFormed`, `DiamondWellFormed`), and what they read and write.
- `EphemeralProofs`: `BranchesAreKept` (`EphemeralInv`), `WorkIsHandedOver`
  (`HandedOver`), for any runs, any dependencies among their tasks, and whether or
  not the endpoint suspends; and from it `LinearRunsSeeAllFiles` (`SeesAllFiles`) when no task
  depends on more than one: behind a parallel phase it is false.
  The first two are proved together: a branch that is handed over has all of its chain
  because its agent committed before it completed (`CommittedFirst`), its branch
  was still there (`BranchKept`), and it had what was before it (`HandedOver` itself).

  `ChainInvHolds` and, from it, `ChainsAreMerged` (`MergedWhenAsked`) have the hypothesis that every run asks for the
  merge: without it the run `Ephemeral_merge` is a counterexample.  They rest on
  `MergeInv`: the end of a task is final, as it has one RESULT (`OneResult`); so what is
  queued has all before it done for good (`DoneAbove`); no chained task of an `orderly` run
  is sent before the run is known (`KnownFirst`, where the guards `midway` of `Next`
  are used: the request does not suspend there); so each branch of the chain is
  tracked, and none after the last (`Tracked`), which is then merged with all the chain
  in it (`MergesLast`, by `HandedOver` and `BranchKept`).

Model-checked only: the liveness properties (`EveryTaskEnds`, `WaitingEnds`,
`RunEnds`, `QueuedSurvives`, `ErrorSettles`, `BreakerLetsGo`, `BranchesGo`) and
`ENABLED`, which TLAPS 1.4 does not prove.  Claims about
recursive definitions (the expansion of phases, over the tree of the request) are
out of the prover's reach here: they are the `ASSUME`s above, over bounded inputs.

## What the models leave out

- The bus drops messages when a subscriber has 256 waiting (`application/bus.py`
  79).  The models keep every RESULT; the route loop suspends only while it stops
  an agent or puts into a full queue.  The route loop's own retry into a full queue
  (`O` 2479) is in `TaskQueue`, what it does to the RESULTs behind it is not.
- `cancel_task` of a task that waits to be retried leaves it in `_active_tasks`
  (`O` 1790); the models have the set, and no property speaks of what is left in it.
- `on_task_retrying` (`application/workflow_manager.py` 382) does not look at the
  run's status.  `Workflow` has the step; the run it revives was being cancelled.
- `Dispatch` and `Dependencies` have an unbounded queue; `TaskQueue` has the
  bounded one.
- `/task-complete` takes no task id, so a slow answer may complete the agent's
  next task.  The models allow it (a completion ends whatever is current) but do
  not say whose answer it was.
- In `Dispatch`, pausing, ephemeral agents and deferred spawn (`Ephemeral` has
  them), capability groups that change, and the breaker's choice among idle agents (any idle agent may
  be chosen).
- In `Dependencies`, dependencies on ids nobody ever submits.  They are held for
  ever, as the code does.
- In `Checkpoint`, the priority a restored task is queued with, its retry count
  (saved as it was at submission), the metadata table, and the bound of the
  queue: with `task_queue_maxsize` set and more rows than places, the resume
  waits in `put` (`O` 633) before the dispatch loop exists, and `start` never
  returns.
- In `Supervision`, `drain_agent` (`Dispatch` has it) and ephemeral agents, which are
  never restarted; tmux and the message loop, so that `stop()` is what it does
  before it suspends and `start()` what it does after.
- An exception in `_on_dep_failed`, the checkpoint or a callback: the code logs
  them and goes on.

- In `Blackboard`, dispatch and retry (the tasks of ready-made workflows are not
  retried), agents spawned per task (`Ephemeral`), and the wording of prompts; a
  run's submission is one step.  In `Phases`, the prompts, tags and webhooks of a
  phase; an empty parallel block, which the expansion lets the next phase overtake;
  sequence and parallel blocks inside a loop, which the code does not expand.
- In `Ephemeral`, retries, cancellation, competitive and debate phases (they
  ignore `chain_branch`), the restart of an agent that keeps its branch (which
  deletes it), merge conflicts, and the two threads of cleanups at one time, which
  check out main side by side without a lock.  Cleanup waits at most ten
  seconds for its agents; the model's waits until they are stopped.
- In `Broadcast`, the cancellation of the losers, which is `cancel_task` of
  `Dispatch`.  In `RateLimiter`, several callers asleep at once, the timeout of
  `acquire`, and the division by a rate that was set to 0 meanwhile
  (`application/rate_limiter.py` 181).

## Not modelled

- *Autoscaler*.  Off unless configured.  It polls sizes and calls operations that
  `Supervision` and `Dispatch` have; its own state is a cooldown.  Read with them, two
  things can go wrong: an agent whose start fails stays registered beyond the
  maximum, and a stop of an idle agent that was sent a task in the same moment loses the task.
- *tmux, processes, trust files*: programs and files outside.  `start()` and
  `stop()` are what they do to status and run loop.
- *Webhooks, context and drift monitors, telemetry, logs*: they are told of things
  and nothing asks them.
- *Mailbox, episode, result and template stores*: files the agents or clients read.
- *Configuration and wiring*: the settings that matter are CONSTANTS, and the limits
  on request bodies are in `Templates`.
- *HTTP, authentication, WebSocket, TUI, demo client*: around the operations
  modelled elsewhere.
