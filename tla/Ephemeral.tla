----------------------------- MODULE Ephemeral ------------------------------
(***************************************************************************)
(* Phases with agent_template: each task of such a phase gets an ephemeral *)
(* agent of its own, with a working tree, that is stopped after its task   *)
(* (application/orchestrator.py: spawn_ephemeral_agent, the dispatch loop, *)
(* the route loop and cleanup_workflow_branches; POST /workflows).         *)
(*                                                                         *)
(* Without chain_branch the endpoint spawns the agent before it submits    *)
(* the task; with it the dispatch loop does when it gets the task, and the *)
(* agent's branch starts from the branch of a task before: of the first    *)
(* that has one, when the task depends on several.                         *)
(*                                                                         *)
(* An agent is named by the task it is for.  The dependencies of a task    *)
(* are released and failed as Dependencies has it, without the lists; the  *)
(* queue is a bag.  The phases' tasks are not retried.                     *)
(***************************************************************************)
EXTENDS Naturals, Sequences, FiniteSets

CONSTANTS
    Run,
    Task,
    Specs,      \* the tasks of each run as the endpoint submits them
    Deps,       \* depends_on: the tasks a task depends on, in order
    Above,      \* the tasks that come before it
    Chained,    \* tasks of phases with chain_branch
    Merge,      \* runs with merge_to_main_on_complete
    Fallible,   \* tasks whose agent's start() may raise
    Synced,     \* agents whose branch a client may sync into main
    Suspends,   \* submit_task may suspend: a rate limit, a full queue
    NoTask

tasks(r) == {Specs[r][i] : i \in DOMAIN Specs[r]}

deps(t) == {Deps[t][i] : i \in DOMAIN Deps[t]}

(* A client's tasks that have nothing to do with the runs.                 *)
Stranger == Task \ UNION {tasks(r) : r \in Run}

ASSUME EphemeralAssumption ==
    /\ Specs \in [Run -> Seq(Task) \ {<<>>}]
    /\ \A q, r \in Run : q # r => tasks(q) \cap tasks(r) = {}
    /\ \A r \in Run : \A i, j \in DOMAIN Specs[r] : Specs[r][i] = Specs[r][j] => i = j
    /\ Deps \in [Task -> Seq(Task)]
    /\ \A t \in Stranger : Deps[t] = <<>>
    /\ \A r \in Run : \A j \in DOMAIN Specs[r] :
         deps(Specs[r][j]) \subseteq {Specs[r][i] : i \in 1..j - 1}
    /\ Above \in [Task -> SUBSET Task]
    /\ \A t \in Task : Above[t] = deps(t) \cup UNION {Above[d] : d \in deps(t)}
    /\ \A t \in Task : \A u \in Above[t] : Above[u] \subseteq Above[t]
    /\ Chained \subseteq Task \ Stranger
    /\ Merge \subseteq Run
    /\ NoTask \notin Task

VARIABLES
    \* the endpoint and the manager
    at,         \* how many tasks of a run are submitted
    aborted,    \* requests that ended in an error
    local_id_to_ephemeral,
    registered, \* runs given to wm.submit
    callback,   \* _branch_cleanup_fn: whether it merges
    heard,      \* tasks whose end the manager was told
    \* the orchestrator
    stage,      \* of each task
    bus,        \* RESULTs on their way to the route loop
    stopping,   \* the agent the route loop waits for in stop()
    tracked,    \* _workflow_branches
    cleanup,    \* of each run, the coroutine that cleans up
    left,       \* the branches it deletes, in the order they came
    merges,     \* the runs it was told to merge
    \* the agents
    agent,      \* the state of each
    load,       \* the task it is on
    branches, worktrees, tip, main

INSTANCE Worktree WITH Agent <- Task

endpointVars == <<at, aborted, local_id_to_ephemeral, registered, callback>>
repoVars == <<branches, worktrees, tip, main>>
cleanupVars == <<tracked, cleanup, left, merges>>
vars == <<endpointVars, heard, stage, bus, stopping, cleanupVars, agent, load, repoVars>>

Last(s) == s[Len(s)]
runOf(t) == CHOOSE r \in Run : t \in tasks(r)

Init ==
    /\ at = [r \in Run |-> 0]
    /\ aborted = {} /\ registered = {} /\ heard = {}
    /\ local_id_to_ephemeral = [r \in Run |-> <<>>]
    /\ callback = FALSE
    /\ stage = [t \in Task |-> IF t \in Stranger THEN "queued" ELSE "unsent"]
    /\ bus = <<>> /\ stopping = NoTask
    /\ tracked = [r \in Run |-> <<>>]
    /\ cleanup = [r \in Run |-> "no"]
    /\ left = [r \in Run |-> <<>>]
    /\ merges = {}
    /\ agent = [t \in Task |-> "none"]
    /\ load = [t \in Task |-> NoTask]
    /\ Empty

-----------------------------------------------------------------------------
(* POST /workflows                                                         *)

open(r) == r \notin aborted \cup registered
next(r) == Specs[r][at[r] + 1]
atSpawn(r) == at[r] < Len(Specs[r]) /\ next(r) \notin Chained

(* Between two tasks it suspends to spawn an agent.                        *)
midway(r) == open(r) /\ at[r] > 0 /\ ~atSpawn(r)

spawn(r) ==
    /\ open(r) /\ atSpawn(r) /\ agent[next(r)] = "none"
    /\ agent' = [agent EXCEPT ![next(r)] = "idle"]
    /\ setup(next(r))
    /\ local_id_to_ephemeral' = [local_id_to_ephemeral EXCEPT ![r] = Append(@, next(r))]
    /\ UNCHANGED <<at, aborted, registered, callback, heard, stage, bus, stopping, cleanupVars,
                   load>>

(* It stays registered, with status STOPPED; the tasks submitted before it *)
(* go on.                                                                  *)
spawnRaises(r) ==
    /\ open(r) /\ atSpawn(r) /\ agent[next(r)] = "none"
    /\ next(r) \in Fallible
    /\ agent' = [agent EXCEPT ![next(r)] = "broken"]
    /\ aborted' = aborted \cup {r}
    /\ UNCHANGED <<at, local_id_to_ephemeral, registered, callback, heard, stage, bus, stopping,
                   cleanupVars, load, repoVars>>

done(t) == stage[t] = "done"

submit_task(r) ==
    /\ open(r) /\ at[r] < Len(Specs[r])
    /\ next(r) \in Chained \/ agent[next(r)] # "none"
    /\ at' = [at EXCEPT ![r] = @ + 1]
    /\ stage' = [stage EXCEPT ![next(r)] =
          IF \A d \in deps(next(r)) : done(d) THEN "queued"
          ELSE IF \E d \in deps(next(r)) : stage[d] = "failed" THEN "failed" ELSE "held"]
    /\ UNCHANGED <<aborted, local_id_to_ephemeral, registered, callback, heard, bus, stopping,
                   cleanupVars, agent, load, repoVars>>

(* The agents spawned so far by the endpoint are known for the run.  The   *)
(* manager has one callback for all runs: that of the last one.            *)
register(r) ==
    /\ open(r) /\ at[r] = Len(Specs[r])
    /\ registered' = registered \cup {r}
    /\ tracked' = [tracked EXCEPT ![r] = local_id_to_ephemeral[r]]
    /\ callback' = (r \in Merge)
    /\ UNCHANGED <<at, aborted, local_id_to_ephemeral, heard, stage, bus, stopping, cleanup,
                   left, merges, agent, load, repoVars>>

-----------------------------------------------------------------------------
(* The dispatch loop.                                                      *)

spawned(t) == agent[t] \in {"idle", "busy", "stopping", "stopped"}

(* The tasks with a branch to start from: _task_ephemeral_agent has the    *)
(* agents of chained tasks only.                                           *)
(* Mutant: an agent that was stopped is not looked for.                    *)
recorded_live == {p \in Chained : agent[p] \in {"idle", "busy", "stopping"}}

recorded == {p \in Chained : spawned(p)}

(* p is the first of those t depends on that is in S.                      *)
firstIn(p, t, S) ==
    \E i \in DOMAIN Deps[t] :
        Deps[t][i] = p /\ p \in S /\ \A j \in 1..i - 1 : Deps[t][j] \notin S

(* The loop over _chain_pred_task_ids stops at the first branch: what the  *)
(* others that t depends on have committed is not handed down.             *)
spawn_ephemeral_agent(t) ==
    \/ \E p \in deps(t) : firstIn(p, t, recorded) /\ create_from_branch(t, p)
    \/ deps(t) \cap recorded = {} /\ setup(t)

(* It is tracked if the run is known by now.                               *)
track(t) ==
    tracked' = IF runOf(t) \in registered
               THEN [tracked EXCEPT ![runOf(t)] = Append(@, t)] ELSE tracked

(* The agent is spawned, and sent its task in the same turn.               *)
dispatchChained(t) ==
    /\ t \in Chained /\ stage[t] = "queued" /\ agent[t] = "none"
    /\ spawn_ephemeral_agent(t)
    /\ track(t)
    /\ stage' = [stage EXCEPT ![t] = "sent"]
    /\ agent' = [agent EXCEPT ![t] = "busy"]
    /\ load' = [load EXCEPT ![t] = t]
    /\ UNCHANGED <<endpointVars, heard, bus, stopping, cleanup, left, merges>>

dispatchRaises(t) ==
    /\ t \in Chained \cap Fallible /\ stage[t] = "queued" /\ agent[t] = "none"
    /\ stage' = [stage EXCEPT ![t] = "dead"]
    /\ agent' = [agent EXCEPT ![t] = "broken"]
    /\ UNCHANGED <<endpointVars, heard, bus, stopping, cleanupVars, load, repoVars>>

(* A task whose agent was spawned before: agent e has to be that one.  Any *)
(* other task goes to any agent that is IDLE.                              *)
dispatch(t, e) ==
    /\ t \notin Chained /\ stage[t] = "queued"
    /\ t \in Stranger \/ t = e
    /\ agent[e] = "idle"
    /\ stage' = [stage EXCEPT ![t] = "sent"]
    /\ agent' = [agent EXCEPT ![e] = "busy"]
    /\ load' = [load EXCEPT ![e] = t]
    /\ UNCHANGED <<endpointVars, heard, bus, stopping, cleanupVars, repoVars>>

(* Its agent is gone, or is busy for too long.                             *)
dead_letter(t) ==
    /\ t \notin Chained \cup Stranger /\ stage[t] = "queued"
    /\ agent[t] \in {"busy", "stopping", "stopped"}
    /\ stage' = [stage EXCEPT ![t] = "dead"]
    /\ UNCHANGED <<endpointVars, heard, bus, stopping, cleanupVars, agent, load, repoVars>>

(* A client's task may go to an agent of the configuration too.            *)
servedElsewhere(t) ==
    /\ t \in Stranger /\ stage[t] = "queued"
    /\ stage' = [stage EXCEPT ![t] = "done"]
    /\ UNCHANGED <<endpointVars, heard, bus, stopping, cleanupVars, agent, load, repoVars>>

-----------------------------------------------------------------------------
(* The agents.  Either way the agent is IDLE before its RESULT is handled. *)

ends(e, ok) ==
    /\ agent[e] = "busy"
    /\ bus' = Append(bus, [agent |-> e, task |-> load[e], ok |-> ok])
    /\ agent' = [agent EXCEPT ![e] = "idle"]
    /\ load' = [load EXCEPT ![e] = NoTask]
    /\ UNCHANGED <<endpointVars, heard, stage, stopping, cleanupVars>>

completes(e) == ends(e, TRUE) /\ commit(e, {load[e]})

fails(e) == ends(e, FALSE) /\ UNCHANGED repoVars

(* POST /agents/{id}/sync                                                  *)
sync(e) ==
    /\ e \in Synced /\ agent[e] \in {"idle", "busy", "stopping"}
    /\ sync_to_branch(e) \/ sync_rebase(e)
    /\ UNCHANGED <<endpointVars, heard, stage, bus, stopping, cleanupVars, agent, load>>

-----------------------------------------------------------------------------
(* The route loop.                                                         *)

(* It waits for no other.                                                  *)
released_by(u, t) == t \in deps(u) /\ \A d \in deps(u) \ {t} : done(d)

(* Mutant: what is held behind a task is released however it ends.         *)
ended_releases(t, ok) ==
    [u \in Task |->
        IF u = t THEN IF ok THEN "done" ELSE "failed"
        ELSE IF stage[u] = "held" /\ released_by(u, t) THEN "queued"
        ELSE stage[u]]

ended(t, ok) ==
    [u \in Task |->
        IF u = t THEN IF ok THEN "done" ELSE "failed"
        ELSE IF stage[u] = "held" /\ ok /\ released_by(u, t) THEN "queued"
        ELSE IF stage[u] = "held" /\ ~ok /\ t \in Above[u] THEN "failed"
        ELSE stage[u]]

(* on_task_complete and on_task_failed.  The tasks that fail with t are    *)
(* not heard of; when all the others have ended the run is cleaned up.     *)
told(t) ==
    LET r == runOf(t)
        known == t \notin Stranger /\ r \in registered
        over == known /\ cleanup[r] = "no" /\ tasks(r) \subseteq heard \cup {t}
    IN  /\ heard' = IF known THEN heard \cup {t} ELSE heard
        /\ cleanup' = IF over THEN [cleanup EXCEPT ![r] = "scheduled"] ELSE cleanup
        /\ merges' = IF over /\ callback THEN merges \cup {r} ELSE merges

route ==
    /\ stopping = NoTask /\ bus # <<>>
    /\ LET m == Head(bus)
       IN  /\ stage' = ended(m.task, m.ok)
           /\ told(m.task)
           /\ IF agent[m.agent] \in {"idle", "busy"}
              THEN /\ stopping' = m.agent
                   /\ agent' = [agent EXCEPT ![m.agent] = "stopping"]
              ELSE UNCHANGED <<stopping, agent>>
    /\ bus' = Tail(bus)
    /\ UNCHANGED <<endpointVars, tracked, left, load, repoVars>>

(* The working tree is removed; what the agent was sent meanwhile is lost. *)
stopped ==
    /\ stopping # NoTask
    /\ stopping' = NoTask
    /\ agent' = [agent EXCEPT ![stopping] = "stopped"]
    /\ keep_branch(stopping)
    /\ UNCHANGED <<endpointVars, heard, stage, bus, cleanupVars, load>>

-----------------------------------------------------------------------------
(* cleanup_workflow_branches                                               *)

popBranches(r) ==
    /\ cleanup[r] = "scheduled"
    /\ left' = [left EXCEPT ![r] = tracked[r]]
    /\ tracked' = [tracked EXCEPT ![r] = <<>>]
    /\ cleanup' = [cleanup EXCEPT ![r] =
          IF tracked[r] = <<>> THEN "over" ELSE IF r \in merges THEN "merging" ELSE "waiting"]
    /\ UNCHANGED <<endpointVars, heard, stage, bus, stopping, merges, agent, load, repoVars>>

(* Mutant: it is the first one.                                            *)
finalBranch_first(r) == Head(left[r])

finalBranch(r) == Last(left[r])

mergeFinal(r) ==
    /\ cleanup[r] = "merging"
    /\ merge_branch_to_main(finalBranch(r))
    /\ cleanup' = [cleanup EXCEPT ![r] = "waiting"]
    /\ UNCHANGED <<endpointVars, heard, stage, bus, stopping, tracked, left, merges, agent, load>>

(* It waits for up to ten seconds, which is enough to stop an agent.       *)
(* Mutant: it does not wait.                                               *)
released_at_once(r) == TRUE

released(r) ==
    \A i \in DOMAIN left[r] : agent[left[r][i]] \notin {"idle", "busy", "stopping"}

deleteBranches(r) ==
    /\ cleanup[r] = "waiting" /\ released(r)
    /\ delete_branches({left[r][i] : i \in DOMAIN left[r]})
    /\ cleanup' = [cleanup EXCEPT ![r] = "over"]
    /\ UNCHANGED <<endpointVars, heard, stage, bus, stopping, tracked, left, merges, agent, load>>

-----------------------------------------------------------------------------

endpoint(r) == spawn(r) \/ spawnRaises(r) \/ submit_task(r) \/ register(r)

dispatches(t) ==
    \/ dispatchChained(t) \/ dispatchRaises(t) \/ dead_letter(t) \/ servedElsewhere(t)
    \/ \E e \in Task : dispatch(t, e)

cleans(r) == popBranches(r) \/ mergeFinal(r) \/ deleteBranches(r)

Next ==
    \/ \E r \in Run : midway(r) /\ endpoint(r)
    \/ /\ Suspends \/ \A r \in Run : ~midway(r)
       /\ \/ \E r \in Run : endpoint(r) \/ cleans(r)
          \/ \E t \in Task : dispatches(t)
          \/ \E e \in Task : completes(e) \/ fails(e) \/ sync(e)
          \/ route \/ stopped

Spec == Init /\ [][Next]_vars

(* The loops and coroutines run whenever they can; an agent ends its task. *)
Fairness ==
    /\ \A r \in Run : WF_vars(endpoint(r)) /\ WF_vars(cleans(r))
    /\ \A t \in Task : WF_vars(dispatches(t)) /\ WF_vars(completes(t) \/ fails(t))
    /\ WF_vars(route) /\ WF_vars(stopped)

FairSpec == Spec /\ Fairness

-----------------------------------------------------------------------------
(* Properties.                                                             *)

(* The tasks before t from where every task on the way has chain_branch:   *)
(* "phase N+1 sees all files committed by phase N".                        *)
upstream(t) ==
    {u \in Above[t] \cap Chained :
        t \in Chained /\ \A v \in Above[t] : u \in Above[v] => v \in Chained}

(* Those whose work is handed down to t: each task on the way has them     *)
(* behind the first that it depends on.                                    *)
chain(t) ==
    {u \in upstream(t) : \A v \in {t} \cup Above[t] : u \in Above[v] =>
        \E p \in deps(v) : firstIn(p, v, Chained) /\ (u = p \/ u \in Above[p])}

Stage == {"unsent", "held", "queued", "sent", "done", "failed", "dead"}
Result == [agent : Task, task : Task, ok : BOOLEAN]

RepoOK ==
    /\ branches \subseteq Task /\ worktrees \subseteq Task
    /\ tip \in [Task -> SUBSET Task] /\ main \subseteq Task

TypeOK ==
    /\ at \in [Run -> Nat]
    /\ aborted \subseteq Run /\ registered \subseteq Run /\ merges \subseteq Run
    /\ callback \in BOOLEAN
    /\ heard \subseteq Task
    /\ stage \in [Task -> Stage]
    /\ bus \in Seq(Result)
    /\ stopping \in Task \cup {NoTask}
    /\ {local_id_to_ephemeral, tracked, left} \subseteq [Run -> Seq(Task)]
    /\ cleanup \in [Run -> {"no", "scheduled", "merging", "waiting", "over"}]
    /\ agent \in [Task -> {"none", "broken", "idle", "busy", "stopping", "stopped"}]
    /\ load \in [Task -> Task \cup {NoTask}]
    /\ RepoOK

(* The endpoint sends the tasks in order, each once.                       *)
SentInOrder ==
    \A r \in Run :
        /\ at[r] \in 0..Len(Specs[r])
        /\ \A i \in DOMAIN Specs[r] : stage[Specs[r][i]] = "unsent" <=> i > at[r]

(* Nobody has a task that was not sent.                                    *)
SentFirst ==
    /\ \A e \in Task : load[e] # NoTask => stage[load[e]] # "unsent"
    /\ \A i \in DOMAIN bus : stage[bus[i].task] # "unsent"

(* What a run tracks and deletes are branches of its own.                  *)
OwnBranches ==
    \A r \in Run :
        {local_id_to_ephemeral[r], tracked[r], left[r]} \subseteq Seq(tasks(r))

(* A run is cleaned up after all of its tasks have ended.                  *)
CleanedLast ==
    /\ \A t \in heard : stage[t] \in {"done", "failed"}
    /\ \A r \in Run : cleanup[r] # "no" => tasks(r) \subseteq heard

(* Until its branches are deleted each agent that was started has its one. *)
BranchKept ==
    \A r \in Run : cleanup[r] # "over" =>
        \A t \in tasks(r) : spawned(t) => t \in branches

StopsItsAgent == stopping # NoTask => agent[stopping] = "stopping"

(* A chained task is for its own agent, which commits before it completes. *)
committed(t) == spawned(t) /\ t \in tip[t]

CommittedFirst ==
    /\ \A e \in Task : load[e] \in Chained => load[e] = e
    /\ \A e \in Task : agent[e] = "busy" => load[e] # NoTask
    /\ \A i \in DOMAIN bus :
         bus[i].ok /\ bus[i].task \in Chained => committed(bus[i].task)
    /\ \A t \in Chained : stage[t] = "done" => committed(t)
    /\ \A t \in Chained : stage[t] = "queued" =>
         \A p \in deps(t) \cap Chained : committed(p)

EphemeralInv ==
    /\ TypeOK /\ SentInOrder /\ SentFirst /\ OwnBranches /\ CleanedLast
    /\ BranchKept /\ StopsItsAgent /\ CommittedFirst

(* The agent of a phase with chain_branch sees what the agents of the      *)
(* phases before it committed, as far back as they have chain_branch too:  *)
(* though all of these agents were stopped, and whatever they and the      *)
(* agents of other runs have done since.  After a phase of several tasks   *)
(* that is the work of the first of them only.                             *)
HandedOver == \A t \in Chained : spawned(t) => chain(t) \subseteq tip[t]

(* What the comment on chain_branch says: that it sees all of their files. *)
SeesAllFiles == \A t \in Chained : spawned(t) => upstream(t) \subseteq tip[t]

(* All agents the endpoint spawns for the run come before its chained      *)
(* tasks, so that it does not suspend between them.                        *)
orderly(r) ==
    /\ ~Suspends
    /\ \A i, j \in DOMAIN Specs[r] : i < j /\ Specs[r][i] \in Chained => Specs[r][j] \in Chained

final(r) == Last(Specs[r])

(* All other tasks of the run come before its last one.  Phases in the     *)
(* middle may be of several tasks: the chain has the first of each.        *)
isChain(r) ==
    /\ orderly(r) /\ final(r) \in Chained
    /\ tasks(r) = {final(r)} \cup Above[final(r)]

allDone(r) == \A t \in tasks(r) : stage[t] = "done"

(* A run that asked for it has the work of its chain on main when it is    *)
(* cleaned up: the last branch there is was merged, and it had all of it.  *)
MergedWhenAsked ==
    \A r \in Merge :
        cleanup[r] = "over" /\ isChain(r) /\ allDone(r)
        => {final(r)} \cup chain(final(r)) \subseteq main

-----------------------------------------------------------------------------
(* Why the last one holds, when all runs ask for it.                       *)

(* A task has one RESULT at most, so that its end is final.                *)
OneResult ==
    /\ \A e \in Task : load[e] # NoTask =>
         /\ stage[load[e]] = "sent"
         /\ \A f \in Task \ {e} : load[f] # load[e]
         /\ \A i \in DOMAIN bus : bus[i].task # load[e]
    /\ \A i \in DOMAIN bus :
         /\ stage[bus[i].task] = "sent"
         /\ \A j \in DOMAIN bus \ {i} : bus[j].task # bus[i].task

(* What is queued has everything before it done.                           *)
DoneAbove ==
    \A t \in Task : stage[t] \in {"queued", "sent", "done", "dead"} =>
        \A u \in Above[t] : stage[u] = "done"

(* No chained task of an orderly run gets its agent before the run is      *)
(* known, and a request that failed had sent none.                         *)
KnownFirst ==
    \A r \in Run : orderly(r) =>
        /\ r \in aborted => atSpawn(r)
        /\ r \notin registered => \A t \in tasks(r) \cap Chained : ~spawned(t)

(* So all of these agents are tracked, the last one last.                  *)
Tracked ==
    \A r \in Run :
        /\ \A i \in DOMAIN local_id_to_ephemeral[r] :
              local_id_to_ephemeral[r][i] \notin Chained
        /\ \A i \in DOMAIN tracked[r] :
              tracked[r][i] \in Chained => stage[tracked[r][i]] \in {"sent", "done", "failed"}
        /\ orderly(r) /\ cleanup[r] \in {"no", "scheduled"} =>
              \A t \in tasks(r) \cap Chained :
                  spawned(t) => \E i \in DOMAIN tracked[r] : tracked[r][i] = t
        /\ isChain(r) /\ stage[final(r)] # "failed" =>
              \A i \in DOMAIN tracked[r] :
                  tracked[r][i] = final(r) => Last(tracked[r]) = final(r)

(* The last branch is merged before the branches go.                       *)
MergesLast ==
    /\ registered # {} => callback
    /\ \A r \in Run : cleanup[r] # "no" => r \in registered \cap merges
    /\ \A r \in Run : isChain(r) /\ allDone(r) =>
         /\ cleanup[r] = "merging" => left[r] # <<>> /\ finalBranch(r) = final(r)
         /\ cleanup[r] \in {"waiting", "over"} =>
              {final(r)} \cup chain(final(r)) \subseteq main

(* The branches of a chain are tracked in its order, after each other, so  *)
(* that the last is the one to merge.                                      *)
MergeInv == OneResult /\ DoneAbove /\ KnownFirst /\ Tracked /\ MergesLast

(* When every run asks for the merge, all of it is kept.                   *)
ChainInv == EphemeralInv /\ MergeInv

(* No branch is left of a run all of whose tasks have ended by themselves. *)
BranchesGo ==
    \A r \in Run : orderly(r) =>
        (tasks(r) \subseteq heard ~> branches \cap tasks(r) = {})

=============================================================================
