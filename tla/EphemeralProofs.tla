-------------------------- MODULE EphemeralProofs ---------------------------
(***************************************************************************)
(* Proofs about Ephemeral: that branches are kept until all tasks of a run *)
(* have ended, and that an agent of a phase with chain_branch has the work *)
(* of the phases before, for any runs, any dependencies, any other tasks   *)
(* and whether or not submit_task suspends; and that the work of a chain   *)
(* is merged when every run asks for it and submit_task does not suspend.  *)
(***************************************************************************)
EXTENDS Ephemeral, TLAPS

-----------------------------------------------------------------------------
(* The tasks of a run.                                                     *)

LEMMA NextTask ==
    ASSUME NEW r \in Run, at[r] \in Nat, at[r] < Len(Specs[r])
    PROVE  /\ next(r) \in tasks(r) /\ next(r) \in Task
           /\ at[r] + 1 \in DOMAIN Specs[r]
<1>1. Specs[r] \in Seq(Task)
  BY EphemeralAssumption
<1> QED  BY <1>1 DEF next, tasks

LEMMA TasksOfRun == ASSUME NEW r \in Run PROVE tasks(r) \subseteq Task
<1>1. Specs[r] \in Seq(Task)
  BY EphemeralAssumption
<1> QED  BY <1>1 DEF tasks

LEMMA RunOf ==
    ASSUME NEW t \in Task, t \notin Stranger
    PROVE  runOf(t) \in Run /\ t \in tasks(runOf(t))
BY DEF Stranger, runOf

LEMMA DepsTyped ==
    ASSUME NEW t \in Task PROVE deps(t) \subseteq Task
<1>1. Deps[t] \in Seq(Task)
  BY EphemeralAssumption
<1> QED  BY <1>1 DEF deps

LEMMA RunsApart ==
    ASSUME NEW q \in Run, NEW r \in Run, NEW t \in tasks(q), t \in tasks(r)
    PROVE  q = r
BY EphemeralAssumption

-----------------------------------------------------------------------------
(* The types.                                                              *)

LEMMA AddTypes ==
    ASSUME RepoOK, NEW t \in Task, NEW work \in SUBSET Task, worktreeAdd(t, work)
    PROVE  RepoOK'
BY DEF RepoOK, worktreeAdd

(* What the dispatch loop adds to the repository for a chained task.       *)
LEMMA SpawnAdds ==
    ASSUME RepoOK, NEW t \in Task, spawn_ephemeral_agent(t)
    PROVE  \E work \in SUBSET Task :
             /\ worktreeAdd(t, work)
             /\ \/ \E p \in deps(t) : firstIn(p, t, recorded) /\ (p \in branches => work = tip[p])
                \/ deps(t) \cap recorded = {}
<1>0. main \in SUBSET Task
  BY DEF RepoOK
<1>1. ASSUME NEW p \in deps(t), firstIn(p, t, recorded), create_from_branch(t, p)
      PROVE  \E work \in SUBSET Task : worktreeAdd(t, work) /\ (p \in branches => work = tip[p])
  <2>1. p \in Task
    BY DepsTyped
  <2>2. tip[p] \in SUBSET Task
    BY <2>1 DEF RepoOK
  <2> QED  BY <1>0, <1>1, <2>2 DEF create_from_branch
<1>2. CASE deps(t) \cap recorded = {} /\ setup(t)
  BY <1>0, <1>2 DEF setup
<1> QED  BY <1>1, <1>2 DEF spawn_ephemeral_agent

LEMMA EndpointTypes ==
    ASSUME TypeOK, NEW r \in Run, endpoint(r) PROVE TypeOK'
<1> USE DEF TypeOK
<1>1. CASE spawn(r)
  <2>1. next(r) \in Task
    BY <1>1, NextTask DEF spawn, atSpawn
  <2>2. local_id_to_ephemeral' \in [Run -> Seq(Task)]
    BY <1>1, <2>1 DEF spawn
  <2> QED  BY <1>1, <2>1, <2>2 DEF spawn, setup, worktreeAdd, cleanupVars, RepoOK
<1>2. CASE spawnRaises(r)
  <2>1. next(r) \in Task
    BY <1>2, NextTask DEF spawnRaises, atSpawn
  <2> QED  BY <1>2, <2>1 DEF spawnRaises, repoVars, cleanupVars, RepoOK
<1>3. CASE submit_task(r)
  <2>1. next(r) \in Task
    BY <1>3, NextTask DEF submit_task
  <2>2. stage' \in [Task -> Stage]
    BY <1>3, <2>1 DEF submit_task, Stage
  <2> QED  BY <1>3, <2>2 DEF submit_task, repoVars, cleanupVars, RepoOK
<1>4. CASE register(r)
  <2>1. tracked' \in [Run -> Seq(Task)]
    BY <1>4 DEF register
  <2> QED  BY <1>4, <2>1 DEF register, repoVars, RepoOK
<1> QED  BY <1>1, <1>2, <1>3, <1>4 DEF endpoint

LEMMA DispatchTypes ==
    ASSUME TypeOK, NEW t \in Task, dispatches(t) PROVE TypeOK'
<1> USE DEF TypeOK
<1>1. CASE dispatchChained(t)
  <2>1. RepoOK'
    BY <1>1, SpawnAdds, AddTypes DEF dispatchChained
  <2>2. tracked' \in [Run -> Seq(Task)]
    BY <1>1 DEF dispatchChained, track
  <2>3. /\ stage' \in [Task -> Stage]
        /\ agent' \in [Task -> {"none", "broken", "idle", "busy", "stopping", "stopped"}]
        /\ load' \in [Task -> Task \cup {NoTask}]
    BY <1>1 DEF dispatchChained, Stage
  <2> QED  BY <1>1, <2>1, <2>2, <2>3 DEF dispatchChained, endpointVars
<1>2. CASE dispatchRaises(t)
  <2>1. /\ stage' \in [Task -> Stage]
        /\ agent' \in [Task -> {"none", "broken", "idle", "busy", "stopping", "stopped"}]
    BY <1>2 DEF dispatchRaises, Stage
  <2> QED  BY <1>2, <2>1 DEF dispatchRaises, endpointVars, cleanupVars, repoVars, RepoOK
<1>3. CASE dead_letter(t) \/ servedElsewhere(t)
  <2>1. stage' \in [Task -> Stage]
    BY <1>3 DEF dead_letter, servedElsewhere, Stage
  <2> QED  BY <1>3, <2>1 DEF dead_letter, servedElsewhere, endpointVars, cleanupVars, repoVars, RepoOK
<1>4. ASSUME NEW e \in Task, dispatch(t, e) PROVE TypeOK'
  <2>1. /\ stage' \in [Task -> Stage]
        /\ agent' \in [Task -> {"none", "broken", "idle", "busy", "stopping", "stopped"}]
        /\ load' \in [Task -> Task \cup {NoTask}]
    BY <1>4 DEF dispatch, Stage
  <2> QED  BY <1>4, <2>1 DEF dispatch, endpointVars, cleanupVars, repoVars, RepoOK
<1> QED  BY <1>1, <1>2, <1>3, <1>4 DEF dispatches

(* A sync brings the tips of branches together.                            *)
LEMMA SyncTypes ==
    ASSUME RepoOK, NEW e \in Task, sync_to_branch(e) \/ sync_rebase(e)
    PROVE  RepoOK'
<1>1. /\ branches \subseteq Task /\ worktrees \subseteq Task
      /\ tip \in [Task -> SUBSET Task] /\ main \subseteq Task
  BY DEF RepoOK
<1>2. tip[e] \subseteq Task
  BY <1>1
<1>3. branches' = branches /\ worktrees' = worktrees /\ main' = main \cup tip[e]
  BY DEF sync_to_branch, sync_rebase
<1>4. tip' \in [Task -> SUBSET Task]
  <2>1. CASE sync_to_branch(e)
    BY <1>1, <2>1 DEF sync_to_branch
  <2>2. CASE sync_rebase(e)
    <3>1. tip' = [tip EXCEPT ![e] = main \cup tip[e]]
      BY <2>2 DEF sync_rebase
    <3>2. main \cup tip[e] \in SUBSET Task
      BY <1>1, <1>2
    <3> QED  BY <1>1, <3>1, <3>2
  <2> QED  BY <2>1, <2>2
<1>5. main' \subseteq Task
  BY <1>1, <1>2, <1>3
<1> QED  BY <1>1, <1>3, <1>4, <1>5 DEF RepoOK

LEMMA AgentTypes ==
    ASSUME TypeOK, CommittedFirst, NEW e \in Task, completes(e) \/ fails(e) \/ sync(e)
    PROVE  TypeOK'
<1> USE DEF TypeOK
<1>1. ASSUME NEW ok \in BOOLEAN, ends(e, ok)
      PROVE  /\ load[e] \in Task
             /\ bus' \in Seq(Result)
             /\ agent' \in [Task -> {"none", "broken", "idle", "busy", "stopping", "stopped"}]
             /\ load' \in [Task -> Task \cup {NoTask}]
             /\ UNCHANGED <<endpointVars, heard, stage, stopping, cleanupVars>>
  <2>1. load[e] \in Task
    BY <1>1 DEF ends, CommittedFirst
  <2>2. [agent |-> e, task |-> load[e], ok |-> ok] \in Result
    BY <2>1 DEF Result
  <2> QED  BY <1>1, <2>1, <2>2 DEF ends
<1>2. CASE completes(e)
  <2>1. RepoOK'
    BY <1>1, <1>2 DEF completes, commit, RepoOK
  <2> QED  BY <1>1, <1>2, <2>1 DEF completes, endpointVars, cleanupVars
<1>3. CASE fails(e)
  <2>1. RepoOK'
    BY <1>3 DEF fails, repoVars, RepoOK
  <2> QED  BY <1>1, <1>3, <2>1 DEF fails, endpointVars, cleanupVars
<1>4. CASE sync(e)
  <2>1. RepoOK'
    BY <1>4, SyncTypes DEF sync
  <2> QED  BY <1>4, <2>1 DEF sync, endpointVars, cleanupVars
<1> QED  BY <1>2, <1>3, <1>4

LEMMA RouteTypes ==
    ASSUME TypeOK, route \/ stopped PROVE TypeOK'
<1> USE DEF TypeOK
<1>1. CASE route
  <2>1. Head(bus) \in Result /\ Tail(bus) \in Seq(Result)
    BY <1>1 DEF route
  <2> DEFINE m == Head(bus)
  <2>2. m.agent \in Task /\ m.task \in Task
    BY <2>1 DEF Result
  <2>3. stage' \in [Task -> Stage]
    BY <1>1 DEF route, ended, Stage
  <2>4. /\ heard' \subseteq Task
        /\ cleanup' \in [Run -> {"no", "scheduled", "merging", "waiting", "over"}]
    BY <1>1, <2>2 DEF route, told
  <2>5. merges' \subseteq Run
    <3>1. m.task \notin Stranger => runOf(m.task) \in Run
      BY <2>2, RunOf
    <3> QED  BY <1>1, <3>1 DEF route, told
  <2>6. /\ stopping' \in Task \cup {NoTask}
        /\ agent' \in [Task -> {"none", "broken", "idle", "busy", "stopping", "stopped"}]
    BY <1>1, <2>2 DEF route
  <2> QED  BY <1>1, <2>1, <2>3, <2>4, <2>5, <2>6 DEF route, endpointVars, repoVars, RepoOK
<1>2. CASE stopped
  <2>1. RepoOK'
    BY <1>2 DEF stopped, keep_branch, RepoOK
  <2> QED  BY <1>2, <2>1 DEF stopped, endpointVars, cleanupVars
<1> QED  BY <1>1, <1>2

LEMMA CleanupTypes ==
    ASSUME TypeOK, NEW r \in Run, cleans(r) PROVE TypeOK'
<1> USE DEF TypeOK
<1>1. CASE popBranches(r)
  <2>1. {tracked', left'} \subseteq [Run -> Seq(Task)]
    BY <1>1 DEF popBranches
  <2>2. cleanup' \in [Run -> {"no", "scheduled", "merging", "waiting", "over"}]
    BY <1>1 DEF popBranches
  <2> QED  BY <1>1, <2>1, <2>2 DEF popBranches, endpointVars, repoVars, RepoOK
<1>2. CASE mergeFinal(r)
  <2>1. RepoOK'
    BY <1>2 DEF mergeFinal, merge_branch_to_main, RepoOK
  <2> QED  BY <1>2, <2>1 DEF mergeFinal, endpointVars
<1>3. CASE deleteBranches(r)
  <2>1. RepoOK'
    BY <1>3 DEF deleteBranches, delete_branches, RepoOK
  <2> QED  BY <1>3, <2>1 DEF deleteBranches, endpointVars
<1> QED  BY <1>1, <1>2, <1>3 DEF cleans

LEMMA NextCases ==
    ASSUME Next
    PROVE  \/ \E r \in Run : endpoint(r) \/ cleans(r)
           \/ \E t \in Task : dispatches(t)
           \/ \E e \in Task : completes(e) \/ fails(e) \/ sync(e)
           \/ route \/ stopped
BY DEF Next

LEMMA TypesKept == ASSUME EphemeralInv, Next PROVE TypeOK'
BY NextCases, EndpointTypes, DispatchTypes, AgentTypes, RouteTypes, CleanupTypes
   DEF EphemeralInv

-----------------------------------------------------------------------------
(* What the steps of a part leave alone.                                   *)

LEMMA CleansOnly ==
    ASSUME NEW r \in Run, cleans(r)
    PROVE  UNCHANGED <<at, registered, heard, stage, bus, stopping, agent, load, tip,
                       local_id_to_ephemeral>>
BY DEF cleans, popBranches, mergeFinal, deleteBranches, merge_branch_to_main,
       delete_branches, endpointVars, repoVars

LEMMA DispatchOnly ==
    ASSUME NEW t \in Task, dispatches(t)
    PROVE  UNCHANGED <<at, registered, heard, bus, stopping, cleanup, left,
                       local_id_to_ephemeral>>
BY DEF dispatches, dispatchChained, dispatchRaises, dead_letter, servedElsewhere, dispatch,
       endpointVars, cleanupVars

LEMMA AgentOnly ==
    ASSUME NEW e \in Task, completes(e) \/ fails(e) \/ sync(e)
    PROVE  UNCHANGED <<at, registered, heard, stage, stopping, tracked, cleanup, left,
                       branches, local_id_to_ephemeral>>
BY DEF completes, fails, sync, ends, commit, sync_to_branch, sync_rebase, endpointVars,
       cleanupVars, repoVars

LEMMA EndpointOnly ==
    ASSUME NEW r \in Run, endpoint(r)
    PROVE  UNCHANGED <<heard, bus, stopping, cleanup, left, load>>
BY DEF endpoint, spawn, spawnRaises, submit_task, register, cleanupVars

LEMMA RouteOnly ==
    ASSUME route
    PROVE  UNCHANGED <<at, registered, tracked, left, load, branches, tip,
                       local_id_to_ephemeral>>
BY DEF route, endpointVars, repoVars

LEMMA StoppedOnly ==
    ASSUME stopped
    PROVE  UNCHANGED <<at, registered, heard, stage, bus, tracked, cleanup, left, load,
                       branches, tip, local_id_to_ephemeral>>
BY DEF stopped, keep_branch, endpointVars, cleanupVars

(* What the dispatch loop and the route loop do to the stage of a task.    *)
LEMMA DispatchStages ==
    ASSUME TypeOK, NEW t \in Task, dispatches(t), NEW u \in Task
    PROVE  \/ stage'[u] = stage[u]
           \/ u = t /\ stage[u] = "queued" /\ stage'[u] \in {"sent", "dead"}
           \/ u = t /\ u \in Stranger /\ stage[u] = "queued" /\ stage'[u] = "done"
BY DEF dispatches, dispatchChained, dispatchRaises, dead_letter, servedElsewhere, dispatch,
       TypeOK

LEMMA SubmitStages ==
    ASSUME TypeOK, NEW r \in Run, endpoint(r), NEW u \in Task, stage'[u] # stage[u]
    PROVE  submit_task(r) /\ u = next(r) /\ stage'[u] \in {"queued", "failed", "held"}
BY DEF endpoint, spawn, spawnRaises, submit_task, register, TypeOK

LEMMA RouteStages ==
    ASSUME TypeOK, route, NEW u \in Task
    PROVE  LET m == Head(bus)
           IN  /\ m \in Result
               /\ u = m.task => stage'[u] = IF m.ok THEN "done" ELSE "failed"
               /\ u # m.task =>
                    \/ stage'[u] = stage[u]
                    \/ /\ stage[u] = "held" /\ m.ok /\ stage'[u] = "queued"
                       /\ released_by(u, m.task)
                    \/ stage[u] = "held" /\ stage'[u] = "failed"
BY DEF route, ended, TypeOK

-----------------------------------------------------------------------------
(* Each part of the invariant.                                             *)

LEMMA OrderKept == ASSUME EphemeralInv, Next PROVE SentInOrder'
<1> USE DEF EphemeralInv
<1> SUFFICES ASSUME NEW q \in Run
             PROVE  /\ at'[q] \in 0..Len(Specs[q])
                    /\ \A i \in DOMAIN Specs[q] :
                         stage'[Specs[q][i]] = "unsent" <=> i > at'[q]
  BY DEF SentInOrder
<1> DEFINE Goal == /\ at'[q] \in 0..Len(Specs[q])
                   /\ \A i \in DOMAIN Specs[q] :
                        stage'[Specs[q][i]] = "unsent" <=> i > at'[q]
<1>0. Specs[q] \in Seq(Task) /\ at[q] \in 0..Len(Specs[q])
  BY EphemeralAssumption DEF SentInOrder
<1>1. ASSUME at'[q] = at[q], \A u \in Task : stage'[u] = "unsent" <=> stage[u] = "unsent"
      PROVE  Goal
  <2> QED  BY <1>0, <1>1 DEF SentInOrder
<1>2. ASSUME NEW r \in Run, endpoint(r) PROVE Goal
  <2>1. CASE submit_task(r)
    <3>1. at[r] \in Nat /\ at[r] < Len(Specs[r])
      BY <2>1 DEF submit_task, TypeOK
    <3>2. next(r) \in tasks(r) /\ next(r) \in Task /\ at[r] + 1 \in DOMAIN Specs[r]
      BY <3>1, NextTask
    <3>3. CASE q = r
      <4>1. at'[q] = at[q] + 1
        BY <2>1, <3>3 DEF submit_task, TypeOK
      <4>2. ASSUME NEW i \in DOMAIN Specs[q]
            PROVE  stage'[Specs[q][i]] = "unsent" <=> i > at[q] + 1
        <5>1. Specs[q][i] \in Task
          BY <1>0
        <5>2. CASE i = at[q] + 1
          <6>1. stage'[next(r)] # "unsent"
            BY <2>1, <3>2 DEF submit_task, TypeOK
          <6> QED  BY <5>2, <6>1, <3>3, <1>0 DEF next
        <5>3. CASE i # at[q] + 1
          <6>1. Specs[q][i] # next(r)
            BY <5>3, <3>2, <3>3, EphemeralAssumption DEF next
          <6>2. stage'[Specs[q][i]] = stage[Specs[q][i]]
            BY <6>1, <5>1, <1>2, SubmitStages
          <6> QED  BY <6>2, <5>3, <1>0 DEF SentInOrder
        <5> QED  BY <5>2, <5>3
      <4> QED  BY <4>1, <4>2, <3>1, <3>3, <1>0
    <3>4. CASE q # r
      <4>1. at'[q] = at[q]
        BY <2>1, <3>4 DEF submit_task, TypeOK
      <4>2. ASSUME NEW i \in DOMAIN Specs[q]
            PROVE  stage'[Specs[q][i]] = stage[Specs[q][i]]
        <5>1. Specs[q][i] \in Task /\ Specs[q][i] \in tasks(q)
          BY <1>0 DEF tasks
        <5>2. Specs[q][i] # next(r)
          BY <5>1, <3>2, <3>4, RunsApart
        <5> QED  BY <5>1, <5>2, <1>2, SubmitStages
      <4> QED  BY <4>1, <4>2, <1>0 DEF SentInOrder
    <3> QED  BY <3>3, <3>4
  <2>2. CASE ~submit_task(r)
    <3>1. at' = at
      BY <1>2, <2>2 DEF endpoint, spawn, spawnRaises, register
    <3> QED  BY <3>1, <2>2, <1>2, <1>1, SubmitStages
  <2> QED  BY <2>1, <2>2
<1>3. ASSUME NEW t \in Task, dispatches(t) PROVE Goal
  BY <1>3, <1>1, DispatchOnly, DispatchStages
<1>4. CASE route
  <2>1. at' = at
    BY <1>4, RouteOnly
  <2>2. Head(bus) \in Result /\ stage[Head(bus).task] # "unsent"
    <3>1. bus \in Seq(Result) /\ bus # <<>>
      BY <1>4 DEF route, TypeOK
    <3> QED  BY <3>1 DEF SentFirst
  <2> QED  BY <2>1, <2>2, <1>4, <1>1, RouteStages
<1>5. CASE UNCHANGED <<at, stage>>
  BY <1>5, <1>1
<1> QED  BY <1>2, <1>3, <1>4, <1>5, NextCases, CleansOnly, AgentOnly, StoppedOnly

LEMMA SentKept == ASSUME EphemeralInv, Next PROVE SentFirst'
<1> USE DEF EphemeralInv
<1>1. \A u \in Task : stage[u] # "unsent" => stage'[u] # "unsent"
  BY NextCases, SubmitStages, DispatchStages, RouteStages, CleansOnly, AgentOnly, StoppedOnly
<1>0. /\ \A i \in DOMAIN bus : bus[i].task \in Task /\ stage[bus[i].task] # "unsent"
      /\ \A e \in Task : load[e] \in Task \cup {NoTask}
      /\ \A e \in Task : load[e] # NoTask => stage[load[e]] # "unsent"
  <2>1. \A i \in DOMAIN bus : bus[i] \in Result
    BY DEF TypeOK
  <2>2. \A m \in Result : m.task \in Task
    BY DEF Result
  <2> QED  BY <2>1, <2>2 DEF SentFirst, TypeOK
<1>2. ASSUME UNCHANGED <<load, bus>> PROVE SentFirst'
  BY <1>0, <1>1, <1>2 DEF SentFirst
<1>3. ASSUME NEW t \in Task, dispatches(t) PROVE SentFirst'
  <2>1. bus' = bus
    BY <1>3, DispatchOnly
  <2>2. ASSUME NEW e \in Task, load'[e] # load[e]
        PROVE  load'[e] = t /\ stage'[t] # "unsent"
    BY <1>3, <2>2 DEF dispatches, dispatchChained, dispatchRaises, dead_letter,
         servedElsewhere, dispatch, TypeOK
  <2> QED  BY <1>0, <1>1, <2>1, <2>2, <1>3 DEF SentFirst
<1>4. ASSUME NEW e \in Task, completes(e) \/ fails(e) \/ sync(e) PROVE SentFirst'
  <2>1. CASE UNCHANGED <<load, bus>>
    BY <2>1, <1>2
  <2>2. ASSUME NEW ok \in BOOLEAN, ends(e, ok) PROVE SentFirst'
    <3>1. load[e] \in Task /\ stage[load[e]] # "unsent"
      BY <2>2 DEF ends, CommittedFirst, SentFirst, TypeOK
    <3>2. ASSUME NEW i \in DOMAIN bus' PROVE stage'[bus'[i].task] # "unsent"
      <4>1. CASE i \in DOMAIN bus
        BY <4>1, <2>2, <1>1 DEF ends, SentFirst, TypeOK, Result
      <4>2. CASE i \notin DOMAIN bus
        <5>1. bus'[i].task = load[e]
          BY <4>2, <3>2, <2>2 DEF ends, TypeOK
        <5> QED  BY <5>1, <3>1, <1>1
      <4> QED  BY <4>1, <4>2
    <3>3. ASSUME NEW a \in Task, load'[a] # NoTask PROVE stage'[load'[a]] # "unsent"
      BY <3>3, <2>2, <1>1 DEF ends, SentFirst, TypeOK
    <3> QED  BY <3>2, <3>3 DEF SentFirst
  <2> QED  BY <1>4, <2>1, <2>2 DEF completes, fails, sync
<1>5. CASE route
  <2>1. load' = load
    BY <1>5, RouteOnly
  <2>2. bus \in Seq(Result) /\ bus # <<>> /\ bus' = Tail(bus)
    BY <1>5 DEF route, TypeOK
  <2>3. ASSUME NEW i \in DOMAIN bus' PROVE bus'[i] = bus[i + 1] /\ i + 1 \in DOMAIN bus
    BY <2>2
  <2> QED  BY <2>1, <2>3, <1>0, <1>1 DEF SentFirst
<1> QED  BY <1>2, <1>3, <1>4, <1>5, NextCases, EndpointOnly, CleansOnly, StoppedOnly

LEMMA BranchesOwned == ASSUME EphemeralInv, Next PROVE OwnBranches'
<1> USE DEF EphemeralInv
<1> DEFINE S(r) == Seq(tasks(r))
<1>1. CASE UNCHANGED <<local_id_to_ephemeral, tracked, left>>
  BY <1>1 DEF OwnBranches
<1>2. ASSUME NEW r \in Run, endpoint(r) PROVE OwnBranches'
  <2>1. CASE spawn(r)
    <3>1. next(r) \in tasks(r)
      BY <2>1, NextTask DEF spawn, atSpawn, TypeOK
    <3>2. Append(local_id_to_ephemeral[r], next(r)) \in Seq(tasks(r))
      BY <3>1 DEF OwnBranches
    <3> QED  BY <2>1, <3>2 DEF spawn, cleanupVars, OwnBranches, TypeOK
  <2>2. CASE register(r)
    BY <2>2 DEF register, OwnBranches, TypeOK
  <2>3. CASE spawnRaises(r) \/ submit_task(r)
    BY <2>3, <1>1 DEF spawnRaises, submit_task, cleanupVars
  <2> QED  BY <1>2, <2>1, <2>2, <2>3 DEF endpoint
<1>3. ASSUME NEW t \in Task, dispatches(t) PROVE OwnBranches'
  <2>1. CASE tracked' = tracked
    BY <1>3, <2>1, <1>1, DispatchOnly
  <2>2. CASE dispatchChained(t) /\ tracked' # tracked
    <3>1. t \notin Stranger
      BY <2>2, EphemeralAssumption DEF dispatchChained
    <3>2. runOf(t) \in Run /\ t \in tasks(runOf(t))
      BY <3>1, RunOf
    <3>3. tracked' = [tracked EXCEPT ![runOf(t)] = Append(@, t)]
      BY <2>2 DEF dispatchChained, track
    <3>4. Append(tracked[runOf(t)], t) \in Seq(tasks(runOf(t)))
      BY <3>2 DEF OwnBranches
    <3> QED  BY <1>3, DispatchOnly, <3>2, <3>3, <3>4 DEF OwnBranches, TypeOK
  <2> QED  BY <1>3, <2>1, <2>2 DEF dispatches, dispatchRaises, dead_letter, servedElsewhere,
             dispatch, cleanupVars
<1>4. ASSUME NEW r \in Run, cleans(r) PROVE OwnBranches'
  <2>1. CASE popBranches(r)
    <3>1. <<>> \in Seq(tasks(r))
      OBVIOUS
    <3> QED  BY <2>1, <3>1 DEF popBranches, endpointVars, OwnBranches, TypeOK
  <2>2. CASE mergeFinal(r) \/ deleteBranches(r)
    BY <2>2, <1>1 DEF mergeFinal, deleteBranches, endpointVars
  <2> QED  BY <1>4, <2>1, <2>2 DEF cleans
<1> QED  BY <1>1, <1>2, <1>3, <1>4, NextCases, AgentOnly, RouteOnly, StoppedOnly

(* A run that is cleaned up stays so, and only told() has it cleaned up.   *)
LEMMA CleanupGoesOn ==
    ASSUME EphemeralInv, Next, NEW q \in Run, cleanup'[q] = "no"
    PROVE  cleanup[q] = "no"
<1>1. ASSUME NEW r \in Run, cleans(r) PROVE cleanup[q] = "no"
  BY <1>1 DEF cleans, popBranches, mergeFinal, deleteBranches, EphemeralInv, TypeOK
<1>2. CASE route
  BY <1>2 DEF route, told, EphemeralInv, TypeOK
<1> QED  BY <1>1, <1>2, NextCases, EndpointOnly, DispatchOnly, AgentOnly, StoppedOnly

LEMMA OverStays ==
    ASSUME EphemeralInv, Next, NEW q \in Run, cleanup'[q] # "over"
    PROVE  cleanup[q] # "over"
<1>1. ASSUME NEW r \in Run, cleans(r) PROVE cleanup[q] # "over"
  BY <1>1 DEF cleans, popBranches, mergeFinal, deleteBranches, EphemeralInv, TypeOK
<1>2. CASE route
  BY <1>2 DEF route, told, EphemeralInv, TypeOK
<1> QED  BY <1>1, <1>2, NextCases, EndpointOnly, DispatchOnly, AgentOnly, StoppedOnly

(* What is submitted was not before.                                       *)
LEMMA SubmitsUnsent ==
    ASSUME TypeOK, SentInOrder, NEW r \in Run, submit_task(r)
    PROVE  next(r) \in tasks(r) /\ next(r) \in Task /\ stage[next(r)] = "unsent"
<1>1. at[r] \in Nat /\ at[r] < Len(Specs[r])
  BY DEF submit_task, TypeOK
<1> QED  BY <1>1, NextTask DEF SentInOrder, next

LEMMA CleanedKept == ASSUME EphemeralInv, Next PROVE CleanedLast'
<1> USE DEF EphemeralInv
<1>1. ASSUME NEW t \in heard' PROVE stage'[t] \in {"done", "failed"}
  <2>1. t \in Task
    BY TypesKept DEF TypeOK
  <2>2. CASE t \in heard
    <3>1. stage[t] \in {"done", "failed"}
      BY <2>2 DEF CleanedLast
    <3>2. ASSUME NEW r \in Run, endpoint(r) PROVE stage'[t] = stage[t]
      <4>1. ASSUME submit_task(r), t = next(r) PROVE FALSE
        BY <4>1, <3>1, SubmitsUnsent
      <4> QED  BY <4>1, <3>2, <2>1, SubmitStages
    <3>3. CASE UNCHANGED stage
      BY <3>1, <3>3
    <3> QED  BY <3>1, <3>2, <3>3, <2>1, NextCases, DispatchStages, RouteStages, CleansOnly,
               AgentOnly, StoppedOnly
  <2>3. CASE t \notin heard
    <3>1. route /\ t = Head(bus).task
      <4>1. heard' # heard
        BY <2>3
      <4>2. route
        BY <4>1, NextCases, EndpointOnly, DispatchOnly, AgentOnly, StoppedOnly, CleansOnly
      <4> QED  BY <4>2, <2>3 DEF route, told
    <3> QED  BY <3>1, <2>1, RouteStages
  <2> QED  BY <2>2, <2>3
<1>2. ASSUME NEW q \in Run, cleanup'[q] # "no" PROVE tasks(q) \subseteq heard'
  <2>1. CASE cleanup[q] # "no"
    <3>1. tasks(q) \subseteq heard
      BY <2>1 DEF CleanedLast
    <3>2. heard \subseteq heard'
      <4>1. route => heard \subseteq heard'
        BY DEF route, told
      <4> QED  BY <4>1, NextCases, EndpointOnly, DispatchOnly, AgentOnly, StoppedOnly,
                 CleansOnly
    <3> QED  BY <3>1, <3>2
  <2>2. CASE cleanup[q] = "no"
    <3>1. route
      <4>1. ASSUME NEW r \in Run, cleans(r) PROVE FALSE
        BY <4>1, <1>2, <2>2 DEF cleans, popBranches, mergeFinal, deleteBranches, TypeOK
      <4> QED  BY <4>1, <1>2, <2>2, NextCases, EndpointOnly, DispatchOnly, AgentOnly,
                 StoppedOnly
    <3>2. /\ q = runOf(Head(bus).task)
          /\ tasks(q) \subseteq heard \cup {Head(bus).task}
          /\ heard' = heard \cup {Head(bus).task}
      BY <3>1, <1>2, <2>2 DEF route, told, TypeOK
    <3> QED  BY <3>2
  <2> QED  BY <2>1, <2>2
<1> QED  BY <1>1, <1>2 DEF CleanedLast

-----------------------------------------------------------------------------
(* Agents that were started, and the branches and work they have.          *)

(* An agent that was started is not started again, and its branch has what *)
(* it had.                                                                 *)
LEMMA WorkStays ==
    ASSUME EphemeralInv, Next, NEW t \in Task, spawned(t)
    PROVE  spawned(t)' /\ tip[t] \subseteq tip'[t]
<1> USE DEF EphemeralInv
<1>0. RepoOK /\ TypeOK
  BY DEF TypeOK
<1>1. ASSUME NEW r \in Run, endpoint(r) PROVE spawned(t)' /\ tip[t] \subseteq tip'[t]
  BY <1>0, <1>1 DEF endpoint, spawn, spawnRaises, submit_task, register, setup, worktreeAdd,
       spawned, repoVars, TypeOK, RepoOK
<1>2. ASSUME NEW u \in Task, dispatches(u) PROVE spawned(t)' /\ tip[t] \subseteq tip'[t]
  <2>1. CASE dispatchChained(u)
    <3>1. \E work \in SUBSET Task : worktreeAdd(u, work)
      BY <2>1, <1>0, SpawnAdds DEF dispatchChained
    <3>2. agent[u] = "none" /\ agent' = [agent EXCEPT ![u] = "busy"] /\ t # u
      BY <2>1 DEF dispatchChained, spawned
    <3> QED  BY <3>1, <3>2, <1>0 DEF worktreeAdd, spawned, TypeOK, RepoOK
  <2>2. CASE dispatchRaises(u) \/ dead_letter(u) \/ servedElsewhere(u)
    BY <2>2, <1>0 DEF dispatchRaises, dead_letter, servedElsewhere, spawned, repoVars, TypeOK
  <2>3. ASSUME NEW e \in Task, dispatch(u, e) PROVE spawned(t)' /\ tip[t] \subseteq tip'[t]
    BY <2>3, <1>0 DEF dispatch, spawned, repoVars, TypeOK
  <2> QED  BY <1>2, <2>1, <2>2, <2>3 DEF dispatches
<1>3. ASSUME NEW e \in Task, completes(e) \/ fails(e) \/ sync(e)
      PROVE  spawned(t)' /\ tip[t] \subseteq tip'[t]
  <2>1. spawned(t)'
    BY <1>0, <1>3 DEF completes, fails, sync, ends, spawned, TypeOK
  <2>2. \/ tip' = tip
        \/ \E work : tip' = [tip EXCEPT ![e] = @ \cup work]
        \/ \E work : tip' = [tip EXCEPT ![e] = work \cup @]
    BY <1>3 DEF completes, fails, sync, commit, sync_to_branch, sync_rebase, repoVars
  <2>3. tip[t] \subseteq tip'[t]
    BY <1>0, <2>2 DEF RepoOK
  <2> QED  BY <2>1, <2>3
<1>4. CASE route
  BY <1>4, <1>0 DEF route, spawned, repoVars, TypeOK
<1>5. CASE stopped
  BY <1>5, <1>0 DEF stopped, keep_branch, spawned, TypeOK
<1>6. ASSUME NEW r \in Run, cleans(r) PROVE spawned(t)' /\ tip[t] \subseteq tip'[t]
  BY <1>6, CleansOnly DEF spawned
<1> QED  BY <1>1, <1>2, <1>3, <1>4, <1>5, <1>6, NextCases

(* An agent is started by its run or by the dispatch loop, with a branch.  *)
LEMMA StartsWithBranch ==
    ASSUME EphemeralInv, Next, NEW t \in Task, spawned(t)', ~spawned(t)
    PROVE  /\ t \in branches'
           /\ t \in Chained => dispatchChained(t)
<1> USE DEF EphemeralInv
<1>0. RepoOK /\ TypeOK
  BY DEF TypeOK
<1>1. ASSUME NEW r \in Run, endpoint(r) PROVE t \in branches' /\ t \notin Chained
  <2>1. spawn(r) /\ t = next(r)
    BY <1>0, <1>1 DEF endpoint, spawn, spawnRaises, submit_task, register, spawned, TypeOK
  <2> QED  BY <2>1 DEF spawn, atSpawn, setup, worktreeAdd
<1>2. ASSUME NEW u \in Task, dispatches(u) PROVE t \in branches' /\ dispatchChained(t)
  <2>1. dispatchChained(u) /\ t = u
    BY <1>0, <1>2 DEF dispatches, dispatchChained, dispatchRaises, dead_letter,
         servedElsewhere, dispatch, spawned, TypeOK
  <2>2. \E work \in SUBSET Task : worktreeAdd(u, work)
    BY <2>1, <1>0, SpawnAdds DEF dispatchChained
  <2> QED  BY <2>1, <2>2 DEF worktreeAdd
<1>3. ASSUME NEW e \in Task, completes(e) \/ fails(e) \/ sync(e) PROVE FALSE
  BY <1>0, <1>3 DEF completes, fails, sync, ends, spawned, TypeOK
<1>4. CASE route
  BY <1>4, <1>0 DEF route, spawned, TypeOK
<1>5. CASE stopped
  <2>1. stopping \in Task /\ agent[stopping] = "stopping"
    BY <1>5, <1>0 DEF stopped, StopsItsAgent, TypeOK
  <2>2. t = stopping \/ agent'[t] = agent[t]
    BY <1>5, <1>0, <2>1 DEF stopped, TypeOK
  <2> QED  BY <2>1, <2>2 DEF spawned
<1>6. ASSUME NEW r \in Run, cleans(r) PROVE FALSE
  BY <1>6, CleansOnly DEF spawned
<1> QED  BY <1>1, <1>2, <1>3, <1>4, <1>5, <1>6, NextCases

LEMMA BranchesKept == ASSUME EphemeralInv, Next PROVE BranchKept'
<1> USE DEF EphemeralInv
<1> SUFFICES ASSUME NEW q \in Run, cleanup'[q] # "over", NEW t \in tasks(q), spawned(t)'
             PROVE  t \in branches'
  BY DEF BranchKept, spawned
<1>1. t \in Task /\ cleanup[q] # "over"
  BY TasksOfRun, OverStays
<1>2. CASE ~spawned(t)
  BY <1>1, <1>2, StartsWithBranch
<1>3. CASE spawned(t)
  <2>1. t \in branches
    BY <1>1, <1>3 DEF BranchKept
  <2>2. ASSUME NEW r \in Run, endpoint(r) PROVE t \in branches'
    BY <2>1, <2>2 DEF endpoint, spawn, spawnRaises, submit_task, register, setup, worktreeAdd,
         repoVars
  <2>3. ASSUME NEW u \in Task, dispatches(u) PROVE t \in branches'
    <3>1. CASE dispatchChained(u)
      <4>1. \E work \in SUBSET Task : worktreeAdd(u, work)
        BY <3>1, SpawnAdds DEF dispatchChained, TypeOK
      <4> QED  BY <4>1, <2>1 DEF worktreeAdd
    <3>2. CASE ~dispatchChained(u)
      BY <2>1, <2>3, <3>2 DEF dispatches, dispatchRaises, dead_letter, servedElsewhere,
           dispatch, repoVars
    <3> QED  BY <3>1, <3>2
  <2>4. ASSUME NEW r \in Run, cleans(r) PROVE t \in branches'
    <3>1. CASE deleteBranches(r)
      <4>1. r # q
        BY <3>1 DEF deleteBranches, TypeOK
      <4>2. \A i \in DOMAIN left[r] : left[r][i] \in tasks(r)
        BY DEF OwnBranches
      <4>3. t \notin {left[r][i] : i \in DOMAIN left[r]}
        BY <4>1, <4>2, RunsApart
      <4> QED  BY <3>1, <4>3, <2>1 DEF deleteBranches, delete_branches
    <3>2. CASE popBranches(r) \/ mergeFinal(r)
      BY <2>1, <3>2 DEF popBranches, mergeFinal, merge_branch_to_main, repoVars
    <3> QED  BY <2>4, <3>1, <3>2 DEF cleans
  <2> QED  BY <2>1, <2>2, <2>3, <2>4, NextCases, AgentOnly, RouteOnly, StoppedOnly
<1> QED  BY <1>2, <1>3

LEMMA StopKept == ASSUME EphemeralInv, Next PROVE StopsItsAgent'
<1> USE DEF EphemeralInv
<1>1. ASSUME UNCHANGED stopping,
             \A t \in Task : agent[t] = "stopping" => agent'[t] = "stopping"
      PROVE  StopsItsAgent'
  BY <1>1 DEF StopsItsAgent, TypeOK
<1>2. ASSUME NEW r \in Run, endpoint(r) PROVE StopsItsAgent'
  <2>1. \A t \in Task : agent[t] = "stopping" => agent'[t] = "stopping"
    BY <1>2 DEF endpoint, spawn, spawnRaises, submit_task, register, TypeOK
  <2> QED  BY <1>1, <1>2, <2>1, EndpointOnly
<1>3. ASSUME NEW u \in Task, dispatches(u) PROVE StopsItsAgent'
  <2>1. \A t \in Task : agent[t] = "stopping" => agent'[t] = "stopping"
    BY <1>3 DEF dispatches, dispatchChained, dispatchRaises, dead_letter, servedElsewhere,
         dispatch, TypeOK
  <2> QED  BY <1>1, <1>3, <2>1, DispatchOnly
<1>4. ASSUME NEW e \in Task, completes(e) \/ fails(e) \/ sync(e) PROVE StopsItsAgent'
  <2>1. \A t \in Task : agent[t] = "stopping" => agent'[t] = "stopping"
    BY <1>4 DEF completes, fails, sync, ends, TypeOK
  <2> QED  BY <1>1, <1>4, <2>1, AgentOnly
<1>5. CASE route
  <2>1. bus \in Seq(Result) /\ bus # <<>>
    BY <1>5 DEF route, TypeOK
  <2>2. Head(bus).agent \in Task
    <3>1. Head(bus) \in Result
      BY <2>1
    <3> QED  BY <3>1 DEF Result
  <2>3. \/ stopping' = stopping
        \/ stopping' = Head(bus).agent /\ agent'[Head(bus).agent] = "stopping"
    BY <1>5, <2>2 DEF route, TypeOK
  <2>4. stopping = NoTask
    BY <1>5 DEF route
  <2> QED  BY <2>3, <2>4 DEF StopsItsAgent
<1>6. CASE stopped
  BY <1>6 DEF stopped, StopsItsAgent
<1>7. ASSUME NEW r \in Run, cleans(r) PROVE StopsItsAgent'
  BY <1>1, <1>7, CleansOnly
<1> QED  BY <1>2, <1>3, <1>4, <1>5, <1>6, <1>7, NextCases

LEMMA CommitStays ==
    ASSUME EphemeralInv, Next, NEW t \in Task, committed(t)
    PROVE  committed(t)'
BY WorkStays DEF committed

LEMMA OwnLoad ==
    ASSUME EphemeralInv, Next, NEW e \in Task
    PROVE  /\ load'[e] \in Chained => load'[e] = e
           /\ agent'[e] = "busy" => load'[e] # NoTask
<1> USE DEF EphemeralInv
<1>0. /\ TypeOK /\ NoTask \notin Task
      /\ load[e] \in Chained => load[e] = e
      /\ agent[e] = "busy" => load[e] # NoTask
  BY EphemeralAssumption DEF CommittedFirst
<1>1. CASE load'[e] = load[e] /\ (agent'[e] = "busy" => agent[e] = "busy")
  BY <1>0, <1>1
<1>2. ASSUME NEW r \in Run, endpoint(r) PROVE agent'[e] = "busy" => agent[e] = "busy"
  BY <1>0, <1>2 DEF endpoint, spawn, spawnRaises, submit_task, register, TypeOK
<1>3. ASSUME NEW u \in Task, dispatches(u)
      PROVE  \/ load'[e] = load[e] /\ (agent'[e] = "busy" => agent[e] = "busy")
             \/ load'[e] = u /\ (u \in Chained => u = e)
  BY <1>0, <1>3 DEF dispatches, dispatchChained, dispatchRaises, dead_letter, servedElsewhere,
       dispatch, TypeOK
<1>4. ASSUME NEW a \in Task, completes(a) \/ fails(a) \/ sync(a)
      PROVE  \/ load'[e] = load[e] /\ (agent'[e] = "busy" => agent[e] = "busy")
             \/ load'[e] = NoTask /\ agent'[e] = "idle"
  BY <1>0, <1>4 DEF completes, fails, sync, ends, TypeOK
<1>5. route \/ stopped => (agent'[e] = "busy" => agent[e] = "busy")
  BY <1>0 DEF route, stopped, TypeOK
<1>6. Chained \subseteq Task
  BY EphemeralAssumption
<1>7. ASSUME NEW a \in Task, completes(a) \/ fails(a) \/ sync(a)
      PROVE  /\ load'[e] \in Chained => load'[e] = e
             /\ agent'[e] = "busy" => load'[e] # NoTask
  BY <1>0, <1>1, <1>4, <1>6, <1>7
<1>8. ASSUME NEW u \in Task, dispatches(u)
      PROVE  /\ load'[e] \in Chained => load'[e] = e
             /\ agent'[e] = "busy" => load'[e] # NoTask
  BY <1>0, <1>1, <1>3, <1>8
<1> QED  BY <1>1, <1>2, <1>5, <1>7, <1>8, NextCases, EndpointOnly, CleansOnly, RouteOnly,
            StoppedOnly

(* A successful RESULT of a chained task comes after the commit.           *)
LEMMA BusCommitted ==
    ASSUME EphemeralInv, Next, NEW t \in Chained,
           NEW i \in DOMAIN bus', bus'[i].ok, bus'[i].task = t
    PROVE  committed(t)'
<1> USE DEF EphemeralInv
<1>0. bus \in Seq(Result) /\ t \in Task
  BY EphemeralAssumption DEF TypeOK
<1>1. ASSUME NEW j \in DOMAIN bus, bus'[i] = bus[j] PROVE committed(t)'
  <2>1. committed(t)
    BY <1>1 DEF CommittedFirst
  <2> QED  BY <2>1, <1>0, CommitStays
<1>2. CASE route
  <2>1. bus' = Tail(bus) /\ bus # <<>>
    BY <1>2 DEF route
  <2>2. bus'[i] = bus[i + 1] /\ i + 1 \in DOMAIN bus
    BY <2>1, <1>0
  <2> QED  BY <2>2, <1>1
<1>3. ASSUME NEW e \in Task, NEW ok \in BOOLEAN, ends(e, ok), ok => commit(e, {load[e]})
      PROVE  committed(t)'
  <2> DEFINE m == [agent |-> e, task |-> load[e], ok |-> ok]
  <2>0. bus' = Append(bus, m)
    BY <1>3 DEF ends
  <2>1. load[e] \in Task
    BY <1>3 DEF ends, CommittedFirst, TypeOK
  <2>2. m \in Result
    BY <2>1 DEF Result
  <2> HIDE DEF m
  <2>3. (i \in DOMAIN bus /\ bus'[i] = bus[i]) \/ bus'[i] = m
    BY <2>0, <2>2, <1>0
  <2>4. CASE bus'[i] = m
    <3>1. load[e] = t /\ ok
      BY <2>4 DEF m
    <3>2. e = t
      BY <3>1 DEF CommittedFirst
    <3>3. spawned(t)'
      BY <1>3, <3>2, <1>0, WorkStays DEF ends, spawned
    <3>4. t \in tip'[t]
      BY <1>3, <3>1, <3>2, <1>0 DEF commit, TypeOK, RepoOK
    <3> QED  BY <3>3, <3>4 DEF committed
  <2> QED  BY <2>3, <2>4, <1>1
<1>4. CASE bus' = bus
  BY <1>4, <1>1
<1>5. ASSUME NEW e \in Task, completes(e) \/ fails(e) \/ sync(e) PROVE committed(t)'
  <2>1. CASE completes(e)
    BY <2>1, <1>3 DEF completes
  <2>2. CASE fails(e)
    BY <2>2, <1>3 DEF fails
  <2>3. CASE sync(e)
    BY <2>3, <1>4 DEF sync
  <2> QED  BY <1>5, <2>1, <2>2, <2>3
<1> QED  BY <1>2, <1>4, <1>5, NextCases, EndpointOnly, DispatchOnly, CleansOnly, StoppedOnly

LEMMA CommittedKept == ASSUME EphemeralInv, Next PROVE CommittedFirst'
<1> USE DEF EphemeralInv
<1>0. /\ TypeOK /\ Chained \subseteq Task /\ NoTask \notin Task
      /\ \A t \in Chained : t \notin Stranger
      /\ \A t \in Task : deps(t) \subseteq Task
  BY EphemeralAssumption, DepsTyped
<1>1. ASSUME route, Head(bus).ok, Head(bus).task \in Chained PROVE committed(Head(bus).task)
  <2>1. bus # <<>> /\ bus \in Seq(Result)
    BY <1>1 DEF route, TypeOK
  <2>2. Head(bus) = bus[1] /\ 1 \in DOMAIN bus
    BY <2>1
  <2> QED  BY <2>2, <1>1 DEF CommittedFirst
<1>2. ASSUME NEW t \in Chained, stage'[t] = "done" PROVE committed(t)'
  <2>1. stage[t] = "done" \/ (route /\ Head(bus).ok /\ t = Head(bus).task)
    <3>1. CASE stage'[t] = stage[t]
      BY <3>1, <1>2
    <3>2. CASE stage'[t] # stage[t]
      BY <3>2, <1>2, <1>0, NextCases, SubmitStages, DispatchStages, RouteStages, CleansOnly,
         AgentOnly, StoppedOnly
    <3> QED  BY <3>1, <3>2
  <2>2. committed(t)
    BY <2>1, <1>1 DEF CommittedFirst
  <2> QED  BY <2>2, <1>0, CommitStays
<1>3. ASSUME NEW u \in Chained, stage'[u] = "queued", NEW p \in deps(u) \cap Chained
      PROVE  committed(p)'
  <2>1. CASE stage[u] = "queued"
    <3>1. committed(p)
      BY <2>1, <1>3 DEF CommittedFirst
    <3> QED  BY <3>1, <1>3, <1>0, CommitStays
  <2>2. CASE stage[u] # "queued"
    <3>1. stage[p] = "done" \/ (route /\ Head(bus).ok /\ p = Head(bus).task)
      <4>1. ASSUME NEW r \in Run, submit_task(r), u = next(r) PROVE stage[p] = "done"
        BY <4>1, <1>3, <1>0 DEF submit_task, done, TypeOK
      <4>2. ASSUME route, Head(bus).ok, released_by(u, Head(bus).task), p # Head(bus).task
            PROVE  stage[p] = "done"
        BY <4>2 DEF released_by, done
      <4> QED  BY <4>1, <4>2, <2>2, <1>3, <1>0, NextCases, SubmitStages, DispatchStages,
                 RouteStages, CleansOnly, AgentOnly, StoppedOnly
    <3>2. committed(p)
      BY <3>1, <1>1, <1>3 DEF CommittedFirst
    <3> QED  BY <3>2, <1>3, <1>0, CommitStays
  <2> QED  BY <2>1, <2>2
<1>4. ASSUME NEW i \in DOMAIN bus', bus'[i].ok, bus'[i].task \in Chained, NEW t,
             t = bus'[i].task
      PROVE  committed(t)'
  BY <1>4, BusCommitted
<1>5. \A u \in Chained : stage'[u] = "queued" =>
        \A p \in deps(u) \cap Chained : spawned(p)' /\ p \in tip'[p]
  BY <1>3 DEF committed
<1> QED  BY <1>2, <1>4, <1>5, OwnLoad DEF CommittedFirst, committed, spawned

-----------------------------------------------------------------------------
(* The work that is handed down.                                           *)

LEMMA FirstIsOne ==
    ASSUME NEW t \in Task, NEW S, NEW p, NEW q, firstIn(p, t, S), firstIn(q, t, S)
    PROVE  p = q
<1>1. PICK i \in DOMAIN Deps[t] :
        Deps[t][i] = p /\ p \in S /\ \A k \in 1..i - 1 : Deps[t][k] \notin S
  BY DEF firstIn
<1>2. PICK j \in DOMAIN Deps[t] :
        Deps[t][j] = q /\ q \in S /\ \A k \in 1..j - 1 : Deps[t][k] \notin S
  BY DEF firstIn
<1>3. Deps[t] \in Seq(Task)
  BY EphemeralAssumption
<1>4. i \in 1..Len(Deps[t]) /\ j \in 1..Len(Deps[t]) /\ Len(Deps[t]) \in Nat
  BY <1>1, <1>2, <1>3
<1>5. ~(i < j) /\ ~(j < i)
  BY <1>1, <1>2, <1>4
<1> QED  BY <1>1, <1>2, <1>4, <1>5

LEMMA SameChain == ASSUME NEW t PROVE chain(t)' = chain(t)
BY DEF chain, upstream, deps, firstIn

LEMMA ChainStep ==
    ASSUME NEW t \in Chained, NEW p, firstIn(p, t, Chained)
    PROVE  chain(t) \subseteq {p} \cup chain(p)
<1>1. t \in Task /\ p \in deps(t) /\ p \in Chained /\ p \in Task
  BY EphemeralAssumption DEF firstIn, deps
<1>2. {p} \cup Above[p] \subseteq Above[t]
  BY <1>1, EphemeralAssumption
<1> SUFFICES ASSUME NEW u \in chain(t), u # p PROVE u \in chain(p)
  OBVIOUS
<1>3. /\ u \in Above[t] \cap Chained
      /\ \A v \in Above[t] : u \in Above[v] => v \in Chained
      /\ \A v \in {t} \cup Above[t] : u \in Above[v] =>
           \E q \in deps(v) : firstIn(q, v, Chained) /\ (u = q \/ u \in Above[q])
  BY DEF chain, upstream
<1>4. u \in Above[p]
  <2>1. PICK q \in deps(t) : firstIn(q, t, Chained) /\ (u = q \/ u \in Above[q])
    BY <1>3
  <2> QED  BY <1>1, <2>1, FirstIsOne
<1>5. u \in upstream(p)
  BY <1>1, <1>2, <1>3, <1>4 DEF upstream
<1>6. \A v \in {p} \cup Above[p] : u \in Above[v] =>
        \E q \in deps(v) : firstIn(q, v, Chained) /\ (u = q \/ u \in Above[q])
  BY <1>2, <1>3
<1> QED  BY <1>5, <1>6 DEF chain

LEMMA NoChain ==
    ASSUME NEW t \in Chained, deps(t) \cap Chained = {}
    PROVE  chain(t) = {}
<1>1. ASSUME NEW p \in deps(t), firstIn(p, t, Chained) PROVE FALSE
  BY <1>1 DEF firstIn
<1> QED  BY <1>1 DEF chain, upstream

LEMMA DepOfRun ==
    ASSUME NEW r \in Run, NEW t \in tasks(r), NEW p \in deps(t)
    PROVE  p \in tasks(r)
<1>1. PICK j \in DOMAIN Specs[r] : t = Specs[r][j]
  BY DEF tasks
<1>2. Specs[r] \in Seq(Task)
  BY EphemeralAssumption
<1>3. PICK i \in 1..j - 1 : p = Specs[r][i]
  BY <1>1, EphemeralAssumption
<1>4. i \in DOMAIN Specs[r]
  BY <1>1, <1>2, <1>3
<1> QED  BY <1>3, <1>4 DEF tasks

(* When a chained task is queued the chained ones it depends on are those  *)
(* with a branch.                                                          *)
LEMMA Recorded ==
    ASSUME EphemeralInv, NEW t \in Chained, stage[t] = "queued"
    PROVE  deps(t) \cap recorded = deps(t) \cap Chained
<1>1. \A p \in deps(t) \cap Chained : spawned(p)
  BY DEF EphemeralInv, CommittedFirst, committed
<1> QED  BY <1>1 DEF recorded

LEMMA HandedOn ==
    ASSUME EphemeralInv, HandedOver, Next PROVE HandedOver'
<1> USE DEF EphemeralInv
<1> SUFFICES ASSUME NEW t \in Chained, spawned(t)' PROVE chain(t) \subseteq tip'[t]
  BY SameChain DEF HandedOver, spawned
<1>0. t \in Task /\ t \notin Stranger /\ RepoOK /\ TypeOK
  BY EphemeralAssumption DEF TypeOK
<1>1. CASE spawned(t)
  BY <1>0, <1>1, WorkStays DEF HandedOver
<1>2. CASE ~spawned(t)
  <2>1. dispatchChained(t)
    BY <1>0, <1>2, StartsWithBranch
  <2>2. PICK work \in SUBSET Task :
          /\ worktreeAdd(t, work)
          /\ \/ \E p \in deps(t) : firstIn(p, t, recorded) /\ (p \in branches => work = tip[p])
             \/ deps(t) \cap recorded = {}
    BY <2>1, <1>0, SpawnAdds DEF dispatchChained
  <2>3. tip'[t] = work
    BY <2>2, <1>0 DEF worktreeAdd, RepoOK
  <2>4. deps(t) \cap recorded = deps(t) \cap Chained
    BY <2>1, Recorded DEF dispatchChained
  <2>5. ASSUME NEW p \in deps(t), firstIn(p, t, recorded), p \in branches => work = tip[p]
        PROVE  chain(t) \subseteq tip'[t]
    <3>0. p \in Chained /\ firstIn(p, t, Chained)
      <4>1. Deps[t] \in Seq(Task)
        BY <1>0, EphemeralAssumption
      <4>2. PICK i \in DOMAIN Deps[t] :
              Deps[t][i] = p /\ p \in recorded /\ \A j \in 1..i - 1 : Deps[t][j] \notin recorded
        BY <2>5 DEF firstIn
      <4>3. \A j \in 1..i - 1 : j \in DOMAIN Deps[t]
        BY <4>1, <4>2
      <4>4. \A j \in 1..i - 1 : Deps[t][j] \notin Chained
        BY <2>4, <4>2, <4>3 DEF deps
      <4> QED  BY <2>4, <4>2, <4>4 DEF firstIn, deps
    <3>1. committed(p)
      BY <2>1, <3>0, <2>5 DEF dispatchChained, CommittedFirst
    <3>2. runOf(t) \in Run /\ t \in tasks(runOf(t))
      BY <1>0, RunOf
    <3>3. p \in tasks(runOf(t))
      BY <2>5, <3>2, DepOfRun
    <3>4. cleanup[runOf(t)] = "no"
      <4>1. t \notin heard
        BY <2>1 DEF dispatchChained, CleanedLast
      <4> QED  BY <4>1, <3>2 DEF CleanedLast
    <3>5. p \in branches
      BY <3>1, <3>2, <3>3, <3>4 DEF BranchKept, committed
    <3>6. chain(p) \subseteq tip[p]
      BY <3>0, <3>1 DEF HandedOver, committed
    <3>7. chain(t) \subseteq {p} \cup chain(p)
      BY <3>0, ChainStep
    <3> QED  BY <2>3, <2>5, <3>1, <3>5, <3>6, <3>7 DEF committed
  <2>6. CASE deps(t) \cap recorded = {}
    BY <2>4, <2>6, NoChain
  <2> QED  BY <2>2, <2>5, <2>6
<1> QED  BY <1>1, <1>2

-----------------------------------------------------------------------------
(* One RESULT for each task.                                               *)

LEMMA BusTyped ==
    ASSUME TypeOK, NEW i \in DOMAIN bus PROVE bus[i] \in Result /\ bus[i].task \in Task
<1>1. bus[i] \in Result
  BY DEF TypeOK
<1> QED  BY <1>1 DEF Result

LEMMA HeadOfBus ==
    ASSUME TypeOK, route
    PROVE  /\ 1 \in DOMAIN bus /\ Head(bus) = bus[1]
           /\ \A i \in DOMAIN bus' : i + 1 \in DOMAIN bus \ {1} /\ bus'[i] = bus[i + 1]
<1>1. bus \in Seq(Result) /\ bus # <<>> /\ bus' = Tail(bus)
  BY DEF route, TypeOK
<1> QED  BY <1>1

(* Only its RESULT ends a task that was sent.                              *)
LEMMA SentStays ==
    ASSUME EphemeralInv, Next, NEW t \in Task, stage[t] = "sent",
           route => Head(bus).task # t
    PROVE  stage'[t] = "sent"
<1> USE DEF EphemeralInv
<1>1. ASSUME NEW r \in Run, endpoint(r) PROVE stage'[t] = stage[t]
  BY <1>1, SubmitStages, SubmitsUnsent
<1> QED  BY <1>1, NextCases, DispatchStages, RouteStages, CleansOnly, AgentOnly, StoppedOnly

LEMMA ResultsKept == ASSUME EphemeralInv, OneResult, Next PROVE OneResult'
<1> USE DEF EphemeralInv
<1>0. TypeOK /\ NoTask \notin Task
  BY EphemeralAssumption
<1>1. ASSUME UNCHANGED <<load, bus>>, ~route PROVE OneResult'
  <2>1. \A e \in Task : load[e] \in Task \cup {NoTask}
    BY <1>0 DEF TypeOK
  <2> QED  BY <1>0, <1>1, <2>1, SentStays, BusTyped DEF OneResult
<1>2. ASSUME NEW t \in Task, dispatches(t), load' # load PROVE OneResult'
  <2>1. PICK e \in Task : load' = [load EXCEPT ![e] = t] /\ stage[t] = "queued" /\ stage'[t] = "sent"
    BY <1>0, <1>2 DEF dispatches, dispatchChained, dispatchRaises, dead_letter, servedElsewhere,
         dispatch, TypeOK
  <2>2. bus' = bus
    BY <1>2, DispatchOnly
  <2>3. \A u \in Task : stage[u] = "sent" => u # t /\ stage'[u] = "sent"
    BY <1>2, <2>1, DispatchStages, <1>0
  <2>4. load' \in [Task -> Task \cup {NoTask}] /\ load'[e] = t
        /\ \A f \in Task \ {e} : load'[f] = load[f]
    BY <2>1, <1>0 DEF TypeOK
  <2>5. \A f \in Task : load[f] # NoTask => load[f] \in Task /\ stage[load[f]] = "sent"
    BY <1>0 DEF OneResult, TypeOK
  <2>6. \A i \in DOMAIN bus : bus[i].task \in Task /\ stage[bus[i].task] = "sent"
    BY <1>0, BusTyped DEF OneResult
  <2> QED  BY <2>1, <2>2, <2>3, <2>4, <2>5, <2>6 DEF OneResult
<1>3. ASSUME NEW e \in Task, NEW ok \in BOOLEAN, ends(e, ok), UNCHANGED stage PROVE OneResult'
  <2> DEFINE m == [agent |-> e, task |-> load[e], ok |-> ok]
  <2>1. load[e] \in Task /\ load[e] # NoTask
    BY <1>0, <1>3 DEF ends, CommittedFirst, TypeOK
  <2>2. m \in Result
    BY <2>1 DEF Result
  <2>3. m.task = load[e]
    OBVIOUS
  <2>4. bus' = Append(bus, m) /\ load' = [load EXCEPT ![e] = NoTask]
    BY <1>3 DEF ends
  <2> HIDE DEF m
  <2>5. /\ DOMAIN bus' = DOMAIN bus \cup {Len(bus) + 1} /\ Len(bus) + 1 \notin DOMAIN bus
        /\ \A i \in DOMAIN bus : bus'[i] = bus[i]
        /\ bus'[Len(bus) + 1] = m
    BY <1>0, <2>2, <2>4 DEF TypeOK
  <2>6. load'[e] = NoTask /\ \A f \in Task \ {e} : load'[f] = load[f]
    BY <1>0, <2>4 DEF TypeOK
  <2>7. ASSUME NEW f \in Task, load'[f] # NoTask
        PROVE  /\ stage'[load'[f]] = "sent"
               /\ \A g \in Task \ {f} : load'[g] # load'[f]
               /\ \A i \in DOMAIN bus' : bus'[i].task # load'[f]
    <3>1. f # e /\ load'[f] = load[f]
      BY <2>6, <2>7
    <3>2. load[e] # load[f]
      BY <2>1, <2>7, <3>1 DEF OneResult
    <3> QED  BY <1>3, <2>3, <2>5, <2>6, <2>7, <3>1, <3>2 DEF OneResult
  <2>8. ASSUME NEW i \in DOMAIN bus'
        PROVE  /\ stage'[bus'[i].task] = "sent"
               /\ \A j \in DOMAIN bus' \ {i} : bus'[j].task # bus'[i].task
    <3>1. stage[load[e]] = "sent" /\ \A j \in DOMAIN bus : bus[j].task # load[e]
      BY <2>1 DEF OneResult
    <3> QED  BY <1>3, <2>3, <2>5, <3>1 DEF OneResult
  <2> QED  BY <2>7, <2>8 DEF OneResult
<1>4. ASSUME NEW e \in Task, completes(e) \/ fails(e) \/ sync(e) PROVE OneResult'
  <2>1. CASE sync(e)
    <3>1. ~route
      BY <2>1 DEF sync, route
    <3> QED  BY <2>1, <3>1, <1>1 DEF sync
  <2>2. stage' = stage
    BY <1>4, AgentOnly
  <2> QED  BY <1>3, <1>4, <2>1, <2>2 DEF completes, fails
<1>5. CASE route
  <2>1. load' = load
    BY <1>5, RouteOnly
  <2>2. \A i \in DOMAIN bus' : i + 1 \in DOMAIN bus \ {1} /\ bus'[i] = bus[i + 1]
    BY <1>0, <1>5, HeadOfBus
  <2>3. \A i \in DOMAIN bus : stage[bus[i].task] = "sent"
    BY DEF OneResult
  <2>4. ASSUME NEW i \in DOMAIN bus \ {1} PROVE stage'[bus[i].task] = "sent"
    <3>1. Head(bus).task # bus[i].task
      BY <1>0, <1>5, HeadOfBus DEF OneResult
    <3>2. bus[i].task \in Task
      BY <1>0, BusTyped
    <3> QED  BY <2>3, <3>1, <3>2, SentStays
  <2>5. \A e \in Task : load[e] # NoTask => stage'[load[e]] = "sent"
    <3>1. 1 \in DOMAIN bus /\ Head(bus) = bus[1]
      BY <1>0, <1>5, HeadOfBus
    <3>2. \A e \in Task : load[e] # NoTask => load[e] # Head(bus).task
      BY <3>1 DEF OneResult
    <3>3. \A e \in Task : load[e] # NoTask => load[e] \in Task
      BY <1>0 DEF TypeOK
    <3> QED  BY <3>2, <3>3, SentStays DEF OneResult
  <2>6. \A i, j \in DOMAIN bus' : i # j => bus'[i].task # bus'[j].task
    <3>1. \A i, j \in DOMAIN bus' : i # j => i + 1 # j + 1
      <4>1. DOMAIN bus' \subseteq Nat
        BY <1>5, <1>0 DEF route, TypeOK
      <4> QED  BY <4>1
    <3> QED  BY <2>2, <3>1 DEF OneResult
  <2> QED  BY <2>1, <2>2, <2>4, <2>5, <2>6 DEF OneResult
<1>6. CASE ~route
  <2>1. ASSUME NEW t \in Task, dispatches(t) PROVE OneResult'
    BY <2>1, <1>6, <1>1, <1>2, DispatchOnly
  <2> QED  BY <1>6, <2>1, <1>1, <1>4, NextCases, EndpointOnly, CleansOnly, StoppedOnly
<1> QED  BY <1>5, <1>6

(* So a task that has ended does not change any more.                      *)
LEMMA EndIsFinal ==
    ASSUME EphemeralInv, OneResult, Next, NEW t \in Task, stage[t] \in {"done", "failed"}
    PROVE  stage'[t] = stage[t]
<1> USE DEF EphemeralInv
<1>1. ASSUME NEW r \in Run, endpoint(r) PROVE stage'[t] = stage[t]
  BY <1>1, SubmitStages, SubmitsUnsent
<1>2. CASE route
  <2>1. Head(bus).task # t
    BY <1>2, HeadOfBus DEF OneResult
  <2> QED  BY <1>2, <2>1, RouteStages
<1> QED  BY <1>1, <1>2, NextCases, DispatchStages, CleansOnly, AgentOnly, StoppedOnly

(* What is queued, or was, has all tasks before it done.                   *)
LEMMA DoneAboveKept == ASSUME EphemeralInv, OneResult, DoneAbove, Next PROVE DoneAbove'
<1> USE DEF EphemeralInv
<1>0. TypeOK /\ NoTask \notin Task
  BY EphemeralAssumption
<1> SUFFICES ASSUME NEW t \in Task, stage'[t] \in {"queued", "sent", "done", "dead"}
             PROVE  \A u \in Above[t] : stage'[u] = "done"
  BY DEF DoneAbove
<1>1. \A u \in Task : stage[u] = "done" => stage'[u] = "done"
  BY EndIsFinal
<1>2. Above[t] \subseteq Task
  BY EphemeralAssumption
<1>3. CASE stage[t] \in {"queued", "sent", "done", "dead"}
  BY <1>1, <1>2, <1>3 DEF DoneAbove
<1>4. CASE stage[t] \notin {"queued", "sent", "done", "dead"}
  <2>1. ASSUME NEW d \in deps(t)
        PROVE  stage[d] \in {"sent", "done"} /\ stage'[d] = "done"
    <3>1. d \in Task
      BY DepsTyped
    <3>2. ASSUME NEW r \in Run, endpoint(r) PROVE stage[d] = "done"
      <4>1. submit_task(r) /\ t = next(r)
        BY <1>0, <1>4, <3>2, SubmitStages
      <4>2. stage'[t] =
              IF \A p \in deps(t) : done(p) THEN "queued"
              ELSE IF \E p \in deps(t) : stage[p] = "failed" THEN "failed" ELSE "held"
        BY <1>0, <4>1 DEF submit_task, TypeOK
      <4> QED  BY <4>2 DEF done
    <3>3. CASE route
      <4>1. Head(bus).task \in Task /\ stage[Head(bus).task] = "sent"
        BY <1>0, <3>3, HeadOfBus, BusTyped DEF OneResult
      <4>2. t # Head(bus).task
        BY <4>1, <1>4
      <4>3. Head(bus).ok /\ released_by(t, Head(bus).task)
        BY <1>0, <3>3, <4>2, <1>4, RouteStages
      <4>4. CASE d = Head(bus).task
        BY <1>0, <3>3, <4>1, <4>3, <4>4, RouteStages
      <4>5. CASE d # Head(bus).task
        <5>1. stage[d] = "done"
          BY <4>3, <4>5 DEF released_by, done
        <5> QED  BY <5>1, <3>1, <1>1
      <4> QED  BY <4>4, <4>5
    <3> QED  BY <1>0, <1>1, <1>4, <3>1, <3>2, <3>3, NextCases, DispatchStages, CleansOnly,
               AgentOnly, StoppedOnly
  <2>2. ASSUME NEW d \in deps(t), NEW u \in Above[d] PROVE stage'[u] = "done"
    <3>1. d \in Task /\ u \in Task
      BY DepsTyped, EphemeralAssumption
    <3>2. stage[u] = "done"
      BY <2>1, <3>1 DEF DoneAbove
    <3> QED  BY <3>1, <3>2, <1>1
  <2>3. Above[t] = deps(t) \cup UNION {Above[d] : d \in deps(t)}
    BY EphemeralAssumption
  <2> QED  BY <2>1, <2>2, <2>3
<1> QED  BY <1>3, <1>4

-----------------------------------------------------------------------------
(* The branches of a chain, and the merge of the last.                     *)

LEMMA TrackedSteps ==
    ASSUME EphemeralInv, Next, NEW q \in Run
    PROVE  \/ tracked'[q] = tracked[q]
           \/ register(q) /\ tracked'[q] = local_id_to_ephemeral[q]
           \/ popBranches(q) /\ tracked'[q] = <<>>
           \/ \E t \in tasks(q) \cap Chained :
                dispatchChained(t) /\ tracked'[q] = Append(tracked[q], t)
<1> USE DEF EphemeralInv
<1>0. TypeOK
  OBVIOUS
<1>1. ASSUME NEW r \in Run, endpoint(r)
      PROVE  \/ tracked'[q] = tracked[q]
             \/ register(q) /\ tracked'[q] = local_id_to_ephemeral[q]
  <2>1. CASE register(r)
    <3>1. tracked' = [tracked EXCEPT ![r] = local_id_to_ephemeral[r]]
      BY <2>1 DEF register
    <3> QED  BY <1>0, <2>1, <3>1 DEF TypeOK
  <2>2. CASE ~register(r)
    BY <1>1, <2>2 DEF endpoint, spawn, spawnRaises, submit_task, cleanupVars
  <2> QED  BY <2>1, <2>2
<1>2. ASSUME NEW t \in Task, dispatches(t)
      PROVE  \/ tracked'[q] = tracked[q]
             \/ /\ t \in tasks(q) \cap Chained
                /\ dispatchChained(t) /\ tracked'[q] = Append(tracked[q], t)
  <2>1. CASE dispatchChained(t)
    <3>1. runOf(t) \in Run /\ t \in tasks(runOf(t)) /\ t \in Chained
      BY <2>1, RunOf, EphemeralAssumption DEF dispatchChained
    <3> QED  BY <1>0, <2>1, <3>1 DEF dispatchChained, track, TypeOK
  <2> QED  BY <1>2, <2>1 DEF dispatches, dispatchRaises, dead_letter, servedElsewhere,
             dispatch, cleanupVars
<1>3. ASSUME NEW r \in Run, cleans(r)
      PROVE  \/ tracked'[q] = tracked[q]
             \/ popBranches(q) /\ tracked'[q] = <<>>
  <2>1. CASE popBranches(r)
    <3>1. tracked' = [tracked EXCEPT ![r] = <<>>]
      BY <2>1 DEF popBranches
    <3> QED  BY <1>0, <2>1, <3>1 DEF TypeOK
  <2>2. CASE ~popBranches(r)
    BY <1>3, <2>2 DEF cleans, mergeFinal, deleteBranches
  <2> QED  BY <2>1, <2>2
<1> QED  BY <1>1, <1>2, <1>3, NextCases, AgentOnly, RouteOnly, StoppedOnly

LEMMA CleanupSteps ==
    ASSUME EphemeralInv, Next, NEW q \in Run
    PROVE  \/ cleanup'[q] = cleanup[q] /\ left'[q] = left[q]
           \/ /\ route /\ cleanup[q] = "no" /\ cleanup'[q] = "scheduled"
              /\ q \in registered /\ (callback => q \in merges')
           \/ popBranches(q) \/ mergeFinal(q) \/ deleteBranches(q)
<1> USE DEF EphemeralInv
<1>1. ASSUME NEW r \in Run, cleans(r)
      PROVE  \/ cleanup'[q] = cleanup[q] /\ left'[q] = left[q]
             \/ popBranches(q) \/ mergeFinal(q) \/ deleteBranches(q)
  <2>1. CASE r = q
    BY <1>1, <2>1 DEF cleans
  <2>2. CASE r # q
    BY <1>1, <2>2 DEF cleans, popBranches, mergeFinal, deleteBranches, TypeOK
  <2> QED  BY <2>1, <2>2
<1>2. CASE route
  BY <1>2, RouteOnly DEF route, told, TypeOK
<1> QED  BY <1>1, <1>2, NextCases, EndpointOnly, DispatchOnly, AgentOnly, StoppedOnly

LEMMA RegisteredSteps ==
    ASSUME EphemeralInv, Next
    PROVE  /\ registered \subseteq registered' /\ merges \subseteq merges'
           /\ \/ UNCHANGED <<registered, callback>>
              \/ \E r \in Run : register(r)
<1> USE DEF EphemeralInv
<1>1. ASSUME NEW r \in Run, endpoint(r)
      PROVE  /\ registered \subseteq registered' /\ merges' = merges
             /\ UNCHANGED <<registered, callback>> \/ register(r)
  BY <1>1 DEF endpoint, spawn, spawnRaises, submit_task, register, cleanupVars
<1>2. ASSUME NEW t \in Task, dispatches(t) PROVE UNCHANGED <<registered, callback, merges>>
  BY <1>2 DEF dispatches, dispatchChained, dispatchRaises, dead_letter, servedElsewhere, dispatch,
       endpointVars, cleanupVars
<1>3. ASSUME NEW e \in Task, completes(e) \/ fails(e) \/ sync(e)
      PROVE  UNCHANGED <<registered, callback, merges>>
  BY <1>3 DEF completes, fails, sync, ends, endpointVars, cleanupVars
<1>4. ASSUME NEW r \in Run, cleans(r) PROVE UNCHANGED <<registered, callback, merges>>
  BY <1>4 DEF cleans, popBranches, mergeFinal, deleteBranches, endpointVars
<1>5. route => UNCHANGED <<registered, callback>> /\ merges \subseteq merges'
  BY DEF route, told, endpointVars
<1>6. stopped => UNCHANGED <<registered, callback, merges>>
  BY DEF stopped, endpointVars, cleanupVars
<1> QED  BY <1>1, <1>2, <1>3, <1>4, <1>5, <1>6, NextCases

LEMMA MainGrows == ASSUME EphemeralInv, Next PROVE main \subseteq main'
<1>1. ASSUME NEW r \in Run, endpoint(r) PROVE main \subseteq main'
  BY <1>1 DEF endpoint, spawn, spawnRaises, submit_task, register, setup, worktreeAdd, repoVars
<1>2. ASSUME NEW t \in Task, dispatches(t) PROVE main \subseteq main'
  BY <1>2, SpawnAdds DEF dispatches, dispatchChained, dispatchRaises, dead_letter,
       servedElsewhere, dispatch, worktreeAdd, repoVars, EphemeralInv, TypeOK
<1>3. ASSUME NEW e \in Task, completes(e) \/ fails(e) \/ sync(e) PROVE main \subseteq main'
  BY <1>3 DEF completes, fails, sync, commit, sync_to_branch, sync_rebase, repoVars
<1>4. ASSUME NEW r \in Run, cleans(r) PROVE main \subseteq main'
  BY <1>4 DEF cleans, popBranches, mergeFinal, deleteBranches, merge_branch_to_main,
       delete_branches, repoVars
<1>5. route \/ stopped => main \subseteq main'
  BY DEF route, stopped, keep_branch, repoVars
<1> QED  BY <1>1, <1>2, <1>3, <1>4, <1>5, NextCases

(* While the request of an orderly run has submitted a chained task and is *)
(* not over, it does not suspend.                                          *)
LEMMA NotSuspended ==
    ASSUME EphemeralInv, KnownFirst, NEW r \in Run, orderly(r), r \notin registered,
           NEW t \in tasks(r) \cap Chained, stage[t] # "unsent"
    PROVE  midway(r)
<1>1. PICK i \in DOMAIN Specs[r] : t = Specs[r][i]
  BY DEF tasks
<1>2. Specs[r] \in Seq(Task) /\ at[r] \in 0..Len(Specs[r]) /\ i <= at[r]
  BY <1>1, EphemeralAssumption DEF EphemeralInv, SentInOrder
<1>3. ~atSpawn(r)
  <2> SUFFICES ASSUME at[r] < Len(Specs[r]) PROVE next(r) \in Chained
    BY DEF atSpawn
  <2>1. at[r] + 1 \in DOMAIN Specs[r] /\ i < at[r] + 1
    BY <1>1, <1>2
  <2> QED  BY <1>1, <2>1 DEF orderly, next
<1> QED  BY <1>1, <1>2, <1>3 DEF KnownFirst, midway, open

LEMMA KnownKept == ASSUME EphemeralInv, KnownFirst, Next PROVE KnownFirst'
<1> USE DEF EphemeralInv
<1> SUFFICES ASSUME NEW q \in Run, orderly(q)
             PROVE  /\ q \in aborted' => atSpawn(q)'
                    /\ q \notin registered' => \A t \in tasks(q) \cap Chained : ~spawned(t)'
  BY DEF KnownFirst, orderly, tasks, spawned
<1>1. ASSUME q \in aborted' PROVE atSpawn(q)'
  <2>1. ASSUME NEW r \in Run, endpoint(r) PROVE atSpawn(q)'
    <3>1. CASE spawnRaises(r)
      BY <1>1, <3>1 DEF spawnRaises, KnownFirst, atSpawn, next
    <3>2. CASE ~spawnRaises(r)
      <4>1. q \in aborted
        BY <1>1, <2>1, <3>2 DEF endpoint, spawn, submit_task, register
      <4>2. at'[q] = at[q]
        BY <2>1, <4>1 DEF endpoint, spawn, spawnRaises, submit_task, register, open, TypeOK
      <4> QED  BY <4>1, <4>2 DEF KnownFirst, atSpawn, next
    <3> QED  BY <3>1, <3>2
  <2>2. ASSUME ~\E r \in Run : endpoint(r) PROVE aborted' = aborted /\ at' = at
    <3>1. ASSUME NEW r \in Run, cleans(r) PROVE UNCHANGED <<aborted, at>>
      BY <3>1 DEF cleans, popBranches, mergeFinal, deleteBranches, endpointVars
    <3>2. ASSUME NEW t \in Task, dispatches(t) PROVE UNCHANGED <<aborted, at>>
      BY <3>2 DEF dispatches, dispatchChained, dispatchRaises, dead_letter, servedElsewhere,
           dispatch, endpointVars
    <3>3. ASSUME NEW e \in Task, completes(e) \/ fails(e) \/ sync(e) PROVE UNCHANGED <<aborted, at>>
      BY <3>3 DEF completes, fails, sync, ends, endpointVars
    <3>4. route \/ stopped => UNCHANGED <<aborted, at>>
      BY DEF route, stopped, endpointVars
    <3> QED  BY <2>2, <3>1, <3>2, <3>3, <3>4, NextCases
  <2> QED  BY <1>1, <2>1, <2>2 DEF KnownFirst, atSpawn, next
<1>2. ASSUME q \notin registered', NEW t \in tasks(q) \cap Chained, spawned(t)' PROVE FALSE
  <2>1. q \notin registered /\ ~spawned(t) /\ t \in Task
    BY <1>2, RegisteredSteps, TasksOfRun DEF KnownFirst
  <2>2. dispatchChained(t)
    BY <1>2, <2>1, StartsWithBranch
  <2>3. stage[t] = "queued" /\ stage'[t] = "sent"
    BY <2>1, <2>2 DEF dispatchChained, TypeOK
  <2>4. midway(q)
    BY <2>1, <2>3, NotSuspended
  <2>5. PICK r \in Run : endpoint(r)
    BY <2>4 DEF Next, orderly
  <2> QED  BY <2>1, <2>3, <2>5, SubmitStages
<1> QED  BY <1>1, <1>2

LEMMA TrackedKept ==
    ASSUME EphemeralInv, OneResult, DoneAbove, KnownFirst, Tracked, Next PROVE Tracked'
<1> USE DEF EphemeralInv
<1>0. TypeOK /\ Chained \subseteq Task
  BY EphemeralAssumption
<1> SUFFICES ASSUME NEW q \in Run
             PROVE  /\ \A i \in DOMAIN local_id_to_ephemeral'[q] :
                         local_id_to_ephemeral'[q][i] \notin Chained
                    /\ \A i \in DOMAIN tracked'[q] : tracked'[q][i] \in Chained =>
                         stage'[tracked'[q][i]] \in {"sent", "done", "failed"}
                    /\ orderly(q) /\ cleanup'[q] \in {"no", "scheduled"} =>
                         \A t \in tasks(q) \cap Chained :
                             spawned(t)' => \E i \in DOMAIN tracked'[q] : tracked'[q][i] = t
                    /\ isChain(q) /\ stage'[final(q)] # "failed" =>
                         \A i \in DOMAIN tracked'[q] :
                             tracked'[q][i] = final(q) => Last(tracked'[q]) = final(q)
  BY DEF Tracked, orderly, tasks, spawned, isChain, final, Last
<1>1. /\ tracked[q] \in Seq(Task) /\ local_id_to_ephemeral[q] \in Seq(Task)
      /\ \A t \in Task : /\ DOMAIN Append(tracked[q], t) = DOMAIN tracked[q] \cup {Len(tracked[q]) + 1}
                         /\ \A i \in DOMAIN tracked[q] : Append(tracked[q], t)[i] = tracked[q][i]
                         /\ Append(tracked[q], t)[Len(tracked[q]) + 1] = t
                         /\ Last(Append(tracked[q], t)) = t
  BY <1>0 DEF TypeOK, Last
<1>2. ASSUME NEW i \in DOMAIN local_id_to_ephemeral'[q]
      PROVE  local_id_to_ephemeral'[q][i] \notin Chained
  <2>1. ASSUME NEW r \in Run, spawn(r), r = q PROVE local_id_to_ephemeral'[q][i] \notin Chained
    <3>1. local_id_to_ephemeral'[q] = Append(local_id_to_ephemeral[q], next(q)) /\ next(q) \notin Chained
      BY <2>1, <1>0 DEF spawn, atSpawn, TypeOK
    <3>2. next(q) \in Task
      BY <2>1, <1>0, NextTask DEF spawn, atSpawn, TypeOK
    <3> QED  BY <1>1, <1>2, <3>1, <3>2 DEF Tracked
  <2>2. CASE local_id_to_ephemeral'[q] = local_id_to_ephemeral[q]
    BY <1>2, <2>2 DEF Tracked
  <2>3. ASSUME NEW r \in Run, endpoint(r)
        PROVE  \/ local_id_to_ephemeral'[q] = local_id_to_ephemeral[q]
               \/ spawn(r) /\ r = q
    <3>1. CASE spawn(r)
      <4>1. CASE r # q
        BY <1>0, <3>1, <4>1 DEF spawn, TypeOK
      <4> QED  BY <3>1, <4>1
    <3>2. CASE ~spawn(r)
      BY <2>3, <3>2 DEF endpoint, spawnRaises, submit_task, register
    <3> QED  BY <3>1, <3>2
  <2> QED  BY <2>1, <2>2, <2>3, NextCases, CleansOnly, DispatchOnly, AgentOnly, RouteOnly,
             StoppedOnly
<1>3. ASSUME NEW t \in Task, stage[t] \in {"sent", "done", "failed"}
      PROVE  stage'[t] \in {"sent", "done", "failed"}
  <2>1. CASE route /\ Head(bus).task = t
    BY <1>0, <2>1, RouteStages
  <2> QED  BY <1>3, <2>1, SentStays, EndIsFinal
<1>4. ASSUME NEW i \in DOMAIN tracked'[q], tracked'[q][i] \in Chained
      PROVE  stage'[tracked'[q][i]] \in {"sent", "done", "failed"}
  <2>1. CASE tracked'[q] = tracked[q]
    BY <1>0, <1>3, <1>4, <2>1 DEF Tracked
  <2>2. CASE tracked'[q] = local_id_to_ephemeral[q]
    BY <1>4, <2>2 DEF Tracked
  <2>3. ASSUME NEW t \in tasks(q) \cap Chained, dispatchChained(t),
               tracked'[q] = Append(tracked[q], t)
        PROVE  stage'[tracked'[q][i]] \in {"sent", "done", "failed"}
    <3>1. stage'[t] = "sent" /\ t \in Task
      BY <1>0, <2>3 DEF dispatchChained, TypeOK
    <3>2. tracked'[q][i] = t \/ (i \in DOMAIN tracked[q] /\ tracked'[q][i] = tracked[q][i])
      BY <1>1, <1>4, <2>3, <3>1
    <3> QED  BY <1>0, <1>3, <1>4, <3>1, <3>2 DEF Tracked
  <2> QED  BY <1>4, <2>1, <2>2, <2>3, TrackedSteps
<1>5. ASSUME orderly(q), cleanup'[q] \in {"no", "scheduled"},
             NEW t \in tasks(q) \cap Chained, spawned(t)'
      PROVE  \E i \in DOMAIN tracked'[q] : tracked'[q][i] = t
  <2>0. t \in Task /\ ~popBranches(q) /\ cleanup[q] \in {"no", "scheduled"}
    BY <1>0, <1>5, CleanupSteps DEF popBranches, mergeFinal, deleteBranches, TypeOK
  <2>1. CASE spawned(t)
    <3>1. \E i \in DOMAIN tracked[q] : tracked[q][i] = t
      BY <1>5, <2>0, <2>1 DEF Tracked
    <3>2. ~register(q)
      BY <1>5, <2>1 DEF KnownFirst, register, open
    <3> QED  BY <1>0, <1>1, <2>0, <3>1, <3>2, TrackedSteps
  <2>2. CASE ~spawned(t)
    <3>1. dispatchChained(t)
      BY <1>5, <2>0, <2>2, StartsWithBranch
    <3>2. q \in registered
      <4>1. registered' = registered
        BY <3>1 DEF dispatchChained, endpointVars
      <4> QED  BY <1>5, <4>1, KnownKept DEF KnownFirst
    <3>3. runOf(t) = q
      <4>1. t \notin Stranger
        BY <1>5, EphemeralAssumption
      <4> QED  BY <1>5, <2>0, <4>1, RunOf, RunsApart
    <3>4. tracked'[q] = Append(tracked[q], t)
      BY <1>0, <3>1, <3>2, <3>3 DEF dispatchChained, track, TypeOK
    <3> QED  BY <1>1, <2>0, <3>4
  <2> QED  BY <2>1, <2>2
<1>6. ASSUME isChain(q), stage'[final(q)] # "failed",
             NEW i \in DOMAIN tracked'[q], tracked'[q][i] = final(q)
      PROVE  Last(tracked'[q]) = final(q)
  <2>0. final(q) \in Chained /\ final(q) \in Task /\ stage[final(q)] # "failed"
    BY <1>0, <1>6, EndIsFinal DEF isChain
  <2>1. CASE tracked'[q] = tracked[q]
    BY <1>6, <2>0, <2>1 DEF Tracked
  <2>2. CASE tracked'[q] = local_id_to_ephemeral[q]
    BY <1>6, <2>0, <2>2 DEF Tracked
  <2>3. ASSUME NEW t \in tasks(q) \cap Chained, dispatchChained(t),
               tracked'[q] = Append(tracked[q], t)
        PROVE  Last(tracked'[q]) = final(q)
    <3>1. t \in Task /\ stage[t] = "queued"
      BY <1>0, <2>3 DEF dispatchChained
    <3>2. ASSUME t # final(q) PROVE FALSE
      <4>1. i \in DOMAIN tracked[q] /\ tracked[q][i] = final(q)
        BY <1>1, <1>6, <2>3, <3>1, <3>2
      <4>2. stage[final(q)] \in {"sent", "done"}
        BY <2>0, <4>1 DEF Tracked
      <4>3. t \in Above[final(q)]
        BY <1>6, <2>3, <3>2 DEF isChain
      <4>4. stage[t] = "done"
        BY <2>0, <4>2, <4>3 DEF DoneAbove
      <4> QED  BY <3>1, <4>4
    <3> QED  BY <1>1, <2>3, <3>1, <3>2
  <2> QED  BY <1>6, <2>1, <2>2, <2>3, TrackedSteps
<1> QED  BY <1>2, <1>4, <1>5, <1>6

LEMMA MergesKept ==
    ASSUME Merge = Run, EphemeralInv, HandedOver, MergeInv, Next PROVE MergesLast'
<1> USE DEF EphemeralInv, MergeInv
<1>0. TypeOK /\ Chained \subseteq Task
  BY EphemeralAssumption
<1>1. registered' # {} => callback'
  <2>1. ASSUME NEW r \in Run, register(r) PROVE callback'
    BY <2>1 DEF register
  <2> QED  BY <2>1, RegisteredSteps DEF MergesLast
<1> SUFFICES ASSUME NEW q \in Run
             PROVE  /\ cleanup'[q] # "no" => q \in registered' \cap merges'
                    /\ isChain(q) /\ allDone(q)' =>
                         /\ cleanup'[q] = "merging" => left'[q] # <<>> /\ finalBranch(q)' = final(q)
                         /\ cleanup'[q] \in {"waiting", "over"} =>
                              {final(q)} \cup chain(final(q)) \subseteq main'
  BY <1>1 DEF MergesLast, isChain, orderly, final, Last, tasks, chain, allDone, finalBranch
<1>2. ASSUME cleanup'[q] # "no" PROVE q \in registered' \cap merges'
  <2>1. CASE cleanup[q] # "no"
    BY <2>1, RegisteredSteps DEF MergesLast
  <2>2. CASE cleanup[q] = "no"
    <3>1. q \in registered /\ (callback => q \in merges')
      BY <1>2, <2>2, CleanupSteps DEF popBranches, mergeFinal, deleteBranches
    <3> QED  BY <3>1, RegisteredSteps DEF MergesLast
  <2> QED  BY <2>1, <2>2
<1>3. ASSUME isChain(q), allDone(q)', cleanup'[q] # "no", cleanup'[q] # "scheduled"
      PROVE  /\ cleanup'[q] = "merging" => left'[q] # <<>> /\ finalBranch(q)' = final(q)
             /\ cleanup'[q] \in {"waiting", "over"} =>
                  {final(q)} \cup chain(final(q)) \subseteq main'
  <2>1. cleanup[q] # "no"
    BY <1>3, CleanupSteps DEF popBranches, mergeFinal, deleteBranches
  <2>2. \A t \in tasks(q) : t \in Task /\ stage[t] = "done"
    <3> SUFFICES ASSUME NEW t \in tasks(q) PROVE t \in Task /\ stage[t] = "done"
      OBVIOUS
    <3>1. t \in Task /\ stage'[t] = "done" /\ stage[t] \in {"done", "failed"}
      BY <1>3, <2>1, TasksOfRun DEF allDone, CleanedLast
    <3> QED  BY <3>1, EndIsFinal
  <2>3. allDone(q) /\ final(q) \in tasks(q) \cap Chained /\ orderly(q)
    BY <1>3, <2>2 DEF allDone, isChain
  <2>4. committed(final(q)) /\ stage[final(q)] = "done" /\ final(q) \in Task
    BY <2>2, <2>3 DEF CommittedFirst
  <2>5. CASE popBranches(q)
    <3>1. \E i \in DOMAIN tracked[q] : tracked[q][i] = final(q)
      BY <2>3, <2>4, <2>5 DEF Tracked, committed, popBranches
    <3>2. Last(tracked[q]) = final(q) /\ tracked[q] # <<>>
      BY <1>3, <2>4, <3>1 DEF Tracked
    <3>3. q \in merges
      BY <2>1 DEF MergesLast
    <3>4. left'[q] = tracked[q] /\ cleanup'[q] = "merging"
      BY <1>0, <2>5, <3>2, <3>3 DEF popBranches, TypeOK
    <3> QED  BY <3>2, <3>4 DEF finalBranch, Last
  <2>6. CASE mergeFinal(q)
    <3>1. cleanup[q] = "merging" /\ cleanup'[q] = "waiting"
      BY <1>0, <2>6 DEF mergeFinal, TypeOK
    <3>2. finalBranch(q) = final(q)
      BY <1>3, <2>3, <3>1 DEF MergesLast
    <3>3. final(q) \in branches
      BY <2>3, <2>4, <3>1 DEF BranchKept, committed
    <3>4. main' = main \cup tip[final(q)]
      BY <2>6, <3>2, <3>3 DEF mergeFinal, merge_branch_to_main
    <3>5. {final(q)} \cup chain(final(q)) \subseteq tip[final(q)]
      BY <2>3, <2>4 DEF committed, HandedOver
    <3> QED  BY <3>1, <3>4, <3>5
  <2>7. CASE deleteBranches(q)
    <3>1. cleanup[q] = "waiting" /\ cleanup'[q] = "over"
      BY <1>0, <2>7 DEF deleteBranches, TypeOK
    <3>2. {final(q)} \cup chain(final(q)) \subseteq main
      BY <1>3, <2>3, <3>1 DEF MergesLast
    <3> QED  BY <3>1, <3>2, MainGrows
  <2>8. CASE cleanup'[q] = cleanup[q] /\ left'[q] = left[q]
    <3>1. CASE cleanup[q] = "merging"
      BY <1>3, <2>3, <2>8, <3>1 DEF MergesLast, finalBranch
    <3>2. CASE cleanup[q] \in {"waiting", "over"}
      <4>1. {final(q)} \cup chain(final(q)) \subseteq main
        BY <1>3, <2>3, <3>2 DEF MergesLast
      <4> QED  BY <2>8, <3>2, <4>1, MainGrows
    <3> QED  BY <2>8, <3>1, <3>2
  <2> QED  BY <2>1, <2>5, <2>6, <2>7, <2>8, CleanupSteps
<1> QED  BY <1>2, <1>3

-----------------------------------------------------------------------------
(* The theorems.                                                           *)

LEMMA InitOK == ASSUME Init PROVE EphemeralInv /\ HandedOver
<1> USE DEF Init, Empty
<1>1. TypeOK
  <2>1. [r \in Run |-> <<>>] \in [Run -> Seq(Task)] /\ bus \in Seq(Result)
    OBVIOUS
  <2>2. {local_id_to_ephemeral, tracked, left} \subseteq [Run -> Seq(Task)]
    BY <2>1
  <2>3. stage \in [Task -> Stage]
    BY DEF Stage
  <2> QED  BY <2>1, <2>2, <2>3 DEF TypeOK, RepoOK
<1>2. SentInOrder
  <2> SUFFICES ASSUME NEW r \in Run
               PROVE  /\ at[r] \in 0..Len(Specs[r])
                      /\ \A i \in DOMAIN Specs[r] :
                           stage[Specs[r][i]] = "unsent" <=> i > at[r]
    BY DEF SentInOrder
  <2>1. Specs[r] \in Seq(Task) /\ at[r] = 0
    BY EphemeralAssumption
  <2>2. ASSUME NEW i \in DOMAIN Specs[r] PROVE stage[Specs[r][i]] = "unsent" /\ i > 0
    <3>1. Specs[r][i] \in Task /\ Specs[r][i] \notin Stranger
      BY <2>1 DEF Stranger, tasks
    <3> QED  BY <3>1, <2>1
  <2> QED  BY <2>1, <2>2
<1>3. SentFirst /\ CleanedLast /\ StopsItsAgent
  BY DEF SentFirst, CleanedLast, StopsItsAgent
<1>4. OwnBranches
  BY DEF OwnBranches
<1>5. ASSUME NEW t \in Task PROVE ~spawned(t)
  BY DEF spawned
<1>6. BranchKept /\ HandedOver
  BY <1>5, TasksOfRun, EphemeralAssumption DEF BranchKept, HandedOver
<1>7. CommittedFirst
  BY EphemeralAssumption DEF CommittedFirst, Stranger
<1> QED  BY <1>1, <1>2, <1>3, <1>4, <1>6, <1>7 DEF EphemeralInv

LEMMA StepOK ==
    ASSUME EphemeralInv, HandedOver, [Next]_vars PROVE (EphemeralInv /\ HandedOver)'
<1>1. CASE Next
  BY <1>1, TypesKept, OrderKept, SentKept, BranchesOwned, CleanedKept, BranchesKept, StopKept,
     CommittedKept, HandedOn DEF EphemeralInv
<1>2. CASE UNCHANGED vars
  <2>1. EphemeralInv'
    BY <1>2 DEF vars, endpointVars, cleanupVars, repoVars, EphemeralInv, TypeOK, RepoOK,
       SentInOrder, SentFirst, OwnBranches, CleanedLast, BranchKept, StopsItsAgent,
       CommittedFirst, committed, spawned
  <2>2. ASSUME NEW t \in Chained, spawned(t)' PROVE chain(t) \subseteq tip'[t]
    BY <1>2, <2>2 DEF vars, repoVars, HandedOver, spawned
  <2> QED  BY <2>1, <2>2, SameChain DEF HandedOver
<1> QED  BY <1>1, <1>2

(* The types, and that an agent that was started keeps its branch until    *)
(* all tasks of its run have ended (keep_branch_on_stop and                *)
(* cleanup_workflow_branches), for any runs and agents.                    *)
THEOREM BranchesAreKept == Spec => []EphemeralInv
<1>1. Spec => [](EphemeralInv /\ HandedOver)
  BY InitOK, StepOK, PTL DEF Spec
<1> QED  BY <1>1, PTL

(* The agent of a chain_branch phase starts from the commits of the        *)
(* chain_branch phases before it, of the first task of each that has       *)
(* several: however long the chain, whatever other runs and other tasks    *)
(* do, and wherever submit_task suspends.                                  *)
THEOREM WorkIsHandedOver == Spec => []HandedOver
<1>1. Spec => [](EphemeralInv /\ HandedOver)
  BY InitOK, StepOK, PTL DEF Spec
<1> QED  BY <1>1, PTL

(* So it starts from all of their commits, as the comment on chain_branch  *)
(* has it, when no task depends on more than one.                          *)
THEOREM LinearRunsSeeAllFiles ==
    ASSUME \A t \in Task : \A p, q \in deps(t) : p = q
    PROVE  Spec => []SeesAllFiles
<1>1. ASSUME NEW t \in Chained, NEW u \in upstream(t) PROVE u \in chain(t)
  <2>1. /\ u \in Above[t] \cap Chained
        /\ \A v \in Above[t] : u \in Above[v] => v \in Chained
    BY DEF upstream
  <2>2. ASSUME NEW v \in {t} \cup Above[t], u \in Above[v]
        PROVE  \E p \in deps(v) : firstIn(p, v, Chained) /\ (u = p \/ u \in Above[p])
    <3>1. v \in Task /\ Above[v] \subseteq Above[t]
      BY EphemeralAssumption
    <3>2. Above[v] = deps(v) \cup UNION {Above[d] : d \in deps(v)}
      BY <3>1, EphemeralAssumption
    <3>3. PICK p \in deps(v) : u = p \/ u \in Above[p]
      BY <2>2, <3>2
    <3>4. p \in Chained
      BY <2>1, <3>1, <3>2, <3>3
    <3>5. Deps[v] \in Seq(Task)
      BY <3>1, EphemeralAssumption
    <3>6. PICK i \in DOMAIN Deps[v] : Deps[v][i] = p
      BY DEF deps
    <3>7. \A j \in DOMAIN Deps[v] : Deps[v][j] = p
      BY <3>1 DEF deps
    <3>8. firstIn(p, v, Chained)
      <4>1. 1 \in DOMAIN Deps[v] /\ Deps[v][1] = p
        BY <3>5, <3>6, <3>7
      <4> QED  BY <3>4, <3>5, <4>1 DEF firstIn
    <3> QED  BY <3>3, <3>8
  <2> QED  BY <2>2 DEF chain
<1>2. HandedOver => SeesAllFiles
  BY <1>1 DEF HandedOver, SeesAllFiles
<1> QED  BY <1>2, WorkIsHandedOver, PTL

(* With merge_to_main_on_complete for every run, the branches of a chain   *)
(* are tracked in its order, and the one that is merged is the last.       *)
THEOREM ChainInvHolds ==
    ASSUME Merge = Run PROVE Spec => []ChainInv
<1> DEFINE Inv == EphemeralInv /\ HandedOver /\ MergeInv
<1>1. Init => Inv
  <2>1. ASSUME Init PROVE MergeInv
    <3> USE <2>1 DEF Init, Empty
    <3>1. OneResult /\ KnownFirst
      <4>1. \A t \in Task : load[t] = NoTask /\ ~spawned(t)
        BY DEF spawned
      <4>2. \A r \in Run : tasks(r) \subseteq Task
        BY TasksOfRun
      <4> QED  BY <4>1, <4>2 DEF OneResult, KnownFirst
    <3>2. DoneAbove
      <4> SUFFICES ASSUME NEW t \in Task, stage[t] # "unsent" PROVE Above[t] = {}
        BY DEF DoneAbove
      <4>1. Deps[t] = <<>>
        BY EphemeralAssumption
      <4>2. deps(t) = {}
        BY <4>1 DEF deps
      <4>3. Above[t] = deps(t) \cup UNION {Above[d] : d \in deps(t)}
        BY EphemeralAssumption
      <4> QED  BY <4>2, <4>3
    <3>3. Tracked
      <4>1. ASSUME NEW r \in Run, NEW t \in tasks(r) PROVE ~spawned(t)
        BY <4>1, TasksOfRun DEF spawned
      <4> QED  BY <4>1 DEF Tracked
    <3>4. MergesLast
      BY DEF MergesLast
    <3> QED  BY <3>1, <3>2, <3>3, <3>4 DEF MergeInv
  <2> QED  BY <2>1, InitOK
<1>2. Inv /\ [Next]_vars => Inv'
  <2>1. ASSUME Inv, Next PROVE MergeInv'
    <3>1. OneResult' /\ DoneAbove' /\ KnownFirst' /\ Tracked'
      BY <2>1, ResultsKept, DoneAboveKept, KnownKept, TrackedKept DEF MergeInv
    <3>2. MergesLast'
      BY <2>1, MergesKept
    <3> QED  BY <3>1, <3>2 DEF MergeInv
  <2>2. ASSUME Inv, UNCHANGED vars PROVE MergeInv'
    <3>1. (OneResult /\ DoneAbove /\ KnownFirst /\ Tracked)'
      BY <2>2 DEF vars, endpointVars, cleanupVars, repoVars, MergeInv, OneResult, DoneAbove,
         KnownFirst, Tracked, atSpawn, next, spawned, isChain, orderly, final, Last, tasks
    <3>2. MergesLast'
      BY <2>2, SameChain DEF vars, endpointVars, cleanupVars, repoVars, MergeInv, MergesLast,
         isChain, orderly, final, Last, tasks, allDone, finalBranch
    <3> QED  BY <3>1, <3>2 DEF MergeInv
  <2> QED  BY <2>1, <2>2, StepOK
<1>3. Inv => ChainInv
  BY DEF ChainInv
<1> QED  BY <1>1, <1>2, <1>3, PTL DEF Spec

(* With merge_to_main_on_complete for every run, what the agents of a      *)
(* chain committed, of each phase the first, is on main when the branches  *)
(* of the run are deleted:                                                 *)
(* they were tracked in the order of the chain, as the request submits the *)
(* chain without suspending and each task waits for the one before.  A run *)
(* that does not ask for it takes the merge from the others, since the     *)
(* manager has one callback for all: the hypothesis is needed.             *)
THEOREM ChainsAreMerged ==
    ASSUME Merge = Run PROVE Spec => []MergedWhenAsked
<1>1. ChainInv => MergedWhenAsked
  BY DEF ChainInv, MergeInv, MergesLast, MergedWhenAsked
<1> QED  BY <1>1, ChainInvHolds, PTL

=============================================================================
