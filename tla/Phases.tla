------------------------------- MODULE Phases -------------------------------
(***************************************************************************)
(* POST /workflows with phases= (or tasks=): how a tree of phases and      *)
(* blocks becomes tasks (phase_executor.py, domain/phase_strategy.py), how *)
(* validate_dag orders them (application/workflow_manager.py), and what    *)
(* the endpoint submits (web/routers/workflows.py).                        *)
(*                                                                         *)
(* An item of the tree is a phase or a block.  Expanding one gives its     *)
(* tasks and the ids of those the next item waits for.  A task carries its *)
(* path in the tree, which the code does not have: precedes says from it   *)
(* what the blocks promise.                                                *)
(***************************************************************************)
EXTENDS Naturals, Sequences, SequencesExt, FiniteSets

phase(name, pattern, n) ==
    [kind |-> "phase", name |-> name, pattern |-> pattern, n |-> n,
     judged |-> FALSE, skip |-> FALSE]

judged(p) == [p EXCEPT !.judged = TRUE]    \* judge_prompt_template is set
skippable(p) == [p EXCEPT !.skip = TRUE]   \* skip_condition is met

sequence(items) == [kind |-> "sequence", items |-> items]
parallel(items) == [kind |-> "parallel", items |-> items]
loop(name, max, items) ==
    [kind |-> "loop", name |-> name, max |-> max, items |-> items]

-----------------------------------------------------------------------------
(* The strategies: the tasks of one phase, and those that are terminal.    *)

slotTask(p, role, i, deps, path, reads) ==
    [id |-> <<p.name, role, i>>, deps |-> deps, path |-> path, reads |-> reads,
     writes |-> {<<p.name, role, i>>}]

agentTasks(p, prior, path) ==
    [i \in 1..p.n |-> slotTask(p, "agent", i, prior, Append(path, i), {})]

idsOf(tasks) == {tasks[i].id : i \in DOMAIN tasks}

(* The prompt of the judge names the keys of the solvers.                  *)
competitiveTasks(p, prior, path) ==
    LET solvers == agentTasks(p, prior, path)
    IN  IF p.judged
        THEN Append(solvers, slotTask(p, "judge", 1, idsOf(solvers), Append(path, p.n + 1),
                                      UNION {solvers[i].writes : i \in DOMAIN solvers}))
        ELSE solvers

(* n rounds of an advocate and a critic, then a judge.                     *)
debateTasks(p, prior, path) ==
    LET turn(i) == IF i = 2 * p.n + 1 THEN <<p.name, "judge", 1>>
                   ELSE <<p.name, IF i % 2 = 1 THEN "advocate" ELSE "critic", (i + 1) \div 2>>
    IN  [i \in 1..2 * p.n + 1 |->
           slotTask(p, turn(i)[2], turn(i)[3], IF i = 1 THEN prior ELSE {turn(i - 1)},
                    Append(path, i), {})]

strategy(p, prior, path) ==
    CASE p.pattern \in {"single", "parallel"} -> agentTasks(p, prior, path)
      [] p.pattern = "competitive" -> competitiveTasks(p, prior, path)
      [] p.pattern = "debate" -> debateTasks(p, prior, path)

_terminal_ids(p, tasks) ==
    IF p.pattern = "debate" THEN {Last(tasks).id} ELSE idsOf(tasks)

expanded(tasks, terminals) == [tasks |-> tasks, terminals |-> terminals]

-----------------------------------------------------------------------------
(* The blocks.                                                             *)

(* Items one after the other: each waits for the terminals of the last.    *)
inOrder(expand(_, _, _), items, prior, path) ==
    LET f[i \in 0..Len(items)] ==
          IF i = 0 THEN expanded(<<>>, prior)
          ELSE LET last == f[i - 1]
                   e == expand(items[i], last.terminals, Append(path, i))
               IN  expanded(last.tasks \o e.tasks, e.terminals)
    IN  f[Len(items)]

(* The ids of a phase in a loop get the name of the loop and the number of *)
(* the iteration in front; what they wait for outside the phase does not.  *)
renamed(tasks, prefix) ==
    [i \in DOMAIN tasks |->
        [tasks[i] EXCEPT !.id = prefix \o @,
                         !.deps = {IF d \in idsOf(tasks) THEN prefix \o d ELSE d : d \in @}]]

phaseInLoop(l, iter, p, prior, path) ==
    LET tasks == strategy(p, prior, path)
        prefix == <<l.name, iter>>
    IN  expanded(renamed(tasks, prefix), {prefix \o d : d \in _terminal_ids(p, tasks)})

(* A loop inside a loop is expanded once in each iteration, with the       *)
(* number of the outer one; a skip_condition is not looked at.             *)
RECURSIVE expand_loop_iter(_, _, _, _)
expand_loop_iter(l, iter, prior, path) ==
    LET item(i, ids, at) ==
          IF i.kind = "loop" THEN expand_loop_iter(i, iter, ids, Append(at, iter))
          ELSE phaseInLoop(l, iter, i, ids, at)
    IN  inOrder(item, l.items, prior, path)

_expand_all_loop_iters(l, prior, path) ==
    LET iter(i, ids, at) == expand_loop_iter(l, i, ids, at)
    IN  inOrder(iter, [i \in 1..l.max |-> i], prior, path)

expandPhase(p, prior, path) ==
    IF p.skip THEN expanded(<<>>, prior)
    ELSE LET tasks == strategy(p, prior, path)
         IN  expanded(tasks, _terminal_ids(p, tasks))

RECURSIVE _expand_single_item(_, _, _)

_expand_sequence_block(b, prior, path) ==
    inOrder(_expand_single_item, b.items, prior, path)

_expand_parallel_block(b, prior, path) ==
    LET e == [i \in DOMAIN b.items |-> _expand_single_item(b.items[i], prior, Append(path, i))]
    IN  expanded(FlattenSeq([i \in DOMAIN e |-> e[i].tasks]),
                 UNION {e[i].terminals : i \in DOMAIN e})

_expand_single_item(item, prior, path) ==
    CASE item.kind = "sequence" -> _expand_sequence_block(item, prior, path)
      [] item.kind = "parallel" -> _expand_parallel_block(item, prior, path)
      [] item.kind = "loop" -> _expand_all_loop_iters(item, prior, path)
      [] item.kind = "phase" -> expandPhase(item, prior, path)

(* Only a list without blocks takes the fast path; the result is the same. *)
expand_phases(phases) == inOrder(expandPhase, phases, {}, <<>>)

expand_phase_items(items) == inOrder(_expand_single_item, items, {}, <<>>)

-----------------------------------------------------------------------------
(* validate_dag (Kahn): the tasks in an order that has dependencies first. *)
(* Two tasks with one id leave the order short, as a cycle does.           *)

unknownDeps(tasks) == UNION {tasks[i].deps : i \in DOMAIN tasks} \ idsOf(tasks)

RECURSIVE kahn(_, _, _)
kahn(tasks, queue, order) ==
    IF queue = <<>> THEN order
    ELSE LET lid == Head(queue).id
             done == idsOf(order) \cup {lid}
             freed == SelectSeq(tasks, LAMBDA t : lid \in t.deps /\ t.deps \subseteq done)
         IN  kahn(tasks, Tail(queue) \o freed, Append(order, Head(queue)))

(* <<>> when the endpoint refuses with status 400.                         *)
validate_dag(tasks) ==
    LET order == kahn(tasks, SelectSeq(tasks, LAMBDA t : t.deps = {}), <<>>)
    IN  IF /\ unknownDeps(tasks) = {}
           /\ Cardinality(idsOf(tasks)) = Len(tasks) /\ Len(order) = Len(tasks)
        THEN order ELSE <<>>

dag_edges(order) ==
    {<<j, i>> \in (DOMAIN order) \X (DOMAIN order) : order[j].id \in order[i].deps}

(* What POST /workflows submits, numbered in that order: the manager is    *)
(* given all of it, and nobody has reply_to.                               *)
submit_workflow(tasks) ==
    LET order == validate_dag(tasks)
    IN  [after |-> [i \in DOMAIN order |-> {j \in 1..i - 1 : order[j].id \in order[i].deps}],
         reads |-> [i \in DOMAIN order |-> order[i].reads],
         writes |-> [i \in DOMAIN order |-> order[i].writes],
         members |-> DOMAIN order,
         replies |-> {},
         edges |-> dag_edges(order)]

(* What GET /workflows/{id}/dag shows: the tasks the manager was given and *)
(* the edges it was given, not what the orchestrator knows of either.      *)
get_workflow_dag(P) == [nodes |-> P.members, edges |-> P.edges]

(* A task of a tasks= request: its prompt is the client's, and names none  *)
(* of the keys of the run.                                                 *)
givenTask(id, deps) ==
    [id |-> id, deps |-> deps, path |-> <<>>, reads |-> {}, writes |-> {}]

-----------------------------------------------------------------------------
(* What the blocks promise: whether the task at path p comes before the    *)
(* one at path q.  Items of a sequence, iterations of a loop and the turns *)
(* of a debate are in order, branches of a parallel block are not.         *)

slotPrecedes(p, a, b) ==
    CASE p.pattern = "debate" -> a < b
      [] p.pattern = "competitive" -> a <= p.n /\ b = p.n + 1
      [] OTHER -> FALSE

RECURSIVE precedes(_, _, _)
precedes(item, p, q) ==
    LET a == Head(p)
        b == Head(q)
        within == a = b /\ precedes(IF item.kind = "loop" THEN sequence(item.items)
                                    ELSE item.items[a], Tail(p), Tail(q))
    IN  CASE item.kind = "phase" -> slotPrecedes(item, a, b)
          [] item.kind = "parallel" -> within
          [] item.kind \in {"sequence", "loop"} -> a < b \/ within

promised(items) ==
    LET order == validate_dag(expand_phase_items(items).tasks)
    IN  [i \in DOMAIN order |-> {j \in DOMAIN order :
            precedes(sequence(items), order[j].path, order[i].path)}]

=============================================================================
