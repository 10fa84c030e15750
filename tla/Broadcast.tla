----------------------------- MODULE Broadcast ------------------------------
(***************************************************************************)
(* Broadcast groups (application/orchestrator.py): one prompt is submitted *)
(* as a task for each of several agents, and the group is brought up to    *)
(* date by each RESULT.  A race is over with the first success, whose task *)
(* wins and has the others cancelled; a gather with the last RESULT.       *)
(*                                                                         *)
(* The group is a value, and a RESULT what makes the next one of it: the   *)
(* route loop does not suspend in between.                                 *)
(***************************************************************************)
EXTENDS FiniteSets, SequencesExt

NoWinner == "none"

broadcast_task(mode, task_ids) ==
    [mode |-> mode, task_ids |-> task_ids, completed |-> {}, failed |-> {},
     winner |-> NoWinner, cancelled |-> {},
     status |-> IF task_ids = {} THEN "complete" ELSE "pending"]

resolved(g) == g.completed \cup g.failed

success(g, t) ==
    LET h == [g EXCEPT !.completed = @ \cup {t}]
    IN  IF g.mode = "race"
        THEN [h EXCEPT !.winner = t, !.status = "complete",
                       !.cancelled = g.task_ids \ resolved(h)]
        ELSE [h EXCEPT !.status = IF resolved(h) = g.task_ids THEN "complete" ELSE "running"]

failure(g, t) ==
    LET h == [g EXCEPT !.failed = @ \cup {t}]
    IN  [h EXCEPT !.status =
           IF resolved(h) # g.task_ids THEN "running"
           ELSE IF h.completed = {} THEN "failed" ELSE "complete"]

(* The RESULT of a task: the task is forgotten for the group, so a second  *)
(* one does nothing, and after a race is won neither does a first.         *)
result(g, r) ==
    IF g.winner # NoWinner \/ r.task \in resolved(g) THEN g
    ELSE IF r.ok THEN success(g, r.task) ELSE failure(g, r.task)

(* broadcast_task stores the group after it has submitted all tasks: what  *)
(* the route loop hears before, while submit_task suspends, is forgotten.  *)
heard(mode, task_ids, before, results) ==
    LET late == SelectSeq(results, LAMBDA r : \A i \in DOMAIN before : before[i].task # r.task)
    IN  FoldLeft(result, broadcast_task(mode, task_ids), late)

=============================================================================
