------------------------------ MODULE Worktree ------------------------------
(***************************************************************************)
(* WorktreeManager (infrastructure/worktree.py) for isolated agents: each  *)
(* has a working tree .worktrees/{agent_id} on a branch worktree/{id}.     *)
(*                                                                         *)
(* A branch stands for the work committed on it: merging adds work to a    *)
(* branch, and so does a rebase, which rewrites it.  git itself, run as a  *)
(* subprocess, is outside the code: of it the model has that a branch that *)
(* is checked out in a working tree is not deleted, and that merges do not *)
(* conflict.  The operator's checkout stays on main.                       *)
(***************************************************************************)

CONSTANT Agent

VARIABLES
    branches,   \* the branches worktree/{agent} there are
    worktrees,  \* the agents with a working tree: _owned
    tip,        \* the work on the branch of each agent
    main        \* the work on main

Empty ==
    /\ branches = {} /\ worktrees = {}
    /\ tip = [a \in Agent |-> {}]
    /\ main = {}

(* git worktree add -b, from a branch that has this work on it.  What was  *)
(* left of an agent with this name goes first.                             *)
worktreeAdd(a, work) ==
    /\ branches' = branches \cup {a}
    /\ worktrees' = worktrees \cup {a}
    /\ tip' = [tip EXCEPT ![a] = work]
    /\ main' = main

setup(a) == worktreeAdd(a, main)

(* Agent._setup_worktree: without the source branch it is setup after all. *)
create_from_branch(a, source) ==
    worktreeAdd(a, IF source \in branches THEN tip[source] ELSE main)

(* The agent commits.                                                      *)
commit(a, work) ==
    /\ tip' = [tip EXCEPT ![a] = @ \cup work]
    /\ UNCHANGED <<branches, worktrees, main>>

keep_branch(a) ==
    /\ worktrees' = worktrees \ {a}
    /\ UNCHANGED <<branches, tip, main>>

(* git branch -D, for each of some branches.                               *)
delete_branches(S) ==
    /\ branches' = branches \ (S \ worktrees)
    /\ UNCHANGED <<worktrees, tip, main>>

merge_branch_to_main(a) ==
    /\ main' = IF a \in branches THEN main \cup tip[a] ELSE main
    /\ UNCHANGED <<branches, worktrees, tip>>

(* merge and cherry-pick leave the branch of the agent alone.              *)
sync_to_branch(a) ==
    /\ a \in worktrees
    /\ main' = main \cup tip[a]
    /\ UNCHANGED <<branches, worktrees, tip>>

sync_rebase(a) ==
    /\ a \in worktrees
    /\ tip' = [tip EXCEPT ![a] = main \cup @]
    /\ main' = main \cup tip[a]
    /\ UNCHANGED <<branches, worktrees>>

=============================================================================
