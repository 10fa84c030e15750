----------------------------- MODULE Blackboard -----------------------------
(***************************************************************************)
(* Workflow runs at work.  An endpoint of web/routers/workflows.py turns a *)
(* request body into tasks: whom each waits for, which scratchpad keys its *)
(* prompt tells the agent to read first and which to write at the end, and *)
(* which tasks the WorkflowManager is told of.  That is the body's Plan;   *)
(* module Templates says what it is for each endpoint.  Here the tasks of  *)
(* several runs execute side by side on one scratchpad.                    *)
(*                                                                         *)
(* The agents are outside the code: one reads and writes what its prompt   *)
(* says, or its task fails, having written some of it.                     *)
(***************************************************************************)
EXTENDS Naturals, FiniteSets

CONSTANTS
    Run,
    Body,       \* request bodies
    Plan,       \* what the endpoint makes of each
    Before,     \* the tasks each of its tasks comes after
    Promised,   \* for a body made of phases: those it has to come after
    Launch,     \* which body each run may be asked with: functions on Run
    Custom,     \* the scratchpad_prefix of a body whose endpoint takes it as
                \* it is; NoRun for the other bodies
    Slashed,    \* bodies whose prefix has a '/', so that no route takes a key
    Unprefixed, \* keys that are written without the prefix of the run
    NoRun

ASSUME BlackboardAssumption ==
    /\ Launch \subseteq [Run -> Body]
    /\ \A b \in Body :
         /\ Plan[b].after \in [DOMAIN Plan[b].after -> SUBSET DOMAIN Plan[b].after]
         /\ DOMAIN Plan[b].reads = DOMAIN Plan[b].after
         /\ DOMAIN Plan[b].writes = DOMAIN Plan[b].after
         /\ Plan[b].members \subseteq DOMAIN Plan[b].after
         /\ Plan[b].replies \subseteq DOMAIN Plan[b].after
    /\ NoRun \notin Run

tasks(b) == DOMAIN Plan[b].after

(* No task depends on itself, so there is one such table for each body.    *)
ASSUME BeforeAssumption ==
    /\ DOMAIN Before = Body
    /\ \A b \in Body :
         /\ Before[b] \in [tasks(b) -> SUBSET tasks(b)]
         /\ \A t \in tasks(b) :
              /\ Before[b][t] = Plan[b].after[t]
                                 \cup UNION {Before[b][d] : d \in Plan[b].after[t]}
              /\ t \notin Before[b][t]

VARIABLES
    body,       \* the body of each run
    submitted,  \* the runs the endpoint has handled
    stage,      \* of each task of each run
    unwritten,  \* the keys it has not written yet
    pad         \* the scratchpad: who wrote each key last

vars == <<body, submitted, stage, unwritten, pad>>

before(r, t) == Before[body[r]][t]

task(r) == tasks(body[r])
after(r, t) == Plan[body[r]].after[t]
reads(r, t) == Plan[body[r]].reads[t]
writes(r, t) == Plan[body[r]].writes[t]

(* A prefix the endpoint makes has a fresh uuid: no other run has it.  One *)
(* that the client gave may be that of several runs.                       *)
prefix(r) == IF Custom[body[r]] = NoRun THEN r ELSE Custom[body[r]]

(* Mutant: it is the name of the workflow.                                 *)
slot_template(r, k) == <<IF k \in Unprefixed THEN NoRun ELSE body[r], k>>

slot(r, k) == <<IF k \in Unprefixed THEN NoRun ELSE prefix(r), k>>

(* The scratchpad takes what the tasks of the run write.                   *)
kept(r) == body[r] \notin Slashed

Init ==
    /\ body \in Launch
    /\ submitted = {}
    /\ stage = [r \in Run |-> [t \in task(r) |-> "waiting"]]
    /\ unwritten = [r \in Run |-> [t \in task(r) |-> writes(r, t)]]
    /\ pad = {}

-----------------------------------------------------------------------------

(* The endpoint.  Its submit_task calls and wm.submit are one step: with a *)
(* rate limit, a full queue or an agent to spawn it suspends in between,   *)
(* which changes when a task is there to start, not what may start.        *)
submit(r) ==
    /\ r \notin submitted
    /\ submitted' = submitted \cup {r}
    /\ UNCHANGED <<body, stage, unwritten, pad>>

(* An agent gets the task.                                                 *)
(* Mutant: one dependency that is done releases it.                        *)
start_any(r, t) ==
    /\ r \in submitted /\ stage[r][t] = "waiting"
    /\ after(r, t) = {} \/ \E d \in after(r, t) : stage[r][d] = "done"
    /\ stage' = [stage EXCEPT ![r][t] = "reading"]
    /\ UNCHANGED <<body, submitted, unwritten, pad>>

(* Mutant: it is released when the tasks it waits for are at work.         *)
start_early(r, t) ==
    /\ r \in submitted /\ stage[r][t] = "waiting"
    /\ \A d \in after(r, t) : stage[r][d] \in {"writing", "done"}
    /\ stage' = [stage EXCEPT ![r][t] = "reading"]
    /\ UNCHANGED <<body, submitted, unwritten, pad>>

start(r, t) ==
    /\ r \in submitted /\ stage[r][t] = "waiting"
    /\ \A d \in after(r, t) : stage[r][d] = "done"
    /\ stage' = [stage EXCEPT ![r][t] = "reading"]
    /\ UNCHANGED <<body, submitted, unwritten, pad>>

(* GET /scratchpad/{key} for every key the prompt names.                   *)
readAll(r, t) ==
    /\ stage[r][t] = "reading"
    /\ stage' = [stage EXCEPT ![r][t] = "writing"]
    /\ UNCHANGED <<body, submitted, unwritten, pad>>

(* PUT /scratchpad/{key}.  With a '/' in the key the answer is a 404; the  *)
(* agent goes on without.                                                  *)
put(r, t, k) ==
    /\ stage[r][t] = "writing" /\ k \in unwritten[r][t]
    /\ unwritten' = [unwritten EXCEPT ![r][t] = @ \ {k}]
    /\ pad' = IF kept(r)
              THEN {e \in pad : e.slot # slot(r, k)}
                     \cup {[slot |-> slot(r, k), run |-> r, task |-> t]}
              ELSE pad
    /\ UNCHANGED <<body, submitted, stage>>

finish(r, t) ==
    /\ stage[r][t] = "writing" /\ unwritten[r][t] = {}
    /\ stage' = [stage EXCEPT ![r][t] = "done"]
    /\ UNCHANGED <<body, submitted, unwritten, pad>>

(* A template's tasks are not retried: the failure is final, and the tasks *)
(* that come after it go down with it.                                     *)
(* Mutant: only the next ones do.                                          *)
fail_one_level(r, t) ==
    /\ stage[r][t] \in {"reading", "writing"}
    /\ stage' = [stage EXCEPT ![r] = [u \in task(r) |->
          IF u = t THEN "failed"
          ELSE IF t \in after(r, u) THEN "doomed" ELSE @[u]]]
    /\ UNCHANGED <<body, submitted, unwritten, pad>>

fail(r, t) ==
    /\ stage[r][t] \in {"reading", "writing"}
    /\ stage' = [stage EXCEPT ![r] = [u \in task(r) |->
          IF u = t THEN "failed"
          ELSE IF t \in before(r, u) THEN "doomed" ELSE @[u]]]
    /\ UNCHANGED <<body, submitted, unwritten, pad>>

work(r, t) ==
    \/ start(r, t) \/ readAll(r, t) \/ finish(r, t)
    \/ \E k \in writes(r, t) : put(r, t, k)

Next ==
    \E r \in Run :
        \/ submit(r)
        \/ \E t \in task(r) : work(r, t) \/ fail(r, t)

Spec == Init /\ [][Next]_vars

(* A free agent takes a queued task, and works on it until it is done or   *)
(* has failed.                                                             *)
Fairness ==
    \A r \in Run :
        /\ WF_vars(submit(r))
        /\ WF_vars(\E t \in task(r) : work(r, t))

FairSpec == Spec /\ Fairness

-----------------------------------------------------------------------------
(* What a plan P has to be for its runs to go well, B being its table of   *)
(* Before.  A key that is read is one of the run, of a task before; two    *)
(* tasks of which one writes a key that the other uses are in order; the   *)
(* manager is told of every task; the one with reply_to comes after all.   *)
WellFormed(P, B) ==
    LET T == DOMAIN P.after
        uses(t) == P.reads[t] \cup P.writes[t]
    IN  /\ \A t \in T : \A k \in P.reads[t] :
             k \notin Unprefixed /\ \E u \in B[t] : k \in P.writes[u]
        /\ \A t, u \in T : \A k \in (P.writes[t] \cap uses(u)) \ Unprefixed :
             t # u => t \in B[u] \/ u \in B[t]
        /\ P.members = T
        /\ \A t \in P.replies : T = {t} \cup B[t]

-----------------------------------------------------------------------------
(* What the WorkflowManager says of a run: it is told of the members that  *)
(* complete or fail, not of the tasks that go down with one.               *)

members(r) == Plan[body[r]].members

(* Mutant: a run has failed when its tasks all have.                       *)
runStatus_all(r) ==
    IF \A t \in members(r) : stage[r][t] = "failed" THEN "failed"
    ELSE IF \A t \in members(r) : stage[r][t] = "done" THEN "complete"
    ELSE "running"

runStatus(r) ==
    IF \E t \in members(r) : stage[r][t] = "failed" THEN "failed"
    ELSE IF \A t \in members(r) : stage[r][t] = "done" THEN "complete"
    ELSE "running"

ended(r, t) == stage[r][t] \in {"done", "failed", "doomed"}
atWork(r, t) == stage[r][t] \in {"reading", "writing"}

-----------------------------------------------------------------------------
(* Properties.                                                             *)

Stage == {"waiting", "reading", "writing", "done", "failed", "doomed"}

TypeOK ==
    /\ body \in Launch
    /\ submitted \subseteq Run
    /\ DOMAIN stage = Run /\ DOMAIN unwritten = Run
    /\ \A r \in Run :
         /\ stage[r] \in [task(r) -> Stage]
         /\ DOMAIN unwritten[r] = task(r)
         /\ \A t \in task(r) : unwritten[r][t] \subseteq writes(r, t)

(* A task is at work or has ended by itself only after all before it.      *)
Started == {"reading", "writing", "done", "failed"}
InOrder ==
    \A r \in Run : \A t \in task(r) :
        stage[r][t] \in Started => \A d \in before(r, t) : stage[r][d] = "done"

(* Each value was written by a task of its run that was told to.           *)
Wrote(r, t, k) ==
    /\ k \in writes(r, t) \ unwritten[r][t]
    /\ stage[r][t] \in {"writing", "done", "failed"}
PadHonest ==
    \A e \in pad : /\ e.run \in Run /\ e.task \in task(e.run)
                   /\ \E k \in writes(e.run, e.task) :
                        e.slot = slot(e.run, k) /\ Wrote(e.run, e.task, k)

DoneWroteAll ==
    \A r \in Run : \A t \in task(r) : stage[r][t] = "done" => unwritten[r][t] = {}

ReadFirst ==
    \A r \in Run : \A t \in task(r) :
        stage[r][t] \in {"waiting", "reading"} => unwritten[r][t] = writes(r, t)

DoomedByFailure ==
    \A r \in Run : \A t \in task(r) : stage[r][t] = "doomed" =>
        \E d \in before(r, t) : stage[r][d] = "failed"

BlackboardInv ==
    /\ TypeOK /\ InOrder /\ PadHonest
    /\ DoneWroteAll /\ ReadFirst /\ DoomedByFailure

(* The other runs that were given the same prefix.                         *)
sharing(r) == {q \in Run \ {r} : prefix(q) = prefix(r)}

(* An agent that is told to read a key finds it, and what it finds was     *)
(* written by a task of its own run that has completed: not by one that    *)
(* failed or is still at work, and not by another run, unless the client   *)
(* gave that the same prefix.                                              *)
InputsReady ==
    \A r \in Run : \A t \in task(r) : kept(r) /\ stage[r][t] = "reading" =>
        \A k \in reads(r, t) :
            /\ \E e \in pad : e.slot = slot(r, k)
            /\ \A e \in pad : e.slot = slot(r, k) =>
                 \/ e.run = r /\ stage[r][e.task] = "done"
                 \/ e.run \in sharing(r)

(* What a task has written is there for the rest of the run, unless a task *)
(* that comes after it wrote the key again, or another run with the prefix *)
(* that the client gave both: no sibling does, and no run without it.      *)
NothingLost ==
    \A r \in Run : \A t \in task(r) : \A k \in writes(r, t) \ Unprefixed :
        (kept(r) /\ stage[r][t] \in {"writing", "done"} /\ k \notin unwritten[r][t]) =>
            \E e \in pad : /\ e.slot = slot(r, k)
                           /\ \/ e.run = r /\ (e.task = t \/ t \in before(r, e.task))
                              \/ e.run \in sharing(r)

(* The manager reports every run whose tasks have all ended: complete when *)
(* they all completed, failed otherwise.                                   *)
RunReported ==
    \A r \in submitted :
        /\ (\A t \in task(r) : ended(r, t)) => runStatus(r) \in {"complete", "failed"}
        /\ runStatus(r) = "complete" => \A t \in task(r) : stage[r][t] = "done"

(* The reply to the caller comes last: when the task with reply_to has     *)
(* completed, so has every other.                                          *)
ReplyLast ==
    \A r \in Run : \A t \in Plan[body[r]].replies :
        stage[r][t] = "done" => \A u \in task(r) : stage[r][u] = "done"

(* Phases keep the order their blocks give them: a task at work comes      *)
(* after all it has to, and one that waits is not held up by anything else.*)
PhaseOrder ==
    \A r \in submitted : body[r] \in DOMAIN Promised => \A t \in task(r) :
        LET due == Promised[body[r]][t]
        IN  /\ atWork(r, t) => \A d \in due : stage[r][d] = "done"
            /\ stage[r][t] = "waiting" /\ (\A d \in due : stage[r][d] = "done") =>
                 \A d \in after(r, t) : stage[r][d] = "done"

(* Every run comes to its end, whatever fails: each of its tasks ends and  *)
(* the manager reports it.                                                 *)
RunEnds ==
    \A r \in Run : <>(/\ \A t \in task(r) : ended(r, t)
                       /\ runStatus(r) \in {"complete", "failed"})

=============================================================================
