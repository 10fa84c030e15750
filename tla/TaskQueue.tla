----------------------------- MODULE TaskQueue -----------------------------
(***************************************************************************)
(* AsyncPriorityTaskQueue (application/task_queue.py) together with the    *)
(* coroutines of the orchestrator that use it:                             *)
(*                                                                         *)
(*   - submit_task, update_task_priority and cancel_task, called by the    *)
(*     REST layer;                                                         *)
(*   - the dispatch loop, the only consumer, which also puts back a task   *)
(*     no agent can take;                                                  *)
(*   - the route loop, which puts back a task that failed.                 *)
(*                                                                         *)
(* All of them run on one asyncio event loop, so an action of this module  *)
(* is the code between two awaits that really suspend.  The only put that  *)
(* suspends is one into a full queue.  asyncio.wait_for runs get() in a    *)
(* task of its own on Python 3.11, so an entry may have left the heap      *)
(* before the dispatch loop resumes with it: it is then in "hand".         *)
(*                                                                         *)
(* update_priority uses lazy deletion: the superseded heap entry stays in  *)
(* the heap and its sequence number is remembered in "deleted" until get() *)
(* meets it.                                                               *)
(***************************************************************************)
EXTENDS Integers, FiniteSets

CONSTANTS
    Task,              \* task ids
    Priority,          \* priorities a client may ask for; lower runs first
    MaxSize,           \* config.task_queue_maxsize; 0 is unbounded
    NoEntry,           \* not an entry
    DuplicateResults,  \* whether one dispatch may yield two failing RESULTs
    SeqLimit           \* bound of the model: sequence numbers handed out

ASSUME QueueAssumption ==
    /\ Priority \subseteq Int
    /\ MaxSize \in Nat
    /\ SeqLimit \in Nat
    /\ DuplicateResults \in BOOLEAN
    /\ NoEntry \notin [prio : Int, seq : Int, task : Task]

VARIABLES
    heap,        \* entries of asyncio.PriorityQueue._queue
    pending,     \* _pending: task id -> the entry its holders believe live
    deleted,     \* _deleted_seqs
    updateSeq,   \* _update_seq, counts down
    taskSeq,     \* orchestrator._task_seq, counts up
    unfinished,  \* asyncio.PriorityQueue._unfinished_tasks
    hand,        \* the entry the dispatch loop got and has not settled
    putting,     \* the entry each producer is suspended on in put()
    woken,       \* producers whose put() has been woken by a get()
    active,      \* orchestrator._active_tasks, as far as this module needs it
    submitted,   \* ids given to submit_task so far
    cancelled    \* history: pending tasks cancel_task took off the queue

heapVars == <<heap, unfinished>>
vars == <<heap, pending, deleted, updateSeq, taskSeq, unfinished, hand,
          putting, woken, active, submitted, cancelled>>

Producer == {"dispatcher", "router"}

Entry == [prio : Int, seq : Int, task : Task]

-----------------------------------------------------------------------------
(* The order of the heap: tuples compare by priority, then sequence number. *)

Before(e, f) == \/ e.prio < f.prio
                \/ e.prio = f.prio /\ e.seq < f.seq

(* Mutant: get() does not look at _deleted_seqs.                           *)
Live_all == heap

Live == {e \in heap : e.seq \notin deleted}

full == MaxSize > 0 /\ Cardinality(heap) >= MaxSize

inHand(t) == hand # NoEntry /\ hand.task = t

-----------------------------------------------------------------------------

Init ==
    /\ heap = {}
    /\ pending = [t \in Task |-> NoEntry]
    /\ deleted = {}
    /\ updateSeq = 0
    /\ taskSeq = 0
    /\ unfinished = 0
    /\ hand = NoEntry
    /\ putting = [p \in Producer |-> NoEntry]
    /\ woken = {}
    /\ active = {}
    /\ submitted = {}
    /\ cancelled = {}

(* Mutant: the counter is not raised with the heap.                        *)
put_uncounted(e) ==
    /\ pending' = [pending EXCEPT ![e.task] = e]
    /\ heap' = heap \cup {e}
    /\ UNCHANGED unfinished

(* put(): _pending is written first, then the entry reaches the heap.      *)
put(e) ==
    /\ pending' = [pending EXCEPT ![e.task] = e]
    /\ heap' = heap \cup {e}
    /\ unfinished' = unfinished + 1

(* The same call by a coroutine that suspends while the heap is full.      *)
putOrSuspend(p, e) ==
    \/ /\ ~full
       /\ put(e)
       /\ UNCHANGED putting
    \/ /\ full
       /\ pending' = [pending EXCEPT ![e.task] = e]
       /\ putting' = [putting EXCEPT ![p] = e]
       /\ UNCHANGED heapVars

(* submit_task refuses when the queue is full; otherwise its put cannot    *)
(* suspend, since nothing is awaited between the test and the put.         *)
submit_task(t, p) ==
    /\ t \notin submitted
    /\ ~full
    /\ taskSeq < SeqLimit
    /\ taskSeq' = taskSeq + 1
    /\ put([prio |-> p, seq |-> taskSeq + 1, task |-> t])
    /\ submitted' = submitted \cup {t}
    /\ UNCHANGED <<deleted, updateSeq, hand, putting, woken, active, cancelled>>

(* get(): the superseded entries ahead of the first live one are dropped,  *)
(* each with a task_done of its own; every removal wakes a suspended put.  *)
get ==
    /\ hand = NoEntry
    /\ putting["dispatcher"] = NoEntry
    /\ \E e \in Live :
        /\ \A f \in Live \ {e} : Before(e, f)
        /\ LET stale == {f \in heap : Before(f, e)}
           IN  /\ heap' = heap \ (stale \cup {e})
               /\ deleted' = deleted \ {f.seq : f \in stale}
               /\ unfinished' = unfinished - Cardinality(stale)
        /\ pending' = [pending EXCEPT ![e.task] = NoEntry]
        /\ hand' = e
    /\ woken' = {p \in Producer : putting[p] # NoEntry}
    /\ UNCHANGED <<updateSeq, taskSeq, putting, active, submitted, cancelled>>

(* get() when only superseded entries are left: it drops them and waits.   *)
getNothingLive ==
    /\ hand = NoEntry
    /\ putting["dispatcher"] = NoEntry
    /\ heap # {} /\ Live = {}
    /\ heap' = {}
    /\ deleted' = deleted \ {f.seq : f \in heap}
    /\ unfinished' = unfinished - Cardinality(heap)
    /\ woken' = {p \in Producer : putting[p] # NoEntry}
    /\ UNCHANGED <<pending, updateSeq, taskSeq, hand, putting, active, submitted,
                   cancelled>>

(* The dispatch loop settles the entry in its hand with task_done(): the   *)
(* task goes to an agent ...                                               *)
dispatch ==
    /\ hand # NoEntry
    /\ active' = active \cup {hand.task}
    /\ unfinished' = unfinished - 1
    /\ hand' = NoEntry
    /\ UNCHANGED <<heap, pending, deleted, updateSeq, taskSeq, putting, woken,
                   submitted, cancelled>>

(* ... or is dead-lettered, expired or found cancelled.                    *)
discard ==
    /\ hand # NoEntry
    /\ unfinished' = unfinished - 1
    /\ hand' = NoEntry
    /\ UNCHANGED <<heap, pending, deleted, updateSeq, taskSeq, putting, woken,
                   active, submitted, cancelled>>

(* Mutant: the task is put back under the sequence number it had.          *)
requeue_same_seq ==
    /\ hand # NoEntry
    /\ putOrSuspend("dispatcher", hand)
    /\ hand' = NoEntry
    /\ UNCHANGED <<deleted, updateSeq, taskSeq, woken, active, submitted, cancelled>>

(* No agent can take the task: it is put back under a new sequence number, *)
(* without task_done().                                                    *)
requeue ==
    /\ hand # NoEntry
    /\ taskSeq < SeqLimit
    /\ taskSeq' = taskSeq + 1
    /\ putOrSuspend("dispatcher",
                    [prio |-> hand.prio, seq |-> taskSeq + 1, task |-> hand.task])
    /\ hand' = NoEntry
    /\ UNCHANGED <<deleted, updateSeq, woken, active, submitted, cancelled>>

(* The route loop puts a failed task back.  The task stays active; a       *)
(* second failing RESULT of the same dispatch finds it active again.       *)
retry(t, p) ==
    /\ putting["router"] = NoEntry
    /\ t \in active
    /\ \/ DuplicateResults
       \/ /\ pending[t] = NoEntry
          /\ ~inHand(t)
    /\ taskSeq < SeqLimit
    /\ taskSeq' = taskSeq + 1
    /\ putOrSuspend("router", [prio |-> p, seq |-> taskSeq + 1, task |-> t])
    /\ UNCHANGED <<deleted, updateSeq, hand, woken, active, submitted, cancelled>>

(* The route loop sees the task through: success or final failure.         *)
settle(t) ==
    /\ putting["router"] = NoEntry
    /\ t \in active
    /\ active' = active \ {t}
    /\ UNCHANGED <<heap, pending, deleted, updateSeq, taskSeq, unfinished, hand,
                   putting, woken, submitted, cancelled>>

(* A suspended put() that a get() has woken looks at the queue again.      *)
resumePut(p) ==
    /\ p \in woken
    /\ woken' = woken \ {p}
    /\ IF full
       THEN UNCHANGED <<heap, unfinished, putting>>
       ELSE /\ heap' = heap \cup {putting[p]}
            /\ unfinished' = unfinished + 1
            /\ putting' = [putting EXCEPT ![p] = NoEntry]
    /\ UNCHANGED <<pending, deleted, updateSeq, taskSeq, hand, active, submitted,
                   cancelled>>

(* Mutant: the new entry takes over the sequence number of the old one.    *)
update_priority_same_seq(t, p) ==
    /\ pending[t] # NoEntry
    /\ deleted' = deleted \cup {pending[t].seq}
    /\ put([prio |-> p, seq |-> pending[t].seq, task |-> t])
    /\ UNCHANGED <<updateSeq, taskSeq, hand, putting, woken, active, submitted, cancelled>>

(* update_priority(): heappush straight into the heap, maxsize unseen.     *)
update_priority(t, p) ==
    /\ pending[t] # NoEntry
    /\ updateSeq > -SeqLimit
    /\ updateSeq' = updateSeq - 1
    /\ deleted' = deleted \cup {pending[t].seq}
    /\ put([prio |-> p, seq |-> updateSeq - 1, task |-> t])
    /\ UNCHANGED <<taskSeq, hand, putting, woken, active, submitted, cancelled>>

(* Mutant: an active task is looked for as well.                            *)
cancel_task_active_too(t) ==
    LET mine == {e \in heap : e.task = t}
    IN  /\ mine # {}
        /\ heap' = heap \ mine
        /\ unfinished' = IF unfinished > 0 THEN unfinished - 1 ELSE unfinished
        /\ pending' = [pending EXCEPT ![t] = NoEntry]
        /\ cancelled' = IF pending[t] = NoEntry THEN cancelled
                                                ELSE cancelled \cup {t}
        /\ UNCHANGED <<deleted, updateSeq, taskSeq, hand, putting, woken, active,
                       submitted>>

(* cancel_task(), third case: not active, so look for it in the heap.  It  *)
(* rebuilds the heap, lowers the counter once and wakes nobody.            *)
cancel_task(t) ==
    LET mine == {e \in heap : e.task = t}
    IN  /\ t \notin active
        /\ mine # {}
        /\ heap' = heap \ mine
        /\ unfinished' = IF unfinished > 0 THEN unfinished - 1 ELSE unfinished
        /\ pending' = [pending EXCEPT ![t] = NoEntry]
        /\ cancelled' = IF pending[t] = NoEntry THEN cancelled
                                                ELSE cancelled \cup {t}
        /\ UNCHANGED <<deleted, updateSeq, taskSeq, hand, putting, woken, active,
                       submitted>>

Next ==
    \/ \E t \in Task, p \in Priority :
          submit_task(t, p) \/ retry(t, p) \/ update_priority(t, p)
    \/ \E t \in Task : settle(t) \/ cancel_task(t)
    \/ \E p \in Producer : resumePut(p)
    \/ get \/ getNothingLive \/ dispatch \/ discard \/ requeue

Spec == Init /\ [][Next]_vars

-----------------------------------------------------------------------------
(* The coroutines keep running: the dispatch loop takes, settles or puts   *)
(* back what it got and a woken put() looks at the queue again.            *)
Fairness ==
    /\ WF_vars(get)
    /\ WF_vars(dispatch \/ discard \/ requeue)
    /\ \A p \in Producer : WF_vars(resumePut(p))

FairSpec == Spec /\ Fairness

-----------------------------------------------------------------------------
(* Properties.                                                             *)

TypeOK ==
    /\ heap \subseteq Entry /\ IsFiniteSet(heap)
    /\ pending \in [Task -> Entry \cup {NoEntry}]
    /\ deleted \subseteq Int
    /\ updateSeq \in Int
    /\ taskSeq \in Nat
    /\ unfinished \in Int
    /\ hand \in Entry \cup {NoEntry}
    /\ putting \in [Producer -> Entry \cup {NoEntry}]
    /\ woken \subseteq Producer
    /\ active \subseteq Task
    /\ submitted \subseteq Task
    /\ cancelled \subseteq Task

(* What _pending says of a task is true: the entry it holds is on its way  *)
(* to the dispatch loop, in the heap or in a put() under way, and is not   *)
(* one that get() will throw away.  update_priority and qsize rely on it.  *)
PendingIsLive ==
    \A t \in Task : pending[t] # NoEntry =>
        /\ pending[t].task = t
        /\ pending[t].seq \notin deleted
        /\ pending[t] \in heap \cup {putting[p] : p \in Producer}

(* _pending misses nothing: the entry get() will return for a task is the  *)
(* one _pending holds.  So a task has one live entry, and the one with the *)
(* priority asked for last.  It needs one failing RESULT per dispatch.     *)
LiveIsPending ==
    DuplicateResults \/ \A e \in Live : pending[e.task] = e

(* task_done() is never called more often than there are entries to be     *)
(* done with, which would raise ValueError in the dispatch loop: the       *)
(* counter that put, get, update_priority and cancel_task all adjust by    *)
(* hand covers the heap and the entry in hand.                             *)
CounterCoversQueue ==
    unfinished >= Cardinality(heap) + (IF hand = NoEntry THEN 0 ELSE 1)

(* A task cancel_task took off the queue does not reach an agent.          *)
CancelledStaysOffQueue ==
    \A t \in cancelled :
        /\ t \notin active
        /\ ~inHand(t)
        /\ \A e \in Live : e.task # t

-----------------------------------------------------------------------------
(* Why the two hold: sequence numbers are unique and never used again, a   *)
(* superseded number belongs to no entry to come, and only the route loop, *)
(* never the dispatch loop, is woken out of a suspended put.               *)

Entries == (heap \cup {putting[p] : p \in Producer}) \ {NoEntry}

Used(n) == \/ 0 < n /\ n <= taskSeq
           \/ n < 0 /\ updateSeq <= n

SeqsUnique ==
    /\ \A e \in Entries : Used(e.seq)
    /\ \A n \in deleted : Used(n)
    /\ \A e, f \in Entries : e.seq = f.seq => e = f
    /\ \A p \in Producer : putting[p] \notin heap
    /\ putting["dispatcher"] # NoEntry => putting["dispatcher"] # putting["router"]

PutsSuspended ==
    /\ putting["dispatcher"] # NoEntry => hand = NoEntry
    /\ \A p \in woken : p = "router" /\ putting[p] # NoEntry
    /\ putting["router"] # NoEntry => putting["router"].task \in active

OneCopy ==
    \/ DuplicateResults
    \/ /\ \A t \in Task : inHand(t) => pending[t] = NoEntry
       /\ LET e == putting["router"]
          IN  e # NoEntry => e.seq \in deleted \/ pending[e.task] = e

SubmittedOnly ==
    /\ \A t \in Task : pending[t] # NoEntry => t \in submitted
    /\ \A e \in Entries : e.task \in submitted
    /\ hand # NoEntry => hand.task \in submitted
    /\ active \subseteq submitted

QueueInv ==
    /\ TypeOK
    /\ updateSeq <= 0
    /\ SeqsUnique
    /\ PutsSuspended
    /\ SubmittedOnly
    /\ OneCopy
    /\ PendingIsLive
    /\ LiveIsPending

-----------------------------------------------------------------------------
(* What the callers see: the entries get() may return, the puts under way  *)
(* that still count, and the entry in hand.                                *)
Delayed == {e \in {putting[p] : p \in Producer} : e # NoEntry /\ e.seq \notin deleted}

Pool == INSTANCE PriorityPool WITH
            queue <- Live, delayed <- Delayed, serving <- hand

(* The heap with its superseded entries, its two sequence counters and the *)
(* puts that suspend are a queue that keeps a task in one place, serves it *)
(* in the order of priority and arrival, and moves it when its priority is *)
(* changed.  It needs one failing RESULT per dispatch.                     *)
ImplementsPool == Pool!Spec

-----------------------------------------------------------------------------
(* The entry the dispatch loop is given is the one put or re-prioritised   *)
(* last: a superseded priority is never acted on.                          *)
LatestPriorityServed ==
    [][hand' # hand /\ hand' # NoEntry => hand' = pending[hand'.task]]_vars

(* "re-queue and wait": a task the dispatch loop puts back is back in the  *)
(* queue, and the loop, the only consumer, goes on.                        *)
RequeueCompletes ==
    putting["dispatcher"] # NoEntry ~> putting["dispatcher"] = NoEntry

=============================================================================
