---------------------------- MODULE PriorityPool ----------------------------
(***************************************************************************)
(* What the task queue promises its callers, without a heap, superseded    *)
(* entries, counters or wake-ups: a task waits in one place, the task that *)
(* is served next is the first of the most urgent priority, tasks of one   *)
(* priority keep the order they came in, and a new priority takes a task   *)
(* to the head of its new class at once.                                   *)
(***************************************************************************)
EXTENDS Integers

CONSTANT NoEntry   \* nothing is being served

VARIABLES
    queue,         \* the entries that can be served: priority, place, task
    delayed,       \* entries that have not been let in yet
    serving        \* the entry the consumer took and has not settled

vars == <<queue, delayed, serving>>

Init == queue = {} /\ delayed = {} /\ serving = NoEntry

waiting == queue \cup delayed

Ahead(e, f) == e.prio < f.prio \/ (e.prio = f.prio /\ e.seq < f.seq)

isLast(e) == \A f \in waiting : f.prio = e.prio => f.seq < e.seq

isFirst(e) == \A f \in waiting : f.prio = e.prio => e.seq < f.seq

(* An entry joins the queue, or those that wait to be let in.              *)
join(e) ==
    \/ queue' = queue \cup {e} /\ UNCHANGED delayed
    \/ delayed' = delayed \cup {e} /\ UNCHANGED queue

isServed(t) == serving # NoEntry /\ serving.task = t

(* A task that is nowhere in the queue joins it behind its equals.         *)
Put ==
    \E e \in queue' \cup delayed' :
        /\ \A f \in waiting : f.task # e.task
        /\ ~isServed(e.task)
        /\ isLast(e)
        /\ join(e)
        /\ UNCHANGED serving

(* The consumer returns what it took: same task and priority, last place.  *)
PutBack ==
    \E e \in queue' \cup delayed' :
        /\ serving # NoEntry
        /\ e.task = serving.task /\ e.prio = serving.prio
        /\ \A f \in waiting : f.task # e.task
        /\ isLast(e)
        /\ join(e)
        /\ serving' = NoEntry

(* An entry is let in, at the place it had when it came.                   *)
Admit ==
    \E e \in delayed :
        /\ queue' = queue \cup {e}
        /\ delayed' = delayed \ {e}
        /\ UNCHANGED serving

(* A task that waits gets a new priority, and is first of those that have  *)
(* it already.                                                             *)
Reprioritise ==
    \E e \in queue' :
        /\ \E f \in waiting : f.task = e.task
        /\ isFirst(e)
        /\ queue' = {f \in queue : f.task # e.task} \cup {e}
        /\ delayed' = {f \in delayed : f.task # e.task}
        /\ UNCHANGED serving

(* The consumer takes the first entry of all that are in the queue.        *)
Take ==
    \E e \in queue :
        /\ serving = NoEntry
        /\ \A f \in queue \ {e} : Ahead(e, f)
        /\ queue' = queue \ {e}
        /\ serving' = e
        /\ UNCHANGED delayed

(* The consumer is done with what it took.                                 *)
Settle == serving # NoEntry /\ serving' = NoEntry /\ UNCHANGED <<queue, delayed>>

(* A task is taken off the queue.                                          *)
Withdraw ==
    \E e \in queue : queue' = queue \ {e} /\ UNCHANGED <<delayed, serving>>

Next == Put \/ PutBack \/ Admit \/ Reprioritise \/ Take \/ Settle \/ Withdraw

Spec == Init /\ [][Next]_vars

=============================================================================
