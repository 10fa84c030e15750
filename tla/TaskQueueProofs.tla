-------------------------- MODULE TaskQueueProofs --------------------------
(***************************************************************************)
(* What TaskQueue promises for every set of tasks, every priority, every   *)
(* maxsize and every bound on sequence numbers.                            *)
(***************************************************************************)
EXTENDS TaskQueue, FiniteSetTheorems, TLAPS

(* NoEntry is no entry.                                                    *)
LEMMA NoEntryIsNone == NoEntry \notin Entry
  BY QueueAssumption DEF Entry

(* Everything ahead of the first live entry is superseded.                 *)
LEMMA StaleAreDeleted ==
    ASSUME TypeOK, NEW e \in Live, \A f \in Live \ {e} : Before(e, f),
           NEW g \in heap, Before(g, e)
    PROVE  g.seq \in deleted /\ g # e
<1>1. e \in Entry /\ g \in Entry
  BY DEF TypeOK, Live
<1>2. g # e
  BY <1>1 DEF Before, Entry
<1>3. ~Before(e, g)
  BY <1>1 DEF Before, Entry
<1>4. g \notin Live
  BY <1>2, <1>3
<1>5. QED
  BY <1>2, <1>4 DEF Live

(* put keeps the types of what it writes, whether or not it suspends.      *)
LEMMA PutTypes ==
    ASSUME TypeOK, NEW e \in Entry, NEW p \in Producer,
           (put(e) /\ UNCHANGED putting) \/ putOrSuspend(p, e)
    PROVE  /\ heap' \subseteq Entry /\ IsFiniteSet(heap') /\ unfinished' \in Int
           /\ pending' \in [Task -> Entry \cup {NoEntry}]
           /\ putting' \in [Producer -> Entry \cup {NoEntry}]
<1>1. IsFiniteSet(heap \cup {e})
  BY FS_AddElement DEF TypeOK
<1>2. e.task \in Task
  BY DEF Entry
<1>3. /\ heap' \in {heap, heap \cup {e}} /\ unfinished' \in {unfinished, unfinished + 1}
      /\ pending' = [pending EXCEPT ![e.task] = e]
      /\ putting' \in {putting, [putting EXCEPT ![p] = e]}
  BY DEF put, putOrSuspend, heapVars
<1>4. QED
  BY <1>1, <1>2, <1>3 DEF TypeOK

(* Every step keeps the types of the variables.                            *)
LEMMA TypeStep ==
    ASSUME QueueInv, [Next]_vars
    PROVE  TypeOK' /\ (updateSeq <= 0)'
<1> USE QueueAssumption DEF TypeOK, QueueInv
<1>a. ASSUME NEW t \in Task, NEW p \in Int, NEW n \in Int
      PROVE  [prio |-> p, seq |-> n, task |-> t] \in Entry
  BY DEF Entry
<1>b. ASSUME NEW e \in Entry PROVE e.prio \in Int /\ e.seq \in Int /\ e.task \in Task
  BY DEF Entry
<1>c. "dispatcher" \in Producer /\ "router" \in Producer
  BY DEF Producer
<1>1. ASSUME NEW t \in Task, NEW p \in Priority, submit_task(t, p)
      PROVE  TypeOK' /\ (updateSeq <= 0)'
  <2> DEFINE new == [prio |-> p, seq |-> taskSeq + 1, task |-> t]
  <2>1. new \in Entry
    <3>1. p \in Int /\ taskSeq + 1 \in Int
      OBVIOUS
    <3>2. QED
      BY <3>1, <1>a, Zenon
  <2>2. put(new) /\ UNCHANGED putting
    BY <1>1 DEF submit_task
  <2> HIDE DEF new
  <2>3. QED
    BY <1>1, <1>c, <2>1, <2>2, PutTypes DEF submit_task
<1>2. ASSUME NEW t \in Task, NEW p \in Priority, retry(t, p)
      PROVE  TypeOK' /\ (updateSeq <= 0)'
  <2> DEFINE new == [prio |-> p, seq |-> taskSeq + 1, task |-> t]
  <2>1. new \in Entry
    <3>1. p \in Int /\ taskSeq + 1 \in Int
      OBVIOUS
    <3>2. QED
      BY <3>1, <1>a, Zenon
  <2>2. putOrSuspend("router", new)
    BY <1>2 DEF retry
  <2> HIDE DEF new
  <2>3. QED
    BY <1>2, <1>c, <2>1, <2>2, PutTypes DEF retry
<1>3. ASSUME NEW t \in Task, NEW p \in Priority, update_priority(t, p)
      PROVE  TypeOK' /\ (updateSeq <= 0)'
  <2> DEFINE new == [prio |-> p, seq |-> updateSeq - 1, task |-> t]
  <2>1. new \in Entry
    <3>1. p \in Int /\ updateSeq - 1 \in Int
      OBVIOUS
    <3>2. QED
      BY <3>1, <1>a, Zenon
  <2>2. put(new) /\ UNCHANGED putting
    BY <1>3 DEF update_priority
  <2>3. pending[t].seq \in Int
    BY <1>3, <1>b DEF update_priority
  <2> HIDE DEF new
  <2>4. /\ heap' \subseteq Entry /\ IsFiniteSet(heap') /\ unfinished' \in Int
        /\ pending' \in [Task -> Entry \cup {NoEntry}]
    BY <1>c, <2>1, <2>2, PutTypes
  <2>5. /\ updateSeq' = updateSeq - 1 /\ deleted' = deleted \cup {pending[t].seq}
        /\ UNCHANGED <<taskSeq, hand, putting, woken, active, submitted, cancelled>>
    BY <1>3 DEF update_priority
  <2>6. deleted' \subseteq Int
    BY <2>3, <2>5
  <2>7. updateSeq' \in Int /\ updateSeq' <= 0
    BY <2>5
  <2>8. QED
    BY <2>4, <2>5, <2>6, <2>7
<1>4. ASSUME NEW t \in Task, settle(t)
      PROVE  TypeOK' /\ (updateSeq <= 0)'
  BY <1>4 DEF settle
<1>5. ASSUME NEW t \in Task, cancel_task(t)
      PROVE  TypeOK' /\ (updateSeq <= 0)'
  <2>1. IsFiniteSet(heap \ {e \in heap : e.task = t})
    BY FS_Difference
  <2>2. QED
    BY <1>5, <2>1 DEF cancel_task
<1>6. ASSUME NEW p \in Producer, resumePut(p)
      PROVE  TypeOK' /\ (updateSeq <= 0)'
  <2>1. putting[p] \in Entry
    BY <1>6 DEF resumePut, PutsSuspended
  <2>2. IsFiniteSet(heap \cup {putting[p]})
    BY FS_AddElement
  <2>3. QED
    BY <1>6, <2>1, <2>2 DEF resumePut
<1>7. CASE get
  <2>1. PICK e \in Live :
            LET stale == {f \in heap : Before(f, e)}
            IN  /\ heap' = heap \ (stale \cup {e})
                /\ deleted' = deleted \ {f.seq : f \in stale}
                /\ unfinished' = unfinished - Cardinality(stale)
                /\ pending' = [pending EXCEPT ![e.task] = NoEntry]
                /\ hand' = e
    BY <1>7 DEF get
  <2> DEFINE stale == {f \in heap : Before(f, e)}
  <2>2. IsFiniteSet(stale) /\ Cardinality(stale) \in Nat
    BY FS_Subset, FS_CardinalityType
  <2>3. IsFiniteSet(heap \ (stale \cup {e}))
    BY FS_Difference
  <2>4. e \in Entry
    BY DEF Live
  <2> HIDE DEF stale
  <2>5. /\ heap' = heap \ (stale \cup {e}) /\ deleted' \subseteq deleted
        /\ unfinished' = unfinished - Cardinality(stale)
        /\ pending' = [pending EXCEPT ![e.task] = NoEntry] /\ hand' = e
    BY <2>1 DEF stale
  <2>6. UNCHANGED <<updateSeq, taskSeq, putting, active, submitted, cancelled>>
        /\ woken' \subseteq Producer
    BY <1>7, Zenon DEF get
  <2>7. heap' \subseteq Entry /\ IsFiniteSet(heap') /\ unfinished' \in Int
    BY <2>2, <2>3, <2>5
  <2>8. pending' \in [Task -> Entry \cup {NoEntry}] /\ hand' \in Entry
    BY <2>4, <2>5
  <2>9. QED
    BY <2>5, <2>6, <2>7, <2>8
<1>8. CASE getNothingLive
  <2>1. Cardinality(heap) \in Nat
    BY FS_CardinalityType
  <2>2. heap' = {} /\ IsFiniteSet(heap') /\ deleted' \subseteq deleted
    BY <1>8, FS_EmptySet DEF getNothingLive
  <2>3. unfinished' \in Int /\ woken' \subseteq Producer
    BY <1>8, <2>1 DEF getNothingLive
  <2>4. QED
    BY <1>8, <2>2, <2>3 DEF getNothingLive
<1>9. CASE dispatch
  BY <1>9, <1>b DEF dispatch
<1>10. CASE discard
  BY <1>10 DEF discard
<1>11. CASE requeue
  <2> DEFINE new == [prio |-> hand.prio, seq |-> taskSeq + 1, task |-> hand.task]
  <2>1. new \in Entry
    BY <1>11, <1>a, <1>b DEF requeue
  <2>2. putOrSuspend("dispatcher", new)
    BY <1>11 DEF requeue
  <2> HIDE DEF new
  <2>3. QED
    BY <1>11, <1>c, <2>1, <2>2, PutTypes DEF requeue
<1>12. CASE UNCHANGED vars
  BY <1>12 DEF vars
<1>13. QED
  BY <1>1, <1>2, <1>3, <1>4, <1>5, <1>6, <1>7, <1>8, <1>9, <1>10, <1>11, <1>12
     DEF Next

(* Steps that put a fresh entry keep the sequence numbers apart.           *)
LEMMA FreshPut ==
    ASSUME QueueInv, NEW e \in Entry, NEW p \in Producer,
           \/ taskSeq' = taskSeq + 1 /\ e.seq = taskSeq + 1 /\ updateSeq' = updateSeq
           \/ updateSeq' = updateSeq - 1 /\ e.seq = updateSeq - 1 /\ taskSeq' = taskSeq,
           \/ heap' = heap \cup {e} /\ putting' = putting
           \/ /\ heap' = heap /\ putting[p] = NoEntry
              /\ putting' = [putting EXCEPT ![p] = e],
           deleted' \subseteq deleted \cup {f.seq : f \in Entries}
    PROVE  /\ SeqsUnique'
           /\ e.seq \notin deleted'
           /\ e \notin Entries
           /\ Entries' = Entries \cup {e}
<1> USE DEF QueueInv, SeqsUnique
<1>1. \A f \in Entries : f \in Entry /\ Used(f.seq)
  BY DEF Entries, TypeOK
<1>2. \A n \in deleted' : Used(n)
  BY <1>1
<1>3. ~Used(e.seq)
  BY DEF Used, TypeOK
<1>4. \A n \in Int : Used(n) => Used(n)'
  BY DEF Used, TypeOK
<1>5. Used(e.seq)'
  BY DEF Used, TypeOK
<1>6. e \notin Entries /\ e \notin heap /\ e # NoEntry
  BY <1>1, <1>3, QueueAssumption DEF Entries, Entry
<1>7. Entries' = Entries \cup {e}
  BY <1>6 DEF Entries, TypeOK
<1>8. deleted' \subseteq Int /\ \A f \in Entries : f.seq \in Int
  BY <1>1 DEF TypeOK, Entry
<1>9. \A f \in Entries' : Used(f.seq)'
  BY <1>1, <1>4, <1>5, <1>7, <1>8
<1>10. \A n \in deleted' : Used(n)'
  BY <1>2, <1>4, <1>8
<1>11. \A f, g \in Entries' : f.seq = g.seq => f = g
  BY <1>1, <1>3, <1>7
<1>12. \A q \in Producer : putting'[q] \notin heap'
  BY <1>6, <1>7 DEF TypeOK, Entries
<1>13. putting'["dispatcher"] # NoEntry => putting'["dispatcher"] # putting'["router"]
  BY <1>6 DEF TypeOK, Entries, Producer
<1>14. QED
  BY <1>2, <1>3, <1>6, <1>7, <1>9, <1>10, <1>11, <1>12, <1>13

(* submit_task puts the first entry of a task.                             *)
LEMMA SubmitStep ==
    ASSUME QueueInv, NEW t \in Task, NEW p \in Priority, submit_task(t, p)
    PROVE  /\ SeqsUnique' /\ PutsSuspended' /\ SubmittedOnly'
           /\ OneCopy' /\ PendingIsLive' /\ LiveIsPending'
<1> DEFINE new == [prio |-> p, seq |-> taskSeq + 1, task |-> t]
<1>1. /\ new \in Entry /\ new.task = t /\ new.seq = taskSeq + 1
  BY QueueAssumption DEF Entry, QueueInv, TypeOK
<1>2. /\ t \notin submitted /\ submitted' = submitted \cup {t}
      /\ taskSeq' = taskSeq + 1 /\ heap' = heap \cup {new}
      /\ pending' = [pending EXCEPT ![t] = new]
      /\ UNCHANGED <<deleted, updateSeq, hand, putting, woken, active, cancelled>>
  BY DEF submit_task, put
<1> HIDE DEF new
<1> USE DEF QueueInv
<1>3. SeqsUnique' /\ new.seq \notin deleted /\ new \notin Entries /\ Entries' = Entries \cup {new}
  BY <1>1, <1>2, FreshPut DEF Producer
<1>4. PutsSuspended' /\ SubmittedOnly'
  BY <1>1, <1>2, <1>3 DEF PutsSuspended, SubmittedOnly, TypeOK
<1>5. PendingIsLive'
  BY <1>1, <1>2, <1>3 DEF PendingIsLive, TypeOK
<1>6. \A e \in Live : e.task # t \/ DuplicateResults
  <2> SUFFICES ASSUME ~DuplicateResults, NEW e \in Live
               PROVE  e.task # t
    OBVIOUS
  <2>1. e \in Entry /\ e # NoEntry /\ pending[e.task] = e /\ e.task \in Task
    BY NoEntryIsNone DEF LiveIsPending, Live, TypeOK, Entry
  <2>2. QED
    BY <1>2, <2>1 DEF SubmittedOnly
<1>7. LiveIsPending'
  BY <1>1, <1>2, <1>6 DEF LiveIsPending, Live, TypeOK, Entry
<1>8. hand # NoEntry => hand.task # t
  BY <1>2 DEF SubmittedOnly
<1>9. putting["router"] # NoEntry => putting["router"].task \in Task \ {t}
  BY <1>2 DEF SubmittedOnly, PutsSuspended, TypeOK
<1>10. OneCopy'
  BY <1>2, <1>8, <1>9 DEF OneCopy, inHand, TypeOK
<1>11. QED
  BY <1>3, <1>4, <1>5, <1>7, <1>10

(* update_priority replaces the pending entry of a task by a fresh one and *)
(* gives up the sequence number of the old.                                *)
LEMMA UpdateStep ==
    ASSUME QueueInv, NEW t \in Task, NEW p \in Priority, update_priority(t, p)
    PROVE  /\ SeqsUnique' /\ PutsSuspended' /\ SubmittedOnly'
           /\ OneCopy' /\ PendingIsLive' /\ LiveIsPending'
<1> DEFINE new == [prio |-> p, seq |-> updateSeq - 1, task |-> t]
<1> DEFINE old == pending[t]
<1>1. /\ new \in Entry /\ new.task = t /\ new.seq = updateSeq - 1
  BY QueueAssumption DEF Entry, QueueInv, TypeOK
<1>2. /\ old # NoEntry /\ deleted' = deleted \cup {old.seq}
      /\ updateSeq' = updateSeq - 1 /\ heap' = heap \cup {new}
      /\ pending' = [pending EXCEPT ![t] = new]
      /\ UNCHANGED <<taskSeq, hand, putting, woken, active, submitted, cancelled>>
  BY DEF update_priority, put
<1>3. /\ old \in Entry /\ old.task = t /\ old \in Entries
      /\ old.seq \notin deleted
  BY <1>2 DEF QueueInv, PendingIsLive, TypeOK, Entries
<1> HIDE DEF new, old
<1> USE DEF QueueInv
<1>4. SeqsUnique' /\ new.seq \notin deleted' /\ new \notin Entries /\ Entries' = Entries \cup {new}
  BY <1>1, <1>2, <1>3, FreshPut DEF Producer
<1>5. PutsSuspended' /\ SubmittedOnly'
  BY <1>1, <1>2, <1>4 DEF PutsSuspended, SubmittedOnly, TypeOK, old
<1>6. ASSUME NEW u \in Task, u # t, pending[u] # NoEntry
      PROVE  pending[u].seq # old.seq
  BY <1>2, <1>3, <1>6 DEF PendingIsLive, SeqsUnique, Entries, TypeOK
<1>7. PendingIsLive'
  BY <1>1, <1>2, <1>4, <1>6 DEF PendingIsLive, TypeOK
<1>8. LiveIsPending'
  <2> SUFFICES ASSUME ~DuplicateResults, NEW e \in Live'
               PROVE  pending'[e.task] = e
    BY DEF LiveIsPending
  <2>1. CASE e = new
    BY <1>1, <1>2, <2>1 DEF TypeOK
  <2>2. CASE e # new
    <3>1. e \in Live /\ e.seq # old.seq /\ e.task \in Task
      BY <1>2, <2>2 DEF Live, TypeOK, Entry
    <3>2. pending[e.task] = e
      BY <3>1 DEF LiveIsPending
    <3>3. e.task # t
      BY <3>1, <3>2 DEF old
    <3>4. QED
      BY <1>2, <3>1, <3>2, <3>3 DEF TypeOK
  <2>3. QED
    BY <2>1, <2>2
<1>9. OneCopy'
  <2> SUFFICES ASSUME ~DuplicateResults
               PROVE  /\ \A u \in Task : inHand(u) => pending'[u] = NoEntry
                      /\ putting["router"] # NoEntry =>
                           \/ putting["router"].seq \in deleted'
                           \/ pending'[putting["router"].task] = putting["router"]
    BY <1>2 DEF OneCopy, inHand
  <2>1. ~inHand(t)
    BY <1>2 DEF OneCopy, old
  <2>2. ASSUME putting["router"] # NoEntry
        PROVE  \/ putting["router"].seq \in deleted'
               \/ pending'[putting["router"].task] = putting["router"]
    <3>1. putting["router"].task \in Task
      BY <2>2 DEF PutsSuspended, TypeOK
    <3>2. QED
      BY <1>2, <2>2, <3>1 DEF OneCopy, TypeOK, old
  <2>3. QED
    BY <1>2, <2>1, <2>2 DEF OneCopy, TypeOK
<1>10. QED
  BY <1>4, <1>5, <1>7, <1>8, <1>9

(* The route loop puts a failed task back, or suspends on a full queue.    *)
LEMMA RetryStep ==
    ASSUME QueueInv, NEW t \in Task, NEW p \in Priority, retry(t, p)
    PROVE  /\ SeqsUnique' /\ PutsSuspended' /\ SubmittedOnly'
           /\ OneCopy' /\ PendingIsLive' /\ LiveIsPending'
<1> DEFINE new == [prio |-> p, seq |-> taskSeq + 1, task |-> t]
<1>1. /\ new \in Entry /\ new.task = t /\ new.seq = taskSeq + 1
  BY QueueAssumption DEF Entry, QueueInv, TypeOK
<1>2. /\ putting["router"] = NoEntry /\ t \in active
      /\ DuplicateResults \/ (pending[t] = NoEntry /\ ~inHand(t))
      /\ taskSeq' = taskSeq + 1 /\ pending' = [pending EXCEPT ![t] = new]
      /\ \/ heap' = heap \cup {new} /\ putting' = putting
         \/ heap' = heap /\ putting' = [putting EXCEPT !["router"] = new]
      /\ UNCHANGED <<deleted, updateSeq, hand, woken, active, submitted, cancelled>>
  BY DEF retry, putOrSuspend, put, heapVars
<1> HIDE DEF new
<1> USE DEF QueueInv
<1>3. SeqsUnique' /\ new.seq \notin deleted' /\ new \notin Entries /\ Entries' = Entries \cup {new}
  BY <1>1, <1>2, FreshPut DEF Producer
<1>4. \A q \in Producer : putting'[q] = putting[q] \/ (q = "router" /\ putting'[q] = new)
  <2>1. CASE putting' = putting
    BY <2>1
  <2>2. CASE putting' = [putting EXCEPT !["router"] = new]
    BY <2>2 DEF TypeOK
  <2>3. QED
    BY <1>2, <2>1, <2>2
<1>5. PutsSuspended' /\ SubmittedOnly'
  BY <1>1, <1>2, <1>3, <1>4 DEF PutsSuspended, SubmittedOnly, TypeOK, Producer
<1>6. PendingIsLive'
  <2>1. new \in heap' \cup {putting'[q] : q \in Producer}
    BY <1>2 DEF TypeOK, Producer
  <2>2. \A q \in Producer : putting[q] # NoEntry => putting'[q] = putting[q]
    BY <1>2 DEF TypeOK
  <2>3. QED
    BY <1>1, <1>2, <1>3, <2>1, <2>2 DEF PendingIsLive, TypeOK
<1>7. LiveIsPending'
  <2> SUFFICES ASSUME ~DuplicateResults, NEW e \in Live'
               PROVE  pending'[e.task] = e
    BY DEF LiveIsPending
  <2>1. CASE e = new
    BY <1>1, <1>2, <2>1 DEF TypeOK
  <2>2. CASE e # new
    <3>1. e \in Live /\ e \in Entry /\ e.task \in Task
      BY <1>2, <2>2 DEF Live, TypeOK, Entry
    <3>2. pending[e.task] = e /\ e # NoEntry
      BY <3>1, NoEntryIsNone DEF LiveIsPending
    <3>3. QED
      BY <1>2, <3>1, <3>2 DEF TypeOK
  <2>3. QED
    BY <2>1, <2>2
<1>8. OneCopy'
  <2> SUFFICES ASSUME ~DuplicateResults
               PROVE  /\ \A u \in Task : inHand(u) => pending'[u] = NoEntry
                      /\ putting'["router"] # NoEntry =>
                           pending'[putting'["router"].task] = putting'["router"]
    BY <1>2 DEF OneCopy, inHand
  <2>1. \A u \in Task : inHand(u) => pending'[u] = NoEntry
    BY <1>2 DEF OneCopy, TypeOK
  <2>2. putting'["router"] # NoEntry => putting'["router"] = new
    BY <1>2, <1>4 DEF Producer
  <2>3. QED
    BY <1>1, <1>2, <2>1, <2>2 DEF TypeOK
<1>9. QED
  BY <1>3, <1>5, <1>6, <1>7, <1>8

(* The dispatch loop puts back what it has in hand, or suspends.           *)
LEMMA RequeueStep ==
    ASSUME QueueInv, requeue
    PROVE  /\ SeqsUnique' /\ PutsSuspended' /\ SubmittedOnly'
           /\ OneCopy' /\ PendingIsLive' /\ LiveIsPending'
<1> DEFINE t == hand.task
<1> DEFINE new == [prio |-> hand.prio, seq |-> taskSeq + 1, task |-> t]
<1>1. /\ new \in Entry /\ new.task = t /\ new.seq = taskSeq + 1 /\ t \in Task
  BY DEF Entry, QueueInv, TypeOK, requeue
<1>2. /\ hand # NoEntry /\ hand' = NoEntry
      /\ taskSeq' = taskSeq + 1 /\ pending' = [pending EXCEPT ![t] = new]
      /\ \/ heap' = heap \cup {new} /\ putting' = putting
         \/ heap' = heap /\ putting' = [putting EXCEPT !["dispatcher"] = new]
      /\ UNCHANGED <<deleted, updateSeq, woken, active, submitted, cancelled>>
  BY DEF requeue, putOrSuspend, put, heapVars
<1>3. inHand(t) /\ t \in submitted
  BY <1>2 DEF inHand, QueueInv, SubmittedOnly
<1> HIDE DEF new, t
<1> USE DEF QueueInv
<1>4. putting["dispatcher"] = NoEntry
  BY <1>2 DEF PutsSuspended
<1>5. SeqsUnique' /\ new.seq \notin deleted' /\ new \notin Entries /\ Entries' = Entries \cup {new}
  BY <1>1, <1>2, <1>4, FreshPut DEF Producer
<1>6. putting'["router"] = putting["router"]
  BY <1>2 DEF TypeOK, Producer
<1>7. PutsSuspended' /\ SubmittedOnly'
  BY <1>1, <1>2, <1>3, <1>5, <1>6 DEF PutsSuspended, SubmittedOnly, TypeOK, Producer
<1>8. PendingIsLive'
  <2>1. new \in heap' \cup {putting'[q] : q \in Producer}
    BY <1>2 DEF TypeOK, Producer
  <2>2. \A q \in Producer : putting[q] # NoEntry => putting'[q] = putting[q]
    BY <1>2, <1>4 DEF TypeOK
  <2>3. QED
    BY <1>1, <1>2, <1>5, <2>1, <2>2 DEF PendingIsLive, TypeOK
<1>9. LiveIsPending'
  <2> SUFFICES ASSUME ~DuplicateResults, NEW e \in Live'
               PROVE  pending'[e.task] = e
    BY DEF LiveIsPending
  <2>1. CASE e = new
    BY <1>1, <1>2, <2>1 DEF TypeOK
  <2>2. CASE e # new
    <3>1. e \in Live /\ e \in Entry /\ e.task \in Task
      BY <1>2, <2>2 DEF Live, TypeOK, Entry
    <3>2. pending[e.task] = e /\ e # NoEntry
      BY <3>1, NoEntryIsNone DEF LiveIsPending
    <3>3. e.task # t
      BY <1>1, <1>3, <3>2 DEF OneCopy
    <3>4. QED
      BY <1>2, <3>1, <3>2, <3>3 DEF TypeOK
  <2>3. QED
    BY <2>1, <2>2
<1>10. OneCopy'
  <2> SUFFICES ASSUME ~DuplicateResults, putting["router"] # NoEntry
               PROVE  \/ putting["router"].seq \in deleted
                      \/ pending'[putting["router"].task] = putting["router"]
    BY <1>2, <1>6 DEF OneCopy, inHand
  <2>1. putting["router"].task \in Task
    BY DEF PutsSuspended, TypeOK
  <2>2. QED
    BY <1>1, <1>2, <1>3, <2>1 DEF OneCopy, TypeOK
<1>11. QED
  BY <1>5, <1>7, <1>8, <1>9, <1>10

(* Steps that only take entries away keep the sequence numbers apart.      *)
LEMMA FewerEntries ==
    ASSUME SeqsUnique, heap' \subseteq heap, deleted' \subseteq deleted,
           UNCHANGED <<putting, taskSeq, updateSeq>>
    PROVE  SeqsUnique'
  BY DEF SeqsUnique, Entries, Used

(* A get that suspended router puts may follow.                            *)
LEMMA WakeStep ==
    ASSUME PutsSuspended, putting["dispatcher"] = NoEntry, active' = active,
           putting' = putting, woken' = {p \in Producer : putting[p] # NoEntry}
    PROVE  PutsSuspended'
  BY DEF PutsSuspended, Producer

(* get() hands the first live entry to the dispatch loop.                  *)
LEMMA GetStep ==
    ASSUME QueueInv, get
    PROVE  /\ SeqsUnique' /\ PutsSuspended' /\ SubmittedOnly'
           /\ OneCopy' /\ PendingIsLive' /\ LiveIsPending'
<1> USE DEF QueueInv
<1>1. PICK e \in Live :
          /\ \A f \in Live \ {e} : Before(e, f)
          /\ LET stale == {f \in heap : Before(f, e)}
             IN  /\ heap' = heap \ (stale \cup {e})
                 /\ deleted' = deleted \ {f.seq : f \in stale}
          /\ pending' = [pending EXCEPT ![e.task] = NoEntry]
          /\ hand' = e
  BY DEF get
<1> DEFINE stale == {f \in heap : Before(f, e)}
<1>2. /\ hand = NoEntry /\ putting["dispatcher"] = NoEntry
      /\ woken' = {p \in Producer : putting[p] # NoEntry}
      /\ UNCHANGED <<updateSeq, taskSeq, putting, active, submitted, cancelled>>
  BY DEF get
<1>3. e \in heap /\ e \in Entry /\ e # NoEntry /\ e.task \in Task /\ e.seq \notin deleted
  BY NoEntryIsNone DEF Live, TypeOK, Entry
<1>4. stale \subseteq heap /\ \A f \in stale : f.seq \in deleted
  BY <1>1, StaleAreDeleted
<1> HIDE DEF stale
<1>5. heap' = heap \ (stale \cup {e}) /\ deleted' = deleted \ {f.seq : f \in stale}
  BY <1>1 DEF stale
<1>6. SeqsUnique'
  BY <1>2, <1>5, FewerEntries
<1>7. PutsSuspended'
  BY <1>2, WakeStep
<1>8. \A f \in Entries : f.seq \in deleted \ deleted' => f \in stale
  BY <1>4, <1>5, NoEntryIsNone DEF SeqsUnique, Entries, TypeOK, Entry
<1>9. PendingIsLive'
  <2> SUFFICES ASSUME NEW t \in Task, pending'[t] # NoEntry
               PROVE  /\ pending'[t].task = t /\ pending'[t].seq \notin deleted'
                      /\ pending'[t] \in heap' \cup {putting'[p] : p \in Producer}
    BY DEF PendingIsLive
  <2>1. pending'[t] = pending[t] /\ t # e.task
    BY <1>1, <1>3 DEF TypeOK
  <2>2. pending[t] \notin stale /\ pending[t] # e
    BY <1>4, <2>1 DEF PendingIsLive
  <2>3. QED
    BY <1>2, <1>5, <2>1, <2>2 DEF PendingIsLive
<1>10. LiveIsPending'
  <2> SUFFICES ASSUME ~DuplicateResults, NEW f \in Live'
               PROVE  pending'[f.task] = f
    BY DEF LiveIsPending
  <2>1. f \in heap /\ f \notin stale /\ f # e /\ f.seq \notin deleted' /\ f \in Entry
    BY <1>5 DEF Live, TypeOK
  <2>2. f \in Live
    BY <1>8, <2>1, NoEntryIsNone DEF Live, Entries
  <2>3. pending[f.task] = f /\ pending[e.task] = e /\ f.task \in Task
    BY <2>1, <2>2 DEF LiveIsPending, Entry
  <2>4. QED
    BY <1>1, <2>1, <2>3 DEF TypeOK
<1>11. SubmittedOnly'
  <2>1. e.task \in submitted /\ Entries' \subseteq Entries
    BY <1>2, <1>3, <1>5 DEF SubmittedOnly, Entries
  <2>2. QED
    BY <1>1, <1>2, <1>3, <2>1 DEF SubmittedOnly, TypeOK
<1>12. OneCopy'
  <2> SUFFICES ASSUME ~DuplicateResults
               PROVE  /\ pending'[e.task] = NoEntry
                      /\ putting["router"] # NoEntry =>
                           \/ putting["router"].seq \in deleted'
                           \/ pending'[putting["router"].task] = putting["router"]
    BY <1>1, <1>2 DEF OneCopy, inHand
  <2>1. ASSUME putting["router"] # NoEntry
        PROVE  \/ putting["router"].seq \in deleted'
               \/ pending'[putting["router"].task] = putting["router"]
    <3> DEFINE r == putting["router"]
    <3>1. r \in Entries /\ r \notin heap /\ r.task \in Task
      BY <2>1 DEF Entries, SeqsUnique, PutsSuspended, TypeOK, Producer
    <3>2. CASE r.seq \in deleted
      BY <1>4, <1>8, <3>1, <3>2
    <3>3. CASE pending[r.task] = r
      <4>1. r.task # e.task
        BY <1>3, <3>1, <3>3 DEF LiveIsPending
      <4>2. QED
        BY <1>1, <3>1, <3>3, <4>1 DEF TypeOK
    <3>4. QED
      BY <2>1, <3>2, <3>3 DEF OneCopy
  <2>2. QED
    BY <1>1, <1>3, <2>1 DEF TypeOK
<1>13. QED
  BY <1>6, <1>7, <1>9, <1>10, <1>11, <1>12

(* get() finds only superseded entries.                                    *)
LEMMA GetNothingStep ==
    ASSUME QueueInv, getNothingLive
    PROVE  /\ SeqsUnique' /\ PutsSuspended' /\ SubmittedOnly'
           /\ OneCopy' /\ PendingIsLive' /\ LiveIsPending'
<1> USE DEF QueueInv
<1>1. /\ heap' = {} /\ Live = {} /\ putting["dispatcher"] = NoEntry
      /\ deleted' = deleted \ {f.seq : f \in heap}
      /\ woken' = {p \in Producer : putting[p] # NoEntry}
      /\ UNCHANGED <<pending, updateSeq, taskSeq, hand, putting, active, submitted,
                     cancelled>>
  BY DEF getNothingLive
<1>2. SeqsUnique' /\ Entries' \subseteq Entries
  BY <1>1, FewerEntries DEF Entries
<1>3. PutsSuspended' /\ SubmittedOnly'
  BY <1>1, <1>2, WakeStep DEF SubmittedOnly
<1>4. ASSUME NEW r \in Entries, r \notin heap, r.seq \in deleted
      PROVE  r.seq \in deleted'
  BY <1>1, <1>4, NoEntryIsNone DEF SeqsUnique, Entries, TypeOK
<1>5. PendingIsLive'
  <2> SUFFICES ASSUME NEW t \in Task, pending[t] # NoEntry
               PROVE  /\ pending[t].task = t /\ pending[t].seq \notin deleted'
                      /\ pending[t] \in heap' \cup {putting[p] : p \in Producer}
    BY <1>1 DEF PendingIsLive
  <2>1. pending[t].seq \notin deleted /\ pending[t] \notin heap
    BY <1>1 DEF PendingIsLive, Live
  <2>2. QED
    BY <1>1, <2>1 DEF PendingIsLive
<1>6. LiveIsPending' /\ OneCopy'
  <2>1. LiveIsPending'
    BY <1>1 DEF LiveIsPending, Live
  <2>2. putting["router"] # NoEntry =>
           putting["router"] \in Entries /\ putting["router"] \notin heap
    BY DEF Entries, SeqsUnique, Producer
  <2>3. OneCopy'
    BY <1>1, <1>4, <2>2 DEF OneCopy, inHand
  <2>4. QED
    BY <2>1, <2>3
<1>7. QED
  BY <1>2, <1>3, <1>5, <1>6

(* Settling what is in hand, or a task that runs, touches no entry.        *)
LEMMA SettleStep ==
    ASSUME QueueInv, dispatch \/ discard \/ \E t \in Task : settle(t)
    PROVE  /\ SeqsUnique' /\ PutsSuspended' /\ SubmittedOnly'
           /\ OneCopy' /\ PendingIsLive' /\ LiveIsPending'
<1> USE DEF QueueInv
<1>1. UNCHANGED <<heap, pending, deleted, updateSeq, taskSeq, putting, woken, submitted>>
  BY DEF dispatch, discard, settle
<1>2. hand' = hand \/ hand' = NoEntry
  BY DEF dispatch, discard, settle
<1>3. /\ active' \subseteq submitted
      /\ putting["router"] # NoEntry => putting["router"].task \in active'
  <2>1. CASE dispatch
    BY <2>1 DEF dispatch, SubmittedOnly, PutsSuspended
  <2>2. CASE discard
    BY <2>2 DEF discard, SubmittedOnly, PutsSuspended
  <2>3. ASSUME NEW t \in Task, settle(t)
        PROVE  /\ active' \subseteq submitted
               /\ putting["router"] # NoEntry => putting["router"].task \in active'
    BY <2>3 DEF settle, SubmittedOnly
  <2>4. QED
    BY <2>1, <2>2, <2>3
<1>4. SeqsUnique' /\ PendingIsLive' /\ LiveIsPending'
  BY <1>1 DEF SeqsUnique, Entries, Used, PendingIsLive, LiveIsPending, Live
<1>5. PutsSuspended'
  BY <1>1, <1>2, <1>3 DEF PutsSuspended
<1>6. SubmittedOnly'
  BY <1>1, <1>2, <1>3 DEF SubmittedOnly, Entries
<1>7. OneCopy'
  BY <1>1, <1>2 DEF OneCopy, inHand
<1>8. QED
  BY <1>4, <1>5, <1>6, <1>7

(* A woken put, always the route loop's, lands or suspends again.          *)
LEMMA ResumeStep ==
    ASSUME QueueInv, NEW p \in Producer, resumePut(p)
    PROVE  /\ SeqsUnique' /\ PutsSuspended' /\ SubmittedOnly'
           /\ OneCopy' /\ PendingIsLive' /\ LiveIsPending'
<1> USE DEF QueueInv
<1> DEFINE r == putting["router"]
<1>1. /\ p = "router" /\ r # NoEntry /\ r \in Entry /\ woken' \subseteq woken \ {"router"}
      /\ UNCHANGED <<pending, deleted, updateSeq, taskSeq, hand, active, submitted,
                     cancelled>>
  BY DEF resumePut, PutsSuspended, TypeOK
<1>2. PutsSuspended' /\ woken' = {}
  <2>1. woken' = {}
    BY <1>1 DEF PutsSuspended
  <2>2. putting'["dispatcher"] = putting["dispatcher"]
        /\ putting'["router"] \in {putting["router"], NoEntry}
    BY <1>1 DEF resumePut, TypeOK, Producer
  <2>3. QED
    BY <1>1, <2>1, <2>2 DEF PutsSuspended
<1>3. CASE full
  <2>1. UNCHANGED <<heap, putting>>
    BY <1>3 DEF resumePut
  <2>2. SeqsUnique' /\ PendingIsLive' /\ LiveIsPending' /\ SubmittedOnly' /\ OneCopy'
    BY <1>1, <2>1 DEF SeqsUnique, Entries, Used, PendingIsLive, LiveIsPending, Live,
                      SubmittedOnly, OneCopy, inHand
  <2>3. QED
    BY <1>2, <2>2
<1>4. CASE ~full
  <2>1. heap' = heap \cup {r} /\ putting' = [putting EXCEPT !["router"] = NoEntry]
    BY <1>1, <1>4 DEF resumePut
  <2>2. Entries' = Entries /\ r \in Entries
    BY <1>1, <2>1 DEF Entries, TypeOK, Producer
  <2>3. \A q \in Producer : putting'[q] \notin heap'
    <3>1. NoEntry \notin heap'
      BY <1>1, <2>1, NoEntryIsNone DEF TypeOK
    <3>2. putting'["router"] = NoEntry /\ putting'["dispatcher"] = putting["dispatcher"]
      BY <2>1 DEF TypeOK, Producer
    <3>3. putting["dispatcher"] \notin heap
      BY DEF SeqsUnique, Producer
    <3>4. QED
      BY <1>1, <2>1, <3>1, <3>2, <3>3 DEF SeqsUnique, Producer
  <2>4. SeqsUnique'
    BY <1>1, <2>1, <2>2, <2>3 DEF SeqsUnique, Used, TypeOK, Producer
  <2>5. SubmittedOnly'
    BY <1>1, <2>2 DEF SubmittedOnly
  <2>6. PendingIsLive'
    BY <1>1, <2>1 DEF PendingIsLive, TypeOK, Producer
  <2>7. LiveIsPending'
    BY <1>1, <2>1 DEF LiveIsPending, Live, OneCopy
  <2>8. OneCopy'
    BY <1>1, <2>1 DEF OneCopy, inHand, TypeOK, Producer
  <2>9. QED
    BY <1>2, <2>4, <2>5, <2>6, <2>7, <2>8
<1>5. QED
  BY <1>3, <1>4

(* cancel_task takes every entry of one task out of the heap.              *)
LEMMA CancelStep ==
    ASSUME QueueInv, NEW t \in Task, cancel_task(t)
    PROVE  /\ SeqsUnique' /\ PutsSuspended' /\ SubmittedOnly'
           /\ OneCopy' /\ PendingIsLive' /\ LiveIsPending'
<1> USE DEF QueueInv
<1>1. /\ t \notin active /\ heap' = heap \ {e \in heap : e.task = t}
      /\ pending' = [pending EXCEPT ![t] = NoEntry]
      /\ UNCHANGED <<deleted, updateSeq, taskSeq, hand, putting, woken, active, submitted>>
  BY DEF cancel_task
<1>2. SeqsUnique' /\ Entries' \subseteq Entries
  BY <1>1, FewerEntries DEF Entries
<1>3. PutsSuspended'
  BY <1>1 DEF PutsSuspended
<1>4. SubmittedOnly' /\ PendingIsLive'
  BY <1>1, <1>2 DEF SubmittedOnly, PendingIsLive, TypeOK
<1>5. LiveIsPending'
  <2> SUFFICES ASSUME ~DuplicateResults, NEW e \in Live'
               PROVE  pending'[e.task] = e
    BY DEF LiveIsPending
  <2>1. e \in Live /\ e.task \in Task \ {t}
    BY <1>1 DEF Live, TypeOK, Entry
  <2>2. QED
    BY <1>1, <2>1 DEF LiveIsPending, TypeOK
<1>6. OneCopy'
  <2>1. putting["router"] # NoEntry => putting["router"].task \in Task \ {t}
    BY <1>1 DEF PutsSuspended, TypeOK
  <2>2. QED
    BY <1>1, <2>1 DEF OneCopy, inHand, TypeOK
<1>7. QED
  BY <1>2, <1>3, <1>4, <1>5, <1>6

(* The empty queue satisfies the invariant.                                *)
LEMMA InitInv == Init => QueueInv
<1> SUFFICES ASSUME Init PROVE QueueInv
  OBVIOUS
<1> USE DEF Init
<1>1. TypeOK
  BY FS_EmptySet DEF TypeOK
<1>2. SeqsUnique /\ PutsSuspended /\ SubmittedOnly
  BY DEF SeqsUnique, PutsSuspended, SubmittedOnly, Entries, Producer
<1>3. OneCopy /\ PendingIsLive /\ LiveIsPending
  BY DEF OneCopy, inHand, PendingIsLive, LiveIsPending, Live, Producer
<1>4. QED
  BY <1>1, <1>2, <1>3 DEF QueueInv

(* Every step keeps the invariant.                                         *)
LEMMA QueueInvStep ==
    ASSUME QueueInv, [Next]_vars
    PROVE  QueueInv'
<1> DEFINE Rest == /\ SeqsUnique' /\ PutsSuspended' /\ SubmittedOnly'
                   /\ OneCopy' /\ PendingIsLive' /\ LiveIsPending'
<1>1. CASE UNCHANGED vars
  <2>1. SeqsUnique' /\ PutsSuspended' /\ SubmittedOnly'
    BY <1>1 DEF QueueInv, vars, SeqsUnique, PutsSuspended, SubmittedOnly, Entries, Used
  <2>2. OneCopy' /\ PendingIsLive' /\ LiveIsPending'
    BY <1>1 DEF QueueInv, vars, OneCopy, inHand, PendingIsLive, LiveIsPending, Live
  <2>3. QED
    BY <2>1, <2>2, TypeStep DEF QueueInv
<1>2. CASE Next
  <2>1. Rest
    BY <1>2, SubmitStep, RetryStep, UpdateStep, SettleStep, CancelStep, ResumeStep,
       GetStep, GetNothingStep, RequeueStep, Zenon DEF Next
  <2>2. QED
    BY <2>1, TypeStep DEF QueueInv
<1>3. QED
  BY <1>1, <1>2

(* The strengthening is an invariant of the queue.                         *)
THEOREM QueueInvHolds == Spec => []QueueInv
  BY InitInv, QueueInvStep, PTL DEF Spec

(* Every variable keeps its type.                                          *)
THEOREM TypeHolds == Spec => []TypeOK
<1>1. QueueInv => TypeOK
  BY DEF QueueInv
<1>2. QED
  BY <1>1, QueueInvHolds, PTL

(* What _pending holds is on its way to the dispatch loop and is not an    *)
(* entry get() throws away, even with two failing RESULTs per dispatch.    *)
THEOREM PendingIsLiveHolds == Spec => []PendingIsLive
<1>1. QueueInv => PendingIsLive
  BY DEF QueueInv
<1>2. QED
  BY <1>1, QueueInvHolds, PTL

(* A task has one live entry, the one _pending holds, as long as one       *)
(* dispatch yields one failing RESULT.                                     *)
THEOREM LiveIsPendingHolds == Spec => []LiveIsPending
<1>1. QueueInv => LiveIsPending
  BY DEF QueueInv
<1>2. QED
  BY <1>1, QueueInvHolds, PTL

(* The entry get() returns is the one put or re-prioritised last.          *)
LEMMA LatestStep ==
    ASSUME QueueInv, ~DuplicateResults, [Next]_vars, hand' # hand, hand' # NoEntry
    PROVE  hand' = pending[hand'.task]
<1>1. get
  BY DEF Next, vars, submit_task, retry, update_priority, settle, cancel_task,
         resumePut, getNothingLive, dispatch, discard, requeue
<1>2. hand' \in Live
  BY <1>1 DEF get
<1>3. QED
  BY <1>2 DEF QueueInv, LiveIsPending

(* A superseded priority is never acted on.                                *)
THEOREM LatestPriorityHolds ==
    ASSUME ~DuplicateResults
    PROVE  Spec => LatestPriorityServed
<1>1. ASSUME QueueInv, [Next]_vars
      PROVE  [hand' # hand /\ hand' # NoEntry => hand' = pending[hand'.task]]_vars
  BY <1>1, LatestStep, Zenon
<1>2. QED
  BY <1>1, QueueInvHolds, PTL DEF Spec, LatestPriorityServed

-----------------------------------------------------------------------------
(* The counter of task_done().                                             *)

(* put raises the counter at least as much as it makes the heap grow.      *)
LEMMA PutCounts ==
    ASSUME TypeOK, NEW e \in Entry, NEW p \in Producer,
           (put(e) /\ UNCHANGED putting) \/ putOrSuspend(p, e)
    PROVE  unfinished' - unfinished >= Cardinality(heap') - Cardinality(heap)
<1>1. Cardinality(heap) \in Nat /\ IsFiniteSet(heap)
  BY FS_CardinalityType DEF TypeOK
<1>2. Cardinality(heap \cup {e}) \in {Cardinality(heap), Cardinality(heap) + 1}
  BY <1>1, FS_AddElement
<1>3. \/ heap' = heap /\ unfinished' = unfinished
      \/ heap' = heap \cup {e} /\ unfinished' = unfinished + 1
  BY DEF put, putOrSuspend, heapVars
<1>4. QED
  BY <1>1, <1>2, <1>3 DEF TypeOK

(* get() lowers the counter once per superseded entry and hands one over.  *)
LEMMA GetCounts ==
    ASSUME TypeOK, CounterCoversQueue, get
    PROVE  CounterCoversQueue'
<1>1. PICK e \in Live :
          LET stale == {f \in heap : Before(f, e)}
          IN  /\ heap' = heap \ (stale \cup {e})
              /\ unfinished' = unfinished - Cardinality(stale)
  BY DEF get
<1> DEFINE stale == {f \in heap : Before(f, e)}
<1>2. e \in heap /\ e \notin stale
  BY DEF Live, Before, TypeOK, Entry
<1>3. IsFiniteSet(stale) /\ Cardinality(stale) \in Nat
  BY FS_Subset, FS_CardinalityType DEF TypeOK
<1>4. /\ heap' = heap \ (stale \cup {e}) /\ stale \cup {e} \subseteq heap
      /\ unfinished' = unfinished - Cardinality(stale) /\ hand = NoEntry
  BY <1>1, <1>2 DEF get
<1> HIDE DEF stale
<1>5. Cardinality(stale \cup {e}) = Cardinality(stale) + 1
  BY <1>2, <1>3, FS_AddElement
<1>6. heap \cap (stale \cup {e}) = stale \cup {e}
  BY <1>4
<1>7. Cardinality(heap') = Cardinality(heap) - (Cardinality(stale) + 1)
  <2> DEFINE gone == stale \cup {e}
  <2>1. IsFiniteSet(heap)
    BY DEF TypeOK
  <2>2. Cardinality(heap \ gone) = Cardinality(heap) - Cardinality(heap \cap gone)
    BY <2>1, FS_Difference
  <2>3. QED
    BY <1>4, <1>5, <1>6, <2>2
<1>8. Cardinality(heap) \in Nat /\ Cardinality(heap') \in Int
  BY <1>3, <1>7, FS_CardinalityType DEF TypeOK
<1>9. unfinished >= Cardinality(heap)
  BY <1>4, <1>8 DEF CounterCoversQueue, TypeOK
<1>10. unfinished' >= Cardinality(heap') + 1
  BY <1>3, <1>4, <1>7, <1>8, <1>9 DEF TypeOK
<1>11. QED
  BY <1>8, <1>10, <1>3, <1>4 DEF CounterCoversQueue, TypeOK

(* cancel_task() takes at least one entry and lowers the counter by one.   *)
LEMMA CancelCounts ==
    ASSUME TypeOK, CounterCoversQueue, NEW t \in Task, cancel_task(t)
    PROVE  CounterCoversQueue'
<1> DEFINE mine == {e \in heap : e.task = t}
<1>1. /\ mine # {} /\ heap' = heap \ mine /\ hand' = hand
      /\ unfinished' = IF unfinished > 0 THEN unfinished - 1 ELSE unfinished
  BY DEF cancel_task
<1>2. IsFiniteSet(mine) /\ mine \subseteq heap
  BY FS_Subset DEF TypeOK
<1> HIDE DEF mine
<1>3. Cardinality(mine) \in Nat /\ Cardinality(mine) # 0
  BY <1>1, <1>2, FS_CardinalityType, FS_EmptySet
<1>4. heap \cap mine = mine
  BY <1>2
<1>5. Cardinality(heap') = Cardinality(heap) - Cardinality(mine)
  <2>1. IsFiniteSet(heap)
    BY DEF TypeOK
  <2>2. Cardinality(heap \ mine) = Cardinality(heap) - Cardinality(heap \cap mine)
    BY <2>1, FS_Difference
  <2> QED  BY <1>1, <1>4, <2>2
<1>6. Cardinality(heap) \in Nat
  BY FS_CardinalityType DEF TypeOK
<1>7. unfinished \in Int /\ unfinished >= Cardinality(heap) + (IF hand = NoEntry THEN 0 ELSE 1)
  <2>1. unfinished \in Int
    BY DEF TypeOK
  <2>2. unfinished >= Cardinality(heap) + (IF hand = NoEntry THEN 0 ELSE 1)
    BY Zenon DEF CounterCoversQueue
  <2> QED  BY <2>1, <2>2
<1>8. unfinished > 0 => unfinished' >= Cardinality(heap') + (IF hand' = NoEntry THEN 0 ELSE 1)
  BY <1>1, <1>3, <1>5, <1>6, <1>7
<1>9. ~(unfinished > 0) => unfinished' >= Cardinality(heap') + (IF hand' = NoEntry THEN 0 ELSE 1)
  BY <1>1, <1>3, <1>5, <1>6, <1>7
<1>10. QED
  BY <1>7, <1>8, <1>9 DEF CounterCoversQueue

(* Every step keeps the counter above what is left to settle.              *)
LEMMA CounterStep ==
    ASSUME QueueInv, CounterCoversQueue, [Next]_vars
    PROVE  CounterCoversQueue'
<1>0. /\ TypeOK /\ TypeOK' /\ IsFiniteSet(heap)
      /\ Cardinality(heap) \in Nat /\ Cardinality(heap') \in Nat
  BY TypeStep, FS_CardinalityType DEF QueueInv, TypeOK
<1>a. unfinished \in Int /\ unfinished' \in Int
  BY <1>0 DEF TypeOK
<1>b. ASSUME unfinished' - unfinished >= Cardinality(heap') - Cardinality(heap),
             hand' = hand \/ hand' = NoEntry
      PROVE  CounterCoversQueue'
  BY <1>0, <1>a, <1>b DEF CounterCoversQueue
<1>c. "dispatcher" \in Producer /\ "router" \in Producer
  BY DEF Producer
<1>1. ASSUME NEW t \in Task, NEW p \in Priority, submit_task(t, p)
      PROVE  CounterCoversQueue'
  <2> DEFINE new == [prio |-> p, seq |-> taskSeq + 1, task |-> t]
  <2>1. new \in Entry
    BY <1>0, QueueAssumption DEF Entry, TypeOK
  <2>2. put(new) /\ UNCHANGED putting /\ hand' = hand
    BY <1>1 DEF submit_task
  <2> HIDE DEF new
  <2>3. QED
    BY <1>0, <1>b, <1>c, <2>1, <2>2, PutCounts
<1>2. ASSUME NEW t \in Task, NEW p \in Priority, retry(t, p)
      PROVE  CounterCoversQueue'
  <2> DEFINE new == [prio |-> p, seq |-> taskSeq + 1, task |-> t]
  <2>1. new \in Entry
    BY <1>0, QueueAssumption DEF Entry, TypeOK
  <2>2. putOrSuspend("router", new) /\ hand' = hand
    BY <1>2 DEF retry
  <2> HIDE DEF new
  <2>3. QED
    BY <1>0, <1>b, <1>c, <2>1, <2>2, PutCounts
<1>3. ASSUME NEW t \in Task, NEW p \in Priority, update_priority(t, p)
      PROVE  CounterCoversQueue'
  <2> DEFINE new == [prio |-> p, seq |-> updateSeq - 1, task |-> t]
  <2>1. new \in Entry
    BY <1>0, QueueAssumption DEF Entry, TypeOK
  <2>2. put(new) /\ UNCHANGED putting /\ hand' = hand
    BY <1>3 DEF update_priority
  <2> HIDE DEF new
  <2>3. QED
    BY <1>0, <1>b, <1>c, <2>1, <2>2, PutCounts
<1>4. CASE requeue
  <2> DEFINE new == [prio |-> hand.prio, seq |-> taskSeq + 1, task |-> hand.task]
  <2>1. new \in Entry
    BY <1>0, <1>4 DEF requeue, Entry, TypeOK
  <2>2. putOrSuspend("dispatcher", new) /\ hand' = NoEntry
    BY <1>4 DEF requeue
  <2> HIDE DEF new
  <2>3. QED
    BY <1>0, <1>b, <1>c, <2>1, <2>2, PutCounts
<1>5. ASSUME NEW p \in Producer, resumePut(p)
      PROVE  CounterCoversQueue'
  <2>1. /\ \/ heap' = heap /\ unfinished' = unfinished
           \/ heap' = heap \cup {putting[p]} /\ unfinished' = unfinished + 1
        /\ hand' = hand
    BY <1>5 DEF resumePut, heapVars
  <2>2. Cardinality(heap \cup {putting[p]}) \in {Cardinality(heap), Cardinality(heap) + 1}
    BY <1>0, FS_AddElement
  <2>3. unfinished' - unfinished >= Cardinality(heap') - Cardinality(heap)
    <3>1. CASE heap' = heap /\ unfinished' = unfinished
      BY <1>0, <1>a, <3>1
    <3>2. CASE heap' = heap \cup {putting[p]} /\ unfinished' = unfinished + 1
      <4>1. Cardinality(heap') = Cardinality(heap \cup {putting[p]})
        BY <3>2
      <4>2. QED
        BY <1>0, <1>a, <2>2, <3>2, <4>1
    <3>3. QED
      BY <2>1, <3>1, <3>2
  <2>4. QED
    BY <1>b, <2>1, <2>3
<1>6. CASE get
  BY <1>0, <1>6, GetCounts
<1>7. CASE getNothingLive
  <2>1. heap' = {} /\ unfinished' = unfinished - Cardinality(heap) /\ hand' = hand
    BY <1>7 DEF getNothingLive
  <2>2. QED
    BY <1>0, <1>a, <1>b, <2>1, FS_EmptySet
<1>8. CASE dispatch \/ discard
  <2>1. /\ heap' = heap /\ unfinished' = unfinished - 1
        /\ hand # NoEntry /\ hand' = NoEntry
    BY <1>8 DEF dispatch, discard
  <2>2. QED
    BY <1>0, <1>a, <2>1 DEF CounterCoversQueue
<1>9. ASSUME NEW t \in Task, settle(t)
      PROVE  CounterCoversQueue'
  BY <1>9 DEF settle, CounterCoversQueue
<1>10. ASSUME NEW t \in Task, cancel_task(t)
       PROVE  CounterCoversQueue'
  BY <1>0, <1>10, CancelCounts
<1>11. CASE UNCHANGED vars
  BY <1>11 DEF vars, CounterCoversQueue
<1>12. QED
  BY <1>1, <1>2, <1>3, <1>4, <1>5, <1>6, <1>7, <1>8, <1>9, <1>10, <1>11, Zenon
     DEF Next

(* task_done() never runs the counter below what is left to settle.        *)
THEOREM CounterHolds == Spec => []CounterCoversQueue
<1>1. Init => CounterCoversQueue
  BY FS_EmptySet DEF Init, CounterCoversQueue
<1>2. QED
  BY <1>1, CounterStep, QueueInvHolds, PTL DEF Spec

(* What cancel_task took off the queue is not in it at all: no entry, no   *)
(* hand, and nothing that could put it back.  A put that suspended on it   *)
(* before is the dispatch loop's, which nobody wakes.                      *)
CancelInv ==
    \A t \in cancelled :
        /\ t \in submitted /\ t \notin active /\ ~inHand(t)
        /\ pending[t] = NoEntry
        /\ \A e \in heap : e.task # t

LEMMA CancelledStep ==
    ASSUME QueueInv, CancelInv, ~DuplicateResults, [Next]_vars
    PROVE  CancelInv'
<1>0. TypeOK /\ QueueInv' /\ pending \in [Task -> Entry \cup {NoEntry}] /\ cancelled \subseteq Task
  BY QueueInvStep DEF QueueInv, TypeOK
<1>1. ASSUME NEW e \in Entry, e.task \notin cancelled, heap' \subseteq heap \cup {e},
             pending' = [pending EXCEPT ![e.task] = e], hand' \in {hand, NoEntry},
             UNCHANGED <<cancelled, active>>, submitted \subseteq submitted'
      PROVE  CancelInv'
  BY <1>0, <1>1 DEF CancelInv, inHand
<1>2. ASSUME NEW t \in Task, NEW p \in Priority,
             submit_task(t, p) \/ retry(t, p) \/ update_priority(t, p)
      PROVE  CancelInv'
  <2>1. PICK e : /\ e \in [prio : {p}, seq : {taskSeq + 1, updateSeq - 1}, task : {t}]
                 /\ heap' \subseteq heap \cup {e} /\ pending' = [pending EXCEPT ![t] = e]
    <3>1. CASE submit_task(t, p)
      BY <3>1 DEF submit_task, put
    <3>2. CASE retry(t, p)
      BY <3>2 DEF retry, putOrSuspend, put, heapVars
    <3>3. CASE update_priority(t, p)
      BY <3>3 DEF update_priority, put
    <3> QED  BY <1>2, <3>1, <3>2, <3>3
  <2>2. e \in Entry /\ e.task = t
    <3>1. taskSeq + 1 \in Int /\ updateSeq - 1 \in Int /\ p \in Int
      BY <1>0, QueueAssumption DEF TypeOK
    <3> QED  BY <2>1, <3>1 DEF Entry
  <2>3. t \notin cancelled
    BY <1>2 DEF CancelInv, submit_task, retry, update_priority
  <2>4. UNCHANGED <<cancelled, active, hand>> /\ submitted \subseteq submitted'
    BY <1>2 DEF submit_task, retry, update_priority
  <2> QED  BY <1>1, <2>1, <2>2, <2>3, <2>4
<1>3. CASE requeue
  <2>0. hand # NoEntry /\ hand \in Entry
    BY <1>0, <1>3 DEF requeue, TypeOK
  <2>1. PICK e : /\ e = [prio |-> hand.prio, seq |-> taskSeq + 1, task |-> hand.task]
                 /\ heap' \subseteq heap \cup {e} /\ pending' = [pending EXCEPT ![e.task] = e]
    BY <1>3 DEF requeue, putOrSuspend, put, heapVars
  <2>2. e \in Entry /\ e.task = hand.task
    <3>1. taskSeq + 1 \in Int
      BY <1>0 DEF TypeOK
    <3> QED  BY <2>0, <2>1, <3>1 DEF Entry
  <2>3. e.task \notin cancelled
    BY <2>0, <2>2 DEF CancelInv, inHand
  <2>4. UNCHANGED <<cancelled, active, submitted>> /\ hand' = NoEntry
    BY <1>3 DEF requeue
  <2> QED  BY <1>1, <2>1, <2>2, <2>3, <2>4
<1>4. CASE get
  <2>1. PICK e \in Live : hand' = e /\ heap' \subseteq heap
                          /\ pending' = [pending EXCEPT ![e.task] = NoEntry]
    BY <1>4 DEF get
  <2>2. e \in heap /\ e.task \in Task
    BY <1>0, <2>1 DEF Live, TypeOK, Entry
  <2>3. UNCHANGED <<cancelled, active, submitted>>
    BY <1>4 DEF get
  <2> QED  BY <1>0, <2>1, <2>2, <2>3 DEF CancelInv, inHand
<1>5. CASE getNothingLive \/ discard
  BY <1>5 DEF getNothingLive, discard, CancelInv, inHand
<1>6. CASE dispatch
  BY <1>6 DEF dispatch, CancelInv, inHand
<1>7. ASSUME NEW t \in Task, settle(t) PROVE CancelInv'
  BY <1>7 DEF settle, CancelInv, inHand
<1>8. ASSUME NEW t \in Task, cancel_task(t) PROVE CancelInv'
  <2>1. /\ t \notin active /\ heap' = heap \ {e \in heap : e.task = t}
        /\ pending' = [pending EXCEPT ![t] = NoEntry]
        /\ cancelled' = IF pending[t] = NoEntry THEN cancelled ELSE cancelled \cup {t}
        /\ UNCHANGED <<hand, active, submitted>>
    BY <1>8 DEF cancel_task
  <2>2. pending[t] # NoEntry => t \in submitted /\ ~inHand(t)
    BY DEF QueueInv, SubmittedOnly, OneCopy
  <2> QED  BY <1>0, <2>1, <2>2 DEF CancelInv, inHand
<1>9. ASSUME NEW p \in Producer, resumePut(p) PROVE CancelInv'
  <2>1. p = "router" /\ putting[p] # NoEntry /\ putting["router"].task \in active
    BY <1>9 DEF resumePut, QueueInv, PutsSuspended
  <2>2. heap' \subseteq heap \cup {putting["router"]}
        /\ UNCHANGED <<pending, hand, active, submitted, cancelled>>
    BY <1>9, <2>1 DEF resumePut
  <2> QED  BY <2>1, <2>2 DEF CancelInv, inHand
<1>10. CASE UNCHANGED vars
  BY <1>10 DEF vars, CancelInv, inHand
<1> QED
  BY <1>2, <1>3, <1>4, <1>5, <1>6, <1>7, <1>8, <1>9, <1>10, Zenon DEF Next

(* A task cancel_task took off the queue never reaches an agent.           *)
THEOREM CancelledHolds ==
    ASSUME ~DuplicateResults
    PROVE  Spec => []CancelledStaysOffQueue
<1>1. Init => CancelInv
  BY DEF Init, CancelInv
<1>2. CancelInv => CancelledStaysOffQueue
  BY DEF CancelInv, CancelledStaysOffQueue, Live
<1> QED  BY <1>1, <1>2, CancelledStep, QueueInvHolds, PTL DEF Spec

-----------------------------------------------------------------------------
(* The queue implements PriorityPool.                                      *)

(* What suspends the dispatch loop still counts, or its task was taken off *)
(* the queue meanwhile and the route loop does not have it either.         *)
DispatcherPut ==
    LET e == putting["dispatcher"]
    IN  e # NoEntry => \/ e.seq \in deleted
                       \/ pending[e.task] = e
                       \/ pending[e.task] = NoEntry /\ e.task \notin active

(* What waits, in the heap or in a put under way, and is not superseded.   *)
LEMMA WaitingEntries ==
    ASSUME QueueInv
    PROVE  /\ Live \subseteq Entries /\ Delayed \subseteq Entries
           /\ Entries \subseteq Entry
           /\ Delayed = {e \in Entries \ heap : e.seq \notin deleted}
           /\ Live = {e \in Entries : e \in heap /\ e.seq \notin deleted}
  BY NoEntryIsNone DEF QueueInv, TypeOK, SeqsUnique, Live, Delayed, Entries

(* A fresh entry is not superseded, and nothing else changes place.        *)
LEMMA FreshJoins ==
    ASSUME QueueInv, QueueInv', NEW e \in Entry, NEW p \in Producer,
           e \notin Entries, e.seq \notin deleted, deleted' = deleted,
           \/ heap' = heap \cup {e} /\ putting' = putting
           \/ /\ heap' = heap /\ putting[p] = NoEntry
              /\ putting' = [putting EXCEPT ![p] = e]
    PROVE  Pool!join(e) /\ e \in Live' \cup Delayed'
<1>0. NoEntry # e /\ e \notin heap /\ putting \in [Producer -> Entry \cup {NoEntry}]
  BY NoEntryIsNone DEF Entries, QueueInv, TypeOK
<1>1. CASE heap' = heap \cup {e} /\ putting' = putting
  <2>1. Live' = Live \cup {e}
    BY <1>1 DEF Live
  <2>2. Delayed' = Delayed
    BY <1>1 DEF Delayed
  <2> QED  BY <2>1, <2>2 DEF Pool!join
<1>2. CASE heap' = heap /\ putting[p] = NoEntry /\ putting' = [putting EXCEPT ![p] = e]
  <2>1. Live' = Live
    BY <1>2 DEF Live
  <2>2. {putting'[q] : q \in Producer} \ {NoEntry}
          = ({putting[q] : q \in Producer} \ {NoEntry}) \cup {e}
    BY <1>0, <1>2
  <2>3. Delayed' = Delayed \cup {e}
    BY <1>0, <2>2 DEF Delayed
  <2> QED  BY <2>1, <2>3 DEF Pool!join
<1> QED  BY <1>1, <1>2

(* The next number of _task_seq is behind everything that waits.           *)
LEMMA NewestIsLast ==
    ASSUME QueueInv, NEW e \in Entry, e.seq = taskSeq + 1
    PROVE  Pool!isLast(e) /\ e \notin Entries /\ e.seq \notin deleted
<1>1. \A f \in Entries : f.seq \in Int /\ f.seq < e.seq
  BY WaitingEntries DEF QueueInv, TypeOK, SeqsUnique, Used, Entry
<1>2. e.seq \notin deleted
  BY DEF QueueInv, TypeOK, SeqsUnique, Used
<1>3. Live \cup Delayed \subseteq Entries
  BY WaitingEntries
<1> QED  BY <1>1, <1>2, <1>3 DEF Pool!isLast, Pool!waiting, Entry

(* The next number of _update_seq is ahead of everything that waits.       *)
LEMMA UpdatedIsFirst ==
    ASSUME QueueInv, NEW e \in Entry, e.seq = updateSeq - 1
    PROVE  Pool!isFirst(e) /\ e \notin Entries /\ e.seq \notin deleted
<1>1. \A f \in Entries : f.seq \in Int /\ e.seq < f.seq
  BY WaitingEntries DEF QueueInv, TypeOK, SeqsUnique, Used, Entry
<1>2. e.seq \notin deleted
  BY DEF QueueInv, TypeOK, SeqsUnique, Used
<1>3. Live \cup Delayed \subseteq Entries
  BY WaitingEntries
<1> QED  BY <1>1, <1>2, <1>3 DEF Pool!isFirst, Pool!waiting, Entry

(* A task that waits is the one _pending holds, or the dispatch loop's.    *)
LEMMA WaitingIsPending ==
    ASSUME QueueInv, ~DuplicateResults, NEW f \in Live \cup Delayed
    PROVE  f.task \in Task /\ (pending[f.task] = f \/ f = putting["dispatcher"])
<1>1. f \in Entry
  BY WaitingEntries
<1>2. f \in Delayed => f = putting["router"] \/ f = putting["dispatcher"]
  BY DEF Delayed, Producer
<1>3. f \in Delayed => f # NoEntry /\ f.seq \notin deleted
  BY DEF Delayed
<1> QED  BY <1>1, <1>2, <1>3 DEF QueueInv, LiveIsPending, OneCopy, Entry

(* submit_task is a put.                                                   *)
LEMMA PoolSubmit ==
    ASSUME QueueInv, QueueInv', NEW t \in Task, NEW p \in Priority, submit_task(t, p)
    PROVE  Pool!Put
<1>1. PICK e : e = [prio |-> p, seq |-> taskSeq + 1, task |-> t]
  OBVIOUS
<1>2. e \in Entry /\ e.seq = taskSeq + 1 /\ e.task = t
  BY <1>1, QueueAssumption DEF Entry, QueueInv, TypeOK
<1>3. /\ t \notin submitted /\ heap' = heap \cup {e}
      /\ UNCHANGED <<deleted, hand, putting>>
  BY <1>1 DEF submit_task, put
<1>4. \A f \in Live \cup Delayed : f.task # t
  BY <1>3, WaitingEntries DEF QueueInv, SubmittedOnly
<1>5. ~Pool!isServed(t)
  BY <1>3 DEF Pool!isServed, QueueInv, SubmittedOnly
<1>6. Pool!join(e) /\ e \in Live' \cup Delayed' /\ Pool!isLast(e)
  BY <1>2, <1>3, NewestIsLast, FreshJoins DEF Producer
<1> QED  BY <1>2, <1>3, <1>4, <1>5, <1>6 DEF Pool!Put, Pool!waiting

(* The route loop's put is one too: what it puts is nowhere in the queue.  *)
LEMMA PoolRetry ==
    ASSUME QueueInv, QueueInv', DispatcherPut, ~DuplicateResults,
           NEW t \in Task, NEW p \in Priority, retry(t, p)
    PROVE  Pool!Put
<1>1. PICK e : e = [prio |-> p, seq |-> taskSeq + 1, task |-> t]
  OBVIOUS
<1>2. e \in Entry /\ e.seq = taskSeq + 1 /\ e.task = t
  BY <1>1, QueueAssumption DEF Entry, QueueInv, TypeOK
<1>3. /\ putting["router"] = NoEntry /\ t \in active
      /\ pending[t] = NoEntry /\ ~inHand(t) /\ UNCHANGED <<deleted, hand>>
      /\ \/ heap' = heap \cup {e} /\ putting' = putting
         \/ heap' = heap /\ putting' = [putting EXCEPT !["router"] = e]
  BY <1>1 DEF retry, putOrSuspend, put, heapVars
<1>4. ASSUME NEW f \in Live \cup Delayed, f.task = t PROVE FALSE
  <2>1. f \in Entry /\ f # NoEntry /\ f.seq \notin deleted
    BY WaitingEntries, NoEntryIsNone DEF Live, Delayed
  <2>2. pending[t] # f
    BY <1>3, <2>1
  <2>3. f = putting["dispatcher"]
    BY <1>4, <2>2, WaitingIsPending
  <2> QED  BY <1>3, <1>4, <2>1, <2>2, <2>3 DEF DispatcherPut
<1>5. ~Pool!isServed(t)
  BY <1>3 DEF Pool!isServed, inHand
<1>6. e \notin Entries /\ e.seq \notin deleted /\ Pool!isLast(e)
  BY <1>2, NewestIsLast
<1>7. Pool!join(e) /\ e \in Live' \cup Delayed'
  BY <1>2, <1>3, <1>6, FreshJoins DEF Producer
<1> QED  BY <1>2, <1>3, <1>4, <1>5, <1>6, <1>7 DEF Pool!Put, Pool!waiting

(* The dispatch loop puts back what it holds, behind its equals.           *)
LEMMA PoolRequeue ==
    ASSUME QueueInv, QueueInv', ~DuplicateResults, requeue
    PROVE  Pool!PutBack
<1>1. PICK e : e = [prio |-> hand.prio, seq |-> taskSeq + 1, task |-> hand.task]
  OBVIOUS
<1>2. /\ hand # NoEntry /\ hand \in Entry /\ e \in Entry
      /\ e.seq = taskSeq + 1 /\ e.task = hand.task /\ e.prio = hand.prio
  BY <1>1 DEF Entry, QueueInv, TypeOK, requeue
<1>3. /\ putting["dispatcher"] = NoEntry /\ hand' = NoEntry /\ UNCHANGED deleted
      /\ \/ heap' = heap \cup {e} /\ putting' = putting
         \/ heap' = heap /\ putting' = [putting EXCEPT !["dispatcher"] = e]
  BY <1>1, <1>2 DEF requeue, putOrSuspend, put, heapVars, QueueInv, PutsSuspended
<1>4. pending[e.task] = NoEntry
  BY <1>2 DEF QueueInv, OneCopy, inHand, Entry
<1>5. ASSUME NEW f \in Live \cup Delayed PROVE f.task # e.task
  <2>1. f # NoEntry
    BY WaitingEntries, NoEntryIsNone
  <2> QED  BY <1>3, <1>4, <2>1, WaitingIsPending
<1>6. e \notin Entries /\ e.seq \notin deleted /\ Pool!isLast(e)
  BY <1>2, NewestIsLast
<1>7. Pool!join(e) /\ e \in Live' \cup Delayed'
  BY <1>2, <1>3, <1>6, FreshJoins DEF Producer
<1> QED  BY <1>2, <1>3, <1>5, <1>6, <1>7 DEF Pool!PutBack, Pool!waiting

(* update_priority moves a task that waits to the head of its new class.   *)
LEMMA PoolUpdate ==
    ASSUME QueueInv, QueueInv', DispatcherPut, ~DuplicateResults,
           NEW t \in Task, NEW p \in Priority, update_priority(t, p)
    PROVE  Pool!Reprioritise
<1>1. PICK e : e = [prio |-> p, seq |-> updateSeq - 1, task |-> t]
  OBVIOUS
<1>2. PICK old : old = pending[t]
  OBVIOUS
<1>3. e \in Entry /\ e.seq = updateSeq - 1 /\ e.task = t
  BY <1>1, QueueAssumption DEF Entry, QueueInv, TypeOK
<1>4. /\ old # NoEntry /\ heap' = heap \cup {e} /\ deleted' = deleted \cup {old.seq}
      /\ UNCHANGED <<hand, putting>>
  BY <1>1, <1>2 DEF update_priority, put
<1>5. old.task = t /\ old \in Entries /\ old \in Live \cup Delayed
  BY <1>2, <1>4, WaitingEntries DEF QueueInv, PendingIsLive, Entries
<1>6. Pool!isFirst(e) /\ e \notin Entries /\ e.seq \notin deleted
  BY <1>3, UpdatedIsFirst
<1>7. e.seq # old.seq
  BY <1>3, <1>5, WaitingEntries DEF QueueInv, SeqsUnique, Used, TypeOK, Entry
<1>8. ASSUME NEW f \in Live \cup Delayed
      PROVE  f.seq = old.seq <=> f.task = t
  <2>1. f \in Entries /\ f # NoEntry /\ f.seq \notin deleted
    BY WaitingEntries, NoEntryIsNone DEF Live, Delayed
  <2>2. f.seq = old.seq => f = old
    BY <1>5, <2>1 DEF QueueInv, SeqsUnique
  <2>3. f.task = t => f = old
    BY <1>2, <1>4, <2>1, WaitingIsPending DEF DispatcherPut
  <2> QED  BY <1>5, <2>2, <2>3
<1>9. Live' = {f \in Live : f.task # t} \cup {e}
  BY <1>4, <1>6, <1>7, <1>8 DEF Live
<1>10. Delayed' = {f \in Delayed : f.task # t}
  <2>1. Delayed' = {f \in Delayed : f.seq # old.seq}
    BY <1>4 DEF Delayed
  <2> QED  BY <1>8, <2>1
<1> QED  BY <1>3, <1>4, <1>5, <1>6, <1>9, <1>10 DEF Pool!Reprioritise, Pool!waiting

(* A woken put is let in, unless the queue is full again or its entry has  *)
(* been superseded.                                                        *)
LEMMA PoolResume ==
    ASSUME QueueInv, QueueInv', NEW q \in Producer, resumePut(q)
    PROVE  Pool!Admit \/ UNCHANGED Pool!vars
<1>1. PICK r : r = putting["router"]
  OBVIOUS
<1>2. /\ q = "router" /\ r # NoEntry /\ r \notin heap
      /\ UNCHANGED <<deleted, hand>>
  BY <1>1 DEF resumePut, QueueInv, PutsSuspended, SeqsUnique
<1>3. CASE UNCHANGED <<heap, putting>>
  BY <1>2, <1>3 DEF Pool!vars, Live, Delayed
<1>4. CASE heap' = heap \cup {r} /\ putting' = [putting EXCEPT !["router"] = NoEntry]
  <2>1. putting["dispatcher"] # r
    BY <1>1, <1>2 DEF QueueInv, SeqsUnique
  <2>2. /\ putting'["router"] = NoEntry /\ putting'["dispatcher"] = putting["dispatcher"]
    BY <1>4 DEF QueueInv, TypeOK, Producer
  <2>3. Delayed' = Delayed \ {r}
    BY <1>1, <1>2, <2>1, <2>2 DEF Delayed, Producer
  <2>4. CASE r.seq \in deleted
    <3>1. Live' = Live
      BY <1>2, <1>4, <2>4 DEF Live
    <3>2. Delayed' = Delayed
      BY <2>3, <2>4 DEF Delayed
    <3> QED  BY <1>2, <3>1, <3>2 DEF Pool!vars
  <2>5. CASE r.seq \notin deleted
    <3>1. Live' = Live \cup {r}
      BY <1>2, <1>4, <2>5 DEF Live
    <3>2. r \in Delayed
      BY <1>1, <1>2, <2>5 DEF Delayed, Producer
    <3> QED  BY <1>2, <2>3, <3>1, <3>2 DEF Pool!Admit
  <2> QED  BY <2>4, <2>5
<1> QED  BY <1>1, <1>2, <1>3, <1>4 DEF resumePut

(* get() serves the first entry, whatever it drops on its way.             *)
LEMMA PoolGet ==
    ASSUME QueueInv, QueueInv', get
    PROVE  Pool!Take
<1>1. PICK e \in Live :
          /\ \A f \in Live \ {e} : Before(e, f)
          /\ LET stale == {f \in heap : Before(f, e)}
             IN  /\ heap' = heap \ (stale \cup {e})
                 /\ deleted' = deleted \ {f.seq : f \in stale}
          /\ hand' = e
  BY DEF get
<1>2. PICK stale : stale = {f \in heap : Before(f, e)}
  OBVIOUS
<1>3. /\ hand = NoEntry /\ UNCHANGED putting
      /\ heap' = heap \ (stale \cup {e}) /\ deleted' = deleted \ {f.seq : f \in stale}
  BY <1>1, <1>2 DEF get
<1>4. e \in heap /\ e.seq \notin deleted /\ heap \subseteq Entries
  BY NoEntryIsNone DEF Live, QueueInv, TypeOK, Entries
<1>5. stale \subseteq heap /\ \A f \in stale : f.seq \in deleted
  BY <1>1, <1>2, StaleAreDeleted DEF QueueInv
<1>6. \A f \in Entries \ stale : f.seq \in deleted' <=> f.seq \in deleted
  BY <1>3, <1>4, <1>5 DEF QueueInv, SeqsUnique
<1>7. Live' = Live \ {e}
  BY <1>3, <1>4, <1>5, <1>6 DEF Live
<1>8. \A q \in Producer : putting[q] # NoEntry => putting[q] \in Entries \ stale
  BY <1>5 DEF Entries, QueueInv, SeqsUnique
<1>9. Delayed' = Delayed
  BY <1>3, <1>6, <1>8 DEF Delayed
<1>10. \A f \in Live \ {e} : Pool!Ahead(e, f)
  BY <1>1 DEF Before, Pool!Ahead
<1> QED  BY <1>1, <1>3, <1>7, <1>9, <1>10 DEF Pool!Take

(* get() that only drops superseded entries is not seen.                   *)
LEMMA PoolGetNothing ==
    ASSUME QueueInv, getNothingLive
    PROVE  UNCHANGED Pool!vars
<1>1. /\ Live = {} /\ heap' = {} /\ deleted' = deleted \ {f.seq : f \in heap}
      /\ UNCHANGED <<hand, putting>>
  BY DEF getNothingLive
<1>2. heap \subseteq Entries
  BY NoEntryIsNone DEF QueueInv, TypeOK, Entries
<1>3. \A f \in Entries \ heap : f.seq \in deleted' <=> f.seq \in deleted
  BY <1>1, <1>2 DEF QueueInv, SeqsUnique
<1>4. \A q \in Producer : putting[q] # NoEntry => putting[q] \in Entries \ heap
  BY DEF Entries, QueueInv, SeqsUnique
<1>5. Delayed' = Delayed
  BY <1>1, <1>3, <1>4 DEF Delayed
<1>6. Live' = Live
  BY <1>1 DEF Live
<1> QED  BY <1>1, <1>5, <1>6 DEF Pool!vars

(* cancel_task takes the one entry of a task that counts, if any, with the *)
(* superseded ones.                                                        *)
LEMMA PoolCancel ==
    ASSUME QueueInv, QueueInv', ~DuplicateResults, NEW t \in Task, cancel_task(t)
    PROVE  Pool!Withdraw \/ UNCHANGED Pool!vars
<1>1. heap' = heap \ {e \in heap : e.task = t} /\ UNCHANGED <<deleted, hand, putting>>
  BY DEF cancel_task
<1>2. Live' = {f \in Live : f.task # t}
  BY <1>1 DEF Live
<1>3. Delayed' = Delayed
  BY <1>1 DEF Delayed
<1>4. \A e, f \in Live : e.task = t /\ f.task = t => e = f
  BY DEF QueueInv, LiveIsPending
<1>5. CASE \E e \in Live : e.task = t
  <2>1. PICK e \in Live : e.task = t
    BY <1>5
  <2>2. Live' = Live \ {e}
    BY <1>2, <1>4, <2>1
  <2> QED  BY <1>1, <1>3, <2>1, <2>2 DEF Pool!Withdraw
<1>6. CASE ~\E e \in Live : e.task = t
  <2>1. Live' = Live
    BY <1>2, <1>6
  <2> QED  BY <1>1, <1>3, <2>1 DEF Pool!vars
<1> QED  BY <1>5, <1>6

(* Settling what is in hand is seen, settling what runs is not.            *)
LEMMA PoolSettle ==
    /\ dispatch \/ discard => Pool!Settle
    /\ \A t \in Task : settle(t) => UNCHANGED Pool!vars
  BY DEF dispatch, discard, settle, Pool!Settle, Pool!vars, Live, Delayed

(* The dispatch loop's suspended put stays as DispatcherPut says.          *)
LEMMA DispatcherPutStep ==
    ASSUME QueueInv, QueueInv', DispatcherPut, [Next]_vars
    PROVE  ~DuplicateResults => DispatcherPut'
<1> SUFFICES ASSUME ~DuplicateResults PROVE DispatcherPut'
  OBVIOUS
<1>1. PICK e : e = putting["dispatcher"]
  OBVIOUS
<1>2. PICK n : n = putting'["dispatcher"]
  OBVIOUS
<1>3. /\ e # NoEntry => e.seq \in deleted \/ pending[e.task] = e
                                \/ (pending[e.task] = NoEntry /\ e.task \notin active)
      /\ pending \in [Task -> Entry \cup {NoEntry}]
      /\ putting \in [Producer -> Entry \cup {NoEntry}]
  BY <1>1 DEF DispatcherPut, QueueInv, TypeOK
<1>4. e # NoEntry => /\ e \in Entries /\ e \notin heap /\ e \in Entry
                     /\ e.task \in Task /\ e.task \in submitted /\ hand = NoEntry
  BY <1>1, <1>3 DEF Entries, QueueInv, SeqsUnique, SubmittedOnly, PutsSuspended,
                    Producer, Entry
<1>a. SUFFICES ASSUME n # NoEntry
               PROVE  n.seq \in deleted' \/ pending'[n.task] = n
                      \/ (pending'[n.task] = NoEntry /\ n.task \notin active')
  BY <1>2 DEF DispatcherPut
<1>5. CASE requeue
  <2>1. PICK new : new = [prio |-> hand.prio, seq |-> taskSeq + 1, task |-> hand.task]
    OBVIOUS
  <2>2. /\ hand # NoEntry /\ pending' = [pending EXCEPT ![hand.task] = new]
        /\ putting' = putting \/ putting' = [putting EXCEPT !["dispatcher"] = new]
    BY <1>5, <2>1 DEF requeue, putOrSuspend, put
  <2>3. hand.task \in Task
    BY <2>2 DEF QueueInv, TypeOK, Entry
  <2>4. n = new
    BY <1>1, <1>2, <1>3, <1>4, <1>a, <2>2 DEF Producer
  <2> QED  BY <1>3, <2>1, <2>2, <2>3, <2>4
<1>6. CASE ~requeue
  <2>1. ASSUME NEW t \in Task, NEW p \in Priority,
               submit_task(t, p) \/ retry(t, p) \/ update_priority(t, p)
        PROVE  n.seq \in deleted' \/ pending'[n.task] = n
               \/ (pending'[n.task] = NoEntry /\ n.task \notin active')
    <3>1. n = e /\ active' = active /\ deleted \subseteq deleted'
      BY <1>1, <1>2, <1>3, <2>1
         DEF submit_task, retry, update_priority, putOrSuspend, put, Producer
    <3>2. \A u \in Task \ {t} : pending'[u] = pending[u]
      BY <1>3, <2>1 DEF submit_task, retry, update_priority, putOrSuspend, put
    <3>3. CASE e.task = t /\ e.seq \notin deleted
      <4>1. ~submit_task(t, p)
        BY <1>4, <1>a, <3>1, <3>3 DEF submit_task
      <4>2. ~retry(t, p)
        BY <1>3, <1>4, <1>a, <3>1, <3>3 DEF retry
      <4>3. pending[t] = e /\ e.seq \in deleted'
        BY <1>3, <1>a, <2>1, <3>1, <3>3, <4>1, <4>2 DEF update_priority
      <4> QED  BY <3>1, <4>3
    <3> QED  BY <1>3, <1>4, <1>a, <3>1, <3>2, <3>3
  <2>2. CASE get \/ getNothingLive
    BY <1>2, <1>a, <2>2 DEF get, getNothingLive
  <2>3. CASE dispatch \/ discard
    BY <1>1, <1>2, <1>4, <1>a, <2>3 DEF dispatch, discard
  <2>4. ASSUME NEW t \in Task, settle(t)
        PROVE  n.seq \in deleted' \/ pending'[n.task] = n
               \/ (pending'[n.task] = NoEntry /\ n.task \notin active')
    BY <1>1, <1>2, <1>3, <1>a, <2>4 DEF settle
  <2>5. ASSUME NEW t \in Task, cancel_task(t)
        PROVE  n.seq \in deleted' \/ pending'[n.task] = n
               \/ (pending'[n.task] = NoEntry /\ n.task \notin active')
    BY <1>1, <1>2, <1>3, <1>4, <1>a, <2>5 DEF cancel_task
  <2>6. ASSUME NEW q \in Producer, resumePut(q)
        PROVE  n.seq \in deleted' \/ pending'[n.task] = n
               \/ (pending'[n.task] = NoEntry /\ n.task \notin active')
    <3>1. q = "router" /\ UNCHANGED <<pending, deleted, active>>
      BY <2>6 DEF resumePut, QueueInv, PutsSuspended
    <3>2. n = e
      BY <1>1, <1>2, <1>3, <2>6, <3>1 DEF resumePut, Producer
    <3> QED  BY <1>3, <1>a, <3>1, <3>2
  <2>7. CASE UNCHANGED vars
    BY <1>1, <1>2, <1>3, <1>a, <2>7 DEF vars
  <2> QED  BY <1>6, <2>1, <2>2, <2>3, <2>4, <2>5, <2>6, <2>7, Zenon DEF Next
<1> QED  BY <1>5, <1>6

(* The heap with lazy deletion, two counters and puts that suspend is a    *)
(* queue that keeps a task in one place, serves in the order of priority   *)
(* and arrival, and moves a task when its priority changes.                *)
THEOREM ImplementsPoolHolds ==
    ASSUME ~DuplicateResults
    PROVE  Spec => ImplementsPool
<1>1. Init => Pool!Init /\ DispatcherPut
  BY DEF Init, Pool!Init, Live, Delayed, DispatcherPut, Producer
<1>2. QueueInv /\ DispatcherPut /\ [Next]_vars => DispatcherPut'
  BY QueueInvStep, DispatcherPutStep
<1>3. QueueInv /\ DispatcherPut /\ [Next]_vars => [Pool!Next]_Pool!vars
  <2> SUFFICES ASSUME QueueInv, DispatcherPut, [Next]_vars, QueueInv'
               PROVE  Pool!Next \/ UNCHANGED Pool!vars
    BY QueueInvStep
  <2>1. CASE UNCHANGED vars
    BY <2>1 DEF vars, Pool!vars, Live, Delayed
  <2>2. ASSUME NEW t \in Task, NEW p \in Priority,
               submit_task(t, p) \/ retry(t, p) \/ update_priority(t, p)
        PROVE  Pool!Next
    BY <2>2, PoolSubmit, PoolRetry, PoolUpdate DEF Pool!Next
  <2>3. ASSUME NEW t \in Task, settle(t) \/ cancel_task(t)
        PROVE  Pool!Next \/ UNCHANGED Pool!vars
    BY <2>3, PoolSettle, PoolCancel DEF Pool!Next
  <2>4. ASSUME NEW q \in Producer, resumePut(q)
        PROVE  Pool!Next \/ UNCHANGED Pool!vars
    BY <2>4, PoolResume DEF Pool!Next
  <2>5. CASE get \/ requeue \/ dispatch \/ discard
    BY <2>5, PoolGet, PoolRequeue, PoolSettle DEF Pool!Next
  <2>6. CASE getNothingLive
    BY <2>6, PoolGetNothing
  <2> QED  BY <2>1, <2>2, <2>3, <2>4, <2>5, <2>6, Zenon DEF Next
<1> QED  BY <1>1, <1>2, <1>3, QueueInvHolds, PTL DEF Spec, ImplementsPool, Pool!Spec

=============================================================================
