---------------------------- MODULE DurableWork ----------------------------
(***************************************************************************)
(* What checkpointing promises of the work, without queues, rows and books:*)
(* a task that was accepted and has not ended is still there after a       *)
(* crash, to be done again from its place in the queue or from further     *)
(* back; what is done stays done; and no task is queued, at a submission,  *)
(* a release or a restart, before what it depends on is done.              *)
(***************************************************************************)

CONSTANTS
    Task,
    Deps     \* what each task depends on

VARIABLE work   \* what has become of each task

Work == {"new", "held", "queued", "running", "done", "ended"}

allDone(t) == \A d \in Deps[t] : work[d] = "done"

Init == work = [t \in Task |-> "new"]

move(t, from, to) ==
    /\ work[t] = from
    /\ work' = [work EXCEPT ![t] = to]

(* A task is queued at once if nothing is in its way; one that is held, or *)
(* fails at its submission, has something to wait for.                     *)
accept(t) ==
    \/ move(t, "new", "queued") /\ allDone(t)
    \/ \E to \in {"held", "ended"} : move(t, "new", to) /\ Deps[t] # {}

take(t) == move(t, "queued", "running")

return(t) == move(t, "running", "queued")

(* The end of one task releases others that wait for it.                   *)
finish(t) ==
    /\ work[t] = "running"
    /\ \E R \in SUBSET {r \in Task : work[r] = "held" /\ t \in Deps[r]} :
         work' = [u \in Task |-> IF u = t THEN "done"
                                 ELSE IF u \in R THEN "queued"
                                 ELSE work[u]]
    /\ \A r \in Task : work[r] = "held" /\ work'[r] = "queued" => allDone(r)'

(* Failure, expiry, dead-lettering and cancellation, with those that go    *)
(* down in the cascade.                                                    *)
giveUp ==
    \E G \in SUBSET {t \in Task : work[t] \in {"held", "queued", "running"}} :
        work' = [t \in Task |-> IF t \in G THEN "ended" ELSE work[t]]

(* Where a restart may find a task.  One that ended without being done may *)
(* be back, as its row may have stayed.                                    *)
Back == [new     |-> {"new"},
         held    |-> {"held"},
         queued  |-> {"queued", "held"},
         running |-> {"queued", "held"},
         done    |-> {"done"},
         ended   |-> {"ended", "queued", "held"}]

(* At most one task was just then being recorded as done.                  *)
restart ==
    \E C \in SUBSET Task :
        /\ \A t, u \in C : t = u
        /\ \A t \in C : work[t] = "running"
        /\ work' \in [Task -> Work]
        /\ \A t \in Task : work'[t] \in IF t \in C THEN {"done"} ELSE Back[work[t]]
        /\ \A t \in Task : work'[t] = "queued" => allDone(t)'

Next ==
    \/ \E t \in Task : accept(t) \/ take(t) \/ return(t) \/ finish(t)
    \/ giveUp \/ restart

Spec == Init /\ [][Next]_work

=============================================================================
